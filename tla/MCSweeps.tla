-------------------------------- MODULE MCSweeps --------------------------------
(* Small instances of Sweeps and Forensics for TLC. *)
EXTENDS Forensics

MCTools == {"sweep", "qdrant", "gate", "reproduction", "forensics"}
MCResumed == {"sweep", "qdrant", "gate", "forensics"}
MCChaosCells == {2}
================================================================================
