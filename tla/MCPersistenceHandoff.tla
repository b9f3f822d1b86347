------------------------ MODULE MCPersistenceHandoff ------------------------
(* PersistenceHandoff for model checking. *)
EXTENDS PersistenceHandoff

CONSTANTS r1, r2
================================================================================
