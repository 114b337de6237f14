------------------------ MODULE MCGenerationTaskScope ------------------------
(* Small instances of GenerationTaskScope: two tasks of different roles, and     *)
(* controls that drain, wait and close at the same time.                         *)
EXTENDS GenerationTaskScope

CONSTANTS t1, t2, command, driver

MCRoleOf == [t \in Tasks |-> IF t = t1 THEN command ELSE driver]
=============================================================================
