-------------------------- MODULE MCDriverRecords --------------------------
(* Small instances of DriverRecords: see the .cfg files.                   *)
EXTENDS DriverRecords, TLC

SmallQueues == [items |-> 1, files |-> 1, drops |-> 1]
Perms == Permutations(Pid)
=============================================================================
