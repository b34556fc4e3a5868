------------------------------ MODULE MCFiles ------------------------------
(* The two writers of files that must be whole whenever they are found: the *)
(* scope store and the drops collector, in small instances.  They share no  *)
(* file, so a behaviour is one of the store or one of the collector.        *)
EXTENDS ScopeStore, DropsCollector

VARIABLE writer

MCHash8(c) == Len(c)

FilesInit ==
  /\ Init /\ DInit
  /\ \/ writer = "collector"
     \/ writer = "store" /\ DOMAIN dir = {} /\ \A j \in Job : source[j].data = <<>>

FilesNext ==
  /\ \/ writer = "store" /\ Next /\ UNCHANGED dvars
     \/ writer = "collector" /\ DNext /\ UNCHANGED vars
  /\ UNCHANGED writer

FilesSpec ==
  FilesInit /\ [][FilesNext]_<<writer, vars, dvars>> /\ DFairness
=============================================================================
