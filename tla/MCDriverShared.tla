--------------------------- MODULE MCDriverShared ---------------------------
(* What the driver shares with user mode, in small instances: the codecs of *)
(* DriverWire and the rings of SensorRing.  The two have nothing to do with *)
(* each other, so a behaviour is one of the codecs or one of a ring.        *)
EXTENDS DriverWire, SensorRing

SomeNames == {<<>>, <<1>>, <<1, 2>>}
SomePaths == {<<>>, <<1>>, <<1, 2>>, <<1, 2, 3>>}
Calls == <<3, 2>>

\* No codec at work.
CodecsIdle ==
  /\ phase = "idle" /\ kinds = <<>> /\ cell = <<>> /\ len = 0 /\ damaged = Whole
  /\ pos = 0 /\ decoded = <<>>
  /\ wanted = NothingWanted /\ held = Booted /\ refused = {} /\ stats = <<>>

SharedInit == RingInit /\ (Init \/ CodecsIdle)

SharedNext ==
  \/ phase # "idle" /\ Next /\ UNCHANGED ringVars
  \/ phase = "idle" /\ RingNext /\ UNCHANGED vars

SharedSpec ==
  SharedInit /\ [][SharedNext]_<<vars, ringVars>> /\ WalkFairness
=============================================================================
