------------------------- MODULE MCSessionLifecycle -------------------------
(* Small instances of SessionLifecycle: see the .cfg files.                *)
EXTENDS SessionLifecycle
=============================================================================
