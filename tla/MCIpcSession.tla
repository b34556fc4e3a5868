---------------------------- MODULE MCIpcSession ----------------------------
(* The pipe between agent and user actor on a small instance. *)
EXTENDS IpcSession

\* A HELLO without the nonce, a request before the handshake, and an image
\* announced before it.
MCForeign == {Frame("HELLO", 1, "foreign"), Frame("GET_CONFIG", 1, "none"), Screenshot(2)}
=============================================================================
