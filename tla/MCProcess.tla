----------------------------- MODULE MCProcess -----------------------------
(* A small instance of Process: two calls, one of which may hang.          *)
EXTENDS Process, TLC

CONSTANTS c1, c2

MCCalls == {c1, c2}
=============================================================================
