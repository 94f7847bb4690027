---------------------------- MODULE MCAdminCall ----------------------------
(* A small instance of AdminCall: two callers, who may send the same id,    *)
(* and a level of each kind, one of them a word the logger does not know.   *)
EXTENDS AdminCall, TLC

CONSTANTS c1, c2, id

MCCallers == {c1, c2}
MCLevels == {"loud", "warning"}
=============================================================================
