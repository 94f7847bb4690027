---------------------------- MODULE MCBucketsDB ----------------------------
(* Small instances of BucketsDB: one key with a real rule, one whose limit  *)
(* is zero and one whose window is zero (the early returns of Allow).       *)
EXTENDS BucketsDB, TLC

CONSTANTS user, nolimit, nowindow

MCKeys == {user, nolimit, nowindow}
MCLimit == user :> 2 @@ nolimit :> 0 @@ nowindow :> 1
MCWindow == user :> 2 @@ nolimit :> 2 @@ nowindow :> 0
=============================================================================
