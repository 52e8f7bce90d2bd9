---------------------------- MODULE MCGcxActions ----------------------------
(* Two clicks on one action race with each other, with a turn and with two *)
(* requests to create, connect or delete the stack.                        *)
EXTENDS GcxActions, TLC
=============================================================================
