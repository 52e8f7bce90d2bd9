------------------------------ MODULE DemoSlot ------------------------------
(***************************************************************************)
(* What deployment_service.go promises of local demos, without rows,       *)
(* requests or failures: one slot, at most one holder working on it, and   *)
(* a demo that enters the slot only after its holder found it empty.       *)
(***************************************************************************)
CONSTANTS
  Sessions,  \* the sessions whose demo can occupy the slot
  Holders,   \* who may work on the slot
  Client,    \* Client[h]: the sessions h may start
  None       \* nobody

VARIABLES
  slot,      \* the session whose containers are up
  holder     \* who is working on the slot

Init == slot = None /\ holder = None

Take(h) == holder = None /\ holder' = h /\ UNCHANGED slot

\* The holder stops whatever demo is up.
Clear == holder # None /\ slot' = None /\ UNCHANGED holder

\* The holder stops it and gives up.
ClearAndLeave == holder # None /\ slot' = None /\ holder' = None

Launch(s) ==
  /\ holder # None /\ s \in Client[holder]
  /\ slot = None
  /\ slot' = s
  /\ UNCHANGED holder

\* The holder is done, or the server restarts.
Leave == holder' = None /\ UNCHANGED slot

Next ==
  \/ \E h \in Holders : Take(h)
  \/ Clear \/ ClearAndLeave \/ Leave
  \/ \E s \in Sessions : Launch(s)

Spec == Init /\ [][Next]_<<slot, holder>>
=============================================================================
