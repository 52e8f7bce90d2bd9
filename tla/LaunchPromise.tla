---------------------------- MODULE LaunchPromise ----------------------------
(***************************************************************************)
(* What the README promises of a launch, with nothing of how it is found   *)
(* out: a demo is announced only after its services were up together,      *)
(* called verified only when its telemetry is in the stack, and every      *)
(* launch comes to a verdict.                                              *)
(***************************************************************************)
EXTENDS Naturals

CONSTANT MaxRuns   \* how many deployments are launched (a bound)

Runs == 1..MaxRuns

VARIABLES
  run,        \* the deployment being launched, or the last one
  stage,      \* "idle", "starting" or "checking"
  verdict,    \* what each launch ended with
  up,         \* its services have all been up at once
  delivered   \* its telemetry is in the stack

vars == <<run, stage, verdict, up, delivered>>
world == <<up, delivered>>

Init ==
  /\ run = 0 /\ stage = "idle"
  /\ verdict = [n \in Runs |-> "none"]
  /\ up = [n \in Runs |-> FALSE]
  /\ delivered \in [Runs -> BOOLEAN]

Launch ==
  /\ stage = "idle"
  /\ run < MaxRuns
  /\ run' = run + 1
  /\ stage' = "starting"
  /\ UNCHANGED <<verdict, world>>

Conclude(result) ==
  /\ stage' = "idle"
  /\ verdict' = [verdict EXCEPT ![run] = result]
  /\ UNCHANGED <<run, world>>

Fail == stage # "idle" /\ Conclude("failed")

Announce ==
  /\ stage = "starting" /\ up[run]
  /\ stage' = "checking"
  /\ UNCHANGED <<run, verdict, world>>

Verify == stage = "checking" /\ delivered[run] /\ Conclude("verified")
GiveUp == stage = "checking" /\ Conclude("running")

\* What has been seen once has been seen, and telemetry stays.
Observe ==
  /\ up' \in [Runs -> BOOLEAN] /\ delivered' \in [Runs -> BOOLEAN]
  /\ \A n \in Runs : (up[n] => up'[n]) /\ (delivered[n] => delivered'[n])
  /\ UNCHANGED <<run, stage, verdict>>

Progress == Fail \/ Announce \/ Verify \/ GiveUp

Next == Launch \/ Progress \/ Observe

Safe == Init /\ [][Next]_vars

Spec == Safe /\ WF_vars(Progress)
=============================================================================
