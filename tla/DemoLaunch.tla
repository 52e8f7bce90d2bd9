----------------------------- MODULE DemoLaunch -----------------------------
(***************************************************************************)
(* One launch of a demo after another, under localMu: what startLocal in   *)
(* deployment_service.go asks of deployment/runner.go (wiring, Compose),   *)
(* readiness.go and verification.go, beside the containers and the         *)
(* telemetry they wait for.  LocalDemo has the rows and the locks around   *)
(* a launch; here is what its steps "composing" and "verify" do.           *)
(*                                                                         *)
(* Containers, the helper inside the applications, Alloy and Grafana Cloud *)
(* move on their own.  A poll that finds nothing new changes no state, so  *)
(* only the decisive ones are steps; the limits of 90 and 120 seconds may  *)
(* expire at any moment.  "docker compose ps" is one snapshot.             *)
(***************************************************************************)
EXTENDS Naturals

CONSTANTS
  Services,  \* the Compose services besides Alloy
  Signals,   \* metrics, logs and traces
  MaxRuns,   \* how many deployments are launched (a bound)
  Plans      \* the applications that may be launched, one per deployment

Alloy == "alloy"
Names == Services \cup {Alloy}
Runs == 1..MaxRuns

\* What an environment may hold: GRAFANA_* and OTEL_EXPORTER_* variables, the
\* latter as the application wrote them ("exporter") or as the compiler does
\* ("endpoint"), and the compiler's name and run ID ("identity").
Keys == {"cloud", "exporter", "endpoint", "identity"}

\* A generated application: whether its compiler-owned foundation is intact,
\* its services, those that are built from source, those with a healthcheck,
\* those on the host's network or on another network_mode, and the
\* environment of each, env_file included.
Project == [sound : BOOLEAN, names : SUBSET Names, built : SUBSET Names,
            checked : SUBSET Names, host : SUBSET Names,
            joined : SUBSET Names, env : [Names -> SUBSET Keys]]

ASSUME NamesAssumption == Alloy \notin Services
ASSUME SignalsAssumption == Signals # {}
ASSUME BoundAssumption == MaxRuns \in Nat
ASSUME PlansAssumption == Plans \subseteq [Runs -> Project]

VARIABLES
  project,  \* the application each deployment launches
  run,      \* the deployment being launched, or the last one (0: none)
  phase,    \* where its startLocal goroutine is
  missing,  \* VerifyTelemetry: what has not been found yet
  outcome,  \* how each launch ended
  of,       \* the deployment whose "compose up" came last (0: none)
  cont,     \* the containers of the Compose project
  probed,   \* <<deployment, service>>: a probe has gone out through Alloy
  cloud,    \* <<deployment, service, signal>>: found in the session's stack
  met,      \* history: once, all services of a deployment were up together
  calm      \* nothing fails and nothing is late

launch == <<run, phase, missing, outcome>>
demo   == <<of, cont, probed, cloud>>
fixed  == <<project, calm>>
vars   == <<project, run, phase, missing, outcome, of, cont, probed, cloud,
            met, calm>>

Phase == {"idle", "preflight", "down", "wire", "up", "ready", "verify"}
Outcome == {"none", "failed", "running", "verified"}

\* State and health as readiness.go tells them apart: "pending" is created,
\* restarting, or running with a healthcheck that has not succeeded yet;
\* "running" has no healthcheck; "broken" is exited, dead or unhealthy.
Container == {"absent", "pending", "running", "healthy", "broken"}

TypeOK ==
  /\ project \in [Runs -> Project]
  /\ run \in 0..MaxRuns
  /\ phase \in Phase
  /\ missing \subseteq Services \X Signals
  /\ outcome \in [Runs -> Outcome]
  /\ of \in 0..MaxRuns
  /\ cont \in [Names -> Container]
  /\ probed \subseteq Runs \X Services
  /\ cloud \subseteq Runs \X Services \X Signals
  /\ met \in [Runs -> BOOLEAN]
  /\ calm \in BOOLEAN

Init ==
  /\ project \in Plans
  /\ run = 0 /\ phase = "idle" /\ missing = {}
  /\ outcome = [n \in Runs |-> "none"]
  /\ of = 0
  /\ cont = [s \in Names |-> "absent"]
  /\ probed = {} /\ cloud = {}
  /\ met = [n \in Runs |-> FALSE]
  /\ calm \in BOOLEAN

-----------------------------------------------------------------------------
(***************************************************************************)
(* WireFoundation and dynamicHostPorts.                                    *)
(***************************************************************************)
\* The services expected to be healthy and to deliver telemetry.
Apps(p) == (p.built \cap p.names) \ {Alloy}

\* What neither of them refuses.  Alloy's own network_mode is removed.
Accepted(p) ==
  /\ Alloy \in p.names
  /\ Apps(p) # {}
  /\ Apps(p) \cap (p.host \cup p.joined) = {}
  /\ p.host \cap p.names \subseteq {Alloy}

\* Exporter settings of the generated application are left in (mutant).
WiredKeeping(p, s) ==
  IF s = Alloy THEN {"cloud", "identity"}
  ELSE (p.env[s] \ {"cloud"})
         \cup (IF s \in Apps(p) THEN {"endpoint", "identity"} ELSE {})

\* The environment of a container.  Alloy gets the Cloud connection and
\* nothing of its own; every other service loses its GRAFANA_* and
\* OTEL_EXPORTER_* variables, and applications get Alloy's endpoint, their
\* name and the deployment's ID.
Wired(p, s) ==
  IF s = Alloy THEN {"cloud", "identity"}
  ELSE (p.env[s] \ {"cloud", "exporter"})
         \cup (IF s \in Apps(p) THEN {"endpoint", "identity"} ELSE {})

\* The helper's exporters reach Alloy over compiler_telemetry, the network
\* of Alloy and the applications, and Alloy reaches the stack.
Routed(p, s) ==
  /\ s \in Apps(p)
  /\ {"endpoint", "identity"} \subseteq Wired(p, s)
  /\ "exporter" \notin Wired(p, s)
  /\ {"cloud", "identity"} \subseteq Wired(p, Alloy)

-----------------------------------------------------------------------------
(***************************************************************************)
(* The launch.                                                             *)
(***************************************************************************)
Current == project[run]
Goto(step) == phase' = step /\ UNCHANGED <<run, missing, outcome>>

\* The goroutine ends; startLocal writes the outcome.
End(result) ==
  /\ phase' = "idle"
  /\ outcome' = [outcome EXCEPT ![run] = result]
  /\ missing' = {}
  /\ UNCHANGED run

Begin ==
  /\ phase = "idle" /\ run < MaxRuns
  /\ run' = run + 1
  /\ phase' = "preflight"
  /\ UNCHANGED <<missing, outcome, demo>>

\* PreflightLocal: a prototype without the foundation, or with a changed one,
\* is refused before the running demo is touched.
Preflight ==
  /\ phase = "preflight"
  /\ IF Current.sound THEN Goto("down") ELSE End("failed")
  /\ UNCHANGED demo

\* stopActiveLocalDeployment, as far as this session's project goes.
Down ==
  /\ phase = "down"
  /\ cont' = [s \in Names |-> "absent"]
  /\ Goto("wire")
  /\ UNCHANGED <<of, probed, cloud>>

\* runner.startLocal up to the rewritten Compose file.
Wire ==
  /\ phase = "wire"
  /\ IF Accepted(Current) THEN Goto("up") ELSE End("failed")
  /\ UNCHANGED demo

\* The credentials, the stack, the environment or Docker refuses, before
\* anything is started.
StepFails ==
  /\ ~calm /\ phase \in {"preflight", "down", "wire"}
  /\ End("failed")
  /\ UNCHANGED demo

Up ==
  /\ phase = "up"
  /\ of' = run
  /\ cont' = [s \in Names |-> IF s \in Current.names THEN "pending"
                              ELSE "absent"]
  /\ Goto("ready")
  /\ UNCHANGED <<probed, cloud>>

\* A build or a container fails: some containers may be there.
UpFails ==
  /\ ~calm /\ phase = "up"
  /\ of' = run
  /\ \E some \in SUBSET Current.names :
       cont' = [s \in Names |-> IF s \in some THEN "pending" ELSE "absent"]
  /\ End("failed")
  /\ UNCHANGED <<probed, cloud>>

\* checkComposeReady on one listing.  A service that is over or unhealthy,
\* or an application without a healthcheck, ends the wait at once.
Hopeless ==
  \/ \E s \in Names : cont[s] = "broken"
  \/ \E s \in Apps(Current) : cont[s] = "running"

\* Alloy is not asked for (mutant).
ListedWithoutAlloy ==
  /\ \A s \in Apps(Current) : cont[s] = "healthy"
  /\ \A s \in Names \ {Alloy} : cont[s] \in {"absent", "running", "healthy"}

\* Every application is healthy, Alloy is there, and nothing listed is still
\* on its way.
Listed ==
  /\ \A s \in Apps(Current) : cont[s] = "healthy"
  /\ cont[Alloy] # "absent"
  /\ \A s \in Names : cont[s] \in {"absent", "running", "healthy"}

\* WaitReady returns and the deployment is announced as ready; the signals
\* to look for are those of every application.
Ready ==
  /\ phase = "ready" /\ Listed
  /\ phase' = "verify"
  /\ missing' = Apps(Current) \X Signals
  /\ UNCHANGED <<run, outcome, demo>>

NotReady ==
  /\ phase = "ready"
  /\ Hopeless
  /\ End("failed")
  /\ UNCHANGED demo

\* 90 seconds have passed, or "docker compose ps" fails.
ReadyTimesOut ==
  /\ ~calm /\ phase = "ready"
  /\ End("failed")
  /\ UNCHANGED demo

\* The query does not name the deployment (mutant).
FindAny(s, g) ==
  /\ phase = "verify" /\ <<s, g>> \in missing
  /\ \E n \in Runs : <<n, s, g>> \in cloud
  /\ missing' = missing \ {<<s, g>>}
  /\ UNCHANGED <<run, phase, outcome, demo>>

\* A query for a signal still missing returns a record of this deployment.
Find(s, g) ==
  /\ phase = "verify" /\ <<s, g>> \in missing
  /\ <<run, s, g>> \in cloud
  /\ missing' = missing \ {<<s, g>>}
  /\ UNCHANGED <<run, phase, outcome, demo>>

Verified ==
  /\ phase = "verify" /\ missing = {}
  /\ End("verified")
  /\ UNCHANGED demo

\* The deadline starts the search over (mutant).
VerifyStartsOver ==
  /\ ~calm /\ phase = "verify" /\ missing # {}
  /\ missing' = Apps(Current) \X Signals
  /\ UNCHANGED <<run, phase, outcome, demo>>

\* 120 seconds have passed, or gcx lacks credentials, or its context is not
\* this session's stack.  The demo is left running, with an error.
VerifyFails ==
  /\ ~calm /\ phase = "verify" /\ missing # {}
  /\ End("running")
  /\ UNCHANGED demo

\* The server dies; recovery marks the deployment interrupted (here:
\* failed), and the containers stay.
Restart ==
  /\ ~calm /\ phase # "idle"
  /\ End("failed")
  /\ UNCHANGED demo

Search == \E s \in Services, g \in Signals : Find(s, g)

Goroutine ==
  \/ Preflight \/ Down \/ Wire \/ StepFails \/ Up \/ UpFails
  \/ Ready \/ NotReady \/ ReadyTimesOut
  \/ Search \/ Verified \/ VerifyFails

-----------------------------------------------------------------------------
(***************************************************************************)
(* The demo: Docker, the helper in the applications, Alloy, the stack.     *)
(***************************************************************************)
Move(s, status) ==
  /\ cont' = [cont EXCEPT ![s] = status]
  /\ UNCHANGED <<launch, of, probed, cloud>>

\* A healthcheck succeeds once the application has called MarkReady (its
\* command is the helper's --telemetry-healthcheck).
Rises(s) ==
  /\ cont[s] \in {"pending", "broken"}
  /\ Move(s, IF s \in project[of].checked THEN "healthy" ELSE "running")

\* A restart policy, or a healthcheck within its retries.
Wavers(s) ==
  /\ ~calm /\ cont[s] \in {"running", "healthy", "broken"}
  /\ Move(s, "pending")

Breaks(s) ==
  /\ ~calm /\ cont[s] \in {"pending", "running", "healthy"}
  /\ Move(s, "broken")

\* The helper's ticker: only a ready application sends probes, each as a
\* metric, a span and a line of log, and Alloy takes them.
Probe(s) ==
  /\ of > 0 /\ Routed(project[of], s)
  /\ cont[s] \in {"running", "healthy"}
  /\ cont[Alloy] # "absent"
  /\ probed' = probed \cup {<<of, s>>}
  /\ UNCHANGED <<launch, of, cont, cloud>>

\* A signal arrives, at any time after it was sent: its deployment may be
\* long over.
Arrives(n, s, g) ==
  /\ <<n, s>> \in probed
  /\ cloud' = cloud \cup {<<n, s, g>>}
  /\ UNCHANGED <<launch, of, cont, probed>>

Environment ==
  \/ \E s \in Names : Rises(s) \/ Wavers(s) \/ Breaks(s)
  \/ \E s \in Services : Probe(s)
  \/ \E n \in Runs, s \in Services, g \in Signals : Arrives(n, s, g)

-----------------------------------------------------------------------------
\* All applications of the deployment are healthy and Alloy runs.
Together ==
  /\ of > 0 /\ cont[Alloy] \in {"running", "healthy"}
  /\ \A s \in Apps(project[of]) : cont[s] = "healthy"

Step(action) ==
  /\ action
  /\ UNCHANGED fixed
  /\ met' = [n \in Runs |-> met[n] \/ (n = of' /\ Together')]

Next == Step(Begin \/ Goroutine \/ Restart \/ Environment)

Spec == Init /\ [][Next]_vars

\* The goroutine goes on, and its limits expire.  Docker, the helper and the
\* pipeline are only trusted on a calm day.
Fairness ==
  /\ WF_vars(Step(Goroutine))
  /\ \A s \in Names : WF_vars(calm /\ Step(Rises(s)))
  /\ \A s \in Services : WF_vars(calm /\ Step(Probe(s)))
  /\ \A n \in Runs, s \in Services, g \in Signals :
       WF_vars(calm /\ Step(Arrives(n, s, g)))

FairSpec == Spec /\ Fairness

-----------------------------------------------------------------------------
(***************************************************************************)
(* Properties                                                              *)
(***************************************************************************)
\* README: "The compiler waits for application readiness": a deployment is
\* running or verified only if there was a moment when all its applications
\* were healthy at once, with Alloy running, in containers of its own.
ReadyTogether ==
  \A n \in Runs :
    outcome[n] \in {"running", "verified"} \/ (n = run /\ phase = "verify")
      => met[n]

\* README: "Probes use a new ID per deployment so data from an older build
\* cannot satisfy the check": a verified deployment has sent probes from
\* every application, and each signal of each is in the stack.
DeliveredAll ==
  \A n \in Runs : outcome[n] = "verified" =>
    \A s \in Apps(project[n]) :
      /\ <<n, s>> \in probed
      /\ \A g \in Signals : <<n, s, g>> \in cloud

\* On a calm day an intact application whose services have healthchecks is
\* verified, whatever its own environment says about exporters and whatever
\* the deployments before it left behind: the wiring is complete.
Sound(p) == p.sound /\ Accepted(p) /\ Apps(p) \subseteq p.checked

CalmVerifies ==
  \A n \in Runs :
    calm /\ run = n /\ phase # "idle" /\ Sound(project[n])
      ~> outcome[n] = "verified"

\* The README's account of a launch, and that each comes to a verdict
\* whatever Docker, gcx or the stack do, hold of the code that polls: what
\* is gathered query by query amounts to one look at everything.
Stage == CASE phase = "idle" -> "idle"
           [] phase = "verify" -> "checking"
           [] OTHER -> "starting"

Delivered == [n \in Runs |-> \A s \in Apps(project[n]), g \in Signals :
                               <<n, s, g>> \in cloud]

Promise == INSTANCE LaunchPromise
             WITH stage <- Stage, verdict <- outcome, up <- met,
                  delivered <- Delivered

ImplementsLaunch == Promise!Spec
=============================================================================
