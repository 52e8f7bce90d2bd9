-------------------------- MODULE DemoLaunchProofs --------------------------
(***************************************************************************)
(* What a verdict on a launch means, for any services, signals, number of  *)
(* deployments and applications, and any behaviour of Docker, gcx and the  *)
(* stack: by an inductive invariant that ties what the goroutine has       *)
(* remembered (missing) to what has been there.                            *)
(***************************************************************************)
EXTENDS DemoLaunch, TLAPS

\* From "compose up" on the containers are those of the launch in progress.
InHand ==
  /\ phase # "idle" => run \in Runs
  /\ phase \in {"ready", "verify"} => of = run

\* The history variable misses nothing.
Watched == of > 0 /\ Together => met[of]

\* What VerifyTelemetry no longer looks for has been found.
Found ==
  phase = "verify" =>
    /\ met[run]
    /\ \A s \in Apps(project[run]), g \in Signals :
         <<s, g>> \in missing \/ <<run, s, g>> \in cloud

\* Nothing arrives that has not been sent.
Sent == \A n \in Runs, s \in Services, g \in Signals :
          <<n, s, g>> \in cloud => <<n, s>> \in probed

IInv == /\ TypeOK /\ InHand /\ Watched /\ Found /\ Sent
        /\ ReadyTogether /\ DeliveredAll

Act == Begin \/ Goroutine \/ Restart \/ Environment

-----------------------------------------------------------------------------
\* The applications are services other than Alloy.
LEMMA AppsAreServices ==
  ASSUME NEW p \in Project
  PROVE  Apps(p) \subseteq Services
BY DEF Apps, Project, Names, Alloy

\* The initial states.
LEMMA Initially == Init => IInv
<1> SUFFICES ASSUME Init PROVE IInv
  OBVIOUS
<1>1. TypeOK
  BY PlansAssumption, BoundAssumption
  DEF Init, TypeOK, Phase, Outcome, Container, Runs
<1>2. InHand /\ Watched /\ Found /\ Sent
  BY DEF Init, InHand, Watched, Found, Sent
<1>3. ReadyTogether /\ DeliveredAll
  BY DEF Init, ReadyTogether, DeliveredAll
<1> QED
  BY <1>1, <1>2, <1>3 DEF IInv

\* Every step is one of these, and watches the containers.
LEMMA Steps ==
  Next <=> /\ Act
           /\ UNCHANGED fixed
           /\ met' = [n \in Runs |-> met[n] \/ (n = of' /\ Together')]
BY DEF Next, Step, Act

\* The deployment in hand launches some application.
LEMMA CurrentTyped ==
  ASSUME TypeOK, InHand, phase # "idle"
  PROVE  /\ run \in Runs /\ project[run] \in Project
         /\ Apps(project[run]) \subseteq Services
<1>1. run \in Runs /\ project[run] \in Project
  BY DEF TypeOK, InHand
<1> QED
  BY <1>1, AppsAreServices

\* The goroutine's steps keep the types.
LEMMA LaunchTyped ==
  ASSUME TypeOK, InHand, Begin \/ Goroutine \/ Restart
  PROVE  /\ run' \in 0..MaxRuns /\ phase' \in Phase
         /\ missing' \subseteq Services \X Signals
         /\ outcome' \in [Runs -> Outcome]
         /\ of' \in 0..MaxRuns /\ cont' \in [Names -> Container]
         /\ UNCHANGED <<probed, cloud>>
<1> USE BoundAssumption DEF TypeOK, Phase, Outcome, demo
<1>1. CASE Begin
  BY <1>1 DEF Begin
<1>2. CASE Restart
  BY <1>2 DEF Restart, End
<1>3. CASE Preflight \/ Wire \/ StepFails \/ NotReady \/ ReadyTimesOut
           \/ Verified \/ VerifyFails
  BY <1>3 DEF Preflight, Wire, StepFails, NotReady, ReadyTimesOut, Verified,
              VerifyFails, End, Goto
<1>4. CASE Down
  BY <1>4 DEF Down, Goto, Container
<1>5. CASE Up
  BY <1>5 DEF Up, Goto, Container
<1>6. CASE UpFails
  BY <1>6 DEF UpFails, End, Container
<1>7. CASE Ready
  BY <1>7, CurrentTyped DEF Ready, Current
<1>8. CASE Search
  BY <1>8 DEF Search, Find
<1> QED
  BY <1>1, <1>2, <1>3, <1>4, <1>5, <1>6, <1>7, <1>8 DEF Goroutine

\* So do the demo's.
LEMMA DemoTyped ==
  ASSUME TypeOK, Environment
  PROVE  /\ cont' \in [Names -> Container]
         /\ probed' \subseteq Runs \X Services
         /\ cloud' \subseteq Runs \X Services \X Signals
         /\ UNCHANGED <<launch, of>>
<1>1. CASE \E s \in Names : Rises(s) \/ Wavers(s) \/ Breaks(s)
  BY <1>1 DEF TypeOK, Rises, Wavers, Breaks, Move, Container
<1>2. CASE \E s \in Services : Probe(s)
  BY <1>2 DEF TypeOK, Probe, Runs
<1>3. CASE \E n \in Runs, s \in Services, g \in Signals : Arrives(n, s, g)
  BY <1>3 DEF TypeOK, Arrives
<1> QED
  BY <1>1, <1>2, <1>3 DEF Environment

\* Types are kept.
LEMMA Typed == TypeOK /\ InHand /\ Next => TypeOK'
<1> SUFFICES ASSUME TypeOK, InHand, Next PROVE TypeOK'
  OBVIOUS
<1>1. /\ project' \in [Runs -> Project] /\ calm' \in BOOLEAN
      /\ met' \in [Runs -> BOOLEAN]
  BY Steps DEF TypeOK, fixed
<1>2. CASE Begin \/ Goroutine \/ Restart
  BY <1>1, <1>2, LaunchTyped DEF TypeOK
<1>3. CASE Environment
  BY <1>1, <1>3, DemoTyped DEF TypeOK, launch
<1> QED
  BY <1>2, <1>3, Steps DEF Act

-----------------------------------------------------------------------------
\* What has been seen together stays seen.
LEMMA MetGrows ==
  ASSUME TypeOK, Next
  PROVE  \A n \in Runs : met[n] => met'[n]
BY Steps DEF TypeOK

\* A launch begins, moves on or ends; its containers are its own.
LEMMA HandKept == TypeOK /\ InHand /\ Next => InHand'
<1> SUFFICES ASSUME TypeOK, InHand, Next PROVE InHand'
  OBVIOUS
<1> USE DEF InHand
<1>1. CASE Begin
  BY <1>1, BoundAssumption DEF Begin, TypeOK, Runs
<1>2. CASE Restart
  BY <1>2 DEF Restart, End
<1>3. CASE Goroutine
  BY <1>3 DEF Goroutine, Preflight, Down, Wire, StepFails, Up, UpFails, Ready,
              NotReady, ReadyTimesOut, Search, Find, Verified, VerifyFails,
              Goto, End, demo
<1>4. CASE Environment
  BY <1>4, DemoTyped DEF launch
<1> QED
  BY <1>1, <1>2, <1>3, <1>4, Steps DEF Act

\* The history variable is up to date after every step.
LEMMA WatchKept == TypeOK /\ TypeOK' /\ Next => Watched'
BY Steps, BoundAssumption DEF TypeOK, Watched, Runs

\* All that Ready looks at is there at once.
LEMMA ListedTogether ==
  ASSUME TypeOK, InHand, phase = "ready", Listed
  PROVE  of > 0 /\ of = run /\ Together
<1>1. of = run /\ run \in Runs
  BY DEF InHand
<1>2. of > 0
  BY <1>1, BoundAssumption DEF Runs
<1>3. cont[Alloy] \in {"running", "healthy"}
  BY DEF Listed, Names
<1> QED
  BY <1>1, <1>2, <1>3 DEF Together, Listed, Current

\* The telemetry found is this launch's, and found telemetry stays.
LEMMA FoundKept ==
  TypeOK /\ InHand /\ Watched /\ Found /\ Next => Found'
<1> SUFFICES ASSUME TypeOK, InHand, Watched, Found, Next, phase' = "verify"
             PROVE  /\ met'[run']
                    /\ \A s \in Apps(project'[run']), g \in Signals :
                         <<s, g>> \in missing' \/ <<run', s, g>> \in cloud'
  BY DEF Found, Apps
<1>0. project' = project
  BY Steps DEF fixed
<1>1. CASE Ready
  <2>1. run \in Runs /\ met[run]
    BY <1>1, ListedTogether DEF Ready, Watched, InHand
  <2>2. met'[run]
    BY <2>1, MetGrows
  <2> QED
    BY <1>0, <1>1, <2>2 DEF Ready, Current, Apps
<1>2. CASE Search
  <2>1. run \in Runs
    BY <1>2 DEF Search, Find, InHand
  <2>2. PICK s \in Services, g \in Signals : Find(s, g)
    BY <1>2 DEF Search
  <2>3. met'[run]
    BY <2>1, <2>2, MetGrows DEF Find, Found
  <2> QED
    BY <1>0, <2>2, <2>3 DEF Find, Found, demo, Apps
<1>3. CASE Environment
  <2>1. UNCHANGED <<run, phase, missing>> /\ cloud \subseteq cloud'
    BY <1>3 DEF Environment, Rises, Wavers, Breaks, Probe, Arrives, Move,
                launch
  <2>2. run \in Runs /\ met'[run]
    BY <2>1, MetGrows DEF Found, InHand
  <2> QED
    BY <1>0, <2>1, <2>2 DEF Found, Apps
<1>4. CASE \/ Begin \/ Restart \/ Preflight \/ Down \/ Wire \/ StepFails
           \/ Up \/ UpFails \/ NotReady \/ ReadyTimesOut \/ Verified
           \/ VerifyFails
  BY <1>4 DEF Begin, Restart, Preflight, Down, Wire, StepFails, Up, UpFails,
              NotReady, ReadyTimesOut, Verified, VerifyFails, End, Goto
<1> QED
  BY <1>1, <1>2, <1>3, <1>4, Steps DEF Act, Goroutine

\* Probes stay sent.
LEMMA SentKept == TypeOK /\ InHand /\ Sent /\ Next => Sent'
<1> SUFFICES ASSUME TypeOK, InHand, Sent, Next PROVE Sent'
  OBVIOUS
<1>1. CASE Begin \/ Goroutine \/ Restart
  BY <1>1, LaunchTyped DEF Sent
<1>2. CASE \E s \in Names : Rises(s) \/ Wavers(s) \/ Breaks(s)
  BY <1>2 DEF Rises, Wavers, Breaks, Move, Sent
<1>3. CASE \E s \in Services : Probe(s)
  BY <1>3 DEF Probe, Sent
<1>4. CASE \E n \in Runs, s \in Services, g \in Signals : Arrives(n, s, g)
  BY <1>4 DEF Arrives, Sent
<1> QED
  BY <1>1, <1>2, <1>3, <1>4, Steps DEF Act, Environment

\* A verdict is given once, by a launch that has what it claims.
LEMMA VerdictsKept ==
  ASSUME TypeOK, InHand, Found, Sent, ReadyTogether, DeliveredAll, Next, Found'
  PROVE  ReadyTogether' /\ DeliveredAll'
<1>0. project' = project /\ (\A n \in Runs : met[n] => met'[n])
  BY Steps, MetGrows DEF fixed
<1>1. cloud \subseteq cloud' /\ probed \subseteq probed'
  <2>1. CASE Begin \/ Goroutine \/ Restart
    BY <2>1, LaunchTyped
  <2>2. CASE Environment
    BY <2>2 DEF Environment, Rises, Wavers, Breaks, Probe, Arrives, Move
  <2> QED
    BY <2>1, <2>2, Steps DEF Act
<1>2. CASE outcome' = outcome
  BY <1>0, <1>1, <1>2 DEF ReadyTogether, DeliveredAll, Found, Apps
<1>3. CASE Verified
  <2>1. run \in Runs /\ project[run] \in Project
        /\ Apps(project[run]) \subseteq Services
    BY <1>3, CurrentTyped DEF Verified
  <2>2. \A s \in Apps(project[run]), g \in Signals :
          <<run, s, g>> \in cloud /\ <<run, s>> \in probed
    BY <1>3, <2>1 DEF Verified, Found, Sent
  <2>3. \A s \in Apps(project[run]) : <<run, s>> \in probed
    BY <2>2, SignalsAssumption
  <2>4. outcome' = [outcome EXCEPT ![run] = "verified"] /\ phase' = "idle"
        /\ met[run]
    BY <1>3, <2>1 DEF Verified, End, Found
  <2>5. ReadyTogether'
    BY <1>0, <2>1, <2>4 DEF ReadyTogether, TypeOK
  <2>6. DeliveredAll'
    BY <1>0, <1>1, <2>1, <2>2, <2>3, <2>4 DEF DeliveredAll, TypeOK, Apps
  <2> QED
    BY <2>5, <2>6
<1>4. CASE VerifyFails
  <2>1. run \in Runs /\ met[run] /\ phase' = "idle"
        /\ outcome' = [outcome EXCEPT ![run] = "running"]
    BY <1>4 DEF VerifyFails, End, Found, InHand
  <2> QED
    BY <1>0, <1>1, <2>1 DEF ReadyTogether, DeliveredAll, TypeOK, Apps
<1>5. CASE phase' = "idle" /\ outcome' = [outcome EXCEPT ![run] = "failed"]
  BY <1>0, <1>1, <1>5 DEF ReadyTogether, DeliveredAll, TypeOK, Apps
<1>6. \/ outcome' = outcome \/ Verified \/ VerifyFails
      \/ phase' = "idle" /\ outcome' = [outcome EXCEPT ![run] = "failed"]
  <2>1. CASE Goroutine \/ Begin \/ Restart
    BY <2>1 DEF Goroutine, Begin, Restart, Preflight, Down, Wire, StepFails,
      Up, UpFails, Ready, NotReady, ReadyTimesOut, Search, Find, Goto, End
  <2>2. CASE Environment
    BY <2>2, DemoTyped DEF launch
  <2> QED
    BY <2>1, <2>2, Steps DEF Act
<1> QED
  BY <1>2, <1>3, <1>4, <1>5, <1>6

\* The invariant is inductive.
LEMMA Inductive == IInv /\ [Next]_vars => IInv'
<1> SUFFICES ASSUME IInv, [Next]_vars PROVE IInv'
  OBVIOUS
<1>1. CASE Next
  <2>1. TypeOK' /\ InHand' /\ Watched' /\ Found' /\ Sent'
    BY <1>1, Typed, HandKept, WatchKept, FoundKept, SentKept DEF IInv
  <2>2. ReadyTogether' /\ DeliveredAll'
    BY <1>1, <2>1, VerdictsKept DEF IInv
  <2> QED
    BY <2>1, <2>2 DEF IInv
<1>2. CASE UNCHANGED vars
  BY <1>2 DEF vars, IInv, TypeOK, InHand, Watched, Together, Found, Sent,
              ReadyTogether, DeliveredAll, Apps
<1> QED
  BY <1>1, <1>2

\* The invariant holds throughout.
LEMMA Invariance == Spec => []IInv
<1>1. Init => IInv
  BY Initially
<1>2. IInv /\ [Next]_vars => IInv'
  BY Inductive
<1> QED
  BY <1>1, <1>2, PTL DEF Spec

-----------------------------------------------------------------------------
(***************************************************************************)
(* The theorems.                                                           *)
(***************************************************************************)
\* The state is well typed.
THEOREM TypeCorrect == Spec => []TypeOK
BY Invariance, PTL DEF IInv

\* A deployment announced as ready had all its applications healthy at one
\* moment, beside Alloy.
THEOREM AnnouncedWhenUp == Spec => []ReadyTogether
BY Invariance, PTL DEF IInv

\* A verified deployment has delivered every signal of every application.
THEOREM VerifiedByDelivery == Spec => []DeliveredAll
BY Invariance, PTL DEF IInv

\* No step announces, verifies or fails a deployment but as the promise
\* says: the initial states are the promise's, and each step is one of its
\* steps or leaves what it speaks of alone.
LEMMA PromiseInit == Init => Promise!Init
<1> SUFFICES ASSUME Init PROVE Promise!Init
  OBVIOUS
<1>1. Delivered \in [Runs -> BOOLEAN]
  BY DEF Delivered
<1> QED
  BY <1>1 DEF Init, Promise!Init, Promise!Runs, Runs, Stage

\* While the containers do not move, nothing new is seen.
LEMMA NothingSeen ==
  ASSUME TypeOK, Watched, Next, of' = of, cont' = cont
  PROVE  met' = met
<1>1. Together' => Together
  BY Steps DEF Together, fixed, Apps
<1>2. \A n \in Runs : met[n] \/ (n = of' /\ Together') <=> met[n]
  BY <1>1, BoundAssumption DEF Watched, Runs
<1>3. met' = [n \in Runs |-> met[n]]
  BY <1>2, Steps DEF TypeOK
<1> QED
  BY <1>3 DEF TypeOK

\* Nor when "compose up" has just been called.
LEMMA NothingSeenYet ==
  ASSUME TypeOK, Next, cont'[Alloy] \in {"absent", "pending"}
  PROVE  met' = met
<1>1. ~Together'
  BY DEF Together
<1>2. met' = [n \in Runs |-> met[n]]
  BY <1>1, Steps DEF TypeOK
<1> QED
  BY <1>2 DEF TypeOK

\* What has been delivered stays delivered.
LEMMA DeliveredGrows ==
  ASSUME project' = project, cloud \subseteq cloud'
  PROVE  /\ Delivered \in [Runs -> BOOLEAN] /\ Delivered' \in [Runs -> BOOLEAN]
         /\ \A n \in Runs : Delivered[n] => Delivered'[n]
         /\ cloud' = cloud => Delivered' = Delivered
BY DEF Delivered, Apps

\* A launch that ends without having been announced, or dies, has failed.
LEMMA EndsFail ==
  ASSUME phase # "idle", End("failed"), met' = met, Delivered' = Delivered
  PROVE  Promise!Fail
BY DEF End, Promise!Fail, Promise!Conclude, Promise!world, Stage

\* The launch's steps up to "compose up" are invisible, or failures.
LEMMA EarlySteps ==
  ASSUME IInv, Next,
         \/ Preflight \/ Down \/ Wire \/ StepFails \/ Up \/ UpFails
         \/ NotReady \/ ReadyTimesOut \/ Restart
  PROVE  Promise!Fail \/ UNCHANGED Promise!vars
<1>1. /\ TypeOK /\ InHand /\ Watched /\ TypeOK'
  BY Typed DEF IInv
<1>2. Delivered' = Delivered
  <2>1. cloud' = cloud
    BY <1>1, LaunchTyped DEF Goroutine
  <2> QED
    BY <2>1, DeliveredGrows, Steps DEF fixed
<1>3. met' = met
  <2>1. CASE Preflight \/ Wire \/ StepFails \/ NotReady \/ ReadyTimesOut
             \/ Restart
    BY <1>1, <2>1, NothingSeen
    DEF Preflight, Wire, StepFails, NotReady, ReadyTimesOut, Restart, demo
  <2>2. CASE Down \/ Up \/ UpFails
    <3>1. cont'[Alloy] \in {"absent", "pending"}
      BY <2>2 DEF Down, Up, UpFails, Names
    <3> QED
      BY <1>1, <3>1, NothingSeenYet
  <2> QED
    BY <2>1, <2>2
<1>4. CASE phase # "idle" /\ End("failed")
  BY <1>2, <1>3, <1>4, EndsFail
<1>5. CASE \E from \in {"preflight", "down", "wire", "up"},
              to \in {"down", "wire", "up", "ready"} :
             phase = from /\ Goto(to)
  <2>1. Stage' = Stage /\ UNCHANGED <<run, outcome>>
    BY <1>5 DEF Goto, Stage
  <2> QED
    BY <1>2, <1>3, <2>1 DEF Promise!vars
<1>6. \/ phase # "idle" /\ End("failed")
      \/ \E from \in {"preflight", "down", "wire", "up"},
            to \in {"down", "wire", "up", "ready"} : phase = from /\ Goto(to)
  BY DEF Preflight, Down, Wire, StepFails, Up, UpFails, NotReady,
         ReadyTimesOut, Restart
<1> QED
  BY <1>4, <1>5, <1>6

\* The decisive steps are the promise's.
LEMMA LateSteps ==
  ASSUME IInv, Next, Begin \/ Ready \/ Search \/ Verified \/ VerifyFails
  PROVE  Promise!Next \/ UNCHANGED Promise!vars
<1>1. /\ TypeOK /\ InHand /\ Watched /\ Found /\ TypeOK'
  BY Typed DEF IInv
<1>2. Delivered' = Delivered /\ met' = met
  <2>1. UNCHANGED <<of, cont, cloud>>
    BY DEF Begin, Ready, Search, Find, Verified, VerifyFails, demo
  <2> QED
    BY <1>1, <2>1, DeliveredGrows, NothingSeen, Steps DEF fixed
<1> USE DEF Promise!Next, Promise!Progress, Promise!Conclude, Promise!world,
            Stage
<1>3. CASE Begin
  BY <1>2, <1>3 DEF Begin, Promise!Launch
<1>4. CASE Ready
  <2>1. met[run]
    BY <1>1, <1>4, ListedTogether DEF Ready, Watched
  <2> QED
    BY <1>2, <1>4, <2>1 DEF Ready, Promise!Announce
<1>5. CASE Search
  BY <1>2, <1>5 DEF Search, Find, Promise!vars
<1>6. CASE Verified
  <2>1. Delivered[run]
    BY <1>1, <1>6 DEF Verified, Found, InHand, Delivered
  <2> QED
    BY <1>2, <1>6, <2>1 DEF Verified, End, Promise!Verify
<1>7. CASE VerifyFails
  BY <1>2, <1>7 DEF VerifyFails, End, Promise!GiveUp
<1> QED
  BY <1>3, <1>4, <1>5, <1>6, <1>7

\* The environment only adds to what can be observed.
LEMMA EnvironmentObserved ==
  ASSUME IInv, Next, Environment
  PROVE  Promise!Observe
<1>1. TypeOK /\ TypeOK' /\ (\A n \in Runs : met[n] => met'[n])
  BY Typed, MetGrows DEF IInv
<1>2. UNCHANGED launch /\ cloud \subseteq cloud'
  BY <1>1, DemoTyped
  DEF Environment, Rises, Wavers, Breaks, Probe, Arrives, Move
<1>3. UNCHANGED <<run, Stage, outcome>>
  BY <1>2 DEF launch, Stage
<1>4. /\ Delivered' \in [Runs -> BOOLEAN]
      /\ \A n \in Runs : Delivered[n] => Delivered'[n]
  BY <1>2, DeliveredGrows, Steps DEF fixed
<1> QED
  BY <1>1, <1>3, <1>4 DEF Promise!Observe, Promise!Runs, Runs, TypeOK

\* Every step of the launch is a step of the promise, or none.
LEMMA PromiseStep == IInv /\ [Next]_vars => [Promise!Next]_Promise!vars
<1> SUFFICES ASSUME IInv, [Next]_vars
             PROVE  Promise!Next \/ UNCHANGED Promise!vars
  OBVIOUS
<1>1. CASE UNCHANGED vars
  BY <1>1 DEF vars, Promise!vars, Stage, Delivered, Apps
<1>2. CASE Next /\ Environment
  BY <1>2, EnvironmentObserved DEF Promise!Next
<1>3. CASE Next /\ (Begin \/ Ready \/ Search \/ Verified \/ VerifyFails)
  BY <1>3, LateSteps
<1>4. CASE Next /\ \/ Preflight \/ Down \/ Wire \/ StepFails \/ Up
                   \/ UpFails \/ NotReady \/ ReadyTimesOut \/ Restart
  BY <1>4, EarlySteps DEF Promise!Next, Promise!Progress
<1> QED
  BY <1>1, <1>2, <1>3, <1>4, Steps DEF Act, Goroutine

\* The launch keeps the README's promise.
THEOREM PromiseKept == Spec => Promise!Safe
<1>1. Init => Promise!Init
  BY PromiseInit
<1>2. IInv /\ [Next]_vars => [Promise!Next]_Promise!vars
  BY PromiseStep
<1> QED
  BY <1>1, <1>2, Invariance, PTL DEF Spec, Promise!Safe
=============================================================================
