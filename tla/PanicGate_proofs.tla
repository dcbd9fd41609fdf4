-------------------------- MODULE PanicGate_proofs --------------------------
(***************************************************************************)
(* The monitor, for every FailureCap and MaxLaunched, and the manager that *)
(* follows it, for any number of callbacks at once.                        *)
(*                                                                         *)
(* The count of failures carries the argument of the monitor: it is        *)
(* positive exactly when the last outcome was a failure, so it remembers,  *)
(* across the steps other goroutines take, why panic mode is in force.     *)
(*                                                                         *)
(* The manager follows as long as a verdict finds what the one before it   *)
(* launched done (Prompt): then one callback at a time waits or runs       *)
(* (OneAtATime), it is that of the verdict that stands (OfTheVerdict), and *)
(* what it leaves behind stays (LeftAsJudged).  Without that hypothesis    *)
(* the manager need not follow: a late recovery undoes a panic.            *)
(***************************************************************************)
EXTENDS PanicGate, TLAPS

Checked == pc \in {"update", "evaluate"}

\* A positive count of failures means the last check failed.
CountedFailure == consecutiveFailures > 0 => outcomes.last # "hit"

\* The conclusion waiting to be evaluated is the one its outcomes justify.
JustifiedConclusion ==
  Checked =>
    /\ ~conclusion => /\ consecutiveFailures > 0
                      /\ \/ outcomes.last = "gone"
                         \/ outcomes.last = "miss" /\ outcomes.before # "hit"
    /\ conclusion /\ engagedBy = "check" => outcomes.last = "hit"

\* A check's panic keeps a failure on the count until a hit is about to
\* release it.
HeldByFailure ==
  engagedBy = "check" =>
    \/ consecutiveFailures > 0
    \/ Checked /\ conclusion /\ outcomes.last = "hit"

\* Who engaged the panic is known exactly while it is in force.
EngagerKnown == panicked <=> engagedBy # "nobody"

IInv ==
  /\ TypeOK
  /\ CountedFailure
  /\ JustifiedConclusion
  /\ HeldByFailure
  /\ EngagerKnown

\* Before the first check nothing is counted and nothing engaged.
LEMMA InitIInv == Init => IInv
<1> SUFFICES ASSUME Init PROVE IInv
  OBVIOUS
<1>1. TypeOK
  <2>1. consecutiveFailures \in 0 .. FailureCap
    BY MonitorAssumption DEF Init
  <2>2. launched \in [Callbacks -> 0 .. MaxLaunched]
    BY MonitorAssumption DEF Init
  <2> QED
    BY <2>1, <2>2 DEF Init, TypeOK, Outcomes
<1> QED
  BY <1>1 DEF Init, IInv, CountedFailure, JustifiedConclusion, HeldByFailure,
              EngagerKnown, Checked

\* Every step of the monitor keeps the types.
LEMMA NextTypeOK == TypeOK /\ [Next]_vars => TypeOK'
<1> SUFFICES ASSUME TypeOK, [Next]_vars PROVE TypeOK'
  OBVIOUS
<1> USE MonitorAssumption DEF TypeOK
<1>1. CASE TunnelChanges
  BY <1>1 DEF TunnelChanges, checker, guard
<1>2. CASE SetPanicEnabled
  BY <1>2 DEF SetPanicEnabled, world, checker
<1>3. CASE ManualPanic
  BY <1>3 DEF ManualPanic, Launch, Callbacks, world, checker
<1>4. ASSUME NEW c \in Callbacks, CallbackStarts(c) PROVE TypeOK'
  BY <1>4 DEF CallbackStarts, Callbacks, world, checker
<1>5. CASE InterfaceGone
  <2>1. consecutiveFailures' \in 0 .. FailureCap
    BY <1>5 DEF InterfaceGone, OneMore
  <2> QED
    BY <1>5, <2>1 DEF InterfaceGone, Concludes, Outcomes, world, guard
<1>6. CASE InterfaceUp
  BY <1>6 DEF InterfaceUp, world, guard
<1>7. CASE ProbeHit
  BY <1>7 DEF ProbeHit, Concludes, Outcomes, world, guard
<1>8. CASE ProbeMiss
  <2>1. consecutiveFailures' \in 0 .. FailureCap
    BY <1>8 DEF ProbeMiss, OneMore
  <2>2. conclusion' \in BOOLEAN
    <3>1. conclusion' = Suspect(consecutiveFailures')
      BY <1>8 DEF ProbeMiss, Concludes
    <3>2. Suspect(consecutiveFailures') \in BOOLEAN
      BY <2>1, SMT DEF Suspect, minFailuresToPanic
    <3> QED
      BY <3>1, <3>2
  <2> QED
    BY <1>8, <2>1, <2>2 DEF ProbeMiss, Concludes, Outcomes, world, guard
<1>9. CASE Update
  BY <1>9 DEF Update, world, guard
<1>10. CASE Engage
  BY <1>10 DEF Engage, Launch, Callbacks, world
<1>11. CASE Release
  <2>1. launched' \in [Callbacks -> 0 .. MaxLaunched]
    BY <1>11 DEF Release, Launch, Callbacks
  <2> QED
    BY <1>11, <2>1 DEF Release, world
<1>12. CASE NoVerdict
  BY <1>12 DEF NoVerdict, world, guard
<1>13. CASE UNCHANGED vars
  BY <1>13 DEF vars
<1> QED
  BY <1>1, <1>2, <1>3, <1>4, <1>5, <1>6, <1>7, <1>8, <1>9, <1>10, <1>11, <1>12, <1>13
     DEF Next, Check

\* Every step of the monitor keeps the count truthful.
LEMMA NextIInv == IInv /\ [Next]_vars => IInv'
<1> SUFFICES ASSUME IInv, [Next]_vars PROVE IInv'
  OBVIOUS
<1>0. TypeOK /\ TypeOK'
  BY NextTypeOK DEF IInv
<1> DEFINE Rest == CountedFailure /\ JustifiedConclusion /\ HeldByFailure /\ EngagerKnown
<1>a. Rest
  BY DEF IInv
<1> SUFFICES Rest'
  BY <1>0 DEF IInv
<1> USE <1>0, <1>a DEF CountedFailure, JustifiedConclusion, HeldByFailure, EngagerKnown, Checked
<1>1. CASE TunnelChanges
  BY <1>1 DEF TunnelChanges, checker, guard
<1>2. CASE SetPanicEnabled
  BY <1>2 DEF SetPanicEnabled, world, checker
<1>3. CASE ManualPanic
  BY <1>3 DEF ManualPanic, world, checker
<1>4. ASSUME NEW c \in Callbacks, CallbackStarts(c) PROVE Rest'
  BY <1>4 DEF CallbackStarts, world, checker
<1>5. CASE InterfaceGone
  <2>1. consecutiveFailures' > 0
    BY <1>5, MonitorAssumption DEF InterfaceGone, OneMore, minFailuresToPanic, TypeOK
  <2> QED
    BY <1>5, <2>1 DEF InterfaceGone, Concludes, world, guard
<1>6. CASE InterfaceUp
  BY <1>6 DEF InterfaceUp, world, guard
<1>7. CASE ProbeHit
  BY <1>7 DEF ProbeHit, Concludes, world, guard
<1>8. CASE ProbeMiss
  <2>1. /\ consecutiveFailures' > 0
        /\ outcomes' = [last |-> "miss", before |-> outcomes.last]
        /\ pc' = "update"
        /\ UNCHANGED <<panicked, engagedBy>>
    BY <1>8, MonitorAssumption
       DEF ProbeMiss, Concludes, OneMore, minFailuresToPanic, TypeOK, guard, world
  <2>2. conclusion' <=> Suspect(consecutiveFailures')
    BY <1>8, Zenon DEF ProbeMiss, Concludes
  <2>3. Suspect(consecutiveFailures') <=> ~(consecutiveFailures > 0)
    BY <1>8, MonitorAssumption
       DEF ProbeMiss, Concludes, OneMore, Suspect, minFailuresToPanic, TypeOK
  <2>4. ~Checked
    BY <1>8 DEF ProbeMiss
  <2> QED
    BY <2>1, <2>2, <2>3, <2>4
<1>9. CASE Update
  BY <1>9 DEF Update, world, guard
<1>10. CASE Engage
  BY <1>10 DEF Engage, MustEngage, world
<1>11. CASE Release
  BY <1>11 DEF Release, MustRelease, world
<1>12. CASE NoVerdict
  BY <1>12 DEF NoVerdict, MustRelease, MustEngage, world, guard
<1>13. CASE UNCHANGED vars
  BY <1>13 DEF vars
<1> QED
  BY <1>1, <1>2, <1>3, <1>4, <1>5, <1>6, <1>7, <1>8, <1>9, <1>10, <1>11, <1>12, <1>13
     DEF Next, Check

\* The count is truthful in every reachable state.
LEMMA InductiveInvariant == Spec => []IInv
<1> QED
  BY InitIInv, NextIInv, PTL DEF Spec

\* Every variable of the monitor keeps its type: the count of failures never
\* leaves its bound and the checking goroutine is always at a known step.
THEOREM TypeCorrect == Spec => []TypeOK
<1>1. IInv => TypeOK
  BY DEF IInv
<1> QED
  BY <1>1, InductiveInvariant, PTL

\* While a panic that a check engaged is in force, the failures that engaged
\* it are still counted, until a probe gets through (check, evaluate).
THEOREM FailureStaysOnRecord == Spec => []FailureOnRecord
<1>1. IInv => FailureOnRecord
  BY DEF IInv, HeldByFailure, FailureOnRecord
<1> QED
  BY <1>1, InductiveInvariant, PTL

\* A step of the monitor releases its own panic only upon a hit.
ReleaseNeedsHit ==
  Releases /\ engagedBy = "check" => outcomes.last = "hit"

LEMMA ReleasedByHit == IInv /\ [Next]_vars => [ReleaseNeedsHit]_vars
<1> SUFFICES ASSUME IInv, Next, panicked, ~panicked', engagedBy = "check"
             PROVE outcomes.last = "hit"
  BY DEF ReleaseNeedsHit, Releases
<1>1. Release
  BY DEF Next, Check, TunnelChanges, SetPanicEnabled, ManualPanic, CallbackStarts,
         InterfaceGone, InterfaceUp, ProbeHit, ProbeMiss, Update, Engage, NoVerdict,
         Concludes, world, checker, guard
<1> QED
  BY <1>1 DEF Release, MustRelease, IInv, JustifiedConclusion, Checked

\* A check releases its own panic only after a probe that got through.
THEOREM CheckPanicReleased == Spec => CheckPanicReleasedByHit
<1> QED
  BY InductiveInvariant, ReleasedByHit, PTL DEF Spec, CheckPanicReleasedByHit, ReleaseNeedsHit

\* A check that engages panic mode has found what calls for it.
EngageNeedsTwo ==
  Engages /\ engagedBy' = "check" =>
      \/ outcomes.last = "gone"
      \/ outcomes.last = "miss" /\ outcomes.before # "hit"

LEMMA EngagedByTwo == IInv /\ [Next]_vars => [EngageNeedsTwo]_vars
<1> SUFFICES ASSUME IInv, Next, ~panicked, panicked', engagedBy' = "check"
             PROVE \/ outcomes.last = "gone"
                   \/ outcomes.last = "miss" /\ outcomes.before # "hit"
  BY DEF EngageNeedsTwo, Engages
<1>1. Engage
  BY DEF Next, Check, TunnelChanges, SetPanicEnabled, ManualPanic, CallbackStarts,
         InterfaceGone, InterfaceUp, ProbeHit, ProbeMiss, Update, Release, NoVerdict,
         Concludes, world, checker, guard
<1> QED
  BY <1>1 DEF Engage, MustEngage, IInv, JustifiedConclusion, Checked

\* A check engages panic mode only for a missing interface or for a second
\* failure in a row, never for a single missed probe (minFailuresToPanic).
THEOREM EngageJustified == Spec => EngageNeedsTwoFailures
<1> QED
  BY InductiveInvariant, EngagedByTwo, PTL DEF Spec, EngageNeedsTwoFailures, EngageNeedsTwo

-----------------------------------------------------------------------------
(* The manager follows the monitor                                         *)

\* What the composition adds, as far as the argument needs its types.
GateTyped == held \in BOOLEAN /\ call \in [Callers -> CallSteps]

\* Nothing is launched, and no key pressed, while a callback waits or runs.
OneAtATime ==
  /\ \A k \in Callbacks : launched[k] > 0 =>
       /\ launched[k] = 1 /\ keyPc = "idle"
       /\ \A l \in Callbacks : launched[l] > 0 => l = k
       /\ \A c \in Callers : call[c] = "idle"
  /\ \A c \in Callers : call[c] # "idle" =>
       /\ keyPc = "idle"
       /\ \A d \in Callers : call[d] # "idle" => d = c

\* What waits or runs is the callback of the verdict that stands.
OfTheVerdict ==
  /\ launched["panic"] > 0 => panicked
  /\ launched["recover"] > 0 => ~panicked
  /\ \A c \in Callers :
       /\ call[c] \in {"PanicAll", "UnseedAll"} => panicked
       /\ call[c] \in {"ResumeAll", "ReseedAll"} => ~panicked
       /\ call[c] = "UnseedAll" => held
       /\ call[c] = "ReseedAll" => ~held

\* With all of them done, the flag is as the last one left it.
LeftAsJudged == CallbacksDone /\ setBy = "callback" => (held <=> panicked)

Following == OneAtATime /\ OfTheVerdict /\ LeftAsJudged

\* What the callbacks, the key and the screen do is nothing to the monitor.
LEMMA MonitorInside == [GateNext]_gateVars => [Next]_vars
<1> SUFFICES ASSUME [GateNext]_gateVars PROVE [Next]_vars
  OBVIOUS
<1>1. CASE MonitorActs
  BY <1>1 DEF MonitorActs, MonitorSteps, Verdict, Next, Check
<1>2. ASSUME NEW c \in Callers, Callback(c) PROVE [Next]_vars
  BY <1>2 DEF Callback, Begin, CallPanicAll, CallUnseedAll, CallResumeAll, CallReseedAll, Next
<1>3. CASE UI
  BY <1>3 DEF UI, Fetch, DataMsg, KeyOpensPicker, KeyPicks, TakesPanicKey, KeyPanics, KeyUnseeds,
     KeyResumes, KeyReseeds
<1>4. CASE UNCHANGED gateVars
  BY <1>4 DEF gateVars
<1> QED BY <1>1, <1>2, <1>3, <1>4 DEF GateNext

\* So the monitor's invariant holds with all of that around it.
LEMMA MonitorInvariant == GateSpec => []IInv
<1>1. GateInit => IInv
  BY InitIInv DEF GateInit
<1>2. IInv /\ [GateNext]_gateVars => IInv'
  BY MonitorInside, NextIInv
<1> QED BY <1>1, <1>2, PTL DEF GateSpec

(* The monitor keeps its promises with the callbacks and the panic key     *)
(* around it: it engages panic mode only for a missing interface or a      *)
(* second failure, and releases its own only upon a probe that got through.*)
THEOREM MonitorKeepsPromises == GateSpec => EngageNeedsTwoFailures /\ CheckPanicReleasedByHit
<1>1. [GateNext]_gateVars => [Next]_vars
  BY MonitorInside
<1> QED
  BY <1>1, MonitorInvariant, EngagedByTwo, ReleasedByHit, PTL
  DEF GateSpec, EngageNeedsTwoFailures, CheckPanicReleasedByHit, EngageNeedsTwo, ReleaseNeedsHit

\* The manager's flag and the callers keep their types.
LEMMA GateTypedKept == GateTyped /\ [GateNext]_gateVars => GateTyped'
<1> SUFFICES ASSUME GateTyped, [GateNext]_gateVars PROVE GateTyped'
  OBVIOUS
<1> USE DEF GateTyped, flag, ui
<1>1. CASE MonitorActs
  BY <1>1 DEF MonitorActs
<1>2. ASSUME NEW c \in Callers, NEW k \in Callbacks, Begin(c, k) PROVE GateTyped'
  BY <1>2 DEF Begin, FirstStep, CallSteps
<1>3. ASSUME NEW c \in Callers, CallPanicAll(c) \/ CallResumeAll(c) PROVE GateTyped'
  BY <1>3 DEF CallPanicAll, CallResumeAll, CallGoes, PanicFlag, ResumeFlag, CallSteps
<1>4. ASSUME NEW c \in Callers, CallUnseedAll(c) \/ CallReseedAll(c) PROVE GateTyped'
  BY <1>4 DEF CallUnseedAll, CallReseedAll, CallGoes, CallSteps
<1>5. CASE UI
  BY <1>5 DEF UI, Fetch, DataMsg, KeyOpensPicker, KeyPicks, TakesPanicKey, KeyPanics, KeyUnseeds,
     KeyResumes, KeyReseeds, PanicFlag,
              ResumeFlag
<1>6. CASE UNCHANGED gateVars
  BY <1>6 DEF gateVars
<1> QED BY <1>1, <1>2, <1>3, <1>4, <1>5, <1>6 DEF GateNext, Callback

\* A step that launches nothing, begins nothing and leaves the flag alone.
SameFlight ==
  /\ \A k \in Callbacks : launched'[k] = launched[k]
  /\ call' = call /\ (panicked' <=> panicked) /\ (held' <=> held) /\ setBy' = setBy
  /\ keyPc' = keyPc \/ keyPc' = "idle"

\* Such a step disturbs nothing.
LEMMA SameFlightKeeps == SameFlight /\ Following => Following'
<1> SUFFICES ASSUME SameFlight, Following PROVE Following'
  OBVIOUS
<1>1. "panic" \in Callbacks /\ "recover" \in Callbacks
  BY DEF Callbacks
<1>2. OneAtATime'
  BY DEF SameFlight, Following, OneAtATime
<1>3. OfTheVerdict'
  BY <1>1 DEF SameFlight, Following, OfTheVerdict
<1>4. LeftAsJudged'
  BY DEF SameFlight, Following, LeftAsJudged, CallbacksDone
<1> QED BY <1>2, <1>3, <1>4 DEF Following

\* A verdict that finds nothing under way launches its own callback alone.
LEMMA VerdictAlone ==
  ASSUME TypeOK, GateTyped, Quiet, NEW k \in Callbacks, Launch(k),
         panicked' <=> k = "panic", call' = call, keyPc' = keyPc
  PROVE  Following'
<1>1. /\ launched'[k] = 1 /\ \A l \in Callbacks : l # k => launched'[l] = 0
      /\ \A c \in Callers : call'[c] = "idle"
      /\ keyPc' = "idle"
  BY DEF TypeOK, GateTyped, Quiet, CallbacksDone, Launch, Callbacks
<1>2. OneAtATime'
  BY <1>1 DEF OneAtATime
<1>3. OfTheVerdict'
  BY <1>1 DEF OfTheVerdict, Callbacks
<1>4. LeftAsJudged'
  BY <1>1 DEF LeftAsJudged, CallbacksDone
<1> QED BY <1>2, <1>3, <1>4 DEF Following

\* The monitor's steps, when a verdict waits for the callbacks.
LEMMA MonitorFollows ==
  ASSUME TypeOK, GateTyped, Following, Prompt, MonitorActs
  PROVE  Following'
<1> USE DEF flag, ui
<1>1. CASE Verdict
  <2>1. CASE Engage
    BY <1>1, <2>1, VerdictAlone DEF Verdict, MonitorActs, Engage, Callbacks
  <2>2. CASE Release
    BY <1>1, <2>2, VerdictAlone DEF Verdict, MonitorActs, Release, Callbacks
  <2>3. CASE ManualPanic
    BY <1>1, <2>3, VerdictAlone DEF Verdict, MonitorActs, ManualPanic, Callbacks
  <2> QED BY <1>1, <2>1, <2>2, <2>3 DEF Verdict
<1>2. CASE TunnelChanges \/ SetPanicEnabled \/ InterfaceUp \/ Update \/ NoVerdict
  <2>1. SameFlight
    BY <1>2 DEF MonitorActs, SameFlight, TunnelChanges, SetPanicEnabled, InterfaceUp, Update,
                NoVerdict, guard
  <2> QED BY <2>1, SameFlightKeeps
<1>3. CASE InterfaceGone \/ ProbeHit \/ ProbeMiss
  <2>1. /\ launched' = launched /\ panicked' = panicked
        /\ call' = call /\ held' = held /\ setBy' = setBy /\ keyPc' = keyPc
    BY <1>3 DEF MonitorActs, InterfaceGone, ProbeHit, ProbeMiss, guard
  <2> QED BY <2>1, SameFlightKeeps DEF SameFlight
<1> QED BY <1>1, <1>2, <1>3 DEF MonitorActs, MonitorSteps

\* The steps of a callback.
LEMMA CallbackFollows ==
  ASSUME TypeOK, GateTyped, Following, NEW c \in Callers, Callback(c)
  PROVE  Following'
<1>1. ASSUME NEW k \in Callbacks, Begin(c, k) PROVE Following'
  <2>1. /\ launched[k] = 1 /\ launched'[k] = 0 /\ keyPc' = "idle"
        /\ \A l \in Callbacks : launched'[l] = 0
        /\ \A d \in Callers : d # c => call'[d] = "idle"
        /\ call'[c] = FirstStep(k) /\ panicked' = panicked
    BY <1>1 DEF Begin, CallbackStarts, TypeOK, GateTyped, Following, OneAtATime, ui, Callbacks
  <2>2. OneAtATime'
    BY <2>1 DEF OneAtATime
  <2>3. OfTheVerdict'
    BY <2>1 DEF Following, OfTheVerdict, Callbacks, FirstStep
  <2>4. call'[c] # "idle"
    BY <2>1 DEF FirstStep
  <2>5. LeftAsJudged'
    BY <2>4 DEF LeftAsJudged, CallbacksDone
  <2> QED BY <2>2, <2>3, <2>5 DEF Following
<1>2. ASSUME call[c] # "idle"
      PROVE  /\ \A k \in Callbacks : launched[k] = 0
             /\ \A d \in Callers : d # c => call[d] = "idle"
             /\ keyPc = "idle"
  BY <1>2 DEF TypeOK, Following, OneAtATime
<1>3. ASSUME call[c] # "idle", call' = [call EXCEPT ![c] = call'[c]], launched' = launched,
             keyPc' = keyPc
      PROVE  OneAtATime' /\ (launched["panic"] = 0 /\ launched["recover"] = 0)
  BY <1>2, <1>3 DEF GateTyped, OneAtATime, Callbacks
<1>4. CASE CallPanicAll(c)
  <2>1. call[c] = "PanicAll" /\ call'[c] = "UnseedAll" /\ held' /\ panicked /\ panicked' = panicked
    BY <1>4 DEF CallPanicAll, CallGoes, PanicFlag, GateTyped, Following, OfTheVerdict, vars
  <2>2. OneAtATime' /\ launched["panic"] = 0 /\ launched["recover"] = 0
    BY <1>3, <1>4, <2>1 DEF CallPanicAll, CallGoes, ui, vars
  <2>3. OfTheVerdict'
    BY <1>2, <1>4, <2>1, <2>2 DEF CallPanicAll, CallGoes, GateTyped, OfTheVerdict, vars
  <2> QED BY <2>1, <2>2, <2>3 DEF Following, LeftAsJudged, CallbacksDone
<1>5. CASE CallResumeAll(c)
  <2>1. call[c] = "ResumeAll" /\ call'[c] = "ReseedAll" /\ ~held' /\ ~panicked /\ panicked' = panicked
    BY <1>5 DEF CallResumeAll, CallGoes, ResumeFlag, GateTyped, Following, OfTheVerdict, vars
  <2>2. OneAtATime' /\ launched["panic"] = 0 /\ launched["recover"] = 0
    BY <1>3, <1>5, <2>1 DEF CallResumeAll, CallGoes, ui, vars
  <2>3. OfTheVerdict'
    BY <1>2, <1>5, <2>1, <2>2 DEF CallResumeAll, CallGoes, GateTyped, OfTheVerdict, vars
  <2> QED BY <2>1, <2>2, <2>3 DEF Following, LeftAsJudged, CallbacksDone
<1>6. CASE CallUnseedAll(c) \/ CallReseedAll(c)
  <2>1. /\ call[c] # "idle" /\ call' = [call EXCEPT ![c] = "idle"] /\ (held <=> panicked)
        /\ launched' = launched /\ keyPc' = keyPc /\ panicked' = panicked /\ held' = held
    BY <1>6 DEF CallUnseedAll, CallReseedAll, CallGoes, Following, OfTheVerdict, flag, ui, vars
  <2>2. OneAtATime' /\ launched["panic"] = 0 /\ launched["recover"] = 0
    BY <1>3, <2>1 DEF GateTyped
  <2>3. OfTheVerdict'
    BY <1>2, <2>1, <2>2 DEF GateTyped, OfTheVerdict
  <2> QED BY <2>1, <2>2, <2>3 DEF Following, LeftAsJudged
<1> QED BY <1>1, <1>4, <1>5, <1>6 DEF Callback

\* The event loop of the terminal UI, with a key that waits for the callbacks.
LEMMA KeysFollow ==
  ASSUME TypeOK, GateTyped, Following, Prompt, UI
  PROVE  Following'
<1> USE DEF flag, ui
<1>1. CASE Fetch \/ DataMsg \/ KeyOpensPicker \/ KeyPicks \/ KeyUnseeds \/ KeyReseeds
  <2>1. /\ launched' = launched /\ panicked' = panicked
        /\ call' = call /\ held' = held /\ setBy' = setBy
    BY <1>1 DEF Fetch, DataMsg, KeyOpensPicker, KeyPicks, KeyUnseeds, KeyReseeds, vars
  <2>2. keyPc' = keyPc \/ keyPc' = "idle"
    BY <1>1 DEF Fetch, DataMsg, KeyOpensPicker, KeyPicks, KeyUnseeds, KeyReseeds
  <2> QED BY <2>1, <2>2, SameFlightKeeps DEF SameFlight
<1>2. CASE KeyPanics \/ KeyResumes
  <2>1. CallbacksDone /\ launched' = launched /\ call' = call /\ setBy' = "key"
    BY <1>2 DEF TakesPanicKey, KeyPanics, KeyResumes, vars
  <2>2. /\ \A k \in Callbacks : launched'[k] = 0
        /\ \A c \in Callers : call'[c] = "idle"
    BY <2>1 DEF CallbacksDone
  <2>3. OneAtATime' /\ OfTheVerdict'
    BY <2>2 DEF OneAtATime, OfTheVerdict, Callbacks
  <2> QED BY <2>1, <2>3 DEF Following, LeftAsJudged
<1> QED BY <1>1, <1>2 DEF UI

(* Once everything that a verdict launched has returned, the manager holds *)
(* the downloads exactly when the monitor is in panic mode, unless the     *)
(* panic key had the last word, provided that callbacks return before the  *)
(* next verdict or key press (main.go's SetPanicFunc and SetRecoverFunc;   *)
(* evaluate, which starts them with go and waits for nothing).             *)
THEOREM ManagerFollows == Prompt => (GateSpec => []ManagerFollowsMonitor)
<1> SUFFICES ASSUME Prompt PROVE GateSpec => []ManagerFollowsMonitor
  OBVIOUS
<1>1. GateInit => GateTyped /\ Following
  <2> SUFFICES ASSUME GateInit PROVE GateTyped /\ Following
    OBVIOUS
  <2>1. \A k \in Callbacks : launched[k] = 0
    BY DEF GateInit, Init
  <2>2. ~held /\ ~panicked /\ \A c \in Callers : call[c] = "idle"
    BY DEF GateInit, Init
  <2>3. GateTyped
    BY DEF GateInit, GateTyped, CallSteps
  <2>4. OneAtATime /\ OfTheVerdict
    BY <2>1, <2>2 DEF OneAtATime, OfTheVerdict, Callbacks
  <2> QED BY <2>2, <2>3, <2>4 DEF Following, LeftAsJudged
<1>2. IInv /\ GateTyped /\ Following /\ [GateNext]_gateVars => (GateTyped /\ Following)'
  <2> SUFFICES ASSUME IInv, GateTyped, Following, [GateNext]_gateVars
               PROVE  (GateTyped /\ Following)'
    OBVIOUS
  <2>1. TypeOK /\ GateTyped'
    BY GateTypedKept DEF IInv
  <2>2. ASSUME UNCHANGED gateVars PROVE SameFlight
    BY <2>2 DEF gateVars, vars, flag, ui, SameFlight
  <2>3. Following'
    BY <2>1, <2>2, MonitorFollows, CallbackFollows, KeysFollow, SameFlightKeeps DEF GateNext
  <2> QED BY <2>1, <2>3
<1>3. GateTyped /\ Following /\ IInv => ManagerFollowsMonitor
  BY DEF GateTyped, Following, LeftAsJudged, ManagerFollowsMonitor, Quiet, IInv, TypeOK
<1> QED
  BY <1>1, <1>2, <1>3, MonitorInvariant, PTL DEF GateSpec

=============================================================================
