----------------------------- MODULE VPNMonitor -----------------------------
(***************************************************************************)
(* The VPN monitor of internal/vpn/monitor.go: one goroutine that checks   *)
(* the tunnel on a ticker, decides from the outcomes whether panic mode    *)
(* holds, and launches the panic and recover callbacks, each in a          *)
(* goroutine of its own.  A check is four steps, since the interface test, *)
(* the traffic probe, the status update and the evaluation each take the   *)
(* lock (or no lock) separately, and the panic switch of the settings and  *)
(* the API's manual panic run between them.                                *)
(***************************************************************************)
EXTENDS Naturals

CONSTANTS
  FailureCap,   \* where the count of failures stops; the code only compares
                \* it with minFailuresToPanic
  MaxLaunched   \* callbacks of one kind launched and not yet started

\* How many cycles in a row must miss their probe before the tunnel is down.
EveryMiss == 1
minFailuresToPanic == 2

ASSUME MonitorAssumption ==
  /\ FailureCap \in Nat /\ FailureCap >= minFailuresToPanic
  /\ MaxLaunched \in Nat \ {0}

VARIABLES
  tunnel,               \* what the world does: "up" carries traffic, "dead"
                        \* has the interface but no traffic, "gone" neither
  consecutiveFailures,
  connected,            \* status.Connected
  panicEnabled,
  panicked,
  pc,                   \* where the checking goroutine is
  conclusion,           \* the connected argument update() was called with
  launched,             \* per callback, how many goroutines wait to start
  outcomes,             \* history: how the last check and the one before it ended
  engagedBy             \* history: what engaged the panic mode in force

world   == tunnel
checker == <<consecutiveFailures, connected, pc, conclusion, outcomes>>
guard   == <<panicEnabled, panicked, launched, engagedBy>>
vars    == <<tunnel, consecutiveFailures, connected, panicEnabled, panicked,
             pc, conclusion, launched, outcomes, engagedBy>>

Callbacks == {"panic", "recover"}
Outcomes  == {"hit", "miss", "gone"}

TypeOK ==
  /\ tunnel \in {"up", "dead", "gone"}
  /\ consecutiveFailures \in 0 .. FailureCap
  /\ connected \in BOOLEAN
  /\ panicEnabled \in BOOLEAN
  /\ panicked \in BOOLEAN
  /\ pc \in {"idle", "probe", "update", "evaluate"}
  /\ conclusion \in BOOLEAN
  /\ launched \in [Callbacks -> 0 .. MaxLaunched]
  /\ outcomes \in [last : Outcomes, before : Outcomes]
  /\ engagedBy \in {"nobody", "check", "manual"}

Init ==
  /\ tunnel \in {"up", "dead", "gone"}
  /\ consecutiveFailures = 0
  /\ connected = FALSE
  /\ panicEnabled \in BOOLEAN
  /\ panicked = FALSE
  /\ pc = "idle"
  /\ conclusion = FALSE
  /\ launched = [c \in Callbacks |-> 0]
  /\ outcomes = [last |-> "hit", before |-> "hit"]
  /\ engagedBy = "nobody"

-----------------------------------------------------------------------------
(* The world and the other goroutines                                      *)

TunnelChanges ==
  /\ tunnel' \in {"up", "dead", "gone"} \ {tunnel}
  /\ UNCHANGED <<checker, guard>>

SetPanicEnabled ==
  /\ panicEnabled' = ~panicEnabled
  /\ UNCHANGED <<world, checker, panicked, launched, engagedBy>>

Launch(c) ==
  /\ launched[c] < MaxLaunched
  /\ launched' = [launched EXCEPT ![c] = @ + 1]

ManualPanic ==
  /\ ~panicked
  /\ panicked' = TRUE
  /\ engagedBy' = "manual"
  /\ Launch("panic")
  /\ UNCHANGED <<world, checker, panicEnabled>>

\* A launched goroutine starts running the callback it was given.
CallbackStarts(c) ==
  /\ launched[c] > 0
  /\ launched' = [launched EXCEPT ![c] = @ - 1]
  /\ UNCHANGED <<world, checker, panicEnabled, panicked, engagedBy>>

-----------------------------------------------------------------------------
(* One check                                                               *)

NotCounted(n) == n
OneMore(n) == IF n < FailureCap THEN n + 1 ELSE n

\* A first missed probe is only suspect: the tunnel still counts as connected.
OnlyTheSecond(n) == n # minFailuresToPanic
Suspect(n) == n < minFailuresToPanic

\* update(c, ...) is called next, after a check that ended in outcome o.
Concludes(o, c) ==
  /\ outcomes' = [last |-> o, before |-> outcomes.last]
  /\ conclusion' = c
  /\ pc' = "update"

InterfaceGone ==
  /\ pc = "idle"
  /\ tunnel = "gone"
  /\ consecutiveFailures' = OneMore(consecutiveFailures)
  /\ Concludes("gone", FALSE)
  /\ UNCHANGED <<world, connected, guard>>

InterfaceUp ==
  /\ pc = "idle"
  /\ tunnel # "gone"
  /\ pc' = "probe"
  /\ UNCHANGED <<world, consecutiveFailures, connected, conclusion, outcomes, guard>>

ProbeHit ==
  /\ pc = "probe"
  /\ tunnel = "up"
  /\ consecutiveFailures' = 0
  /\ Concludes("hit", TRUE)
  /\ UNCHANGED <<world, connected, guard>>

ProbeMiss ==
  /\ pc = "probe"
  /\ tunnel # "up"
  /\ consecutiveFailures' = OneMore(consecutiveFailures)
  /\ Concludes("miss", Suspect(consecutiveFailures'))
  /\ UNCHANGED <<world, connected, guard>>

Update ==
  /\ pc = "update"
  /\ connected' = conclusion
  /\ pc' = "evaluate"
  /\ UNCHANGED <<world, consecutiveFailures, conclusion, outcomes, guard>>

MustEngage  == ~conclusion /\ panicEnabled /\ ~panicked
ReleaseWhileEnabled == conclusion /\ panicked /\ panicEnabled
MustRelease == conclusion /\ panicked

Engage ==
  /\ pc = "evaluate" /\ MustEngage
  /\ panicked' = TRUE
  /\ engagedBy' = "check"
  /\ Launch("panic")
  /\ pc' = "idle"
  /\ UNCHANGED <<world, consecutiveFailures, connected, conclusion, outcomes, panicEnabled>>

Release ==
  /\ pc = "evaluate" /\ MustRelease
  /\ panicked' = FALSE
  /\ engagedBy' = "nobody"
  /\ Launch("recover")
  /\ pc' = "idle"
  /\ UNCHANGED <<world, consecutiveFailures, connected, conclusion, outcomes, panicEnabled>>

NoVerdict ==
  /\ pc = "evaluate" /\ ~MustEngage /\ ~MustRelease
  /\ pc' = "idle"
  /\ UNCHANGED <<world, consecutiveFailures, connected, conclusion, outcomes, guard>>

Check ==
  \/ InterfaceGone \/ InterfaceUp \/ ProbeHit \/ ProbeMiss
  \/ Update \/ Engage \/ Release \/ NoVerdict

Next ==
  \/ TunnelChanges
  \/ SetPanicEnabled
  \/ ManualPanic
  \/ \E c \in Callbacks : CallbackStarts(c)
  \/ Check

\* The ticker keeps the checking goroutine going and the runtime starts every
\* goroutine; nothing makes the world or the user act.
Fairness ==
  /\ WF_vars(Check)
  /\ \A c \in Callbacks : WF_vars(CallbackStarts(c))

Spec == Init /\ [][Next]_vars /\ Fairness

-----------------------------------------------------------------------------
(* Properties                                                              *)

Engages  == ~panicked /\ panicked'
Releases == panicked /\ ~panicked'

\* A single missed probe never engages panic mode: a check engages it only
\* when it found the interface gone, or when it and the check before it both
\* failed (minFailuresToPanic: "a single transient echo blip must not park
\* every download").
EngageNeedsTwoFailures ==
  [][Engages /\ engagedBy' = "check" =>
       \/ outcomes.last = "gone"
       \/ outcomes.last = "miss" /\ outcomes.before # "hit"]_vars

\* A panic that a check engaged is released only by a check whose probe got
\* through: the one-cycle grace for a missed probe never counts as recovery,
\* because the failures that engaged the panic are still being counted.
CheckPanicReleasedByHit ==
  [][Releases /\ engagedBy = "check" => outcomes.last = "hit"]_vars

\* What makes the release safe: while a check's panic is in force and no
\* probe has got through, at least one failure is on the count.
FailureOnRecord ==
  engagedBy = "check" =>
    \/ consecutiveFailures > 0
    \/ outcomes.last = "hit"

=============================================================================
