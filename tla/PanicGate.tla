------------------------------ MODULE PanicGate ------------------------------
(***************************************************************************)
(* Panic mode across the program: the VPN monitor (module VPNMonitor) with *)
(* the callbacks main.go gives it, and the panic key of the terminal UI,   *)
(* which works on the download manager directly and from what it last saw. *)
(* Nothing orders the goroutines the monitor launches: a recover callback  *)
(* may run after the panic callback launched later.  The manager is        *)
(* reduced to its panic flag (module TorrentManager has the rest of        *)
(* PanicAll and ResumeAll), the seeding client to whether it has seeds:    *)
(* module Seeding has what else starts and stops them.  Of the screen      *)
(* there is what the key goes by: the refreshes, as one that is alive or   *)
(* not, and the file picker, which ends them and takes the keys (module    *)
(* Screen has every refresh on its own, and the loading screen).           *)
(***************************************************************************)
EXTENDS VPNMonitor

CONSTANTS
  Callers,    \* goroutines that can be inside a callback at once
  Prompt,     \* what sets the manager's flag does not overlap
  PanicKey    \* somebody uses the panic key of the terminal UI

VARIABLES
  held,          \* the manager's m.panicked: nothing is downloaded
  setBy,         \* history: what set it last
  seeding,       \* the seeding client has seeds registered
  call,          \* per caller, the callback step it takes next
  keyPc,         \* what is left of a key press
  shownPanic,    \* the UI's m.panic
  shownUp,       \* the UI's m.vpn.Connected
  picking,       \* the file picker is open
  fetched        \* the refresh: due, the VPN status its dataMsg carries, or off

ui   == <<keyPc, shownPanic, shownUp, picking, fetched>>
flag == <<held, setBy>>
gateVars == <<vars, flag, seeding, call, ui>>

CallSteps == {"idle", "PanicAll", "UnseedAll", "ResumeAll", "ReseedAll"}

GateTypeOK ==
  /\ TypeOK
  /\ held \in BOOLEAN
  /\ setBy \in {"callback", "key"}
  /\ seeding \in BOOLEAN
  /\ call \in [Callers -> CallSteps]
  /\ keyPc \in {"idle", "UnseedAll", "ReseedAll"}
  /\ shownPanic \in BOOLEAN
  /\ shownUp \in BOOLEAN
  /\ picking \in BOOLEAN
  /\ fetched \in {"due", "up", "down", "off"}

\* Start-up reseeds and restores before the UI comes up.
GateInit ==
  /\ Init
  /\ held = FALSE /\ setBy = "callback"
  /\ seeding \in BOOLEAN
  /\ call = [c \in Callers |-> "idle"]
  /\ keyPc = "idle"
  /\ shownPanic = FALSE
  /\ shownUp = FALSE
  /\ picking = FALSE
  /\ fetched = "due"

-----------------------------------------------------------------------------
(* The monitor                                                             *)

CallbacksDone ==
  /\ \A k \in Callbacks : launched[k] = 0
  /\ \A c \in Callers : call[c] = "idle"

\* No callback is waiting or running, and no key press is half done.
Quiet == CallbacksDone /\ keyPc = "idle"

\* When Prompt says so, a verdict or a key press is assumed to find what the
\* one before it set off done.
Verdict ==
  /\ Prompt => Quiet
  /\ Engage \/ Release \/ ManualPanic

MonitorSteps ==
  \/ Verdict
  \/ TunnelChanges \/ SetPanicEnabled
  \/ InterfaceGone \/ InterfaceUp \/ ProbeHit
  \/ ProbeMiss \/ Update \/ NoVerdict

MonitorActs == MonitorSteps /\ UNCHANGED <<flag, seeding, call, ui>>

-----------------------------------------------------------------------------
(* The callbacks                                                           *)

FirstStep(k) == IF k = "panic" THEN "PanicAll" ELSE "ResumeAll"

Begin(c, k) ==
  /\ call[c] = "idle"
  /\ CallbackStarts(k)
  /\ call' = [call EXCEPT ![c] = FirstStep(k)]
  /\ UNCHANGED <<flag, seeding, ui>>

CallGoes(c, from, to) == call[c] = from /\ call' = [call EXCEPT ![c] = to]

\* What PanicAll and ResumeAll leave the flag at.
KeepsFlag == held
PanicFlag  == TRUE
ResumeFlag == FALSE

CallPanicAll(c) ==
  /\ CallGoes(c, "PanicAll", "UnseedAll")
  /\ held' = PanicFlag /\ setBy' = "callback"
  /\ UNCHANGED <<vars, seeding, ui>>

StillSeeding == seeding
Drained      == FALSE

CallUnseedAll(c) ==
  /\ CallGoes(c, "UnseedAll", "idle")
  /\ seeding' = Drained
  /\ UNCHANGED <<vars, flag, ui>>

CallResumeAll(c) ==
  /\ CallGoes(c, "ResumeAll", "ReseedAll")
  /\ held' = ResumeFlag /\ setBy' = "callback"
  /\ UNCHANGED <<vars, seeding, ui>>

\* Something marked may or may not be there to seed.
CallReseedAll(c) ==
  /\ CallGoes(c, "ReseedAll", "idle")
  /\ seeding' \in {seeding, TRUE}
  /\ UNCHANGED <<vars, flag, ui>>

Callback(c) ==
  \/ \E k \in Callbacks : Begin(c, k)
  \/ CallPanicAll(c) \/ CallUnseedAll(c) \/ CallResumeAll(c) \/ CallReseedAll(c)

-----------------------------------------------------------------------------
(* The terminal UI: one event loop, refreshed by messages                  *)

Fetch ==
  /\ fetched = "due"
  /\ fetched' = IF connected THEN "up" ELSE "down"
  /\ UNCHANGED <<vars, flag, seeding, call, keyPc, shownPanic, shownUp, picking>>

\* What a refresh sets the banner to.
OldBanner == shownPanic
Banner    == held

\* The message asks for the next refresh, except one that opens the picker for a
\* torrent that awaits its file choice: then, unless another is alive, it ends.
DataMsg ==
  /\ keyPc = "idle"
  /\ fetched \in {"up", "down"}
  /\ shownUp' = (fetched = "up")
  /\ shownPanic' = Banner
  /\ \/ fetched' = "due" /\ UNCHANGED picking
     \/ ~picking /\ picking' = TRUE /\ fetched' \in {"due", "off"}
  /\ UNCHANGED <<vars, flag, seeding, call, keyPc>>

KeyOpensPicker ==
  /\ keyPc = "idle" /\ ~picking
  /\ picking' = TRUE
  /\ UNCHANGED <<vars, flag, seeding, call, keyPc, shownPanic, shownUp, fetched>>

\* Both keys that close the picker start a refresh.
KeyPicks ==
  /\ keyPc = "idle" /\ picking
  /\ picking' = FALSE
  /\ fetched' = IF fetched = "off" THEN "due" ELSE fetched
  /\ UNCHANGED <<vars, flag, seeding, call, keyPc, shownPanic, shownUp>>

\* The event loop is free for the panic key, and the picker does not take it.
TakesPanicKey ==
  /\ PanicKey /\ (Prompt => CallbacksDone)
  /\ keyPc = "idle" /\ ~picking

KeyPanics ==
  /\ TakesPanicKey
  /\ ~shownPanic
  /\ held' = PanicFlag /\ setBy' = "key"
  /\ keyPc' = "UnseedAll"
  /\ UNCHANGED <<vars, seeding, call, shownPanic, shownUp, picking, fetched>>

KeyUnseeds ==
  /\ keyPc = "UnseedAll"
  /\ seeding' = Drained
  /\ shownPanic' = TRUE
  /\ keyPc' = "idle"
  /\ UNCHANGED <<vars, flag, call, shownUp, picking, fetched>>

KeyResumes ==
  /\ TakesPanicKey
  /\ shownPanic /\ shownUp
  /\ held' = ResumeFlag /\ setBy' = "key"
  /\ keyPc' = "ReseedAll"
  /\ UNCHANGED <<vars, seeding, call, shownPanic, shownUp, picking, fetched>>

KeyReseeds ==
  /\ keyPc = "ReseedAll"
  /\ seeding' \in {seeding, TRUE}
  /\ shownPanic' = FALSE
  /\ keyPc' = "idle"
  /\ UNCHANGED <<vars, flag, call, shownUp, picking, fetched>>

UI ==
  \/ Fetch \/ DataMsg \/ KeyOpensPicker \/ KeyPicks
  \/ KeyPanics \/ KeyUnseeds \/ KeyResumes \/ KeyReseeds

-----------------------------------------------------------------------------

GateNext ==
  \/ MonitorActs
  \/ \E c \in Callers : Callback(c)
  \/ UI

GateFairness ==
  /\ WF_gateVars(Check /\ MonitorActs)
  /\ \A c \in Callers : WF_gateVars(Callback(c))
  /\ WF_gateVars(KeyUnseeds \/ KeyReseeds)
  /\ WF_gateVars(Fetch) /\ WF_gateVars(DataMsg)

GateSpec == GateInit /\ [][GateNext]_gateVars /\ GateFairness

-----------------------------------------------------------------------------
(* Properties                                                              *)

\* The monitor and the manager agree: once everything launched has returned,
\* the manager holds the downloads exactly when the monitor is in panic mode,
\* unless the panic key had the last word.
ManagerFollowsMonitor == Quiet /\ setBy = "callback" => held = panicked

\* README.md: "auto-panic pauses all downloads when the tunnel drops".  Once
\* everything has returned, a panic that a check engaged means held downloads.
PanicHoldsDownloads == Quiet /\ panicEnabled /\ engagedBy = "check" => held

\* A tunnel that stays down with the guard on, and nobody at the panic key,
\* ends with the downloads held and, unless somebody starts one anew (module
\* Seeding), the seeds gone.
DownHolds ==
  <>[](tunnel # "up" /\ panicEnabled /\ setBy = "callback") => <>[](held /\ ~seeding)

\* A tunnel that stays up ends with the downloads released.
UpReleases == <>[](tunnel = "up" /\ setBy = "callback") => []<>~held

\* The banner of the terminal UI settles on the manager's panic flag, whoever
\* set it: a refresh that was under way when the key was pressed does not leave
\* the old banner behind, and the refreshes that the file picker ends begin again
\* when it closes.  Only a picker that stays open for good leaves it as it was.
BannerSettles ==
  \/ <>[]picking
  \/ /\ <>[]held => <>[]shownPanic
     /\ <>[](~held /\ keyPc = "idle") => <>[]~shownPanic

=============================================================================
