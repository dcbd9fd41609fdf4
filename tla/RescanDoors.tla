---------------------------- MODULE RescanDoors ----------------------------
(***************************************************************************)
(* Who starts a re-scan, and how its end gets back to who asked            *)
(* (tui.go, internal/api/web.go).                                          *)
(*                                                                         *)
(* The history page starts a goroutine that puts the outcome in a channel, *)
(* and a command that looks into the channel four times a second.  Between *)
(* two looks the command comes back as a message and is issued anew on the *)
(* channel the screen has by then; it stops when the screen shows no scan  *)
(* any more.  An error of any command at all clears what the screen shows. *)
(*                                                                         *)
(* A web page starts one by a request that only marks it as running, and   *)
(* asks again until it is over.  Neither side knows of the other; what two *)
(* scans do to the same files is the subject of Rescan.                    *)
(***************************************************************************)
EXTENDS Naturals, FiniteSets

CONSTANTS
  Scans,  \* goroutines of the history page, with their channels: a bound
  Pumps,  \* looking commands: a bound
  Pages,  \* bound: goroutines of the web page
  NoScan

ASSUME NoScanIsNone == NoScan \notin Scans

VARIABLES
  scan,      \* per goroutine, whether it runs, and the outcome in its channel
  onScreen,  \* m.rescanningID and m.rescanDone
  pump,      \* per command, the channel it looks into and what it found
  gate,      \* rescanDone of the server, for the one download modelled
  webScans,  \* goroutines of the web page under way
  mislaid    \* history: an error of something else hid a scan, and what that
             \* scan left behind is not yet over

tui == <<scan, onScreen, pump, mislaid>>
web == <<gate, webScans>>
doors == <<tui, web>>

Asleep == [pc |-> "off", on |-> NoScan]

DoorsInit ==
  /\ scan = [s \in Scans |-> "none"]
  /\ onScreen = NoScan
  /\ pump = [p \in Pumps |-> Asleep]
  /\ gate = "none" /\ webScans = 0
  /\ mislaid = FALSE

-----------------------------------------------------------------------------
(* The history page                                                        *)

Running == {s \in Scans : scan[s] = "runs"}

\* A goroutine whose channel nobody looks into ends unheard.
Free(s) == scan[s] # "runs" /\ \A p \in Pumps : pump[p].on # s

RescanHistorySel(s, p) ==
  /\ onScreen = NoScan
  /\ Free(s) /\ pump[p] = Asleep
  /\ scan' = [scan EXCEPT ![s] = "runs"]
  /\ onScreen' = s
  /\ pump' = [pump EXCEPT ![p] = [pc |-> "looks", on |-> s]]
  /\ mislaid' = (mislaid /\ (Running # {} \/ \E q \in Pumps : pump[q] # Asleep))
  /\ UNCHANGED web

ScanEnds(s) ==
  /\ scan[s] = "runs"
  /\ \E outcome \in {"done", "failed"} : scan' = [scan EXCEPT ![s] = outcome]
  /\ UNCHANGED <<onScreen, pump, mislaid, web>>

\* The command takes the outcome out of the channel...
Finds(p) ==
  /\ pump[p].pc = "looks" /\ scan[pump[p].on] \in {"done", "failed"}
  /\ pump' = [pump EXCEPT ![p].pc = scan[pump[p].on]]
  /\ scan' = [scan EXCEPT ![pump[p].on] = "none"]
  /\ UNCHANGED <<onScreen, mislaid, web>>

\* ... or gives up after 250 ms: scanTickMsg.
ScanTick(p) ==
  /\ pump[p].pc = "looks"
  /\ pump' = [pump EXCEPT ![p] = IF onScreen = NoScan THEN Asleep
                                 ELSE [pc |-> "looks", on |-> onScreen]]
  /\ UNCHANGED <<scan, onScreen, mislaid, web>>

\* rescanMsg and errMsg: whichever scan is on the screen is taken off it.
OnlyWhenDone(outcome) == IF outcome = "done" THEN NoScan ELSE onScreen
Cleared(outcome) == NoScan

Reports(p) ==
  /\ pump[p].pc \in {"done", "failed"}
  /\ onScreen' = Cleared(pump[p].pc)
  /\ pump' = [pump EXCEPT ![p] = Asleep]
  /\ UNCHANGED <<scan, mislaid, web>>

\* errMsg of another command, such as an add.
OtherError ==
  /\ onScreen # NoScan
  /\ onScreen' = NoScan
  /\ mislaid' = TRUE
  /\ UNCHANGED <<scan, pump, web>>

-----------------------------------------------------------------------------
(* The web page                                                            *)

\* A request while it runs is turned down.
PostRescan ==
  /\ gate # "running" /\ webScans < Pages
  /\ gate' = "running"
  /\ webScans' = webScans + 1
  /\ UNCHANGED tui

\* The goroutine: a failure leaves no record.
WebScanEnds ==
  /\ webScans > 0
  /\ webScans' = webScans - 1
  /\ gate' \in {"done", "none"}
  /\ UNCHANGED tui

\* The end is reported once and forgotten.
ForgottenAtOnce == "none"
AfterGet == IF gate = "done" THEN "none" ELSE gate

GetRescan ==
  /\ gate # AfterGet
  /\ gate' = AfterGet
  /\ UNCHANGED <<webScans, tui>>

DoorsNext ==
  \/ \E s \in Scans, p \in Pumps : RescanHistorySel(s, p)
  \/ \E s \in Scans : ScanEnds(s)
  \/ \E p \in Pumps : Finds(p) \/ ScanTick(p) \/ Reports(p)
  \/ OtherError
  \/ PostRescan \/ WebScanEnds \/ GetRescan

DoorsSpec == DoorsInit /\ [][DoorsNext]_doors

-----------------------------------------------------------------------------

(* Through either door goes one scan at a time.  The web page's answer     *)
(* says that one runs exactly when one does, whatever it ended in and      *)
(* whoever asked; the history page starts none while one of its own is     *)
(* under way, unless an error of something else made it lose sight of it.  *)
OneScanPerDoor ==
  /\ webScans <= 1
  /\ gate = "running" <=> webScans > 0
  /\ ~mislaid => Cardinality(Running) <= 1

(* A scan that is over does not stay on the screen, where it would keep    *)
(* the next one from being started: whatever it ended in, and though       *)
(* errors of other commands and a second scan get in between.              *)
ScanIsReported == []<>(onScreen = NoScan \/ scan[onScreen] = "runs")

=============================================================================
