------------------------------- MODULE Delivery -------------------------------
(***************************************************************************)
(* What happens to one torrent's files from download to delivery: the      *)
(* completion pass of main.go (completeTorrent: stage, scan, decide,       *)
(* relocate, record, drop), the event loop's scan on the fly, and what the *)
(* user, panic mode and a restart do meanwhile.  A pass holds no lock, so  *)
(* each of its calls is a step.  The scan of one file is three steps: the  *)
(* engines read it, the verdict is recorded, a threat is isolated.         *)
(* Every file of the torrent is selected, and scan_on_completion is on;    *)
(* what an engine combination concludes is module ScanVerdict's.           *)
(***************************************************************************)
EXTENDS Naturals, FiniteSets

CONSTANTS
  Files,
  Passes,        \* goroutines that may be inside completeTorrent
  EventLoop,     \* the goroutine that scans on the fly
  OnTheFly,      \* cfg.ScanOnTheFly
  MovesFail,     \* a rename may fail
  EnginesFail,   \* a scan may end without a verdict
  Interrupts,    \* what the user and panic mode do: "cancel", "pause"
  MaxAdds,       \* how often the torrent is added or resumed
  MaxRestarts    \* how often the program is killed and started again

ASSUME DeliveryAssumption ==
  /\ EventLoop \notin Passes
  /\ {OnTheFly, MovesFail, EnginesFail} \subseteq BOOLEAN
  /\ Interrupts \subseteq {"cancel", "pause"}
  /\ {MaxAdds, MaxRestarts} \subseteq Nat

VARIABLES
  infected,    \* the files with something in them; the engines find it or fail
  live,        \* m.torrents has the torrent
  got,         \* files the client has every piece of
  copy,        \* per directory and file: "no", "part" or "whole"
  disturbed,   \* history: a rename failed, or a deletion removed files
  verdict,     \* m.fileScans
  signalled,   \* m.wasComplete
  processed,   \* the session's completion gate
  record,      \* the torrent's entry in the state store
  adding,      \* the registration: none, still owing onAdd, or watched
  cancelling,  \* what is left of a Cancel
  boot,        \* what is left of the start-up
  pc,          \* per pass and for the event loop, the next step
  todo,        \* per pass, the files its current loop has not visited
  inHand,      \* per actor, the file it is scanning, if any
  outcome,     \* per actor, what the engines made of it; per pass, the summary
  adds, restarts,
  reentered    \* history: registered while work on an earlier registration went on

lasting == <<infected, reentered>>
client == <<live, got, signalled>>
disk   == <<copy, disturbed>>
scan   == <<verdict, inHand, outcome>>
life   == <<adding, cancelling, boot, adds, restarts>>
vars   == <<infected, live, got, disk, verdict, signalled, processed, record,
            adding, cancelling, boot, pc, todo, inHand, outcome, adds, restarts, reentered>>

Actors   == Passes \union {EventLoop}
Dirs     == {"download", "scanning", "clean", "quarantine"}
Verdicts == {"none", "unscanned", "clean", "threat"}
Summaries == {"", "unscanned", "clean", "threats_found"}
Steps    == {"idle", "gate", "check", "stage", "scan", "read", "note", "isolate",
             "summary", "relocate", "store", "drop"}
Records  == [state : {"none", "downloading", "complete"}, result : Summaries]

TypeOK ==
  /\ infected \subseteq Files
  /\ live \in BOOLEAN
  /\ got \subseteq Files
  /\ copy \in [Dirs -> [Files -> {"no", "part", "whole"}]]
  /\ disturbed \in BOOLEAN
  /\ verdict \in [Files -> Verdicts]
  /\ signalled \in BOOLEAN
  /\ processed \in BOOLEAN
  /\ record \in Records
  /\ adding \in {"no", "onAdd", "watched"}
  /\ cancelling \in {"no", "remove", "forget"}
  /\ boot \in {"restore", "reprocess", "done"}
  /\ pc \in [Actors -> Steps]
  /\ todo \in [Actors -> SUBSET Files]
  /\ inHand \in [Actors -> SUBSET Files]
  /\ outcome \in [Actors -> Verdicts \union Summaries]
  /\ adds \in 0 .. MaxAdds
  /\ restarts \in 0 .. MaxRestarts
  /\ reentered \in BOOLEAN

NoRecord == [state |-> "none", result |-> ""]

Init ==
  /\ infected \in SUBSET Files
  /\ live = FALSE /\ got = {} /\ signalled = FALSE
  /\ copy = [d \in Dirs |-> [f \in Files |-> "no"]]
  /\ disturbed = FALSE
  /\ verdict = [f \in Files |-> "none"]
  /\ processed = FALSE
  /\ record = NoRecord
  /\ adding = "no" /\ cancelling = "no" /\ boot = "done"
  /\ pc = [a \in Actors |-> "idle"]
  /\ todo = [a \in Actors |-> {}]
  /\ inHand = [a \in Actors |-> {}]
  /\ outcome = [a \in Actors |-> "none"]
  /\ adds = 0 /\ restarts = 0
  /\ reentered = FALSE

-----------------------------------------------------------------------------
(* Files                                                                   *)

In(d, f) == copy[d][f] # "no"

\* os.Rename of one file from directory a to directory b.
Move(f, a, b) ==
  /\ copy' = [copy EXCEPT ![a][f] = "no", ![b][f] = copy[a][f]]
  /\ UNCHANGED disturbed

-----------------------------------------------------------------------------
(* The torrent: register, download, pause or panic, cancel                 *)

\* register(): what is whole at the download root need not be fetched again.
Register ==
  /\ adding = "no"
  /\ live' = TRUE
  /\ got' = {f \in Files : copy["download"][f] = "whole"}
  /\ signalled' = FALSE
  /\ adding' = "onAdd"
  /\ reentered' = (reentered \/ \E a \in Actors : pc[a] # "idle")

AddedAgain ==
  /\ boot = "done" /\ ~live
  /\ adds < MaxAdds
  /\ adds' = adds + 1
  /\ Register
  /\ UNCHANGED <<infected, disk, scan, processed, record, cancelling, boot, pc, todo, restarts>>

\* The onAdd callback of main.go, and then the watch goroutine.
GateStaysTaken == processed
GateAfterAdd   == FALSE

OnAdd ==
  /\ adding = "onAdd"
  /\ adding' = IF live THEN "watched" ELSE "no"
  /\ processed' = GateAfterAdd
  /\ record' = [state |-> "downloading", result |-> ""]
  /\ UNCHANGED <<lasting, client, disk, scan, cancelling, boot, pc, todo, adds, restarts>>

Arrives(f) ==
  /\ live /\ f \notin got
  /\ copy["download"][f] = "no"
  /\ copy' = [copy EXCEPT !["download"][f] = "part"]
  /\ UNCHANGED <<lasting, client, disturbed, scan, processed, record, life, pc, todo>>

Finishes(f) ==
  /\ live /\ f \notin got
  /\ copy["download"][f] = "part"
  /\ copy' = [copy EXCEPT !["download"][f] = "whole"]
  /\ got' = got \union {f}
  /\ UNCHANGED <<lasting, live, signalled, disturbed, scan, processed, record, life, pc, todo>>

\* The torrent leaves m.torrents, and its watch goroutine ends.
Drops ==
  /\ live' = FALSE
  /\ got' = {}
  /\ adding' = IF adding = "watched" THEN "no" ELSE adding

PauseOrPanic ==
  /\ "pause" \in Interrupts
  /\ live
  /\ Drops
  /\ UNCHANGED <<lasting, signalled, disk, scan, processed, record, cancelling, boot, pc, todo,
                 adds, restarts>>

\* The delete key: Cancel, which removes the files after it has released the
\* lock, and then the store's Delete.
Cancel ==
  /\ "cancel" \in Interrupts
  /\ live /\ cancelling = "no"
  /\ Drops
  /\ cancelling' = "remove"
  /\ UNCHANGED <<lasting, signalled, disk, scan, processed, record, boot, pc, todo, adds, restarts>>

RemovePaths ==
  /\ cancelling = "remove"
  /\ cancelling' = "forget"
  /\ copy' = [copy EXCEPT !["download"] = [f \in Files |-> "no"],
                          !["scanning"] = [f \in Files |-> "no"]]
  /\ disturbed' = TRUE
  /\ UNCHANGED <<lasting, client, scan, processed, record, adding, boot, pc, todo, adds, restarts>>

Forget ==
  /\ cancelling = "forget"
  /\ cancelling' = "no"
  /\ record' = NoRecord
  /\ UNCHANGED <<lasting, client, disk, scan, processed, adding, boot, pc, todo, adds, restarts>>

-----------------------------------------------------------------------------
(* A killed program, and its next start-up                                 *)

Restart ==
  /\ restarts < MaxRestarts
  /\ restarts' = restarts + 1
  /\ live' = FALSE /\ got' = {} /\ signalled' = FALSE
  /\ verdict' = [f \in Files |-> "none"]
  /\ processed' = FALSE
  /\ adding' = "no" /\ cancelling' = "no" /\ boot' = "restore"
  /\ pc' = [a \in Actors |-> "idle"]
  /\ todo' = [a \in Actors |-> {}]
  /\ inHand' = [a \in Actors |-> {}]
  /\ outcome' = [a \in Actors |-> "none"]
  /\ UNCHANGED <<lasting, disk, record, adds>>

Relocated == record.state = "complete" /\ record.result # ""

Restore ==
  /\ boot = "restore"
  /\ record.state # "none" /\ ~Relocated
  /\ Register
  /\ boot' = "reprocess"
  /\ UNCHANGED <<infected, disk, scan, processed, record, cancelling, pc, todo, adds,
                 restarts>>

NothingToRestore ==
  /\ boot = "restore"
  /\ record.state = "none" \/ Relocated
  /\ boot' = "done"
  /\ UNCHANGED <<lasting, client, disk, scan, processed, record, adding, cancelling, pc, todo,
                 adds, restarts>>

\* A torrent whose metadata is known and that has any of its files in the
\* download root gets a pass of its own, complete or not.
Reprocess ==
  /\ boot = "reprocess" /\ adding # "onAdd"
  /\ boot' = "done"
  /\ \/ UNCHANGED pc
     \/ /\ live /\ (\E f \in Files : In("download", f))
        /\ \E p \in Passes : pc[p] = "idle" /\ pc' = [pc EXCEPT ![p] = "gate"]
  /\ UNCHANGED <<lasting, client, disk, scan, processed, record, adding, cancelling, todo,
                 adds, restarts>>

-----------------------------------------------------------------------------
(* completeTorrent                                                         *)

Goto(a, from, to) == pc[a] = from /\ pc' = [pc EXCEPT ![a] = to]

\* The watch goroutine sees the torrent complete for the first time.
Signal(p) ==
  /\ adding = "watched" /\ got = Files /\ ~signalled
  /\ signalled' = TRUE
  /\ Goto(p, "idle", "gate")
  /\ UNCHANGED <<lasting, live, got, disk, scan, processed, record, life, todo>>

AfterGate(taken) == IF taken THEN "idle" ELSE "check"

Gate(p) ==
  /\ Goto(p, "gate", AfterGate(processed))
  /\ processed' = TRUE
  /\ UNCHANGED <<lasting, client, disk, scan, record, life, todo>>

Complete == live /\ got = Files

CheckComplete(p) ==
  /\ Goto(p, "check", IF Complete THEN "stage" ELSE "idle")
  /\ todo' = [todo EXCEPT ![p] = IF Complete THEN Files ELSE {}]
  /\ UNCHANGED <<lasting, client, disk, scan, processed, record, life>>

\* MoveFiles, one file of its loop: what is not there is skipped.
MoveNext(p, a, b) ==
  \E f \in todo[p] :
    /\ todo' = [todo EXCEPT ![p] = @ \ {f}]
    /\ IF In(a, f) THEN Move(f, a, b) ELSE UNCHANGED disk

\* A rename that fails ends the loop; the pass logs it and goes on.
MoveFails(p, a) ==
  /\ MovesFail
  /\ \E f \in todo[p] : In(a, f)
  /\ disturbed' = TRUE
  /\ UNCHANGED copy

Stage(p) ==
  /\ pc[p] = "stage"
  /\ MoveNext(p, "download", "scanning")
  /\ UNCHANGED <<lasting, client, scan, processed, record, life, pc>>

Staged(p) ==
  /\ Goto(p, "stage", "scan")
  /\ \/ todo[p] = {} /\ UNCHANGED disk
     \/ MoveFails(p, "download")
  /\ todo' = [todo EXCEPT ![p] = Files]
  /\ UNCHANGED <<lasting, client, scan, processed, record, life>>

\* A file with a verdict is not scanned again, nor one that is not staged.
NeedsScan(f) == verdict[f] \in {"none", "unscanned"} /\ In("scanning", f)

PassScans(p) ==
  /\ pc[p] = "scan"
  /\ \E f \in todo[p] :
       /\ todo' = [todo EXCEPT ![p] = @ \ {f}]
       /\ IF NeedsScan(f)
          THEN /\ inHand' = [inHand EXCEPT ![p] = {f}]
               /\ pc' = [pc EXCEPT ![p] = "read"]
          ELSE UNCHANGED <<inHand, pc>>
  /\ UNCHANGED <<lasting, client, disk, verdict, outcome, processed, record, life>>

ScanDone(p) ==
  /\ Goto(p, "scan", "summary")
  /\ todo[p] = {}
  /\ UNCHANGED <<lasting, client, disk, scan, processed, record, life, todo>>

\* ScanSummary counts what is recorded, and only that.
CleanFirst(v) ==
  CASE "clean" \in v -> "clean"
    [] "threat" \in v -> "threats_found"
    [] "unscanned" \in v -> "unscanned"
    [] OTHER -> ""
ScanSummary(v) ==
  CASE "threat" \in v -> "threats_found"
    [] "threat" \notin v /\ "unscanned" \in v -> "unscanned"
    [] v \intersect {"threat", "unscanned"} = {} /\ "clean" \in v -> "clean"
    [] OTHER -> ""

Summarise(p) ==
  /\ Goto(p, "summary", "relocate")
  /\ outcome' = [outcome EXCEPT ![p] = ScanSummary({verdict[f] : f \in Files})]
  /\ todo' = [todo EXCEPT ![p] = Files]
  /\ UNCHANGED <<lasting, client, disk, verdict, inHand, processed, record, life>>

\* Where the staged files go; what is unscanned stays where it is.
Destination(p) == CASE outcome[p] = "threats_found" -> "quarantine"
                    [] outcome[p] = "clean"         -> "clean"
                    [] OTHER                        -> "scanning"

Relocate(p) ==
  /\ pc[p] = "relocate" /\ Destination(p) # "scanning"
  /\ MoveNext(p, "scanning", Destination(p))
  /\ UNCHANGED <<lasting, client, scan, processed, record, life, pc>>

RelocateDone(p) ==
  /\ Goto(p, "relocate", "store")
  /\ \/ (todo[p] = {} \/ Destination(p) = "scanning") /\ UNCHANGED disk
     \/ Destination(p) # "scanning" /\ MoveFails(p, "scanning")
  /\ todo' = [todo EXCEPT ![p] = {}]
  /\ UNCHANGED <<lasting, client, scan, processed, record, life>>

StoreComplete(p) ==
  /\ Goto(p, "store", IF outcome[p] = "" THEN "idle" ELSE "drop")
  /\ record' = [state |-> "complete", result |-> outcome[p]]
  /\ outcome' = [outcome EXCEPT ![p] = "none"]
  /\ UNCHANGED <<lasting, client, disk, verdict, inHand, processed, life, todo>>

\* DropCompleted drops whatever is registered under the id by now.
DropCompleted(p) ==
  /\ Goto(p, "drop", "idle")
  /\ IF live THEN Drops ELSE UNCHANGED <<live, got, adding>>
  /\ UNCHANGED <<lasting, signalled, disk, scan, processed, record, cancelling, boot, todo,
                 adds, restarts>>

-----------------------------------------------------------------------------
(* scanPath, called by a pass on the staged copy and by the event loop on  *)
(* the copy in the download root                                           *)

PlaceOf(a) == IF a = EventLoop THEN "download" ELSE "scanning"

\* A finished file without a verdict is picked on a progress event.
PickOnTheFly(f) ==
  /\ OnTheFly
  /\ live /\ f \in got
  /\ verdict[f] = "none" /\ In("download", f)
  /\ Goto(EventLoop, "idle", "read")
  /\ inHand' = [inHand EXCEPT ![EventLoop] = {f}]
  /\ UNCHANGED <<lasting, client, disk, verdict, outcome, processed, record, life, todo>>

\* What the engines may conclude of a copy of f: they fail on one that is not
\* there, and only a whole copy is sure to show what f is.
Truth(f) == IF f \in infected THEN "threat" ELSE "clean"

Conclusions(f, c) ==
  (IF EnginesFail \/ c = "no" THEN {"unscanned"} ELSE {})
    \union (IF c = "no" THEN {} ELSE {Truth(f)})
    \union (IF c = "part" THEN {"clean"} ELSE {})

ReadFile(a) ==
  /\ Goto(a, "read", "note")
  /\ \E f \in inHand[a] :
       \E v \in Conclusions(f, copy[PlaceOf(a)][f]) : outcome' = [outcome EXCEPT ![a] = v]
  /\ UNCHANGED <<lasting, client, disk, verdict, inHand, processed, record, life, todo>>

AfterScan(a) == IF a = EventLoop THEN "idle" ELSE "scan"

RecordFileScan(a) ==
  /\ Goto(a, "note", IF outcome[a] = "threat" THEN "isolate" ELSE AfterScan(a))
  /\ \E f \in inHand[a] : verdict' = [verdict EXCEPT ![f] = outcome[a]]
  /\ inHand' = IF outcome[a] = "threat" THEN inHand ELSE [inHand EXCEPT ![a] = {}]
  /\ outcome' = [outcome EXCEPT ![a] = "none"]
  /\ UNCHANGED <<lasting, client, disk, processed, record, life, todo>>

\* A threat is isolated under its base name alone, over what another file of that
\* name left there.  A rename that fails is logged, and the file stays.
Isolated(f, dir, over) ==
  [copy EXCEPT ![dir][f] = "no",
               !["quarantine"] = [g \in Files |-> CASE g = f    -> copy[dir][f]
                                                    [] g \in over -> "no"
                                                    [] OTHER     -> copy["quarantine"][g]]]

Quarantine(a) ==
  /\ Goto(a, "isolate", AfterScan(a))
  /\ \E f \in inHand[a] :
       \/ (MovesFail \/ ~In(PlaceOf(a), f)) /\ UNCHANGED copy
       \/ /\ In(PlaceOf(a), f)
          /\ \E namesakes \in SUBSET (Files \ {f}) : copy' = Isolated(f, PlaceOf(a), namesakes)
  /\ inHand' = [inHand EXCEPT ![a] = {}]
  /\ UNCHANGED <<lasting, client, disturbed, verdict, outcome, processed, record, life, todo>>

-----------------------------------------------------------------------------

Scan(a) == ReadFile(a) \/ RecordFileScan(a) \/ Quarantine(a)

Pass(p) ==
  \/ Gate(p) \/ CheckComplete(p) \/ Stage(p) \/ Staged(p) \/ PassScans(p) \/ ScanDone(p)
  \/ Summarise(p) \/ Relocate(p) \/ RelocateDone(p) \/ StoreComplete(p) \/ DropCompleted(p)

StartUp == Restore \/ NothingToRestore \/ Reprocess

Next ==
  \/ AddedAgain \/ OnAdd \/ PauseOrPanic \/ Cancel \/ RemovePaths \/ Forget
  \/ Restart \/ StartUp
  \/ \E f \in Files : Arrives(f) \/ Finishes(f) \/ PickOnTheFly(f)
  \/ \E p \in Passes : Signal(p) \/ Pass(p)
  \/ \E a \in Actors : Scan(a)

Fairness ==
  /\ WF_vars(OnAdd) /\ WF_vars(RemovePaths \/ Forget) /\ WF_vars(StartUp)
  /\ WF_vars(\E p \in Passes : Signal(p))
  /\ \A p \in Passes : WF_vars(Pass(p))
  /\ \A a \in Actors : WF_vars(Scan(a))

Spec == Init /\ [][Next]_vars /\ Fairness

-----------------------------------------------------------------------------
(* Properties                                                              *)

\* Nothing infected is ever in clean/: what is moved there has been scanned, the
\* copy that was scanned is the copy that is moved, and no verdict on one file
\* releases another.
CleanIsVetted == \A f \in infected : ~In("clean", f)

\* That is so whatever is scanned on the fly at the same time, paused, deleted or
\* killed, and however often the torrent is added again, with one exception: it
\* is registered anew while a pass or a scan of its earlier registration is at
\* work.
VettedUnlessReentered == ~reentered => CleanIsVetted

\* A record that says complete and clean is the record of files that all lie
\* whole in clean/: whatever was killed, paused or scanned meanwhile, nothing is
\* left behind, unscanned, in another directory.  A rename that fails, which
\* the pass only logs, is an exception, and so are a deletion and the one above.
CleanRecordIsDelivered ==
  ~reentered /\ ~disturbed /\ record = [state |-> "complete", result |-> "clean"]
    => \A f \in Files : copy["clean"][f] = "whole"

\* A torrent whose download is complete is delivered and leaves the list:
\* whatever became of an earlier pass, its completion gets a pass of its own.
CompleteIsDelivered == Complete ~> ~live

=============================================================================
