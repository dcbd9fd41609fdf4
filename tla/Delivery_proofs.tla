---------------------------- MODULE Delivery_proofs ----------------------------
(***************************************************************************)
(* What reaches clean/ is clean, and a record that says so is of files     *)
(* that all lie there: for any number of files and of passes, whatever is  *)
(* paused, deleted, added again or killed, and whichever rename or engine  *)
(* fails, as long as the torrent is not registered anew while a pass or a  *)
(* scan of its earlier registration is at work.                            *)
(*                                                                         *)
(* The completion gate lets one pass in at a time (OnePass).  While it     *)
(* works, and while the event loop has a file in hand, no copy they look   *)
(* at is partial (WholeCopies), so every recorded verdict is what the file *)
(* is (TrueVerdicts), and what a pass has visited and is still staged has  *)
(* a verdict when it adds them up (Vetted).  If in addition no rename      *)
(* failed and nothing was deleted, every file is where its pass left it,   *)
(* or it was caught (AllThere).                                            *)
(***************************************************************************)
EXTENDS Delivery, TLAPS

Scanning(p)   == pc[p] \in {"scan", "read", "note", "isolate", "summary"}
Delivering(p) == pc[p] \in {"relocate", "store"}

ActorsTyped ==
  /\ pc \in [Actors -> Steps]
  /\ todo \in [Actors -> SUBSET Files]
  /\ inHand \in [Actors -> SUBSET Files]
  /\ outcome \in [Actors -> Verdicts \union Summaries]
  /\ \A a \in Actors : pc[a] = "note" => outcome[a] \in Verdicts \ {"none"}
  /\ \A p \in Passes : Delivering(p) => outcome[p] \in Summaries

FilesTyped ==
  /\ copy \in [Dirs -> [Files -> {"no", "part", "whole"}]]
  /\ verdict \in [Files -> Verdicts]
  /\ record \in Records

RestTyped ==
  /\ infected \subseteq Files /\ got \subseteq Files
  /\ live \in BOOLEAN /\ disturbed \in BOOLEAN /\ signalled \in BOOLEAN
  /\ processed \in BOOLEAN /\ reentered \in BOOLEAN
  /\ adding \in {"no", "onAdd", "watched"}
  /\ cancelling \in {"no", "remove", "forget"}
  /\ boot \in {"restore", "reprocess", "done"}

CountersTyped == adds \in 0 .. MaxAdds /\ restarts \in 0 .. MaxRestarts

Typed == ActorsTyped /\ FilesTyped /\ RestTyped /\ CountersTyped

Started(p) == pc[p] \notin {"idle", "gate"}
Working(p) == pc[p] \notin {"idle", "gate", "check"}

OnePass ==
  /\ \A p, q \in Passes : Started(p) /\ Started(q) => p = q
  /\ \A p \in Passes : Started(p) => processed
  /\ adding = "onAdd" => \A p \in Passes : pc[p] = "idle"
  /\ pc[EventLoop] \in {"idle", "read", "note", "isolate"}

WholeCopies ==
  /\ ~live => got = {}
  /\ \A f \in got : copy["download"][f] # "part"
  /\ \A d \in Dirs \ {"download"} : \A f \in Files : copy[d][f] # "part"
  /\ \A p \in Passes : Working(p) => /\ live => got = Files
                                     /\ \A f \in Files : copy["download"][f] # "part"
  /\ pc[EventLoop] # "idle" => \A f \in inHand[EventLoop] : /\ copy["download"][f] # "part"
                                                            /\ live => f \in got

Shows(f, v) == (v = "clean" => f \notin infected) /\ (v = "threat" => f \in infected)
Caught(f)   == f \in infected /\ verdict[f] # "none"

TrueVerdicts ==
  /\ \A f \in Files : Shows(f, verdict[f])
  /\ \A a \in Actors : \A f, g \in inHand[a] : f = g
  /\ \A a \in Actors : \A f \in inHand[a] :
       /\ pc[a] = "note" => Shows(f, outcome[a])
       /\ pc[a] = "isolate" => Caught(f)

Visited(p, f) == f \notin todo[p] /\ (pc[p] \in {"read", "note"} => f \notin inHand[p])

PassVetted(p) ==
  /\ Scanning(p) => \A f \in Files : Visited(p, f) /\ In("scanning", f) => verdict[f] # "none"
  /\ pc[p] = "summary" => todo[p] = {}
  /\ Delivering(p) /\ outcome[p] = "clean" => \A f \in infected : ~In("scanning", f)

Vetted == CleanIsVetted /\ \A p \in Passes : PassVetted(p)

PassThere(p) ==
  \A f \in Files :
    /\ pc[p] = "stage" /\ f \in todo[p] => copy["download"][f] = "whole" \/ Caught(f)
    /\ pc[p] = "stage" /\ f \notin todo[p] => copy["scanning"][f] = "whole" \/ Caught(f)
    /\ Scanning(p) => copy["scanning"][f] = "whole" \/ Caught(f)
    /\ Scanning(p) /\ Visited(p, f) => verdict[f] # "none"
    /\ Delivering(p) => outcome[p] # ""
    /\ Delivering(p) /\ outcome[p] = "clean" =>
         copy[IF pc[p] = "relocate" /\ f \in todo[p] THEN "scanning" ELSE "clean"][f] = "whole"

GotThere ==
  live /\ (\A p \in Passes : ~Working(p)) =>
    \A f \in got : copy["download"][f] = "whole" \/ Caught(f)

CleanThere ==
  record = [state |-> "complete", result |-> "clean"] => \A f \in Files : copy["clean"][f] = "whole"

AllThere == GotThere /\ (\A p \in Passes : PassThere(p)) /\ CleanThere

Accounted == OnePass /\ WholeCopies /\ TrueVerdicts /\ Vetted /\ (~disturbed => AllThere)

DeliveryInv == Typed /\ (~reentered => Accounted)

\* These say what TypeOK says, and what a pass concludes besides.
LEMMA TypedIsTypeOK == Typed => TypeOK
BY DEF Typed, TypeOK, ActorsTyped, FilesTyped, RestTyped, CountersTyped

\* The counters have natural bounds.
LEMMA Bounds == MaxAdds \in Nat /\ MaxRestarts \in Nat
BY DeliveryAssumption

\* Nothing is there at the start, and nobody is at work.
LEMMA InitDeliveryInv == Init => DeliveryInv
<1> SUFFICES ASSUME Init PROVE DeliveryInv
  OBVIOUS
<1> USE DeliveryAssumption DEF Init
<1>1. Typed
  <2>1. ActorsTyped
    BY DEF ActorsTyped, Delivering, Actors, Steps, Verdicts
  <2>2. FilesTyped
    BY DEF FilesTyped, Verdicts, Records, NoRecord, Summaries
  <2>3. RestTyped
    BY DEF RestTyped
  <2>4. CountersTyped
    BY Bounds DEF CountersTyped
  <2> QED BY <2>1, <2>2, <2>3, <2>4 DEF Typed
<1>2. OnePass /\ WholeCopies
  BY DEF OnePass, WholeCopies, Started, Working, Actors, Dirs
<1>3. TrueVerdicts
  BY DEF TrueVerdicts, Shows, Actors
<1>4. Vetted
  BY DEF Vetted, PassVetted, CleanIsVetted, In, Scanning, Delivering, Actors, Dirs
<1>5. AllThere
  BY DEF AllThere, GotThere, PassThere, CleanThere, Working, Scanning, Delivering, Actors, Dirs,
     NoRecord
<1> QED
  BY <1>1, <1>2, <1>3, <1>4, <1>5 DEF DeliveryInv, Accounted

-----------------------------------------------------------------------------
(* Types                                                                   *)

\* The names there are.
LEMMA DirNames == {"download", "scanning", "clean", "quarantine"} \subseteq Dirs
BY DEF Dirs

\* Both passes and the event loop scan files.
LEMMA ActorNames == Passes \subseteq Actors /\ EventLoop \in Actors
BY DEF Actors

\* The program counters, verdicts and summaries the steps name are such.
LEMMA Names ==
  /\ {"idle", "gate", "check", "stage", "scan", "read", "note", "isolate"} \subseteq Steps
  /\ {"summary", "relocate", "store", "drop"} \subseteq Steps
  /\ "none" \in Verdicts /\ "" \in Summaries
BY DEF Steps, Verdicts, Summaries

\* What an actor records, and what a pass concludes.
LEMMA SummaryTypes ==
  /\ \A v : ScanSummary(v) \in Summaries
  /\ \A v : ScanSummary(v) = "clean" => "threat" \notin v /\ "unscanned" \notin v
  /\ \A v : ScanSummary(v) = "" => v \intersect {"threat", "unscanned", "clean"} = {}
<1>1. ASSUME NEW v PROVE ScanSummary(v) \in Summaries
  BY DEF ScanSummary, Summaries
<1>2. ASSUME NEW v, ScanSummary(v) = "clean" PROVE "threat" \notin v /\ "unscanned" \notin v
  BY <1>2 DEF ScanSummary
<1>3. ASSUME NEW v, ScanSummary(v) = "" PROVE v \intersect {"threat", "unscanned", "clean"} = {}
  BY <1>3 DEF ScanSummary
<1> QED
  BY <1>1, <1>2, <1>3

\* An engine concludes a verdict, and the true one of a whole copy.
LEMMA ConclusionTypes ==
  ASSUME NEW f \in Files, NEW c \in {"no", "part", "whole"}, NEW v \in Conclusions(f, c)
  PROVE  /\ v \in Verdicts \ {"none"}
         /\ c # "part" => Shows(f, v)
BY DEF Conclusions, Truth, Verdicts, Shows

\* Every step keeps the types of what the actors keep.
LEMMA ActorsTypesKept == ActorsTyped /\ FilesTyped /\ [Next]_vars => ActorsTyped'
<1> SUFFICES ASSUME ActorsTyped, FilesTyped, [Next]_vars PROVE ActorsTyped'
  OBVIOUS
<1> USE Names, DirNames, ActorNames
    DEF ActorsTyped, Delivering, client, disk, scan, life, lasting, Goto
<1>1. CASE \/ AddedAgain \/ OnAdd \/ PauseOrPanic \/ Cancel \/ RemovePaths \/ Forget
           \/ Restore \/ NothingToRestore
  BY <1>1 DEF AddedAgain, OnAdd, PauseOrPanic, Cancel, RemovePaths, Forget, Restore,
     NothingToRestore
<1>2. CASE Restart
  BY <1>2 DEF Restart
<1>3. CASE Reprocess
  BY <1>3 DEF Reprocess
<1>4. ASSUME NEW f \in Files, Arrives(f) \/ Finishes(f) \/ PickOnTheFly(f) PROVE ActorsTyped'
  <2>1. CASE Arrives(f)
    BY <2>1 DEF Arrives
  <2>2. CASE Finishes(f)
    BY <2>2 DEF Finishes
  <2>3. CASE PickOnTheFly(f)
    BY <2>3 DEF PickOnTheFly
  <2> QED BY <1>4, <2>1, <2>2, <2>3
<1>5. ASSUME NEW p \in Passes, Signal(p) \/ Gate(p) \/ CheckComplete(p) PROVE ActorsTyped'
  <2>1. CASE Signal(p)
    BY <2>1 DEF Signal
  <2>2. CASE Gate(p)
    BY <2>2 DEF Gate, AfterGate
  <2>3. CASE CheckComplete(p)
    BY <2>3 DEF CheckComplete
  <2> QED BY <1>5, <2>1, <2>2, <2>3
<1>6. ASSUME NEW p \in Passes, Stage(p) \/ Staged(p) \/ Relocate(p) \/ RelocateDone(p)
      PROVE ActorsTyped'
  BY <1>6 DEF Stage, Staged, Relocate, RelocateDone, MoveNext
<1>7. ASSUME NEW p \in Passes, PassScans(p) \/ ScanDone(p) PROVE ActorsTyped'
  <2>1. CASE PassScans(p)
    <3>1. PICK f \in todo[p] : /\ todo' = [todo EXCEPT ![p] = @ \ {f}]
                               /\ \/ UNCHANGED <<inHand, pc>>
                                  \/ /\ inHand' = [inHand EXCEPT ![p] = {f}]
                                     /\ pc' = [pc EXCEPT ![p] = "read"]
      BY <2>1 DEF PassScans
    <3>2. pc[p] = "scan" /\ outcome' = outcome /\ f \in Files
      BY <2>1 DEF PassScans
    <3>3. CASE UNCHANGED <<inHand, pc>>
      BY <3>1, <3>2, <3>3
    <3>4. CASE inHand' = [inHand EXCEPT ![p] = {f}] /\ pc' = [pc EXCEPT ![p] = "read"]
      BY <3>1, <3>2, <3>4
    <3> QED
      BY <3>1, <3>3, <3>4
  <2>2. CASE ScanDone(p)
    BY <2>2 DEF ScanDone
  <2> QED BY <1>7, <2>1, <2>2
<1>8. ASSUME NEW p \in Passes, Summarise(p) PROVE ActorsTyped'
  BY <1>8, SummaryTypes DEF Summarise
<1>9. ASSUME NEW p \in Passes, StoreComplete(p) \/ DropCompleted(p) PROVE ActorsTyped'
  <2>1. CASE StoreComplete(p)
    BY <2>1 DEF StoreComplete
  <2>2. CASE DropCompleted(p)
    BY <2>2 DEF DropCompleted
  <2> QED BY <1>9, <2>1, <2>2
<1>10. ASSUME NEW a \in Actors, ReadFile(a) PROVE ActorsTyped'
  <2>1. PICK f \in inHand[a] :
          \E v \in Conclusions(f, copy[PlaceOf(a)][f]) : outcome' = [outcome EXCEPT ![a] = v]
    BY <1>10 DEF ReadFile
  <2>2. copy[PlaceOf(a)][f] \in {"no", "part", "whole"}
    BY DEF FilesTyped, PlaceOf
  <2>3. outcome' \in [Actors -> Verdicts \union Summaries]
    BY <2>1, <2>2, ConclusionTypes
  <2>4. pc' = [pc EXCEPT ![a] = "note"] /\ todo' = todo /\ inHand' = inHand /\ pc[a] = "read"
    BY <1>10 DEF ReadFile
  <2>5. \A b \in Actors : pc'[b] = "note" => outcome'[b] \in Verdicts \ {"none"}
    BY <2>1, <2>2, <2>4, ConclusionTypes
  <2>6. \A p \in Passes : Delivering(p)' => outcome'[p] \in Summaries
    BY <2>1, <2>4
  <2> QED
    BY <2>3, <2>4, <2>5, <2>6
<1>11. ASSUME NEW a \in Actors, RecordFileScan(a) PROVE ActorsTyped'
  BY <1>11 DEF RecordFileScan, AfterScan
<1>12. ASSUME NEW a \in Actors, Quarantine(a) PROVE ActorsTyped'
  BY <1>12 DEF Quarantine, AfterScan
<1>13. CASE UNCHANGED vars
  BY <1>13 DEF vars
<1> QED
  BY <1>1, <1>2, <1>3, <1>4, <1>5, <1>6, <1>7, <1>8, <1>9, <1>10, <1>11, <1>12, <1>13
  DEF Next, StartUp, Pass, Scan

\* A file that is moved keeps what is of it, and no other is moved.
LEMMA MoveTypes ==
  ASSUME copy \in [Dirs -> [Files -> {"no", "part", "whole"}]],
         NEW f \in Files, NEW a \in Dirs, NEW b \in Dirs, a # b, Move(f, a, b)
  PROVE  /\ copy' \in [Dirs -> [Files -> {"no", "part", "whole"}]]
         /\ copy'[a][f] = "no" /\ copy'[b][f] = copy[a][f]
         /\ \A d \in Dirs, g \in Files : d \notin {a, b} \/ g # f => copy'[d][g] = copy[d][g]
BY DEF Move

\* Isolating a file takes it out of its directory, and touches nothing else but
\* what quarantine/ has under its name.
LEMMA IsolatedTypes ==
  ASSUME copy \in [Dirs -> [Files -> {"no", "part", "whole"}]],
         NEW f \in Files, NEW a \in Dirs \ {"quarantine"}, NEW over \in SUBSET (Files \ {f}),
         copy' = Isolated(f, a, over)
  PROVE  /\ copy' \in [Dirs -> [Files -> {"no", "part", "whole"}]]
         /\ copy'[a][f] = "no" /\ copy'["quarantine"][f] = copy[a][f]
         /\ \A d \in Dirs \ {"quarantine"}, g \in Files : d # a \/ g # f => copy'[d][g] = copy[d][g]
         /\ \A g \in Files \ {f} : copy'["quarantine"][g] \in {"no", copy["quarantine"][g]}
<1>1. "quarantine" \in Dirs
  BY DirNames
<1>2. copy'["quarantine"] = [g \in Files |-> CASE g = f    -> copy[a][f]
                                              [] g \in over -> "no"
                                              [] OTHER     -> copy["quarantine"][g]]
  BY <1>1 DEF Isolated
<1>3. /\ DOMAIN copy' = Dirs
      /\ copy'[a] = [copy[a] EXCEPT ![f] = "no"]
      /\ \A d \in Dirs \ {"quarantine", a} : copy'[d] = copy[d]
  BY DEF Isolated
<1>4. \A g \in Files : copy'["quarantine"][g] = IF g = f THEN copy[a][f]
                                               ELSE IF g \in over THEN "no"
                                               ELSE copy["quarantine"][g]
  BY <1>2
<1>5. copy'["quarantine"] \in [Files -> {"no", "part", "whole"}]
  BY <1>1, <1>2, <1>4
<1>6. \A d \in Dirs : copy'[d] \in [Files -> {"no", "part", "whole"}]
  BY <1>3, <1>5
<1>7. copy' = [d \in Dirs |-> copy'[d]]
  BY DEF Isolated
<1> QED
  BY <1>3, <1>4, <1>6, <1>7

\* What Quarantine does to the disk: nothing, or it isolates the file in hand.
LEMMA QuarantineIsolates ==
  ASSUME ActorsTyped, NEW a \in Actors, Quarantine(a)
  PROVE  \/ copy' = copy
         \/ \E f \in inHand[a] :
              f \in Files /\ \E over \in SUBSET (Files \ {f}) : copy' = Isolated(f, PlaceOf(a), over)
<1>1. PICK f \in inHand[a] :
        \/ copy' = copy
        \/ \E over \in SUBSET (Files \ {f}) : copy' = Isolated(f, PlaceOf(a), over)
  BY DEF Quarantine
<1>2. f \in Files
  BY DEF ActorsTyped
<1> QED
  BY <1>1, <1>2

\* What is written to the state store is a record.
LEMMA RecordTypes ==
  /\ NoRecord \in Records
  /\ [state |-> "downloading", result |-> ""] \in Records
  /\ \A r \in Summaries : [state |-> "complete", result |-> r] \in Records
BY DEF Records, NoRecord, Summaries

\* Every step keeps the types of the copies, the verdicts and the record.
LEMMA FilesTypesKept == ActorsTyped /\ FilesTyped /\ [Next]_vars => FilesTyped'
<1> SUFFICES ASSUME ActorsTyped, FilesTyped, [Next]_vars PROVE FilesTyped'
  OBVIOUS
<1> USE Names, DirNames, ActorNames DEF FilesTyped, client, disk, scan, life, lasting
<1>1. CASE AddedAgain \/ PauseOrPanic \/ Cancel \/ Restore \/ NothingToRestore \/ Reprocess
  BY <1>1 DEF AddedAgain, PauseOrPanic, Cancel, Restore, NothingToRestore, Reprocess
<1>2. CASE OnAdd \/ Forget
  <2>1. record' \in Records
    BY <1>2, RecordTypes DEF OnAdd, Forget
  <2> QED
    BY <1>2, <2>1 DEF OnAdd, Forget
<1>3. CASE RemovePaths
  <2>1. /\ copy' = [copy EXCEPT !["download"] = [f \in Files |-> "no"],
                                !["scanning"] = [f \in Files |-> "no"]]
        /\ verdict' = verdict /\ record' = record
    BY <1>3 DEF RemovePaths
  <2>2. copy' \in [Dirs -> [Files -> {"no", "part", "whole"}]]
    BY <2>1
  <2> QED
    BY <2>1, <2>2
<1>4. CASE Restart
  <2>1. copy' = copy /\ verdict' = [f \in Files |-> "none"] /\ record' = record
    BY <1>4 DEF Restart
  <2> QED
    BY <2>1
<1>5. ASSUME NEW f \in Files, Arrives(f) \/ Finishes(f) \/ PickOnTheFly(f) PROVE FilesTyped'
  <2>1. copy' \in [Dirs -> [Files -> {"no", "part", "whole"}]]
    <3>1. CASE Arrives(f)
      BY <3>1 DEF Arrives
    <3>2. CASE Finishes(f)
      BY <3>2 DEF Finishes
    <3> QED BY <1>5, <3>1, <3>2 DEF PickOnTheFly
  <2>2. verdict' = verdict /\ record' = record
    BY <1>5 DEF Arrives, Finishes, PickOnTheFly
  <2> QED
    BY <2>1, <2>2
<1>6. ASSUME NEW p \in Passes, \/ Signal(p) \/ Gate(p) \/ CheckComplete(p) \/ PassScans(p)
                              \/ ScanDone(p) \/ Summarise(p) \/ DropCompleted(p)
      PROVE FilesTyped'
  BY <1>6 DEF Signal, Gate, CheckComplete, PassScans, ScanDone, Summarise, DropCompleted
<1>7. ASSUME NEW p \in Passes, Stage(p) PROVE FilesTyped'
  BY <1>7, MoveTypes DEF Stage, MoveNext, ActorsTyped
<1>8. ASSUME NEW p \in Passes, Relocate(p) PROVE FilesTyped'
  BY <1>8, MoveTypes DEF Relocate, MoveNext, ActorsTyped, Destination
<1>9. ASSUME NEW p \in Passes, Staged(p) \/ RelocateDone(p) PROVE FilesTyped'
  BY <1>9 DEF Staged, RelocateDone, MoveFails
<1>10. ASSUME NEW p \in Passes, StoreComplete(p) PROVE FilesTyped'
  <2>1. outcome[p] \in Summaries
    BY <1>10 DEF StoreComplete, Goto, ActorsTyped, Delivering
  <2>2. record' \in Records
    BY <1>10, <2>1, RecordTypes DEF StoreComplete
  <2> QED
    BY <1>10, <2>2 DEF StoreComplete
<1>11. ASSUME NEW a \in Actors, ReadFile(a) PROVE FilesTyped'
  BY <1>11 DEF ReadFile
<1>12. ASSUME NEW a \in Actors, RecordFileScan(a) PROVE FilesTyped'
  <2>1. PICK f \in inHand[a] : verdict' = [verdict EXCEPT ![f] = outcome[a]]
    BY <1>12 DEF RecordFileScan
  <2>2. outcome[a] \in Verdicts \ {"none"}
    BY <1>12 DEF RecordFileScan, Goto, ActorsTyped
  <2> QED
    BY <1>12, <2>1, <2>2 DEF RecordFileScan, ActorsTyped
<1>13. ASSUME NEW a \in Actors, Quarantine(a) PROVE FilesTyped'
  <2>1. UNCHANGED <<got, record, verdict, disturbed>>
    BY <1>13 DEF Quarantine
  <2>2. copy' \in [Dirs -> [Files -> {"no", "part", "whole"}]]
    BY <1>13, QuarantineIsolates, IsolatedTypes, DirNames DEF PlaceOf
  <2> QED
    BY <2>1, <2>2
<1>14. CASE UNCHANGED vars
  BY <1>14 DEF vars
<1> QED
  BY <1>1, <1>2, <1>3, <1>4, <1>6, <1>7, <1>8, <1>9, <1>10, <1>11, <1>12, <1>13, <1>14, <1>5
  DEF Next, StartUp, Pass, Scan

\* Every step keeps the rest of the types.
LEMMA RestTypesKept == FilesTyped /\ RestTyped /\ [Next]_vars => RestTyped'
<1> SUFFICES ASSUME FilesTyped, RestTyped, [Next]_vars PROVE RestTyped'
  OBVIOUS
<1> USE DEF RestTyped, client, disk, scan, life, lasting
<1>1. CASE AddedAgain \/ Restore
  <2>1. got' \subseteq Files /\ reentered' \in BOOLEAN
    BY <1>1 DEF AddedAgain, Restore, Register
  <2> QED
    BY <1>1, <2>1 DEF AddedAgain, Restore, Register
<1>2. CASE OnAdd \/ Forget \/ RemovePaths
  BY <1>2 DEF OnAdd, GateAfterAdd, Forget, RemovePaths
<1>3. CASE PauseOrPanic \/ Cancel
  BY <1>3 DEF PauseOrPanic, Cancel, Drops
<1>4. CASE Restart
  BY <1>4 DEF Restart
<1>5. CASE NothingToRestore \/ Reprocess
  BY <1>5 DEF NothingToRestore, Reprocess
<1>6. ASSUME NEW f \in Files, Arrives(f) \/ Finishes(f) \/ PickOnTheFly(f) PROVE RestTyped'
  BY <1>6 DEF Arrives, Finishes, PickOnTheFly
<1>7. ASSUME NEW p \in Passes, \/ Signal(p) \/ Gate(p) \/ CheckComplete(p) \/ PassScans(p)
                              \/ ScanDone(p) \/ Summarise(p) \/ StoreComplete(p)
      PROVE RestTyped'
  <2>1. CASE Signal(p)
    BY <2>1 DEF Signal
  <2>2. CASE Gate(p)
    BY <2>2 DEF Gate
  <2>3. CASE CheckComplete(p)
    BY <2>3 DEF CheckComplete
  <2>4. CASE PassScans(p)
    BY <2>4 DEF PassScans
  <2>5. CASE ScanDone(p)
    BY <2>5 DEF ScanDone
  <2>6. CASE Summarise(p)
    BY <2>6 DEF Summarise
  <2>7. CASE StoreComplete(p)
    BY <2>7 DEF StoreComplete
  <2> QED BY <1>7, <2>1, <2>2, <2>3, <2>4, <2>5, <2>6, <2>7
<1>8. ASSUME NEW p \in Passes, Stage(p) \/ Relocate(p) PROVE RestTyped'
  <2>1. CASE Stage(p)
    BY <2>1 DEF Stage, MoveNext, Move
  <2>2. CASE Relocate(p)
    BY <2>2 DEF Relocate, MoveNext, Move
  <2> QED BY <1>8, <2>1, <2>2
<1>9. ASSUME NEW p \in Passes, Staged(p) \/ RelocateDone(p) PROVE RestTyped'
  <2>1. CASE Staged(p)
    BY <2>1 DEF Staged, MoveFails
  <2>2. CASE RelocateDone(p)
    BY <2>2 DEF RelocateDone, MoveFails
  <2> QED BY <1>9, <2>1, <2>2
<1>10. ASSUME NEW p \in Passes, DropCompleted(p) PROVE RestTyped'
  BY <1>10 DEF DropCompleted, Drops
<1>11. ASSUME NEW a \in Actors, Scan(a) PROVE RestTyped'
  <2>1. CASE ReadFile(a)
    BY <2>1 DEF ReadFile
  <2>2. CASE RecordFileScan(a)
    BY <2>2 DEF RecordFileScan
  <2>3. CASE Quarantine(a)
    BY <2>3 DEF Quarantine
  <2> QED BY <1>11, <2>1, <2>2, <2>3 DEF Scan
<1>12. CASE UNCHANGED vars
  BY <1>12 DEF vars
<1> QED
  BY <1>1, <1>2, <1>3, <1>4, <1>5, <1>6, <1>7, <1>8, <1>9, <1>10, <1>11, <1>12
  DEF Next, StartUp, Pass

\* Every step keeps the counters within their bounds.
LEMMA CountersKept == CountersTyped /\ [Next]_vars => CountersTyped'
<1> SUFFICES ASSUME CountersTyped, [Next]_vars PROVE CountersTyped'
  OBVIOUS
<1>1. CASE AddedAgain
  <2>1. adds' = adds + 1 /\ adds < MaxAdds /\ restarts' = restarts
    BY <1>1 DEF AddedAgain
  <2> QED
    BY <2>1, Bounds DEF CountersTyped
<1>2. CASE Restart
  <2>1. restarts' = restarts + 1 /\ restarts < MaxRestarts /\ adds' = adds
    BY <1>2 DEF Restart
  <2> QED
    BY <2>1, Bounds DEF CountersTyped
<1>3. CASE ~AddedAgain /\ ~Restart
  <2>1. adds' = adds /\ restarts' = restarts
    BY <1>3 DEF Next, StartUp, Pass, Scan, life, OnAdd, PauseOrPanic, Cancel, RemovePaths, Forget,
       Restore, NothingToRestore, Reprocess, Arrives, Finishes, PickOnTheFly, Signal, Gate,
       CheckComplete, Stage, Staged, PassScans, ScanDone, Summarise, Relocate, RelocateDone,
       StoreComplete, DropCompleted, ReadFile, RecordFileScan, Quarantine, vars
  <2> QED
    BY <2>1 DEF CountersTyped
<1> QED
  BY <1>1, <1>2, <1>3

\* So the types hold in every state.
LEMMA TypesKept == Typed /\ [Next]_vars => Typed'
BY ActorsTypesKept, FilesTypesKept, RestTypesKept, CountersKept DEF Typed

\* The files anybody has are files of the torrent.
LEMMA Ranges ==
  ASSUME Typed
  PROVE  /\ got \subseteq Files /\ infected \subseteq Files
         /\ \A a \in Actors : inHand[a] \subseteq Files /\ todo[a] \subseteq Files
<1>1. got \subseteq Files
  BY DEF Typed, RestTyped
<1>2. infected \subseteq Files
  BY DEF Typed, RestTyped
<1>3. \A a \in Actors : inHand[a] \subseteq Files /\ todo[a] \subseteq Files
  BY DEF Typed, ActorsTyped
<1> QED BY <1>1, <1>2, <1>3

-----------------------------------------------------------------------------
(* The invariants                                                          *)

\* What is infected never changes, and neither a meeting with an earlier
\* registration nor a disturbance is undone.
LEMMA HistoryKept ==
  ASSUME [Next]_vars
  PROVE  infected' = infected /\ (~reentered' => ~reentered) /\ (~disturbed' => ~disturbed)
<1> USE DEF lasting, disk
<1>1. CASE UNCHANGED vars
  BY <1>1 DEF vars
<1>2. CASE AddedAgain \/ StartUp
  <2>1. CASE AddedAgain
    BY <2>1 DEF AddedAgain, Register
  <2>2. CASE Restore
    BY <2>2 DEF Restore, Register
  <2>3. CASE NothingToRestore \/ Reprocess
    BY <2>3 DEF NothingToRestore, Reprocess
  <2> QED BY <1>2, <2>1, <2>2, <2>3 DEF StartUp
<1>3. CASE OnAdd \/ PauseOrPanic \/ Cancel \/ RemovePaths \/ Forget \/ Restart
  <2>1. infected' = infected /\ reentered' = reentered
    BY <1>3 DEF OnAdd, PauseOrPanic, Cancel, RemovePaths, Forget, Restart
  <2>2. ~disturbed' => ~disturbed
    BY <1>3 DEF OnAdd, PauseOrPanic, Cancel, RemovePaths, Forget, Restart
  <2> QED BY <2>1, <2>2
<1>4. ASSUME NEW f \in Files, Arrives(f) \/ Finishes(f) \/ PickOnTheFly(f)
      PROVE  infected' = infected /\ reentered' = reentered /\ disturbed' = disturbed
  BY <1>4 DEF Arrives, Finishes, PickOnTheFly
<1>5. ASSUME NEW p \in Passes, Signal(p) \/ Pass(p)
      PROVE  infected' = infected /\ reentered' = reentered /\ (~disturbed' => ~disturbed)
  <2>1. infected' = infected /\ reentered' = reentered
    BY <1>5 DEF Pass, Signal, Gate, CheckComplete, Stage, Staged, PassScans, ScanDone, Summarise,
       Relocate, RelocateDone, StoreComplete, DropCompleted
  <2>2. CASE Stage(p) \/ Relocate(p)
    <3>1. disturbed' = disturbed
      <4>1. CASE Stage(p)
        BY <4>1 DEF Stage, MoveNext, Move
      <4>2. CASE Relocate(p)
        BY <4>2 DEF Relocate, MoveNext, Move
      <4> QED BY <2>2, <4>1, <4>2
    <3>2. ~disturbed' => ~disturbed
      BY <3>1
    <3> QED BY <2>1, <3>2
  <2>3. CASE Staged(p) \/ RelocateDone(p)
    BY <2>1, <2>3 DEF Staged, RelocateDone, MoveFails
  <2>4. CASE \/ Signal(p) \/ Gate(p) \/ CheckComplete(p) \/ PassScans(p) \/ ScanDone(p)
             \/ Summarise(p) \/ StoreComplete(p) \/ DropCompleted(p)
    <3>1. disturbed' = disturbed
      BY <2>4 DEF Signal, Gate, CheckComplete, PassScans, ScanDone, Summarise, StoreComplete,
         DropCompleted
    <3>2. ~disturbed' => ~disturbed
      BY <3>1
    <3> QED BY <2>1, <3>2
  <2> QED BY <1>5, <2>2, <2>3, <2>4 DEF Pass
<1>6. ASSUME NEW a \in Actors, Scan(a)
      PROVE  infected' = infected /\ reentered' = reentered /\ disturbed' = disturbed
  BY <1>6 DEF Scan, ReadFile, RecordFileScan, Quarantine
<1> QED
  BY <1>1, <1>2, <1>3, <1>5, <1>6, <1>4 DEF Next

\* A torrent is registered anew only while nobody is at work.
LEMMA RegistersQuiet ==
  ASSUME AddedAgain \/ Restore, ~reentered'
  PROVE  /\ \A a \in Actors : pc[a] = "idle"
         /\ live' = TRUE /\ adding' = "onAdd" /\ pc' = pc
         /\ got' = {f \in Files : copy["download"][f] = "whole"}
         /\ UNCHANGED <<infected, copy, disturbed, verdict, inHand, outcome, todo>>
         /\ UNCHANGED <<processed, record>>
<1>1. CASE AddedAgain
  BY <1>1 DEF AddedAgain, Register, disk, scan
<1>2. CASE Restore
  BY <1>2 DEF Restore, Register, disk, scan
<1> QED BY <1>1, <1>2

\* The gate lets one pass through at a time.
LEMMA OnePassKept ==
  ASSUME Typed, OnePass, [Next]_vars, ~reentered'
  PROVE  OnePass'
<1> USE DeliveryAssumption, ActorNames DEF OnePass, Started, life, Goto
<1>1. pc \in [Actors -> Steps]
  BY DEF Typed, ActorsTyped
<1>2. CASE AddedAgain \/ Restore
  BY <1>2, RegistersQuiet
<1>3. CASE OnAdd
  BY <1>3 DEF OnAdd
<1>4. CASE PauseOrPanic \/ Cancel
  <2>1. pc' = pc /\ processed' = processed /\ (adding' = "onAdd" => adding = "onAdd")
    BY <1>4 DEF PauseOrPanic, Cancel, Drops
  <2> QED BY <2>1
<1>5. CASE RemovePaths \/ Forget \/ NothingToRestore
  <2>1. pc' = pc /\ processed' = processed /\ adding' = adding
    BY <1>5 DEF RemovePaths, Forget, NothingToRestore
  <2> QED BY <2>1
<1>6. CASE Restart
  BY <1>6 DEF Restart
<1>7. CASE Reprocess
  <2>1. processed' = processed /\ adding' = adding /\ adding # "onAdd"
    BY <1>7 DEF Reprocess
  <2>2. pc' = pc \/ \E p \in Passes : pc[p] = "idle" /\ pc' = [pc EXCEPT ![p] = "gate"]
    BY <1>7 DEF Reprocess
  <2> QED BY <1>1, <2>1, <2>2
<1>8. ASSUME NEW f \in Files, Arrives(f) \/ Finishes(f) PROVE OnePass'
  <2>1. pc' = pc /\ processed' = processed /\ adding' = adding
    BY <1>8 DEF Arrives, Finishes
  <2> QED BY <2>1
<1>9. ASSUME NEW f \in Files, PickOnTheFly(f) PROVE OnePass'
  BY <1>1, <1>9 DEF PickOnTheFly
<1>10. ASSUME NEW p \in Passes, Signal(p) PROVE OnePass'
  BY <1>1, <1>10 DEF Signal
<1>11. ASSUME NEW p \in Passes, Gate(p) PROVE OnePass'
  BY <1>1, <1>11 DEF Gate, AfterGate
<1>12. ASSUME NEW p \in Passes, CheckComplete(p) PROVE OnePass'
  BY <1>1, <1>12 DEF CheckComplete
<1>13. ASSUME NEW p \in Passes, Stage(p) \/ Relocate(p) PROVE OnePass'
  <2>1. pc' = pc /\ processed' = processed /\ adding' = adding
    BY <1>13 DEF Stage, Relocate
  <2> QED BY <2>1
<1>14. ASSUME NEW p \in Passes, PassScans(p) PROVE OnePass'
  BY <1>1, <1>14 DEF PassScans
<1>15. ASSUME NEW p \in Passes, \/ Staged(p) \/ ScanDone(p) \/ Summarise(p) \/ RelocateDone(p)
                               \/ StoreComplete(p)
       PROVE OnePass'
  <2>1. /\ Started(p) /\ \E s : pc' = [pc EXCEPT ![p] = s]
        /\ processed' = processed /\ adding' = adding
    BY <1>15 DEF Staged, ScanDone, Summarise, RelocateDone, StoreComplete
  <2> QED BY <1>1, <2>1
<1>16. ASSUME NEW p \in Passes, DropCompleted(p) PROVE OnePass'
  BY <1>1, <1>16 DEF DropCompleted, Drops
<1>17. ASSUME NEW a \in Actors, Scan(a) PROVE OnePass'
  <2>1. /\ pc[a] \in {"read", "note", "isolate"} /\ processed' = processed /\ adding' = adding
        /\ \E s \in {"note", "isolate", AfterScan(a)} : pc' = [pc EXCEPT ![a] = s]
    BY <1>17 DEF Scan, ReadFile, RecordFileScan, Quarantine
  <2> QED BY <1>1, <2>1 DEF AfterScan, Actors
<1>18. CASE UNCHANGED vars
  BY <1>18 DEF vars
<1> QED
  BY <1>2, <1>3, <1>4, <1>5, <1>6, <1>7, <1>8, <1>9, <1>10, <1>11, <1>12, <1>13, <1>14, <1>15,
     <1>16, <1>17, <1>18 DEF Next, StartUp, Pass

\* A step that leaves the client's pieces alone, or loses the torrent; makes no
\* copy partial; and has nobody take up work.
Recedes   == (live' => live) /\ (live' => got' = got) /\ (~live' => got' = {})
NoNewPart == \A d \in Dirs, f \in Files : copy'[d][f] = "part" => copy[d][f] = "part"
NoNewWork == /\ \A p \in Passes : Working(p)' => Working(p)
             /\ pc'[EventLoop] # "idle" =>
                  pc[EventLoop] # "idle" /\ inHand'[EventLoop] \subseteq inHand[EventLoop]

\* A step that leaves the client alone gives it nothing.
LEMMA SameClient == WholeCopies /\ (live' <=> live) /\ got' = got => Recedes
BY DEF WholeCopies, Recedes

\* Such a step brings no partial copy before anybody.
LEMMA WholeFrame ==
  ASSUME Typed, WholeCopies, Recedes, NoNewPart, NoNewWork
  PROVE  WholeCopies'
<1> USE DirNames DEF WholeCopies, Recedes, NoNewPart, NoNewWork
<1>1. got' \subseteq got /\ got \subseteq Files /\ inHand[EventLoop] \subseteq Files
  BY Ranges, ActorNames
<1>2. /\ ~live' => got' = {}
      /\ \A f \in got' : copy'["download"][f] # "part"
      /\ \A d \in Dirs \ {"download"} : \A f \in Files : copy'[d][f] # "part"
  BY <1>1
<1>3. ASSUME NEW p \in Passes, Working(p)'
      PROVE  /\ live' => got' = Files
             /\ \A f \in Files : copy'["download"][f] # "part"
  BY <1>3
<1>4. ASSUME pc'[EventLoop] # "idle", NEW f \in inHand'[EventLoop]
      PROVE  copy'["download"][f] # "part" /\ (live' => f \in got')
  BY <1>1, <1>4
<1> QED
  BY <1>2, <1>3, <1>4

\* A step of a pass that is at work already, with what it does to the rest.
LEMMA StepIsNoNewWork ==
  ASSUME Typed, NEW p \in Passes, NEW to, pc' = [pc EXCEPT ![p] = to], inHand' = inHand,
         Working(p) \/ to \in {"idle", "gate", "check"}
  PROVE  NoNewWork
BY DeliveryAssumption DEF NoNewWork, Working, Typed, ActorsTyped, Actors

\* A move of a copy that is not partial.
LEMMA MoveIsNoNewPart ==
  ASSUME Typed, NEW f \in Files, NEW a \in Dirs, NEW b \in Dirs, a # b, Move(f, a, b),
         copy[a][f] # "part"
  PROVE  NoNewPart
<1>1. copy \in [Dirs -> [Files -> {"no", "part", "whole"}]]
  BY DEF Typed, FilesTyped
<1>2. ASSUME NEW d \in Dirs, NEW g \in Files, copy'[d][g] = "part" PROVE copy[d][g] = "part"
  <2>1. CASE d = b /\ g = f
    BY <1>1, <1>2, <2>1, MoveTypes
  <2>2. CASE d = a /\ g = f
    BY <1>1, <1>2, <2>2, MoveTypes
  <2>3. CASE d \notin {a, b} \/ g # f
    BY <1>1, <1>2, <2>3, MoveTypes
  <2> QED BY <2>1, <2>2, <2>3
<1> QED BY <1>2 DEF NoNewPart

\* Nor does isolating a copy that is not partial make one.
LEMMA IsolatedIsNoNewPart ==
  ASSUME Typed, NEW f \in Files, NEW a \in Dirs \ {"quarantine"},
         NEW over \in SUBSET (Files \ {f}), copy' = Isolated(f, a, over), copy[a][f] # "part"
  PROVE  NoNewPart
<1>1. copy \in [Dirs -> [Files -> {"no", "part", "whole"}]]
  BY DEF Typed, FilesTyped
<1>2. ASSUME NEW d \in Dirs, NEW g \in Files, copy'[d][g] = "part" PROVE copy[d][g] = "part"
  <2>1. CASE d = "quarantine"
    BY <1>1, <1>2, <2>1, IsolatedTypes
  <2>2. CASE d = a /\ g = f
    BY <1>1, <1>2, <2>2, IsolatedTypes
  <2>3. CASE d # "quarantine" /\ (d # a \/ g # f)
    BY <1>1, <1>2, <2>3, IsolatedTypes
  <2> QED BY <2>1, <2>2, <2>3
<1> QED BY <1>2 DEF NoNewPart

\* Nobody is ever at work on a partial copy.
LEMMA WholeCopiesKept ==
  ASSUME Typed, OnePass, WholeCopies, [Next]_vars, ~reentered'
  PROVE  WholeCopies'
<1> USE DeliveryAssumption, ActorNames, DirNames DEF life, client, disk, scan
<1>1. pc \in [Actors -> Steps] /\ copy \in [Dirs -> [Files -> {"no", "part", "whole"}]]
  BY DEF Typed, ActorsTyped, FilesTyped
<1>2. CASE AddedAgain \/ Restore
  BY <1>2, RegistersQuiet DEF WholeCopies, Working
<1>3. CASE OnAdd \/ PauseOrPanic \/ Cancel \/ Forget \/ NothingToRestore
  <2>1. pc' = pc /\ inHand' = inHand /\ copy' = copy /\ Recedes
    <3>1. CASE PauseOrPanic
      BY <3>1 DEF PauseOrPanic, Drops, Recedes
    <3>2. CASE Cancel
      BY <3>2 DEF Cancel, Drops, Recedes
    <3>3. CASE OnAdd \/ Forget \/ NothingToRestore
      <4>1. CASE OnAdd
        BY <4>1, SameClient DEF OnAdd
      <4>2. CASE Forget
        BY <4>2, SameClient DEF Forget
      <4>3. CASE NothingToRestore
        BY <4>3, SameClient DEF NothingToRestore
      <4> QED BY <3>3, <4>1, <4>2, <4>3
    <3> QED BY <1>3, <3>1, <3>2, <3>3
  <2> QED BY <2>1, WholeFrame DEF NoNewPart, NoNewWork, Working
<1>4. CASE RemovePaths
  <2>1. pc' = pc /\ inHand' = inHand /\ (live' <=> live) /\ got' = got
        /\ copy' = [copy EXCEPT !["download"] = [f \in Files |-> "no"],
                                !["scanning"] = [f \in Files |-> "no"]]
    BY <1>4 DEF RemovePaths
  <2>2. NoNewPart
    BY <1>1, <2>1 DEF NoNewPart
  <2> QED BY <2>1, <2>2, WholeFrame, SameClient DEF NoNewWork, Working
<1>5. CASE Restart
  <2>1. pc' = [a \in Actors |-> "idle"] /\ copy' = copy /\ ~live' /\ got' = {}
    BY <1>5 DEF Restart
  <2>2. NoNewPart /\ NoNewWork /\ Recedes
    BY <2>1 DEF NoNewPart, NoNewWork, Working, Recedes
  <2> QED BY <2>2, WholeFrame
<1>6. CASE Reprocess
  <2>1. /\ inHand' = inHand /\ copy' = copy /\ (live' <=> live) /\ got' = got
        /\ pc' = pc \/ \E p \in Passes : pc' = [pc EXCEPT ![p] = "gate"]
    BY <1>6 DEF Reprocess
  <2>2. NoNewWork
    BY <2>1, StepIsNoNewWork DEF NoNewWork, Working
  <2> QED BY <2>1, <2>2, WholeFrame, SameClient DEF NoNewPart
<1>7. ASSUME NEW f \in Files, Arrives(f) PROVE WholeCopies'
  <2>1. /\ live /\ f \notin got /\ (live' <=> live) /\ got' = got /\ pc' = pc /\ inHand' = inHand
        /\ copy' = [copy EXCEPT !["download"][f] = "part"]
    BY <1>7 DEF Arrives
  <2>2. \A d \in Dirs, g \in Files : copy'[d][g] # copy[d][g] => d = "download" /\ g = f
    BY <1>1, <2>1
  <2>3. \A p \in Passes : ~Working(p)
    BY <2>1 DEF WholeCopies
  <2>4. pc[EventLoop] # "idle" => f \notin inHand[EventLoop]
    BY <2>1 DEF WholeCopies
  <2>5. got \subseteq Files /\ inHand[EventLoop] \subseteq Files
    BY DEF Typed, RestTyped, ActorsTyped
  <2> QED BY <2>1, <2>2, <2>3, <2>4, <2>5 DEF WholeCopies, Working
<1>8. ASSUME NEW f \in Files, Finishes(f) PROVE WholeCopies'
  <2>1. /\ live /\ (live' <=> live) /\ got' = got \union {f} /\ pc' = pc /\ inHand' = inHand
        /\ f \notin got /\ copy' = [copy EXCEPT !["download"][f] = "whole"]
    BY <1>8 DEF Finishes
  <2>2. \A d \in Dirs, g \in Files : copy'[d][g] # copy[d][g] => copy'[d][g] = "whole"
    BY <1>1, <2>1
  <2>3. \A p \in Passes : ~Working(p)
    BY <2>1 DEF WholeCopies
  <2>4. got \subseteq Files /\ inHand[EventLoop] \subseteq Files /\ copy'["download"][f] = "whole"
    BY <1>1, <2>1 DEF Typed, RestTyped, ActorsTyped
  <2> QED BY <2>1, <2>2, <2>3, <2>4 DEF WholeCopies, Working
<1>9. ASSUME NEW f \in Files, PickOnTheFly(f) PROVE WholeCopies'
  <2>1. /\ live /\ f \in got /\ (live' <=> live) /\ got' = got /\ copy' = copy
        /\ pc' = [pc EXCEPT ![EventLoop] = "read"] /\ inHand' = [inHand EXCEPT ![EventLoop] = {f}]
    BY <1>9 DEF PickOnTheFly, Goto
  <2>2. \A p \in Passes : Working(p)' => Working(p)
    BY <1>1, <2>1 DEF Working
  <2>3. inHand'[EventLoop] = {f}
    BY <2>1 DEF Typed, ActorsTyped
  <2> QED BY <2>1, <2>2, <2>3 DEF WholeCopies
<1>10. ASSUME NEW p \in Passes, Signal(p) \/ Gate(p) PROVE WholeCopies'
  <2>1. /\ (live' <=> live) /\ got' = got /\ copy' = copy /\ inHand' = inHand
        /\ \E to \in {"idle", "gate", "check"} : pc' = [pc EXCEPT ![p] = to]
    BY <1>10 DEF Signal, Gate, Goto, AfterGate
  <2> QED BY <2>1, StepIsNoNewWork, WholeFrame, SameClient DEF NoNewPart
<1>11. ASSUME NEW p \in Passes, CheckComplete(p) PROVE WholeCopies'
  <2>1. /\ (live' <=> live) /\ got' = got /\ copy' = copy /\ inHand' = inHand
        /\ pc' = [pc EXCEPT ![p] = IF Complete THEN "stage" ELSE "idle"]
    BY <1>11 DEF CheckComplete, Goto
  <2>2. CASE ~Complete
    BY <2>1, <2>2, StepIsNoNewWork, WholeFrame, SameClient DEF NoNewPart
  <2>3. CASE Complete
    <3>1. \A q \in Passes : Working(q)' => Working(q) \/ q = p
      BY <1>1, <2>1 DEF Working
    <3>2. pc'[EventLoop] = pc[EventLoop]
      BY <1>1, <2>1
    <3> QED BY <2>1, <2>3, <3>1, <3>2 DEF WholeCopies, Complete
  <2> QED BY <2>2, <2>3
<1>12. ASSUME NEW p \in Passes, Stage(p) \/ Relocate(p) PROVE WholeCopies'
  <2>1. /\ (live' <=> live) /\ got' = got /\ inHand' = inHand /\ pc' = pc /\ Working(p)
        /\ \/ copy' = copy
           \/ \E f \in Files, a \in {"download", "scanning"}, b \in Dirs : a # b /\ Move(f, a, b)
    <3>1. CASE Stage(p)
      BY <3>1 DEF Stage, MoveNext, Working, Typed, ActorsTyped
    <3>2. CASE Relocate(p)
      BY <3>2 DEF Relocate, MoveNext, Working, Destination, Typed, ActorsTyped
    <3> QED BY <1>12, <3>1, <3>2
  <2>2. ASSUME NEW f \in Files, NEW a \in {"download", "scanning"}, NEW b \in Dirs,
               a # b, Move(f, a, b)
        PROVE  NoNewPart
    <3>1. copy[a][f] # "part"
      BY <2>1, <2>2 DEF WholeCopies
    <3> QED BY <2>2, <3>1, MoveIsNoNewPart
  <2> QED BY <2>1, <2>2, WholeFrame, SameClient DEF NoNewPart, NoNewWork, Working
<1>13. ASSUME NEW p \in Passes, \/ Staged(p) \/ ScanDone(p) \/ Summarise(p) \/ RelocateDone(p)
                               \/ StoreComplete(p) \/ DropCompleted(p)
       PROVE WholeCopies'
  <2>1. Recedes
    <3>1. CASE DropCompleted(p)
      <4>1. (live' = FALSE /\ got' = {}) \/ UNCHANGED <<live, got>>
        BY <3>1 DEF DropCompleted, Drops
      <4> QED BY <4>1, SameClient DEF Recedes
    <3>2. CASE Staged(p) \/ ScanDone(p) \/ Summarise(p)
      BY <3>2, SameClient DEF Staged, ScanDone, Summarise
    <3>3. CASE RelocateDone(p) \/ StoreComplete(p)
      <4>1. CASE RelocateDone(p)
        BY <4>1, SameClient DEF RelocateDone
      <4>2. CASE StoreComplete(p)
        BY <4>2, SameClient DEF StoreComplete
      <4> QED BY <3>3, <4>1, <4>2
    <3> QED BY <1>13, <3>1, <3>2, <3>3
  <2>2. copy' = copy /\ inHand' = inHand
    BY <1>13 DEF Staged, ScanDone, Summarise, RelocateDone, StoreComplete, DropCompleted, MoveFails
  <2>3. Working(p) /\ \E to : pc' = [pc EXCEPT ![p] = to]
    BY <1>13 DEF Staged, ScanDone, Summarise, RelocateDone, StoreComplete, DropCompleted, Goto,
       Working
  <2> QED BY <2>1, <2>3, <2>2, StepIsNoNewWork, WholeFrame DEF NoNewPart
<1>14. ASSUME NEW p \in Passes, PassScans(p) PROVE WholeCopies'
  <2>1. /\ (live' <=> live) /\ got' = got /\ copy' = copy /\ Working(p)
        /\ pc' = pc \/ \E to : pc' = [pc EXCEPT ![p] = to]
        /\ inHand' = inHand \/ \E f : inHand' = [inHand EXCEPT ![p] = f]
    BY <1>14 DEF PassScans, Working
  <2>2. NoNewWork
    BY <1>1, <2>1 DEF NoNewWork, Working, Typed, ActorsTyped
  <2> QED BY <2>1, <2>2, WholeFrame, SameClient DEF NoNewPart
<1>15. ASSUME NEW a \in Actors, Scan(a) PROVE WholeCopies'
  <2>1. /\ (live' <=> live) /\ got' = got /\ pc[a] \in {"read", "note", "isolate"}
        /\ \E to : pc' = [pc EXCEPT ![a] = to]
        /\ inHand' = inHand \/ inHand' = [inHand EXCEPT ![a] = {}]
    BY <1>15 DEF Scan, ReadFile, RecordFileScan, Quarantine, Goto
  <2>2. NoNewWork
    BY <1>1, <2>1 DEF NoNewWork, Working, Typed, ActorsTyped, Actors
  <2>3. CASE copy' = copy
    BY <2>1, <2>2, <2>3, WholeFrame, SameClient DEF NoNewPart
  <2>4. CASE copy' # copy
    <3>1. Quarantine(a) /\ pc[a] = "isolate"
      BY <1>15, <2>4 DEF Scan, ReadFile, RecordFileScan, Quarantine, Goto
    <3>2. PICK f \in Files :
            f \in inHand[a] /\ \E over \in SUBSET (Files \ {f}) : copy' = Isolated(f, PlaceOf(a), over)
      BY <2>4, <3>1, QuarantineIsolates DEF Typed
    <3>3. copy[PlaceOf(a)][f] # "part"
      BY <3>1, <3>2 DEF WholeCopies, PlaceOf
    <3>4. PlaceOf(a) \in Dirs \ {"quarantine"} /\ "quarantine" \in Dirs
      BY DirNames DEF PlaceOf
    <3>5. NoNewPart
      BY <3>2, <3>3, <3>4, IsolatedIsNoNewPart
    <3> QED BY <2>1, <2>2, <3>5, WholeFrame, SameClient
  <2> QED BY <2>3, <2>4
<1>16. CASE UNCHANGED vars
  <2>1. (live' <=> live) /\ got' = got /\ copy' = copy /\ pc' = pc /\ inHand' = inHand
    BY <1>16 DEF vars
  <2> QED BY <2>1, WholeFrame, SameClient DEF NoNewPart, NoNewWork, Working
<1> QED
  BY <1>2, <1>3, <1>4, <1>5, <1>6, <1>7, <1>8, <1>9, <1>10, <1>11, <1>12, <1>13, <1>14, <1>15,
     <1>16 DEF Next, StartUp, Pass

\* A verdict says what the file is.
LEMMA TrueVerdictsKept ==
  ASSUME Typed, OnePass, WholeCopies, TrueVerdicts, [Next]_vars, ~reentered'
  PROVE  TrueVerdicts'
<1> USE DeliveryAssumption, ActorNames, DirNames DEF client, disk, scan, Goto
<1>1. /\ pc \in [Actors -> Steps] /\ inHand \in [Actors -> SUBSET Files]
      /\ verdict \in [Files -> Verdicts] /\ outcome \in [Actors -> Verdicts \union Summaries]
  BY DEF Typed, ActorsTyped, FilesTyped
<1>2. infected' = infected
  BY HistoryKept
<1>3. ASSUME verdict' = verdict, UNCHANGED <<inHand, outcome, pc>>
      PROVE  TrueVerdicts'
  BY <1>2, <1>3 DEF TrueVerdicts, Shows, Caught
<1>4. ASSUME NEW a \in Actors, NEW to, to \notin {"note", "isolate"}, pc' = [pc EXCEPT ![a] = to],
             verdict' = verdict, UNCHANGED inHand, \A b \in Actors \ {a} : outcome'[b] = outcome[b]
      PROVE  TrueVerdicts'
  BY <1>1, <1>2, <1>4 DEF TrueVerdicts, Shows, Caught
<1>5. CASE AddedAgain \/ Restore
  BY <1>3, <1>5, RegistersQuiet
<1>6. CASE OnAdd \/ PauseOrPanic \/ Cancel \/ RemovePaths \/ Forget \/ NothingToRestore
  <2>1. verdict' = verdict /\ UNCHANGED <<inHand, outcome, pc>>
    BY <1>6 DEF OnAdd, PauseOrPanic, Cancel, RemovePaths, Forget, NothingToRestore
  <2> QED BY <1>3, <2>1
<1>7. CASE Restart
  <2>1. /\ verdict' = [f \in Files |-> "none"] /\ pc' = [a \in Actors |-> "idle"]
        /\ inHand' = [a \in Actors |-> {}]
    BY <1>7 DEF Restart
  <2> QED BY <2>1 DEF TrueVerdicts, Shows
<1>8. CASE Reprocess
  <2>1. /\ verdict' = verdict /\ UNCHANGED <<inHand, outcome>>
        /\ pc' = pc \/ \E p \in Passes : pc' = [pc EXCEPT ![p] = "gate"]
    BY <1>8 DEF Reprocess
  <2> QED BY <1>3, <1>4, <2>1
<1>9. ASSUME NEW f \in Files, Arrives(f) \/ Finishes(f) PROVE TrueVerdicts'
  <2>1. verdict' = verdict /\ UNCHANGED <<inHand, outcome, pc>>
    BY <1>9 DEF Arrives, Finishes
  <2> QED BY <1>3, <2>1
<1>10. ASSUME NEW a \in Actors, NEW f \in Files, verdict' = verdict, outcome' = outcome,
             inHand' = [inHand EXCEPT ![a] = {f}], pc' = [pc EXCEPT ![a] = "read"]
      PROVE  TrueVerdicts'
  BY <1>1, <1>2, <1>10 DEF TrueVerdicts, Shows, Caught
<1>11. ASSUME NEW f \in Files, PickOnTheFly(f) PROVE TrueVerdicts'
  <2>1. /\ verdict' = verdict /\ outcome' = outcome
        /\ inHand' = [inHand EXCEPT ![EventLoop] = {f}] /\ pc' = [pc EXCEPT ![EventLoop] = "read"]
    BY <1>11 DEF PickOnTheFly
  <2> QED BY <1>10, <2>1
<1>12. ASSUME NEW p \in Passes, PassScans(p) PROVE TrueVerdicts'
  <2>1. PICK f \in todo[p] :
          \/ /\ inHand' = [inHand EXCEPT ![p] = {f}] /\ pc' = [pc EXCEPT ![p] = "read"]
          \/ UNCHANGED <<inHand, pc>>
    BY <1>12 DEF PassScans
  <2>2. verdict' = verdict /\ outcome' = outcome
    BY <1>12 DEF PassScans
  <2>3. f \in Files
    BY Ranges
  <2> QED BY <1>3, <1>10, <2>1, <2>2, <2>3
<1>13. ASSUME NEW p \in Passes, \/ Signal(p) \/ Gate(p) \/ CheckComplete(p) \/ Staged(p)
                               \/ ScanDone(p) \/ Summarise(p) \/ RelocateDone(p) \/ StoreComplete(p)
                               \/ DropCompleted(p)
       PROVE TrueVerdicts'
  <2>1. verdict' = verdict /\ UNCHANGED inHand
    BY <1>13 DEF Signal, Gate, CheckComplete, Staged, ScanDone, Summarise, RelocateDone,
       StoreComplete, DropCompleted
  <2>2. \A b \in Actors \ {p} : outcome'[b] = outcome[b]
    BY <1>1, <1>13 DEF Signal, Gate, CheckComplete, Staged, ScanDone, Summarise, RelocateDone,
       StoreComplete, DropCompleted
  <2>3. PICK to : to \notin {"note", "isolate"} /\ pc' = [pc EXCEPT ![p] = to]
    <3>1. CASE Signal(p) \/ Gate(p) \/ CheckComplete(p)
      BY <3>1 DEF Signal, Gate, AfterGate, CheckComplete
    <3>2. CASE Staged(p) \/ ScanDone(p) \/ Summarise(p)
      BY <3>2 DEF Staged, ScanDone, Summarise
    <3>3. CASE RelocateDone(p) \/ StoreComplete(p) \/ DropCompleted(p)
      BY <3>3 DEF RelocateDone, StoreComplete, DropCompleted
    <3> QED BY <1>13, <3>1, <3>2, <3>3
  <2> QED BY <1>4, <2>1, <2>2, <2>3
<1>14. ASSUME NEW p \in Passes, Stage(p) \/ Relocate(p) PROVE TrueVerdicts'
  <2>1. verdict' = verdict /\ UNCHANGED <<inHand, outcome, pc>>
    BY <1>14 DEF Stage, Relocate
  <2> QED BY <1>3, <2>1
<1>15. ASSUME NEW a \in Actors, ReadFile(a) PROVE TrueVerdicts'
  <2>1. /\ pc[a] = "read" /\ pc' = [pc EXCEPT ![a] = "note"]
        /\ verdict' = verdict /\ inHand' = inHand
    BY <1>15 DEF ReadFile
  <2>2. PICK f \in inHand[a] :
          \E v \in Conclusions(f, copy[PlaceOf(a)][f]) : outcome' = [outcome EXCEPT ![a] = v]
    BY <1>15 DEF ReadFile
  <2>3. f \in Files
    BY Ranges
  <2>4. copy[PlaceOf(a)][f] \in {"no", "whole"}
    BY <2>1, <2>3 DEF WholeCopies, PlaceOf, Typed, FilesTyped
  <2>5. PICK v \in Conclusions(f, copy[PlaceOf(a)][f]) : outcome' = [outcome EXCEPT ![a] = v]
    BY <2>2
  <2>6. Shows(f, v)
    BY <2>3, <2>4, <2>5, ConclusionTypes
  <2>7. \A g \in inHand[a] : g = f
    BY DEF TrueVerdicts
  <2> QED BY <1>1, <1>2, <2>1, <2>6, <2>7, <2>5 DEF TrueVerdicts, Shows, Caught
<1>16. ASSUME NEW a \in Actors, RecordFileScan(a) PROVE TrueVerdicts'
  <2>1. PICK f \in inHand[a] : verdict' = [verdict EXCEPT ![f] = outcome[a]]
    BY <1>16 DEF RecordFileScan
  <2>2. /\ pc[a] = "note"
        /\ pc' = [pc EXCEPT ![a] = IF outcome[a] = "threat" THEN "isolate" ELSE AfterScan(a)]
        /\ inHand' = IF outcome[a] = "threat" THEN inHand ELSE [inHand EXCEPT ![a] = {}]
        /\ outcome' = [outcome EXCEPT ![a] = "none"]
    BY <1>16 DEF RecordFileScan
  <2>3. f \in Files /\ Shows(f, outcome[a]) /\ \A g \in inHand[a] : g = f
    BY <2>2, Ranges DEF TrueVerdicts
  <2>4. outcome[a] # "none"
    BY <2>2 DEF Typed, ActorsTyped
  <2>5. \A g \in Files : Shows(g, verdict[g])'
    BY <1>1, <1>2, <2>1, <2>3 DEF TrueVerdicts, Shows
  <2>6. \A g \in Files : Caught(g) => Caught(g)'
    BY <1>1, <1>2, <2>1, <2>4 DEF Caught
  <2>7. outcome[a] = "threat" => Caught(f)'
    BY <1>1, <1>2, <2>1, <2>3, <2>4 DEF Caught, Shows
  <2>8. CASE outcome[a] = "threat"
    BY <1>1, <1>2, <2>2, <2>3, <2>5, <2>6, <2>7, <2>8, Ranges DEF TrueVerdicts, Shows
  <2>9. CASE outcome[a] # "threat"
    BY <1>1, <1>2, <2>2, <2>5, <2>6, <2>9, Ranges DEF TrueVerdicts, Shows, AfterScan
  <2> QED BY <2>8, <2>9
<1>17. ASSUME NEW a \in Actors, Quarantine(a) PROVE TrueVerdicts'
  <2>1. /\ verdict' = verdict /\ outcome' = outcome /\ inHand' = [inHand EXCEPT ![a] = {}]
        /\ pc' = [pc EXCEPT ![a] = AfterScan(a)]
    BY <1>17 DEF Quarantine
  <2> QED BY <1>1, <1>2, <2>1 DEF TrueVerdicts, Shows, Caught, AfterScan
<1>18. CASE UNCHANGED vars
  BY <1>3, <1>18 DEF vars
<1> QED
  BY <1>5, <1>6, <1>7, <1>8, <1>9, <1>11, <1>12, <1>13, <1>14, <1>15, <1>16, <1>17, <1>18
  DEF Next, StartUp, Pass, Scan

\* A step that puts nothing into scanning/ or clean/, forgets no verdict, and
\* leaves every pass where it was or takes it to where nothing is asked of it.
NoneEnters  == \A d \in {"scanning", "clean"}, f \in Files : In(d, f)' => In(d, f)
NoneForgets == \A f \in Files : verdict[f] # "none" => verdict'[f] # "none"
SamePass(p) == /\ pc'[p] = pc[p] /\ todo'[p] = todo[p]
               /\ inHand'[p] = inHand[p] /\ outcome'[p] = outcome[p]

LEMMA VettedFrame ==
  ASSUME Typed, Vetted, infected' = infected, NoneEnters, NoneForgets,
         \A p \in Passes : SamePass(p) \/ pc'[p] \in {"idle", "gate", "check", "stage", "drop"}
  PROVE  Vetted'
<1>1. CleanIsVetted'
  BY Ranges DEF Vetted, CleanIsVetted, NoneEnters
<1>2. ASSUME NEW p \in Passes PROVE PassVetted(p)'
  <2>1. CASE SamePass(p)
    BY <2>1, Ranges DEF Vetted, PassVetted, SamePass, NoneEnters, NoneForgets, Visited, Scanning,
       Delivering
  <2>2. CASE pc'[p] \in {"idle", "gate", "check", "stage", "drop"}
    BY <2>2 DEF PassVetted, Scanning, Delivering
  <2> QED BY <2>1, <2>2
<1> QED BY <1>1, <1>2 DEF Vetted

\* While a pass is under way nothing is asked of another.
LEMMA OthersNotStarted ==
  ASSUME Typed, OnePass, NEW p \in Passes, Started(p),
         \A q \in Actors \ {p} : pc'[q] = pc[q]
  PROVE  /\ \A q \in Passes \ {p} : PassVetted(q)'
         /\ \A q \in Passes \ {p} : PassThere(q)'
<1>1. \A q \in Passes \ {p} : pc'[q] \in {"idle", "gate"}
  BY ActorNames DEF OnePass, Started
<1>2. ASSUME NEW q \in Passes \ {p} PROVE PassVetted(q)'
  BY <1>1 DEF PassVetted, Scanning, Delivering
<1>3. ASSUME NEW q \in Passes \ {p} PROVE PassThere(q)'
  BY <1>1 DEF PassThere, Scanning, Delivering
<1> QED BY <1>2, <1>3

\* So a step of a pass has only its own files to answer for.
LEMMA PassStepVets ==
  ASSUME Typed, OnePass, Vetted, NEW p \in Passes, Started(p),
         infected' = infected, \A f \in infected : In("clean", f)' => In("clean", f),
         \A q \in Actors \ {p} : pc'[q] = pc[q], PassVetted(p)'
  PROVE  Vetted'
<1>1. CleanIsVetted'
  BY DEF Vetted, CleanIsVetted
<1> QED BY <1>1, OthersNotStarted DEF Vetted

\* Whatever a pass delivers has been scanned, and found clean.
LEMMA VettedKept ==
  ASSUME Typed, OnePass, WholeCopies, TrueVerdicts, Vetted, [Next]_vars, ~reentered'
  PROVE  Vetted'
<1> USE DeliveryAssumption, ActorNames, DirNames DEF client, disk, scan, Goto
<1>1. /\ pc \in [Actors -> Steps] /\ inHand \in [Actors -> SUBSET Files]
      /\ todo \in [Actors -> SUBSET Files]
      /\ verdict \in [Files -> Verdicts] /\ outcome \in [Actors -> Verdicts \union Summaries]
      /\ copy \in [Dirs -> [Files -> {"no", "part", "whole"}]]
  BY DEF Typed, ActorsTyped, FilesTyped
<1>2. infected' = infected
  BY HistoryKept
<1>3. ASSUME UNCHANGED <<pc, todo, inHand, outcome, verdict>>, NoneEnters PROVE Vetted'
  BY <1>2, <1>3, VettedFrame DEF NoneForgets, SamePass
<1>4. ASSUME NEW p \in Passes, \A q \in Actors \ {p} : SamePass(q), UNCHANGED <<verdict, copy>>,
             pc'[p] \in {"idle", "gate", "check", "stage", "drop"}
      PROVE  Vetted'
  BY <1>2, <1>4, VettedFrame DEF NoneForgets, NoneEnters, In
<1>5. CASE AddedAgain \/ Restore
  BY <1>3, <1>5, RegistersQuiet DEF NoneEnters, In
<1>6. CASE OnAdd \/ PauseOrPanic \/ Cancel \/ Forget \/ NothingToRestore
  <2>1. UNCHANGED <<pc, todo, inHand, outcome, verdict, copy>>
    BY <1>6 DEF OnAdd, PauseOrPanic, Cancel, Forget, NothingToRestore
  <2> QED BY <1>3, <2>1 DEF NoneEnters, In
<1>7. CASE RemovePaths
  <2>1. /\ UNCHANGED <<pc, todo, inHand, outcome, verdict>>
        /\ copy' = [copy EXCEPT !["download"] = [f \in Files |-> "no"],
                                !["scanning"] = [f \in Files |-> "no"]]
    BY <1>7 DEF RemovePaths
  <2>2. NoneEnters
    BY <1>1, <2>1 DEF NoneEnters, In
  <2> QED BY <1>3, <2>1, <2>2
<1>8. CASE Restart
  <2>1. copy' = copy /\ pc' = [a \in Actors |-> "idle"]
    BY <1>8 DEF Restart
  <2> QED BY <1>2, <2>1 DEF Vetted, PassVetted, CleanIsVetted, In, Scanning, Delivering
<1>9. CASE Reprocess
  <2>1. /\ UNCHANGED <<todo, inHand, outcome, verdict, copy>>
        /\ pc' = pc \/ \E p \in Passes : pc' = [pc EXCEPT ![p] = "gate"]
    BY <1>9 DEF Reprocess
  <2>2. CASE pc' = pc
    BY <1>3, <2>1, <2>2 DEF NoneEnters, In
  <2>3. CASE pc' # pc
    BY <1>1, <1>4, <2>1, <2>3 DEF SamePass
  <2> QED BY <2>2, <2>3
<1>10. ASSUME NEW f \in Files, Arrives(f) \/ Finishes(f) PROVE Vetted'
  <2>1. UNCHANGED <<pc, todo, inHand, outcome, verdict>>
    BY <1>10 DEF Arrives, Finishes
  <2>2. \E c : copy' = [copy EXCEPT !["download"][f] = c]
    BY <1>10 DEF Arrives, Finishes
  <2>3. NoneEnters
    BY <1>1, <2>2 DEF NoneEnters, In
  <2> QED BY <1>3, <2>1, <2>3
<1>11. ASSUME NEW f \in Files, PickOnTheFly(f) PROVE Vetted'
  <2>1. /\ UNCHANGED <<todo, outcome, verdict, copy>>
        /\ inHand' = [inHand EXCEPT ![EventLoop] = {f}] /\ pc' = [pc EXCEPT ![EventLoop] = "read"]
    BY <1>11 DEF PickOnTheFly
  <2>2. \A p \in Passes : SamePass(p)
    BY <1>1, <2>1 DEF SamePass
  <2> QED BY <1>2, <2>1, <2>2, VettedFrame DEF NoneEnters, NoneForgets, In
<1>12. ASSUME NEW p \in Passes, Signal(p) \/ Gate(p) PROVE Vetted'
  <2>1. /\ UNCHANGED <<todo, inHand, outcome, verdict, copy>>
        /\ \E to \in {"idle", "gate", "check"} : pc' = [pc EXCEPT ![p] = to]
    BY <1>12 DEF Signal, Gate, AfterGate
  <2> QED BY <1>1, <1>4, <2>1 DEF SamePass
<1>13. ASSUME NEW p \in Passes, CheckComplete(p) PROVE Vetted'
  <2>1. /\ UNCHANGED <<inHand, outcome, verdict, copy>> /\ \E t : todo' = [todo EXCEPT ![p] = t]
        /\ \E to \in {"idle", "stage"} : pc' = [pc EXCEPT ![p] = to]
    BY <1>13 DEF CheckComplete
  <2> QED BY <1>1, <1>4, <2>1 DEF SamePass
<1>14. ASSUME NEW p \in Passes, Stage(p) PROVE Vetted'
  <2>1. pc' = pc /\ pc[p] = "stage" /\ Started(p)
    BY <1>14 DEF Stage, Started
  <2>2. copy' = copy \/ \E f \in Files : Move(f, "download", "scanning")
    BY <1>1, <1>14 DEF Stage, MoveNext
  <2>3. \A f \in infected : In("clean", f)' => In("clean", f)
    <3>1. \A g \in Files : copy'["clean"][g] = copy["clean"][g]
      <4>1. ASSUME NEW f \in Files, Move(f, "download", "scanning"), NEW g \in Files
            PROVE  copy'["clean"][g] = copy["clean"][g]
        BY <1>1, <4>1 DEF Move
      <4> QED BY <2>2, <4>1
    <3> QED BY <3>1, Ranges DEF In
  <2>4. PassVetted(p)'
    BY <2>1 DEF PassVetted, Scanning, Delivering
  <2> QED BY <1>2, <2>1, <2>3, <2>4, PassStepVets
<1>15. ASSUME NEW p \in Passes, Staged(p) PROVE Vetted'
  <2>1. /\ copy' = copy /\ pc[p] = "stage" /\ pc' = [pc EXCEPT ![p] = "scan"]
        /\ todo' = [todo EXCEPT ![p] = Files]
    BY <1>15 DEF Staged, MoveFails
  <2>2. PassVetted(p)'
    BY <1>1, <2>1 DEF PassVetted, Visited, Delivering
  <2> QED BY <1>1, <1>2, <2>1, <2>2, PassStepVets DEF Started, In
<1>16. ASSUME NEW p \in Passes, PassScans(p) PROVE Vetted'
  <2>1. pc[p] = "scan" /\ UNCHANGED <<copy, verdict, outcome>>
    BY <1>16 DEF PassScans
  <2>2. PICK f \in todo[p] :
          /\ todo' = [todo EXCEPT ![p] = @ \ {f}]
          /\ IF NeedsScan(f)
             THEN inHand' = [inHand EXCEPT ![p] = {f}] /\ pc' = [pc EXCEPT ![p] = "read"]
             ELSE UNCHANGED <<inHand, pc>>
    BY <1>16 DEF PassScans
  <2>3. todo'[p] = todo[p] \ {f} /\ \A q \in Actors \ {p} : pc'[q] = pc[q]
    BY <1>1, <2>2
  <2>4. \A g \in Files : g \notin todo[p] /\ In("scanning", g) => verdict[g] # "none"
    BY <2>1 DEF Vetted, PassVetted, Scanning, Visited
  <2>5. CASE NeedsScan(f)
    <3>1. inHand'[p] = {f} /\ pc'[p] = "read"
      BY <1>1, <2>2, <2>5
    <3>2. PassVetted(p)'
      BY <2>1, <2>3, <2>4, <3>1 DEF PassVetted, Visited, Delivering, In
    <3> QED BY <1>2, <2>1, <2>3, <3>2, PassStepVets DEF Started, In
  <2>6. CASE ~NeedsScan(f)
    <3>1. In("scanning", f) => verdict[f] # "none"
      BY <2>6 DEF NeedsScan
    <3>2. pc' = pc
      BY <2>2, <2>6
    <3>3. PassVetted(p)'
      BY <2>1, <2>3, <2>4, <3>1, <3>2 DEF PassVetted, Visited, Delivering, In
    <3> QED BY <1>2, <2>1, <2>3, <3>3, PassStepVets DEF Started, In
  <2> QED BY <2>5, <2>6
<1>17. ASSUME NEW p \in Passes, ScanDone(p) PROVE Vetted'
  <2>1. /\ pc[p] = "scan" /\ todo[p] = {} /\ pc' = [pc EXCEPT ![p] = "summary"]
        /\ UNCHANGED <<copy, verdict, inHand, outcome, todo>>
    BY <1>17 DEF ScanDone
  <2>2. PassVetted(p)'
    BY <1>1, <2>1 DEF Vetted, PassVetted, Visited, Scanning, Delivering, In
  <2> QED BY <1>1, <1>2, <2>1, <2>2, PassStepVets DEF Started, In
<1>18. ASSUME NEW p \in Passes, Summarise(p) PROVE Vetted'
  <2>1. /\ pc[p] = "summary" /\ pc' = [pc EXCEPT ![p] = "relocate"] /\ UNCHANGED <<copy, verdict>>
        /\ outcome' = [outcome EXCEPT ![p] = ScanSummary({verdict[f] : f \in Files})]
    BY <1>18 DEF Summarise
  <2>2. ASSUME outcome'[p] = "clean", NEW f \in infected PROVE ~In("scanning", f)
    <3>1. f \in Files
      BY Ranges
    <3>2. verdict[f] \in {"none", "clean"}
      <4>1. outcome'[p] = ScanSummary({verdict[g] : g \in Files})
        BY <1>1, <2>1
      <4>2. verdict[f] # "threat" /\ verdict[f] # "unscanned"
        BY <2>2, <3>1, <4>1, SummaryTypes
      <4> QED BY <1>1, <3>1, <4>2 DEF Verdicts
    <3>3. verdict[f] # "clean"
      BY <3>1 DEF TrueVerdicts, Shows
    <3>4. In("scanning", f) => verdict[f] # "none"
      BY <2>1, <3>1 DEF Vetted, PassVetted, Scanning, Visited
    <3> QED BY <3>2, <3>3, <3>4
  <2>3. pc'[p] = "relocate"
    BY <1>1, <2>1
  <2>4. PassVetted(p)'
    BY <1>2, <2>1, <2>2, <2>3 DEF PassVetted, Scanning, In
  <2> QED BY <1>1, <1>2, <2>1, <2>4, PassStepVets DEF Started, In
<1>19. ASSUME NEW p \in Passes, Relocate(p) PROVE Vetted'
  <2>1. pc[p] = "relocate" /\ pc' = pc /\ outcome' = outcome
    BY <1>19 DEF Relocate
  <2>2. copy' = copy \/ \E f \in Files : In("scanning", f) /\ Move(f, "scanning", Destination(p))
    BY <1>1, <1>19 DEF Relocate, MoveNext
  <2>3. /\ Destination(p) \in {"quarantine", "clean"}
        /\ (Destination(p) = "clean" => outcome[p] = "clean")
    BY <1>19 DEF Relocate, Destination
  <2>4. outcome[p] = "clean" => \A f \in infected : ~In("scanning", f)
    BY <2>1 DEF Vetted, PassVetted, Delivering
  <2>5. CASE copy' = copy
    BY <1>2, <2>1, <2>4, <2>5, PassStepVets DEF Started, In, PassVetted, Scanning
  <2>6. ASSUME NEW f \in Files, In("scanning", f), Move(f, "scanning", Destination(p)) PROVE Vetted'
    <3>1. \A g \in Files : In("scanning", g)' => In("scanning", g)
      <4>1. ASSUME NEW g \in Files, g # f PROVE copy'["scanning"][g] = copy["scanning"][g]
        BY <1>1, <2>3, <2>6, <4>1, MoveTypes
      <4>2. copy'["scanning"][f] = "no"
        BY <1>1, <2>3, <2>6, MoveTypes
      <4> QED BY <4>1, <4>2 DEF In
    <3>2. \A g \in Files : In("clean", g)' => In("clean", g) \/ (g = f /\ Destination(p) = "clean")
      <4>1. ASSUME NEW g \in Files, g # f \/ Destination(p) # "clean"
            PROVE  copy'["clean"][g] = copy["clean"][g]
        BY <1>1, <2>3, <2>6, <4>1, MoveTypes
      <4> QED BY <4>1 DEF In
    <3>3. \A g \in infected : In("clean", g)' => In("clean", g)
      BY <2>3, <2>4, <2>6, <3>2, Ranges
    <3>4. PassVetted(p)'
      BY <1>2, <2>1, <2>4, <3>1, Ranges DEF PassVetted, Scanning
    <3> QED BY <1>2, <2>1, <3>3, <3>4, PassStepVets DEF Started
  <2> QED BY <2>2, <2>5, <2>6
<1>20. ASSUME NEW p \in Passes, RelocateDone(p) PROVE Vetted'
  <2>1. /\ pc[p] = "relocate" /\ pc' = [pc EXCEPT ![p] = "store"] /\ UNCHANGED <<copy, outcome>>
    BY <1>20 DEF RelocateDone, MoveFails
  <2>2. PassVetted(p)'
    BY <1>1, <1>2, <2>1 DEF Vetted, PassVetted, Scanning, Delivering, In
  <2> QED BY <1>1, <1>2, <2>1, <2>2, PassStepVets DEF Started, In
<1>21. ASSUME NEW p \in Passes, StoreComplete(p) \/ DropCompleted(p) PROVE Vetted'
  <2>1. /\ UNCHANGED <<todo, inHand, verdict, copy>>
        /\ \A q \in Actors \ {p} : outcome'[q] = outcome[q]
        /\ \E to \in {"idle", "drop"} : pc' = [pc EXCEPT ![p] = to]
    BY <1>1, <1>21 DEF StoreComplete, DropCompleted
  <2> QED BY <1>1, <1>4, <2>1 DEF SamePass
<1>22. ASSUME NEW a \in Actors, ReadFile(a) PROVE Vetted'
  <2>1. /\ pc[a] = "read" /\ pc' = [pc EXCEPT ![a] = "note"]
        /\ UNCHANGED <<copy, verdict, inHand, todo>>
        /\ \E v : outcome' = [outcome EXCEPT ![a] = v]
    BY <1>22 DEF ReadFile
  <2>2. CASE a \in Passes
    <3>1. PassVetted(a)'
      BY <1>1, <2>1, <2>2 DEF Vetted, PassVetted, Visited, Scanning, Delivering, In
    <3> QED BY <1>1, <1>2, <2>1, <2>2, <3>1, PassStepVets DEF Started, In
  <2>3. CASE a \notin Passes
    <3>1. \A p \in Passes : SamePass(p)
      BY <1>1, <2>1, <2>3 DEF SamePass
    <3> QED BY <1>2, <2>1, <3>1, VettedFrame DEF NoneEnters, NoneForgets, In
  <2> QED BY <2>2, <2>3
<1>23. ASSUME NEW a \in Actors, RecordFileScan(a) PROVE Vetted'
  <2>1. PICK f \in inHand[a] : verdict' = [verdict EXCEPT ![f] = outcome[a]]
    BY <1>23 DEF RecordFileScan
  <2>2. /\ pc[a] = "note" /\ UNCHANGED <<copy, todo>> /\ \E v : outcome' = [outcome EXCEPT ![a] = v]
        /\ \E to \in {"isolate", AfterScan(a)} : pc' = [pc EXCEPT ![a] = to]
        /\ inHand' = inHand \/ inHand' = [inHand EXCEPT ![a] = {}]
    BY <1>23 DEF RecordFileScan
  <2>3. outcome[a] # "none" /\ f \in Files /\ inHand[a] \subseteq {f}
    BY <2>2, Ranges DEF Typed, ActorsTyped, TrueVerdicts
  <2>4. NoneForgets /\ verdict'[f] # "none"
    BY <1>1, <2>1, <2>3 DEF NoneForgets
  <2>5. CASE a \in Passes
    <3>1. pc'[a] \in {"isolate", "scan"}
      BY <1>1, <2>2, <2>5 DEF AfterScan
    <3>2. \A g \in Files : g \notin todo[a] /\ g # f /\ In("scanning", g) => verdict[g] # "none"
      BY <2>2, <2>3, <2>5 DEF Vetted, PassVetted, Visited, Scanning
    <3>3. PassVetted(a)'
      BY <2>2, <2>4, <3>1, <3>2 DEF PassVetted, Visited, Delivering, In, NoneForgets
    <3> QED BY <1>1, <1>2, <2>2, <2>5, <3>3, PassStepVets DEF Started, In
  <2>6. CASE a \notin Passes
    <3>1. \A p \in Passes : SamePass(p)
      BY <1>1, <2>2, <2>6 DEF SamePass
    <3> QED BY <1>2, <2>2, <2>4, <3>1, VettedFrame DEF NoneEnters, In
  <2> QED BY <2>5, <2>6
<1>24. ASSUME NEW a \in Actors, Quarantine(a) PROVE Vetted'
  <2>1. /\ pc[a] = "isolate" /\ UNCHANGED <<verdict, outcome, todo>>
        /\ inHand' = [inHand EXCEPT ![a] = {}] /\ pc' = [pc EXCEPT ![a] = AfterScan(a)]
    BY <1>24 DEF Quarantine
  <2>2. \/ copy' = copy
        \/ \E f \in inHand[a] :
             f \in Files /\ \E over \in SUBSET (Files \ {f}) : copy' = Isolated(f, PlaceOf(a), over)
    BY <1>24, QuarantineIsolates DEF Typed
  <2>3. NoneEnters
    <3>1. /\ PlaceOf(a) \in Dirs \ {"quarantine"} /\ {"scanning", "clean"} \subseteq Dirs \ {"quarantine"}
          /\ copy \in [Dirs -> [Files -> {"no", "part", "whole"}]]
      BY DirNames DEF PlaceOf, Typed, FilesTyped
    <3>2. ASSUME NEW f \in Files, NEW over \in SUBSET (Files \ {f}),
                 copy' = Isolated(f, PlaceOf(a), over)
          PROVE  /\ copy'[PlaceOf(a)][f] = "no"
                 /\ \A d \in Dirs \ {"quarantine"}, g \in Files :
                      d # PlaceOf(a) \/ g # f => copy'[d][g] = copy[d][g]
      BY <3>1, <3>2, IsolatedTypes
    <3> QED
      BY <2>2, <3>1, <3>2 DEF NoneEnters, In
  <2>4. CASE a \in Passes
    <3>1. pc'[a] = "scan"
      BY <1>1, <2>1, <2>4 DEF AfterScan
    <3>2. PassVetted(a)'
      BY <1>1, <2>1, <2>3, <2>4, <3>1 DEF Vetted, PassVetted, Visited, Scanning, Delivering,
         NoneEnters
    <3> QED BY <1>1, <1>2, <2>1, <2>3, <2>4, <3>2, PassStepVets, Ranges DEF Started, NoneEnters
  <2>5. CASE a \notin Passes
    <3>1. \A p \in Passes : SamePass(p)
      BY <1>1, <2>1, <2>5 DEF SamePass
    <3> QED BY <1>2, <2>1, <2>3, <3>1, VettedFrame DEF NoneForgets
  <2> QED BY <2>4, <2>5
<1>25. CASE UNCHANGED vars
  BY <1>3, <1>25 DEF vars, NoneEnters, In
<1> QED
  BY <1>5, <1>6, <1>7, <1>8, <1>9, <1>10, <1>11, <1>12, <1>13, <1>14, <1>15, <1>16, <1>17, <1>18,
     <1>19, <1>20, <1>21, <1>22, <1>23, <1>24, <1>25
  DEF Next, StartUp, Pass, Scan

-----------------------------------------------------------------------------
(* Nothing is left behind                                                  *)

\* What is whole in a directory stays there, or is caught.
StaysOrCaught(d) == \A f \in Files : copy[d][f] = "whole" => copy'[d][f] = "whole" \/ Caught(f)'

\* A file that was caught stays caught while its verdict is kept.
LEMMA CaughtStays == infected' = infected /\ NoneForgets => \A f \in Files : Caught(f) => Caught(f)'
BY DEF NoneForgets, Caught

\* A step that leaves the client's pieces alone, and has no pass end its work.
LEMMA GotFrame ==
  ASSUME Typed, GotThere, infected' = infected, NoneForgets, StaysOrCaught("download"),
         (live' <=> live) /\ got' = got, \A p \in Passes : Working(p) => Working(p)'
  PROVE  GotThere'
BY CaughtStays, Ranges DEF GotThere, StaysOrCaught

\* A step that leaves scanning/ and clean/ alone, and every pass where it was, or
\* takes it to where nothing is asked of it.
LEMMA PassFrame ==
  ASSUME infected' = infected, NoneForgets, StaysOrCaught("download"),
         \A f \in Files : /\ copy'["scanning"][f] = copy["scanning"][f]
                          /\ copy'["clean"][f] = copy["clean"][f],
         NEW p \in Passes, PassThere(p), SamePass(p) \/ pc'[p] \in {"idle", "gate", "check", "drop"}
  PROVE  PassThere(p)'
<1>1. CASE SamePass(p)
  <2>1. \A f \in Files : Visited(p, f)' <=> Visited(p, f)
    BY <1>1 DEF Visited, SamePass
  <2> QED
    BY <1>1, <2>1, CaughtStays DEF PassThere, SamePass, StaysOrCaught, NoneForgets, Scanning,
       Delivering
<1>2. CASE pc'[p] \in {"idle", "gate", "check", "drop"}
  BY <1>2 DEF PassThere, Scanning, Delivering
<1> QED BY <1>1, <1>2

\* What a record says is so until the next record.
LEMMA CleanFrame ==
  ASSUME CleanThere, record' = record,
         \A f \in Files : copy["clean"][f] = "whole" => copy'["clean"][f] = "whole"
  PROVE  CleanThere'
BY DEF CleanThere

\* A step of a pass that goes on working.
LEMMA PassStepThere ==
  ASSUME Typed, OnePass, AllThere, NEW p \in Passes, Started(p), Working(p)', record' = record,
         \A f \in Files : copy["clean"][f] = "whole" => copy'["clean"][f] = "whole",
         \A q \in Actors \ {p} : pc'[q] = pc[q], PassThere(p)'
  PROVE  AllThere'
<1>1. GotThere'
  BY DEF GotThere
<1>2. CleanThere'
  BY CleanFrame DEF AllThere
<1> QED BY <1>1, <1>2, OthersNotStarted DEF AllThere

\* Unless a rename fails or something is deleted, every file is where its pass
\* left it, or it was caught.
LEMMA AllThereKept ==
  ASSUME Typed, OnePass, TrueVerdicts, Vetted, AllThere, [Next]_vars, ~reentered', ~disturbed'
  PROVE  AllThere'
<1> USE DeliveryAssumption, ActorNames, DirNames DEF client, scan, Goto
<1>1. /\ pc \in [Actors -> Steps] /\ inHand \in [Actors -> SUBSET Files]
      /\ todo \in [Actors -> SUBSET Files]
      /\ verdict \in [Files -> Verdicts] /\ outcome \in [Actors -> Verdicts \union Summaries]
      /\ copy \in [Dirs -> [Files -> {"no", "part", "whole"}]]
  BY DEF Typed, ActorsTyped, FilesTyped
<1>2. infected' = infected
  BY HistoryKept
<1>3. ASSUME verdict' = verdict, copy' = copy
      PROVE  /\ NoneForgets /\ StaysOrCaught("download")
             /\ \A f \in Files : /\ copy'["scanning"][f] = copy["scanning"][f]
                                 /\ copy'["clean"][f] = copy["clean"][f]
  BY <1>3 DEF NoneForgets, StaysOrCaught
<1>4. ASSUME UNCHANGED <<pc, todo, inHand, outcome, verdict, copy>>
      PROVE  \A p \in Passes : PassThere(p)'
  BY <1>2, <1>3, <1>4, PassFrame DEF AllThere, SamePass
<1>5. CASE AddedAgain \/ Restore
  <2>1. /\ UNCHANGED <<pc, todo, inHand, outcome, verdict, copy, record>>
        /\ got' = {f \in Files : copy["download"][f] = "whole"}
    BY <1>5, RegistersQuiet
  <2>2. GotThere'
    BY <2>1 DEF GotThere
  <2> QED BY <1>4, <2>1, <2>2, CleanFrame DEF AllThere
<1>6. CASE OnAdd \/ Forget
  <2>1. /\ UNCHANGED <<pc, todo, inHand, outcome, verdict, copy>> /\ (live' <=> live) /\ got' = got
    <3>1. CASE OnAdd
      BY <3>1 DEF OnAdd, disk
    <3>2. CASE Forget
      BY <3>2 DEF Forget, disk
    <3> QED BY <1>6, <3>1, <3>2
  <2>2. record'.state # "complete"
    <3>1. CASE OnAdd
      BY <3>1 DEF OnAdd
    <3>2. CASE Forget
      BY <3>2 DEF Forget, NoRecord
    <3> QED BY <1>6, <3>1, <3>2
  <2>3. CleanThere'
    BY <2>2 DEF CleanThere
  <2>4. GotThere'
    BY <1>2, <1>3, <2>1, GotFrame DEF AllThere, Working
  <2> QED BY <1>4, <2>1, <2>3, <2>4 DEF AllThere
<1>7. CASE PauseOrPanic \/ Cancel
  <2>1. UNCHANGED <<pc, todo, inHand, outcome, verdict, copy, record>> /\ ~live'
    BY <1>7 DEF PauseOrPanic, Cancel, Drops, disk
  <2>2. GotThere'
    BY <2>1 DEF GotThere
  <2> QED BY <1>4, <2>1, <2>2, CleanFrame DEF AllThere
<1>8. CASE RemovePaths
  BY <1>8 DEF RemovePaths
<1>9. CASE NothingToRestore
  <2>1. /\ UNCHANGED <<pc, todo, inHand, outcome, verdict, copy, record>>
        /\ (live' <=> live) /\ got' = got
    BY <1>9 DEF NothingToRestore, disk
  <2>2. GotThere'
    BY <1>2, <1>3, <2>1, GotFrame DEF AllThere, Working
  <2> QED BY <1>4, <2>1, <2>2, CleanFrame DEF AllThere
<1>10. CASE Restart
  <2>1. copy' = copy /\ pc' = [a \in Actors |-> "idle"] /\ ~live' /\ record' = record
    BY <1>10 DEF Restart, disk
  <2>2. \A p \in Passes : PassThere(p)'
    BY <2>1 DEF PassThere, Scanning, Delivering
  <2>3. GotThere'
    BY <2>1 DEF GotThere
  <2> QED BY <2>1, <2>2, <2>3, CleanFrame DEF AllThere
<1>11. ASSUME NEW p \in Passes, NEW to \in {"idle", "gate", "check"}, pc' = [pc EXCEPT ![p] = to],
              ~Working(p), UNCHANGED <<todo, inHand, outcome, verdict, copy, record, got>>,
              live' <=> live
       PROVE  AllThere'
  <2>1. \A q \in Passes : SamePass(q) \/ pc'[q] \in {"idle", "gate", "check", "drop"}
    BY <1>1, <1>11 DEF SamePass
  <2>2. \A q \in Passes : Working(q) => Working(q)'
    BY <1>1, <1>11 DEF Working
  <2>3. GotThere'
    BY <1>2, <1>3, <1>11, <2>2, GotFrame DEF AllThere
  <2> QED BY <1>2, <1>3, <1>11, <2>1, <2>3, PassFrame, CleanFrame DEF AllThere
<1>12. CASE Reprocess
  <2>1. UNCHANGED <<todo, inHand, outcome, verdict, copy, record, got>> /\ (live' <=> live)
    BY <1>12 DEF Reprocess, disk
  <2>2. pc' = pc \/ \E p \in Passes : pc[p] = "idle" /\ pc' = [pc EXCEPT ![p] = "gate"]
    BY <1>12 DEF Reprocess
  <2>3. CASE pc' = pc
    <3>1. GotThere'
      BY <1>2, <1>3, <2>1, <2>3, GotFrame DEF AllThere, Working
    <3> QED BY <1>4, <2>1, <2>3, <3>1, CleanFrame DEF AllThere
  <2>4. ASSUME NEW p \in Passes, pc[p] = "idle", pc' = [pc EXCEPT ![p] = "gate"] PROVE AllThere'
    BY <1>11, <2>1, <2>4 DEF Working
  <2> QED BY <2>2, <2>3, <2>4
<1>13. ASSUME NEW f \in Files, NEW c, copy' = [copy EXCEPT !["download"][f] = c],
              UNCHANGED <<pc, todo, inHand, outcome, verdict, record>>, live' <=> live,
              \/ copy["download"][f] = "no" /\ got' = got
              \/ copy["download"][f] = "part" /\ c = "whole" /\ got' = got \union {f}
       PROVE  AllThere'
  <2>1. /\ copy'["download"][f] = c
        /\ \A g \in Files \ {f} : copy'["download"][g] = copy["download"][g]
    BY <1>1, <1>13
  <2>2. NoneForgets
    BY <1>13 DEF NoneForgets
  <2>3. StaysOrCaught("download")
    BY <1>13, <2>1 DEF StaysOrCaught
  <2>4. \A g \in Files : /\ copy'["scanning"][g] = copy["scanning"][g]
                         /\ copy'["clean"][g] = copy["clean"][g]
    BY <1>1, <1>13
  <2>5. \A p \in Passes : PassThere(p)'
    BY <1>2, <1>13, <2>2, <2>3, <2>4, PassFrame DEF AllThere, SamePass
  <2>6. GotThere'
    <3>1. (\A p \in Passes : ~Working(p))' <=> \A p \in Passes : ~Working(p)
      BY <1>13 DEF Working
    <3>2. ASSUME NEW g \in got' PROVE g \in got \/ copy'["download"][g] = "whole"
      BY <1>13, <2>1
    <3> QED BY <1>2, <1>13, <2>2, <2>3, <3>1, <3>2, CaughtStays, Ranges
            DEF AllThere, GotThere, StaysOrCaught
  <2>7. CleanThere'
    BY <1>13, <2>4, CleanFrame DEF AllThere
  <2> QED BY <2>5, <2>6, <2>7 DEF AllThere
<1>14. ASSUME NEW f \in Files, Arrives(f) \/ Finishes(f) PROVE AllThere'
  <2>1. CASE Arrives(f)
    BY <1>13, <2>1 DEF Arrives
  <2>2. CASE Finishes(f)
    BY <1>13, <2>2 DEF Finishes
  <2> QED BY <1>14, <2>1, <2>2
<1>15. ASSUME NEW f \in Files, PickOnTheFly(f) PROVE AllThere'
  <2>1. /\ UNCHANGED <<todo, outcome, verdict, copy, record, got>> /\ (live' <=> live)
        /\ inHand' = [inHand EXCEPT ![EventLoop] = {f}] /\ pc' = [pc EXCEPT ![EventLoop] = "read"]
    BY <1>15 DEF PickOnTheFly, disk
  <2>2. \A p \in Passes : SamePass(p)
    BY <1>1, <2>1 DEF SamePass
  <2>3. GotThere'
    BY <1>2, <1>3, <2>1, <2>2, GotFrame DEF AllThere, Working, SamePass
  <2> QED BY <1>2, <1>3, <2>1, <2>2, <2>3, PassFrame, CleanFrame DEF AllThere
<1>16. ASSUME NEW p \in Passes, Signal(p) \/ Gate(p) PROVE AllThere'
  <2>1. /\ UNCHANGED <<todo, inHand, outcome, verdict, copy, record, got>> /\ (live' <=> live)
        /\ pc[p] \in {"idle", "gate"}
    BY <1>16 DEF Signal, Gate, disk
  <2>2. \E to \in {"idle", "gate", "check"} : pc' = [pc EXCEPT ![p] = to]
    BY <1>16 DEF Signal, Gate, AfterGate
  <2> QED BY <1>11, <2>1, <2>2 DEF Working
<1>17. ASSUME NEW p \in Passes, CheckComplete(p) PROVE AllThere'
  <2>1. /\ UNCHANGED <<inHand, outcome, verdict, copy, record, got>> /\ (live' <=> live)
        /\ pc[p] = "check" /\ pc' = [pc EXCEPT ![p] = IF Complete THEN "stage" ELSE "idle"]
        /\ todo' = [todo EXCEPT ![p] = IF Complete THEN Files ELSE {}]
    BY <1>17 DEF CheckComplete, disk
  <2>2. CASE Complete
    <3>1. \A q \in Passes : ~Working(q)
      BY <2>1 DEF OnePass, Started, Working
    <3>2. \A f \in Files : copy["download"][f] = "whole" \/ Caught(f)
      BY <2>2, <3>1 DEF AllThere, GotThere, Complete
    <3>3. pc'[p] = "stage" /\ todo'[p] = Files
      BY <1>1, <2>1, <2>2
    <3>4. PassThere(p)'
      BY <1>2, <2>1, <3>2, <3>3 DEF PassThere, Scanning, Delivering, Caught
    <3> QED BY <1>1, <2>1, <3>3, <3>4, PassStepThere DEF Started, Working
  <2>3. CASE ~Complete
    <3>1. \A q \in Passes : SamePass(q) \/ pc'[q] \in {"idle", "gate", "check", "drop"}
      BY <1>1, <2>1, <2>3 DEF SamePass
    <3>2. \A q \in Passes : Working(q) => Working(q)'
      BY <1>1, <2>1, <2>3 DEF Working
    <3>3. GotThere'
      BY <1>2, <1>3, <2>1, <3>2, GotFrame DEF AllThere
    <3> QED BY <1>2, <1>3, <2>1, <3>1, <3>3, PassFrame, CleanFrame DEF AllThere
  <2> QED BY <2>2, <2>3
<1>18. ASSUME NEW p \in Passes, Stage(p) PROVE AllThere'
  <2>1. /\ pc[p] = "stage" /\ pc' = pc /\ UNCHANGED <<verdict, record>>
    BY <1>18 DEF Stage
  <2>2. PICK f \in todo[p] : /\ todo' = [todo EXCEPT ![p] = @ \ {f}]
                             /\ IF In("download", f) THEN Move(f, "download", "scanning")
                                                     ELSE UNCHANGED disk
    BY <1>18 DEF Stage, MoveNext
  <2>3. f \in Files /\ todo'[p] = todo[p] \ {f}
    BY <1>1, <2>2, Ranges
  <2>4. \A g \in Files : /\ g \in todo[p] => copy["download"][g] = "whole" \/ Caught(g)
                         /\ g \notin todo[p] => copy["scanning"][g] = "whole" \/ Caught(g)
    BY <2>1 DEF AllThere, PassThere
  <2>5. ASSUME NEW g \in Files, g # f
        PROVE  \A d \in Dirs : copy'[d][g] = copy[d][g]
    <3>1. CASE In("download", f)
      BY <1>1, <2>2, <2>3, <2>5, <3>1 DEF Move
    <3>2. CASE ~In("download", f)
      BY <2>2, <3>2 DEF disk
    <3> QED BY <3>1, <3>2
  <2>6. copy["download"][f] = "whole" => copy'["scanning"][f] = "whole"
    BY <1>1, <2>2, <2>3 DEF Move, In
  <2>7. \A g \in Files : copy'["clean"][g] = copy["clean"][g]
    BY <1>1, <2>2, <2>3 DEF Move, disk
  <2>8. \A g \in Files : Caught(g) => Caught(g)'
    BY <1>2, <2>1 DEF Caught
  <2>9. PassThere(p)'
    BY <2>1, <2>2, <2>3, <2>4, <2>5, <2>6, <2>8 DEF PassThere, Scanning, Delivering
  <2> QED BY <2>1, <2>7, <2>9, PassStepThere DEF Started, Working
<1>19. ASSUME NEW p \in Passes, Staged(p) PROVE AllThere'
  <2>1. /\ pc[p] = "stage" /\ pc' = [pc EXCEPT ![p] = "scan"] /\ todo[p] = {} /\ copy' = copy
        /\ todo' = [todo EXCEPT ![p] = Files] /\ UNCHANGED <<verdict, record>>
    BY <1>19 DEF Staged, MoveFails, disk
  <2>2. \A g \in Files : copy["scanning"][g] = "whole" \/ Caught(g)
    BY <2>1 DEF AllThere, PassThere
  <2>3. pc'[p] = "scan" /\ todo'[p] = Files
    BY <1>1, <2>1
  <2>4. PassThere(p)'
    BY <1>2, <2>1, <2>2, <2>3 DEF PassThere, Delivering, Caught, Visited
  <2> QED BY <1>1, <2>1, <2>3, <2>4, PassStepThere DEF Started, Working
<1>20. ASSUME NEW p \in Passes, PassScans(p) PROVE AllThere'
  <2>1. pc[p] = "scan" /\ UNCHANGED <<copy, verdict, outcome, record>>
    BY <1>20 DEF PassScans, disk
  <2>2. PICK f \in todo[p] :
          /\ todo' = [todo EXCEPT ![p] = @ \ {f}]
          /\ IF NeedsScan(f)
             THEN inHand' = [inHand EXCEPT ![p] = {f}] /\ pc' = [pc EXCEPT ![p] = "read"]
             ELSE UNCHANGED <<inHand, pc>>
    BY <1>20 DEF PassScans
  <2>3. todo'[p] = todo[p] \ {f} /\ \A q \in Actors \ {p} : pc'[q] = pc[q]
    BY <1>1, <2>2
  <2>4. \A g \in Files : /\ copy["scanning"][g] = "whole" \/ Caught(g)
                         /\ g \notin todo[p] => verdict[g] # "none"
    BY <2>1 DEF AllThere, PassThere, Scanning, Visited
  <2>5. CASE NeedsScan(f)
    <3>1. inHand'[p] = {f} /\ pc'[p] = "read"
      BY <1>1, <2>2, <2>5
    <3>2. PassThere(p)'
      BY <1>2, <2>1, <2>3, <2>4, <3>1 DEF PassThere, Visited, Scanning, Delivering, Caught
    <3> QED BY <2>1, <2>3, <3>1, <3>2, PassStepThere DEF Started, Working
  <2>6. CASE ~NeedsScan(f)
    <3>1. f \in Files /\ verdict[f] # "none"
      BY <2>4, <2>6, Ranges DEF NeedsScan, In, Caught
    <3>2. pc' = pc
      BY <2>2, <2>6
    <3>3. PassThere(p)'
      BY <1>2, <2>1, <2>3, <2>4, <3>1, <3>2 DEF PassThere, Visited, Scanning, Delivering, Caught
    <3> QED BY <2>1, <2>3, <3>2, <3>3, PassStepThere DEF Started, Working
  <2> QED BY <2>5, <2>6
<1>21. ASSUME NEW p \in Passes, ScanDone(p) PROVE AllThere'
  <2>1. /\ pc[p] = "scan" /\ pc' = [pc EXCEPT ![p] = "summary"]
        /\ UNCHANGED <<copy, verdict, inHand, outcome, todo, record>>
    BY <1>21 DEF ScanDone, disk
  <2>2. pc'[p] = "summary"
    BY <1>1, <2>1
  <2>3. PassThere(p)'
    BY <1>2, <2>1, <2>2 DEF AllThere, PassThere, Visited, Scanning, Delivering, Caught
  <2> QED BY <1>1, <2>1, <2>2, <2>3, PassStepThere DEF Started, Working
<1>22. ASSUME NEW p \in Passes, Summarise(p) PROVE AllThere'
  <2>1. /\ pc[p] = "summary" /\ pc' = [pc EXCEPT ![p] = "relocate"]
        /\ UNCHANGED <<copy, verdict, record>> /\ todo' = [todo EXCEPT ![p] = Files]
        /\ outcome' = [outcome EXCEPT ![p] = ScanSummary({verdict[f] : f \in Files})]
    BY <1>22 DEF Summarise, disk
  <2>2. pc'[p] = "relocate" /\ todo'[p] = Files
    BY <1>1, <2>1
  <2>3. outcome'[p] = ScanSummary({verdict[f] : f \in Files})
    BY <1>1, <2>1
  <2>4. ASSUME NEW f \in Files
        PROVE  verdict[f] # "none" /\ (copy["scanning"][f] = "whole" \/ Caught(f))
    BY <2>1 DEF Vetted, PassVetted, AllThere, PassThere, Visited, Scanning
  <2>5. ASSUME NEW f \in Files, outcome'[p] = "" PROVE FALSE
    <3>1. {verdict[g] : g \in Files} \intersect {"threat", "unscanned", "clean"} = {}
      BY <2>5, <2>3, SummaryTypes
    <3>2. verdict[f] \notin {"threat", "unscanned", "clean"}
      BY <3>1
    <3> QED BY <1>1, <2>4, <3>2 DEF Verdicts
  <2>6. ASSUME NEW f \in Files, outcome'[p] = "clean" PROVE copy["scanning"][f] = "whole"
    <3>1. verdict[f] # "threat" /\ verdict[f] # "unscanned"
      BY <2>6, <2>3, SummaryTypes
    <3>2. verdict[f] = "clean"
      BY <1>1, <2>4, <3>1 DEF Verdicts
    <3>3. f \notin infected
      BY <3>2 DEF TrueVerdicts, Shows
    <3> QED BY <2>4, <3>3 DEF Caught
  <2>7. PassThere(p)'
    BY <2>1, <2>2, <2>5, <2>6 DEF PassThere, Scanning
  <2> QED BY <1>1, <2>1, <2>2, <2>7, PassStepThere DEF Started, Working
<1>23. ASSUME NEW p \in Passes, Relocate(p) PROVE AllThere'
  <2>1. pc[p] = "relocate" /\ pc' = pc /\ outcome' = outcome /\ record' = record
    BY <1>23 DEF Relocate
  <2>2. PICK f \in todo[p] : /\ todo' = [todo EXCEPT ![p] = @ \ {f}]
                             /\ IF In("scanning", f) THEN Move(f, "scanning", Destination(p))
                                                     ELSE UNCHANGED disk
    BY <1>23 DEF Relocate, MoveNext
  <2>3. f \in Files /\ todo'[p] = todo[p] \ {f}
    BY <1>1, <2>2, Ranges
  <2>4. ASSUME NEW g \in Files, g # f
        PROVE  copy'["scanning"][g] = copy["scanning"][g] /\ copy'["clean"][g] = copy["clean"][g]
    <3>1. CASE In("scanning", f)
      <4>1. Move(f, "scanning", Destination(p)) /\ Destination(p) \in Dirs
        BY <2>2, <3>1 DEF Destination
      <4> QED BY <1>1, <2>3, <2>4, <4>1 DEF Move
    <3>2. CASE ~In("scanning", f)
      BY <2>2, <3>2 DEF disk
    <3> QED BY <3>1, <3>2
  <2>5. CASE outcome[p] = "clean"
    <3>1. \A g \in Files : copy[IF g \in todo[p] THEN "scanning" ELSE "clean"][g] = "whole"
      BY <2>1, <2>5 DEF AllThere, PassThere, Delivering
    <3>2. copy["scanning"][f] = "whole"
      BY <2>3, <3>1
    <3>3. Move(f, "scanning", "clean")
      BY <2>2, <2>5, <3>2 DEF Destination, In
    <3>4. copy'["clean"][f] = "whole"
      BY <1>1, <2>3, <3>2, <3>3 DEF Move
    <3>5. PassThere(p)'
      BY <2>1, <2>3, <2>4, <2>5, <3>1, <3>4 DEF PassThere, Scanning, Delivering
    <3> QED BY <2>1, <2>4, <3>4, <3>5, PassStepThere DEF Started, Working
  <2>6. CASE outcome[p] # "clean"
    <3>1. Destination(p) # "clean"
      BY <2>6 DEF Destination
    <3>2. \A g \in Files : copy'["clean"][g] = copy["clean"][g]
      BY <1>1, <2>2, <2>3, <3>1 DEF Move, disk, Destination
    <3>3. PassThere(p)'
      BY <2>1, <2>6 DEF AllThere, PassThere, Scanning, Delivering
    <3> QED BY <2>1, <3>2, <3>3, PassStepThere DEF Started, Working
  <2> QED BY <2>5, <2>6
<1>24. ASSUME NEW p \in Passes, RelocateDone(p) PROVE AllThere'
  <2>1. /\ pc[p] = "relocate" /\ pc' = [pc EXCEPT ![p] = "store"]
        /\ UNCHANGED <<copy, outcome, record>>
        /\ todo[p] = {} \/ Destination(p) = "scanning"
    BY <1>24 DEF RelocateDone, MoveFails, disk
  <2>2. pc'[p] = "store"
    BY <1>1, <2>1
  <2>3. outcome[p] = "clean" => todo[p] = {}
    BY <2>1 DEF Destination
  <2>4. PassThere(p)'
    BY <2>1, <2>2, <2>3 DEF AllThere, PassThere, Scanning, Delivering
  <2> QED BY <1>1, <2>1, <2>2, <2>4, PassStepThere DEF Started, Working
<1>25. ASSUME NEW p \in Passes, StoreComplete(p) PROVE AllThere'
  <2>1. /\ pc[p] = "store" /\ UNCHANGED <<copy, verdict, got, todo, inHand>> /\ (live' <=> live)
        /\ pc' = [pc EXCEPT ![p] = IF outcome[p] = "" THEN "idle" ELSE "drop"]
        /\ record' = [state |-> "complete", result |-> outcome[p]]
    BY <1>25 DEF StoreComplete, disk
  <2>2. \A f \in Files : outcome[p] # "" /\ (outcome[p] = "clean" => copy["clean"][f] = "whole")
    BY <2>1 DEF AllThere, PassThere, Delivering
  <2>3. CleanThere'
    BY <2>1, <2>2 DEF CleanThere
  <2>4. PassThere(p)'
    BY <1>1, <2>1 DEF PassThere, Scanning, Delivering
  <2>5. GotThere'
    <3>1. CASE outcome[p] = ""
      BY <2>1, <2>2, <3>1, Ranges DEF GotThere
    <3>2. CASE outcome[p] # ""
      BY <1>1, <2>1, <3>2 DEF GotThere, Working
    <3> QED BY <3>1, <3>2
  <2>6. \A q \in Passes \ {p} : PassThere(q)'
    BY <1>1, <2>1, OthersNotStarted DEF Started
  <2> QED BY <2>3, <2>4, <2>5, <2>6 DEF AllThere
<1>26. ASSUME NEW p \in Passes, DropCompleted(p) PROVE AllThere'
  <2>1. /\ pc[p] = "drop" /\ UNCHANGED <<copy, record>> /\ pc' = [pc EXCEPT ![p] = "idle"]
    BY <1>26 DEF DropCompleted, disk
  <2>2. ~live'
    BY <1>26 DEF DropCompleted, Drops
  <2>3. PassThere(p)'
    BY <1>1, <2>1 DEF PassThere, Scanning, Delivering
  <2>4. \A q \in Passes \ {p} : PassThere(q)'
    BY <1>1, <2>1, OthersNotStarted DEF Started
  <2>5. GotThere'
    BY <2>2 DEF GotThere
  <2> QED BY <2>1, <2>3, <2>4, <2>5, CleanFrame DEF AllThere
<1>27. ASSUME NEW a \in Actors, a \notin Passes, UNCHANGED <<record, got, todo>>, live' <=> live,
              \A b \in Actors \ {a} : SamePass(b), NoneForgets, StaysOrCaught("download"),
              \A f \in Files : /\ copy'["scanning"][f] = copy["scanning"][f]
                               /\ copy'["clean"][f] = copy["clean"][f]
       PROVE  AllThere'
  <2>1. GotThere'
    BY <1>2, <1>27, GotFrame DEF AllThere, Working, SamePass
  <2>2. \A p \in Passes : PassThere(p)'
    BY <1>2, <1>27, PassFrame DEF AllThere
  <2>3. CleanThere'
    BY <1>27, CleanFrame DEF AllThere
  <2> QED BY <2>1, <2>2, <2>3 DEF AllThere
<1>28. ASSUME NEW a \in Actors, ReadFile(a) PROVE AllThere'
  <2>1. /\ pc[a] = "read" /\ pc' = [pc EXCEPT ![a] = "note"] /\ (live' <=> live)
        /\ UNCHANGED <<copy, verdict, inHand, todo, record, got>>
        /\ \E v : outcome' = [outcome EXCEPT ![a] = v]
    BY <1>28 DEF ReadFile, disk
  <2>2. CASE a \in Passes
    <3>1. pc'[a] = "note"
      BY <1>1, <2>1
    <3>2. PassThere(a)'
      BY <1>2, <2>1, <2>2, <3>1 DEF AllThere, PassThere, Visited, Scanning, Delivering, Caught
    <3> QED BY <1>1, <2>1, <2>2, <3>1, <3>2, PassStepThere DEF Started, Working
  <2>3. CASE a \notin Passes
    BY <1>1, <1>3, <1>27, <2>1, <2>3 DEF SamePass
  <2> QED BY <2>2, <2>3
<1>29. ASSUME NEW a \in Actors, RecordFileScan(a) PROVE AllThere'
  <2>1. PICK f \in inHand[a] : verdict' = [verdict EXCEPT ![f] = outcome[a]]
    BY <1>29 DEF RecordFileScan
  <2>2. /\ pc[a] = "note" /\ UNCHANGED <<copy, todo, record, got>> /\ (live' <=> live)
        /\ \E v : outcome' = [outcome EXCEPT ![a] = v]
        /\ \E to \in {"isolate", AfterScan(a)} : pc' = [pc EXCEPT ![a] = to]
        /\ inHand' = inHand \/ inHand' = [inHand EXCEPT ![a] = {}]
    BY <1>29 DEF RecordFileScan, disk
  <2>3. outcome[a] # "none" /\ f \in Files /\ inHand[a] \subseteq {f}
    BY <2>2, Ranges DEF Typed, ActorsTyped, TrueVerdicts
  <2>4. NoneForgets /\ verdict'[f] # "none"
    BY <1>1, <2>1, <2>3 DEF NoneForgets
  <2>5. CASE a \in Passes
    <3>1. pc'[a] \in {"isolate", "scan"}
      BY <1>1, <2>2, <2>5 DEF AfterScan
    <3>2. \A g \in Files : /\ copy["scanning"][g] = "whole" \/ Caught(g)
                           /\ g \notin todo[a] /\ g # f => verdict[g] # "none"
      BY <2>2, <2>3, <2>5 DEF AllThere, PassThere, Visited, Scanning
    <3>3. \A g \in Files : Caught(g) => Caught(g)'
      BY <1>2, <2>4, CaughtStays
    <3>4. PassThere(a)'
      BY <2>2, <2>4, <3>1, <3>2, <3>3 DEF PassThere, Visited, Scanning, Delivering, NoneForgets
    <3> QED BY <1>1, <2>2, <2>5, <3>1, <3>4, PassStepThere DEF Started, Working
  <2>6. CASE a \notin Passes
    BY <1>1, <1>27, <2>2, <2>4, <2>6 DEF SamePass, StaysOrCaught
  <2> QED BY <2>5, <2>6
<1>30. ASSUME NEW a \in Actors, Quarantine(a) PROVE AllThere'
  <2>1. /\ pc[a] = "isolate" /\ (live' <=> live)
        /\ UNCHANGED <<verdict, outcome, todo, record, got>>
        /\ inHand' = [inHand EXCEPT ![a] = {}] /\ pc' = [pc EXCEPT ![a] = AfterScan(a)]
    BY <1>30 DEF Quarantine
  <2>2. PICK f \in inHand[a] :
          \/ copy' = copy
          \/ \E over \in SUBSET (Files \ {f}) : copy' = Isolated(f, PlaceOf(a), over)
    BY <1>30 DEF Quarantine
  <2>3. f \in Files /\ Caught(f)
    BY <2>1, Ranges DEF TrueVerdicts
  <2>4. \A g \in Files : Caught(g) => Caught(g)'
    BY <1>2, <2>1 DEF Caught
  <2>5. \A d \in Dirs \ {"quarantine"}, g \in Files :
          d # PlaceOf(a) \/ g # f => copy'[d][g] = copy[d][g]
    <3>1. PlaceOf(a) \in Dirs \ {"quarantine"}
      BY DirNames DEF PlaceOf
    <3> QED
      BY <1>1, <2>2, <2>3, <3>1, IsolatedTypes
  <2>6. NoneForgets
    BY <2>1 DEF NoneForgets
  <2>7. CASE a \in Passes
    <3>1. pc'[a] = "scan" /\ PlaceOf(a) = "scanning"
      BY <1>1, <2>1, <2>7 DEF AfterScan, PlaceOf
    <3>2. \A g \in Files : /\ copy["scanning"][g] = "whole" \/ Caught(g)
                           /\ g \notin todo[a] => verdict[g] # "none"
      BY <2>1, <2>7 DEF AllThere, PassThere, Visited, Scanning
    <3>3. PassThere(a)'
      BY <2>1, <2>3, <2>4, <2>5, <3>1, <3>2 DEF PassThere, Visited, Scanning, Delivering
    <3> QED BY <1>1, <2>1, <2>5, <2>7, <3>1, <3>3, PassStepThere DEF Started, Working
  <2>8. CASE a \notin Passes
    <3>1. PlaceOf(a) = "download"
      BY <2>8 DEF PlaceOf, Actors
    <3>2. StaysOrCaught("download")
      BY <2>3, <2>4, <2>5 DEF StaysOrCaught
    <3>3. \A g \in Files : /\ copy'["scanning"][g] = copy["scanning"][g]
                           /\ copy'["clean"][g] = copy["clean"][g]
      BY <2>5, <3>1
    <3> QED BY <1>1, <1>27, <2>1, <2>6, <2>8, <3>2, <3>3 DEF SamePass
  <2> QED BY <2>7, <2>8
<1>31. CASE UNCHANGED vars
  <2>1. /\ UNCHANGED <<pc, todo, inHand, outcome, verdict, copy, record>>
        /\ (live' <=> live) /\ got' = got
    BY <1>31 DEF vars, disk
  <2>2. GotThere'
    BY <1>2, <1>3, <2>1, GotFrame DEF AllThere, Working
  <2> QED BY <1>4, <2>1, <2>2, CleanFrame DEF AllThere
<1> QED
  BY <1>5, <1>6, <1>7, <1>8, <1>9, <1>10, <1>12, <1>14, <1>15, <1>16, <1>17, <1>18, <1>19, <1>20,
     <1>21, <1>22, <1>23, <1>24, <1>25, <1>26, <1>28, <1>29, <1>30, <1>31
  DEF Next, StartUp, Pass, Scan

-----------------------------------------------------------------------------

\* Every step keeps all of it.
LEMMA DeliveryInvKept == DeliveryInv /\ [Next]_vars => DeliveryInv'
<1> SUFFICES ASSUME DeliveryInv, [Next]_vars PROVE DeliveryInv'
  OBVIOUS
<1>1. Typed /\ Typed'
  BY TypesKept DEF DeliveryInv
<1>2. ASSUME ~reentered' PROVE Accounted'
  <2>1. Accounted
    BY <1>2, HistoryKept DEF DeliveryInv
  <2>2. OnePass' /\ WholeCopies' /\ TrueVerdicts' /\ Vetted'
    BY <1>1, <1>2, <2>1, OnePassKept, WholeCopiesKept, TrueVerdictsKept, VettedKept DEF Accounted
  <2>3. ~disturbed' => AllThere'
    BY <1>1, <1>2, <2>1, HistoryKept, AllThereKept DEF Accounted
  <2> QED BY <2>2, <2>3 DEF Accounted
<1> QED BY <1>1, <1>2 DEF DeliveryInv

\* The inductive invariant holds in every reachable state.
LEMMA DeliveryInvHolds == Spec => []DeliveryInv
BY InitDeliveryInv, DeliveryInvKept, PTL DEF Spec

(* The registration, the passes and the scans keep the state well typed.   *)
THEOREM DeliveryTypeCorrect == Spec => []TypeOK
<1>1. DeliveryInv => TypeOK
  BY TypedIsTypeOK DEF DeliveryInv
<1> QED
  BY <1>1, DeliveryInvHolds, PTL

(* Nothing infected is ever in clean/ (completeTorrent, scanPath), for any *)
(* number of files and passes, unless the torrent was registered while     *)
(* work on its earlier registration went on.                               *)
THEOREM NothingInfectedIsDelivered == Spec => []VettedUnlessReentered
<1>1. DeliveryInv => VettedUnlessReentered
  BY DEF DeliveryInv, Accounted, Vetted, VettedUnlessReentered
<1> QED
  BY <1>1, DeliveryInvHolds, PTL

(* The record that a pass writes after it has moved the files is true of   *)
(* the files, then and ever after (completeTorrent's store.Set, MoveFiles).*)
THEOREM CleanRecordsAreTrue == Spec => []CleanRecordIsDelivered
<1>1. DeliveryInv => CleanRecordIsDelivered
  BY DEF DeliveryInv, Accounted, AllThere, CleanThere, CleanRecordIsDelivered
<1> QED
  BY <1>1, DeliveryInvHolds, PTL

=============================================================================
