------------------------- MODULE URLDownload_proofs -------------------------
(***************************************************************************)
(* The three properties of the transfers over HTTP, for any number of      *)
(* entries, transfers and requests.                                        *)
(*                                                                         *)
(* All three rest on who works for whom (Named): a request and a transfer  *)
(* that were started have an entry, and the cancel function an entry has   *)
(* is that of a transfer of its own, so that stopping one entry stops no   *)
(* other's transfer.  On top of that                                       *)
(*   - DownloadingIsDriven needs that a transfer that was not yet started  *)
(*     has not been stopped (Fresh);                                       *)
(*   - NothingElseFlows needs that in panic mode, once the stop is through,*)
(*     also what is only about to flow for the listed entry was passed by  *)
(*     (PassedBy), and that an entry is listed once in its life;           *)
(*   - DeliversIntact needs whose the file is: as long as nobody crossed   *)
(*     another, whoever has it in hand created it (OwnFile); and, as long  *)
(*     as the limiter ended no transfer early, has read the body to its    *)
(*     end before it is done (ReadToEnd).                                  *)
(***************************************************************************)
EXTENDS URLDownload, TLAPS

Typed ==
  /\ panicked \in BOOLEAN
  /\ state \in [Entries -> States]
  /\ cancelOf \in [Entries -> Runs \union {None}]
  /\ rpc \in [Runs -> RunSteps]
  /\ of \in [Runs -> Entries \union {None}]
  /\ stopped \in [Runs -> BOOLEAN]
  /\ eof \in [Runs -> BOOLEAN]
  /\ pc \in [Procs -> Steps]
  /\ arg \in [Procs -> Entries \union {None}]
  /\ listed \in Entries \union {None}
  /\ crossed \in BOOLEAN

Used(e) == e \in Entries /\ state[e] # "unused"

Named ==
  /\ \A r \in Runs : rpc[r] # "free" => Used(of[r])
  /\ \A p \in Procs :
       pc[p] \in {"check", "park", "start", "spawn", "checked", "urlDrop", "remove"} => Used(arg[p])
  /\ listed # None => Used(listed)
  /\ \A e \in Entries : cancelOf[e] # None => rpc[cancelOf[e]] # "free" /\ of[cancelOf[e]] = e

Fresh == \A r \in Runs : rpc[r] = "free" => ~stopped[r]

\* Something flows for e, or is on its way to.
Flowing(e) ==
  \/ \E r \in Runs : of[r] = e /\ Flows(r)
  \/ \E p \in Procs : arg[p] = e /\ pc[p] \in {"checked", "start", "spawn"}

PassedBy ==
  panicked /\ listed # None /\ (\A p \in Procs : pc[p] # "urlPanic") =>
    (Flowing(listed) => listed \in missed)

OwnFile ==
  ~crossed =>
    /\ delivered = "broken" => refused
    /\ \A r \in Runs : Holds(r) => file = [exists |-> TRUE, creator |-> r, mixed |-> FALSE]

ReadToEnd ==
  ~refused =>
    /\ \A r \in Runs : rpc[r] \in {"finish", "notify"} => eof[r]
    /\ \A r \in Runs : rpc[r] = "close" => eof[r] \/ stopped[r]

URLInv == Typed /\ Named /\ Fresh /\ DownloadingIsDriven /\ PassedBy /\ OwnFile /\ ReadToEnd

\* Nothing is listed and no transfer runs at the start.
LEMMA InitURLInv == Init => URLInv
<1> SUFFICES ASSUME Init PROVE URLInv
  OBVIOUS
<1>1. Typed
  BY DEF Init, Typed, States, RunSteps, Steps
<1>2. Named /\ Fresh
  BY DEF Init, Named, Fresh, Used
<1>3. DownloadingIsDriven /\ PassedBy
  BY DEF Init, DownloadingIsDriven, PassedBy
<1>4. OwnFile /\ ReadToEnd
  BY DEF Init, OwnFile, ReadToEnd, Holds
<1> QED
  BY <1>1, <1>2, <1>3, <1>4 DEF URLInv

-----------------------------------------------------------------------------
(* Types                                                                   *)

\* The rows, the transfers and the requests keep their types.
LEMMA TypedKept == Typed /\ Named /\ [Next]_vars => Typed'
<1> SUFFICES ASSUME Typed, Named, [Next]_vars PROVE Typed'
  OBVIOUS
<1> USE DEF Typed, States, RunSteps, Steps, Goto, SetState, Step, transfer, request, pipeline
<1>1. ASSUME NEW p \in Procs, AddURL(p) \/ Insert(p) \/ CheckPanic(p) PROVE Typed'
  BY <1>1 DEF AddURL, Insert, CheckPanic
<1>2. ASSUME NEW p \in Procs, ParkAdded(p) \/ Start(p) \/ Spawn(p) PROVE Typed'
  BY <1>2 DEF ParkAdded, Start, Spawn, NoteMissed
<1>3. ASSUME NEW p \in Procs, Resume(p) \/ ResumeChecksState(p) PROVE Typed'
  BY <1>3 DEF Resume, ResumeChecksState
<1>4. ASSUME NEW p \in Procs, Cancel(p) PROVE Typed'
  BY <1>4 DEF Cancel, CancelRegistered
<1>5. ASSUME NEW p \in Procs, UrlDrop(p) \/ RemoveFile(p) PROVE Typed'
  BY <1>5 DEF UrlDrop, RemoveFile, NoteCrossed
<1>6. ASSUME NEW p \in Procs, PanicAll(p) \/ ResumeAll(p) \/ UrlResumeAll(p) PROVE Typed'
  BY <1>6 DEF PanicAll, ResumeAll, UrlResumeAll
<1>7. ASSUME NEW p \in Procs, UrlPanic(p) PROVE Typed'
  BY <1>7 DEF UrlPanic, Park, CancelRegistered
<1>8. CASE Pause
  BY <1>8 DEF Pause, Park, CancelRegistered
<1>9. ASSUME NEW r \in Runs, RegisterCancel(r) \/ Answered(r) \/ ReadStopped(r) PROVE Typed'
  BY <1>9 DEF RegisterCancel, Answered, ReadStopped
<1>10. ASSUME NEW r \in Runs, CreateFile(r) \/ Read(r) \/ Write(r) \/ WriteOverBurst(r)
       PROVE Typed'
  BY <1>10 DEF CreateFile, Read, Write, WriteOverBurst, NoteCrossed
<1>11. ASSUME NEW r \in Runs, Close(r) \/ MarkDone(r) \/ Notify(r) PROVE Typed'
  BY <1>11 DEF Close, MarkDone, Notify
<1>12. ASSUME NEW r \in Runs, Fail(r) PROVE Typed'
  BY <1>12 DEF Fail
<1>13. CASE UNCHANGED vars
  BY <1>13 DEF vars
<1> QED
  BY <1>1, <1>2, <1>3, <1>4, <1>5, <1>6, <1>7, <1>8, <1>9, <1>10, <1>11, <1>12, <1>13
  DEF Next, Continue, Transfer

-----------------------------------------------------------------------------
(* Who works for whom                                                      *)

\* An entry stays in use once it is.
LEMMA UsedKept ==
  ASSUME Typed, Named, [Next]_vars, NEW e \in Entries, Used(e)
  PROVE  Used(e)'
<1> USE DEF Typed, Used, SetState
<1>1. ASSUME NEW p \in Procs, AddURL(p) \/ Insert(p) \/ CheckPanic(p) PROVE Used(e)'
  BY <1>1 DEF AddURL, Insert, CheckPanic
<1>2. ASSUME NEW p \in Procs, ParkAdded(p) \/ Start(p) \/ Spawn(p) PROVE Used(e)'
  BY <1>2 DEF ParkAdded, Start, Spawn
<1>3. ASSUME NEW p \in Procs, Cancel(p) \/ UrlPanic(p) PROVE Used(e)'
  BY <1>3 DEF Cancel, UrlPanic, Park
<1>4. CASE Pause
  BY <1>4 DEF Pause, Park
<1>5. ASSUME NEW p \in Procs, \/ Resume(p) \/ ResumeChecksState(p) \/ UrlDrop(p) \/ RemoveFile(p)
                             \/ PanicAll(p) \/ ResumeAll(p) \/ UrlResumeAll(p)
      PROVE Used(e)'
  BY <1>5 DEF Resume, ResumeChecksState, UrlDrop, RemoveFile, PanicAll, ResumeAll, UrlResumeAll
<1>6. ASSUME NEW r \in Runs, Transfer(r) PROVE Used(e)'
  BY <1>6 DEF Transfer, RegisterCancel, Answered, CreateFile, Read, Write, WriteOverBurst,
     ReadStopped, Close,
     MarkDone, Notify, Fail
<1>7. CASE UNCHANGED vars
  BY <1>7 DEF vars
<1> QED
  BY <1>1, <1>2, <1>3, <1>4, <1>5, <1>6, <1>7 DEF Next, Continue

\* Whatever is worked on is an entry that was added, and a registered
\* cancel function is that of a transfer of its own entry.
LEMMA NamedKept == Typed /\ Named /\ [Next]_vars => Named'
<1> SUFFICES ASSUME Typed, Named, [Next]_vars PROVE Named'
  OBVIOUS
<1>0. \A e \in Entries : Used(e) => Used(e)'
  BY UsedKept
<1> USE NoneIsNeither DEF Typed, Named, Goto, Step, transfer, request, pipeline
<1>1. ASSUME NEW p \in Procs, AddURL(p) PROVE Named'
  BY <1>0, <1>1 DEF AddURL, Used
<1>2. ASSUME NEW p \in Procs, Insert(p) PROVE Named'
  <2>1. PICK e \in Entries : /\ state' = [state EXCEPT ![e] = "downloading"]
                             /\ arg' = [arg EXCEPT ![p] = e] /\ listed' = e
    BY <1>2 DEF Insert, SetState
  <2>2. Used(e)'
    BY <2>1 DEF Used
  <2> QED
    BY <1>0, <1>2, <2>1, <2>2 DEF Insert, Used
<1>3. ASSUME NEW p \in Procs, CheckPanic(p) \/ ParkAdded(p) \/ Start(p) PROVE Named'
  BY <1>0, <1>3 DEF CheckPanic, ParkAdded, Start, Used
<1>4. ASSUME NEW p \in Procs, Spawn(p) PROVE Named'
  BY <1>0, <1>4 DEF Spawn, Used
<1>5. ASSUME NEW p \in Procs, Resume(p) \/ ResumeChecksState(p) PROVE Named'
  BY <1>0, <1>5 DEF Resume, ResumeChecksState, Used
<1>6. ASSUME NEW p \in Procs, Cancel(p) \/ UrlDrop(p) \/ RemoveFile(p) PROVE Named'
  BY <1>0, <1>6 DEF Cancel, UrlDrop, RemoveFile, Used
<1>7. ASSUME NEW p \in Procs, PanicAll(p) \/ ResumeAll(p) \/ UrlResumeAll(p) PROVE Named'
  BY <1>0, <1>7 DEF PanicAll, ResumeAll, UrlResumeAll, Used
<1>8. ASSUME NEW p \in Procs, UrlPanic(p) PROVE Named'
  BY <1>0, <1>8 DEF UrlPanic, Used
<1>9. CASE Pause
  BY <1>0, <1>9 DEF Pause, Used
<1>10. ASSUME NEW r \in Runs, RegisterCancel(r) PROVE Named'
  BY <1>0, <1>10 DEF RegisterCancel, Used
<1>11. ASSUME NEW r \in Runs, \/ Answered(r) \/ CreateFile(r) \/ Read(r) \/ Write(r)
                              \/ WriteOverBurst(r) \/ ReadStopped(r) \/ Close(r) \/ Fail(r)
       PROVE Named'
  BY <1>0, <1>11 DEF Answered, CreateFile, Read, Write, WriteOverBurst, ReadStopped, Close, Fail,
     Used
<1>12. ASSUME NEW r \in Runs, MarkDone(r) \/ Notify(r) PROVE Named'
  BY <1>0, <1>12 DEF MarkDone, Notify, Used
<1>13. CASE UNCHANGED vars
  BY <1>0, <1>13 DEF vars, Used
<1> QED
  BY <1>1, <1>2, <1>3, <1>4, <1>5, <1>6, <1>7, <1>8, <1>9, <1>10, <1>11, <1>12, <1>13
  DEF Next, Continue, Transfer

\* A transfer that has not begun was not stopped.
LEMMA FreshKept == Typed /\ Named /\ Fresh /\ [Next]_vars => Fresh'
<1> SUFFICES ASSUME Typed, Named, Fresh, [Next]_vars PROVE Fresh'
  OBVIOUS
<1> USE NoneIsNeither DEF Typed, Fresh, Goto, Step, transfer, request, pipeline
<1>1. ASSUME NEW e \in Entries, CancelRegistered(e), UNCHANGED rpc PROVE Fresh'
  BY <1>1 DEF CancelRegistered, Named
<1>2. ASSUME NEW p \in Procs, Cancel(p) PROVE Fresh'
  BY <1>1, <1>2 DEF Cancel
<1>3. CASE Pause
  BY <1>1, <1>3 DEF Pause, Park
<1>4. ASSUME NEW p \in Procs, UrlPanic(p) PROVE Fresh'
  BY <1>1, <1>4 DEF UrlPanic, Park
<1>5. ASSUME NEW p \in Procs, \/ AddURL(p) \/ Resume(p) \/ PanicAll(p) \/ ResumeAll(p)
                             \/ Insert(p) \/ CheckPanic(p) \/ ParkAdded(p) \/ Start(p)
                             \/ Spawn(p) \/ ResumeChecksState(p) \/ UrlDrop(p)
                             \/ RemoveFile(p) \/ UrlResumeAll(p)
      PROVE Fresh'
  BY <1>5 DEF AddURL, Resume, PanicAll, ResumeAll, Insert, CheckPanic, ParkAdded, Start, Spawn,
     ResumeChecksState, UrlDrop, RemoveFile, UrlResumeAll
<1>6. ASSUME NEW r \in Runs, Transfer(r) PROVE Fresh'
  BY <1>6 DEF Transfer, RegisterCancel, Answered, CreateFile, Read, Write, WriteOverBurst,
     ReadStopped, Close,
     MarkDone, Notify, Fail
<1>7. CASE UNCHANGED vars
  BY <1>7 DEF vars
<1> QED
  BY <1>2, <1>3, <1>4, <1>5, <1>6, <1>7 DEF Next, Continue

-----------------------------------------------------------------------------
(* A row that shows a download is driven                                   *)

Driven(e) == Starting(e) \/ \E r \in Runs : of[r] = e /\ Flows(r)

\* Stopping one entry's transfer stops no other entry's.
LEMMA StopsOwn ==
  ASSUME Typed, Named, NEW e \in Entries, CancelRegistered(e),
         NEW r \in Runs, of[r] # e
  PROVE  stopped'[r] = stopped[r]
BY NoneIsNeither DEF Typed, Named, CancelRegistered

\* A step that stops nothing and takes nobody's work away.
LEMMA StillDriven ==
  ASSUME DownloadingIsDriven, Typed,
         \A e \in Entries : state'[e] = "downloading" =>
           Driven(e)' \/ (state[e] = "downloading" /\ (Driven(e) => Driven(e)'))
  PROVE  DownloadingIsDriven'
BY DEF DownloadingIsDriven, Driven

\* Every step leaves a row that says "downloading" to somebody.
LEMMA DrivenKept ==
  Typed /\ Named /\ Fresh /\ DownloadingIsDriven /\ [Next]_vars => DownloadingIsDriven'
<1> SUFFICES ASSUME Typed, Named, Fresh, DownloadingIsDriven, [Next]_vars
             PROVE  DownloadingIsDriven'
  OBVIOUS
<1> USE DEF Typed, Goto, Step, SetState, transfer, request, pipeline, Starting, Flows, RunSteps
<1>1. ASSUME NEW p \in Procs, \/ AddURL(p) \/ Resume(p) \/ PanicAll(p) \/ ResumeAll(p)
                             \/ CheckPanic(p) \/ ResumeChecksState(p)
                             \/ UrlDrop(p) \/ RemoveFile(p) \/ UrlResumeAll(p)
      PROVE DownloadingIsDriven'
  BY <1>1 DEF DownloadingIsDriven, AddURL, Resume, PanicAll, ResumeAll, CheckPanic,
     ResumeChecksState, UrlDrop, RemoveFile, UrlResumeAll
<1>2. ASSUME NEW p \in Procs, Insert(p) PROVE DownloadingIsDriven'
  BY <1>2 DEF DownloadingIsDriven, Insert
<1>3. ASSUME NEW p \in Procs, ParkAdded(p) \/ Start(p) PROVE DownloadingIsDriven'
  BY <1>3 DEF DownloadingIsDriven, Named, Used, ParkAdded, Start
<1>4. ASSUME NEW p \in Procs, Spawn(p) PROVE DownloadingIsDriven'
  <2>1. PICK r \in Runs : /\ rpc[r] = "free" /\ rpc' = [rpc EXCEPT ![r] = "spawned"]
                          /\ of' = [of EXCEPT ![r] = arg[p]]
    BY <1>4 DEF Spawn
  <2>2. ~stopped[r] /\ UNCHANGED <<stopped, state, arg>> /\ pc' = [pc EXCEPT ![p] = "idle"]
        /\ arg[p] \in Entries
    BY <1>4, <2>1 DEF Spawn, Fresh, Named, Used
  <2>3. of'[r] = arg[p] /\ Flows(r)'
    BY <2>1, <2>2
  <2>4. \A q \in Runs : Flows(q) => of'[q] = of[q] /\ Flows(q)'
    BY <2>1, <2>2
  <2>5. \A e \in Entries : Driven(e) => Driven(e)'
    BY <2>2, <2>3, <2>4 DEF Driven
  <2> QED
    BY <2>2, <2>5, StillDriven
<1>5. ASSUME NEW e \in Entries, CancelRegistered(e), state'[e] # "downloading",
             \A f \in Entries \ {e} : state'[f] = state[f], UNCHANGED <<rpc, of>>,
             \A f \in Entries : Starting(f) => Starting(f)'
      PROVE DownloadingIsDriven'
  <2>1. \A r \in Runs : of[r] # e => stopped'[r] = stopped[r]
    BY <1>5, StopsOwn
  <2> QED
    BY <1>5, <2>1 DEF DownloadingIsDriven
<1>6. ASSUME NEW p \in Procs, Cancel(p) PROVE DownloadingIsDriven'
  <2>1. \A f \in Entries : Starting(f) => Starting(f)'
    BY <1>6 DEF Cancel
  <2> QED
    BY <1>5, <1>6, <2>1 DEF Cancel
<1>7. CASE Pause
  <2>1. \A f \in Entries : Starting(f) => Starting(f)'
    BY <1>7 DEF Pause
  <2> QED
    BY <1>5, <1>7, <2>1 DEF Pause, Park
<1>8. ASSUME NEW p \in Procs, UrlPanic(p) PROVE DownloadingIsDriven'
  <2>1. \A f \in Entries : Starting(f) => Starting(f)'
    BY <1>8 DEF UrlPanic
  <2> QED
    BY <1>5, <1>8, <2>1 DEF UrlPanic, Park, DownloadingIsDriven
<1>9. ASSUME NEW r \in Runs, \/ RegisterCancel(r) \/ Answered(r) \/ CreateFile(r)
                             \/ Read(r) \/ Write(r) \/ WriteOverBurst(r) \/ ReadStopped(r)
      PROVE DownloadingIsDriven'
  BY <1>9 DEF DownloadingIsDriven, RegisterCancel, Answered, CreateFile, Read, Write,
     WriteOverBurst, ReadStopped
<1>10. ASSUME NEW r \in Runs, Close(r) \/ MarkDone(r) \/ Notify(r) PROVE DownloadingIsDriven'
  BY <1>10 DEF DownloadingIsDriven, Close, LooksStopped, MarkDone, Notify
<1>11. ASSUME NEW r \in Runs, Fail(r) PROVE DownloadingIsDriven'
  BY <1>11 DEF DownloadingIsDriven, Fail, ReportsError, FailsSilently
<1>12. CASE UNCHANGED vars
  BY <1>12 DEF DownloadingIsDriven, vars
<1> QED
  BY <1>1, <1>2, <1>3, <1>4, <1>6, <1>7, <1>8, <1>9, <1>10, <1>11, <1>12
  DEF Next, Continue, Transfer

-----------------------------------------------------------------------------
(* What flows in panic mode was passed by                                  *)

\* In panic mode what still flows for the listed entry was passed by.
LEMMA PassedByKept == Typed /\ Named /\ PassedBy /\ [Next]_vars => PassedBy'
<1> SUFFICES ASSUME Typed, Named, PassedBy, [Next]_vars PROVE PassedBy'
  OBVIOUS
<1> USE NoneIsNeither DEF Typed, Goto, Step, transfer, request, pipeline, Flows
\* Nothing starts to flow for the entry that is listed before and after.
<1>1. ASSUME panicked' => panicked, listed' \in {listed, None}, missed \subseteq missed',
             listed' # None => (Flowing(listed)' => Flowing(listed)),
             \A p \in Procs : pc[p] = "urlPanic" => pc'[p] = "urlPanic"
      PROVE PassedBy'
  <2> SUFFICES ASSUME panicked', listed' # None, \A p \in Procs : pc'[p] # "urlPanic",
                      Flowing(listed)'
               PROVE  listed' \in missed'
    BY DEF PassedBy
  <2> QED BY <1>1 DEF PassedBy, Flowing
<1>2. ASSUME NEW p \in Procs, AddURL(p) \/ CheckPanic(p) PROVE PassedBy'
  <2>1. CASE AddURL(p)
    BY <2>1 DEF PassedBy, Flowing, AddURL
  <2>2. CASE CheckPanic(p) /\ panicked
    <3>1. listed' # None => (Flowing(listed)' => Flowing(listed))
      BY <2>2 DEF CheckPanic, Flowing
    <3> QED
      BY <1>1, <2>2, <3>1 DEF CheckPanic
  <2>3. CASE CheckPanic(p) /\ ~panicked
    BY <2>3 DEF PassedBy, CheckPanic
  <2> QED
    BY <1>2, <2>1, <2>2, <2>3
<1>3. ASSUME NEW p \in Procs, Insert(p) PROVE PassedBy'
  <2>1. PICK e \in Entries : /\ state[e] = "unused" /\ listed' = e
                             /\ arg' = [arg EXCEPT ![p] = e]
    BY <1>3 DEF Insert
  <2>2. \A r \in Runs : of[r] = e => rpc[r] = "free"
    BY <2>1 DEF Named, Used
  <2>3. \A q \in Procs : arg[q] = e => pc[q] \notin {"checked", "start", "spawn"}
    BY <2>1 DEF Named, Used
  <2>4. pc' = [pc EXCEPT ![p] = "check"] /\ UNCHANGED <<rpc, of, stopped>>
    BY <1>3 DEF Insert
  <2>5. ~Flowing(listed)'
    BY <2>1, <2>2, <2>3, <2>4 DEF Flowing
  <2> QED
    BY <2>5 DEF PassedBy
<1>4. ASSUME NEW p \in Procs, ParkAdded(p) PROVE PassedBy'
  <2>1. missed \subseteq missed'
    BY <1>4 DEF ParkAdded, NoteMissed
  <2>2. listed' # None => (Flowing(listed)' => Flowing(listed))
    BY <1>4 DEF ParkAdded, Flowing
  <2> QED
    BY <1>1, <1>4, <2>1, <2>2 DEF ParkAdded
<1>5. ASSUME NEW p \in Procs, Start(p) \/ Spawn(p) PROVE PassedBy'
  <2>1. listed' # None => (Flowing(listed)' => Flowing(listed))
    BY <1>5 DEF Flowing, Start, Spawn
  <2> QED
    BY <1>1, <1>5, <2>1 DEF Start, Spawn
<1>6. ASSUME NEW p \in Procs, Resume(p) PROVE PassedBy'
  BY <1>6 DEF PassedBy, Resume
<1>7. ASSUME NEW p \in Procs, ResumeChecksState(p) PROVE PassedBy'
  BY <1>7 DEF PassedBy, Flowing, ResumeChecksState
<1>8. ASSUME NEW p \in Procs, Cancel(p) PROVE PassedBy'
  <2>1. missed \subseteq missed'
    BY <1>8 DEF Cancel, NoteMissed
  <2>2. listed' # None => (Flowing(listed)' => Flowing(listed))
    BY <1>8 DEF Cancel, CancelRegistered, Flowing
  <2> QED
    BY <1>1, <1>8, <2>1, <2>2 DEF Cancel
<1>9. ASSUME NEW p \in Procs, UrlDrop(p) PROVE PassedBy'
  BY <1>9 DEF PassedBy, UrlDrop
<1>10. ASSUME NEW p \in Procs, RemoveFile(p) PROVE PassedBy'
  BY <1>10 DEF PassedBy, Flowing, RemoveFile
<1>11. ASSUME NEW p \in Procs, PanicAll(p) PROVE PassedBy'
  BY <1>11 DEF PassedBy, PanicAll
<1>12. ASSUME NEW p \in Procs, ResumeAll(p) PROVE PassedBy'
  BY <1>12 DEF PassedBy, ResumeAll
<1>13. ASSUME NEW p \in Procs, UrlPanic(p) PROVE PassedBy'
  <2> SUFFICES ASSUME listed # None, Flowing(listed)'
               PROVE  listed \in missed'
    BY <1>13 DEF UrlPanic, PassedBy
  <2>1. /\ pc[p] = "urlPanic" /\ pc' = [pc EXCEPT ![p] = "idle"] /\ UNCHANGED <<rpc, of, arg, listed>>
        /\ NoteMissed(listed, IF Downloading(listed) THEN {cancelOf[listed]} ELSE {})
    BY <1>13 DEF UrlPanic
  <2>2. ASSUME NEW r \in Runs, of'[r] = listed, Flows(r)' PROVE listed \in missed'
    <3>1. Flows(r)
      BY <1>13, <2>1, <2>2 DEF UrlPanic, Park, CancelRegistered
    <3>2. Downloading(listed) => r # cancelOf[listed]
      BY <1>13, <2>2 DEF UrlPanic, Park, CancelRegistered
    <3> QED
      BY <2>1, <2>2, <3>1, <3>2 DEF NoteMissed
  <2>3. ASSUME NEW q \in Procs, arg'[q] = listed, pc'[q] \in {"checked", "start", "spawn"}
        PROVE listed \in missed'
    BY <2>1, <2>3 DEF NoteMissed
  <2> QED
    BY <2>1, <2>2, <2>3 DEF Flowing
<1>14. ASSUME NEW p \in Procs, UrlResumeAll(p) PROVE PassedBy'
  BY <1>14 DEF PassedBy, Flowing, UrlResumeAll
<1>15. CASE Pause
  <2>1. missed \subseteq missed'
    BY <1>15 DEF Pause, NoteMissed
  <2>2. listed' # None => (Flowing(listed)' => Flowing(listed))
    BY <1>15 DEF Pause, Park, CancelRegistered, Flowing
  <2> QED
    BY <1>1, <1>15, <2>1, <2>2 DEF Pause
<1>16. ASSUME NEW r \in Runs, Transfer(r) PROVE PassedBy'
  <2>1. /\ UNCHANGED <<of, stopped, pc, arg>>
        /\ \A q \in Runs \ {r} : rpc'[q] = rpc[q]
        /\ rpc[r] \notin {"free", "over", "notify"} \/ rpc'[r] = "over"
    BY <1>16 DEF Transfer, RegisterCancel, Answered, CreateFile, Read, Write, WriteOverBurst,
       ReadStopped, Close,
       MarkDone, Notify, Fail, RunSteps
  <2>2. panicked' = panicked /\ listed' \in {listed, None} /\ missed' = missed /\ pc' = pc
    BY <1>16 DEF Transfer, RegisterCancel, Answered, CreateFile, Read, Write, WriteOverBurst,
       ReadStopped, Close,
       MarkDone, Notify, Fail
  <2>3. listed' # None => (Flowing(listed)' => Flowing(listed))
    BY <2>1, <2>2 DEF Flowing
  <2> QED
    BY <1>1, <2>2, <2>3
<1>17. CASE UNCHANGED vars
  BY <1>17 DEF PassedBy, Flowing, vars
<1> QED
  BY <1>2, <1>3, <1>4, <1>5, <1>6, <1>7, <1>8, <1>9, <1>10, <1>11, <1>12, <1>13, <1>14, <1>15,
     <1>16, <1>17 DEF Next, Continue

-----------------------------------------------------------------------------
(* Whose the file is                                                       *)

Own(r) == [exists |-> TRUE, creator |-> r, mixed |-> FALSE]

\* A transfer is done only when its body was read to the end.
LEMMA ReadToEndKept == Typed /\ ReadToEnd /\ [Next]_vars => ReadToEnd'
<1> SUFFICES ASSUME Typed, ReadToEnd, [Next]_vars PROVE ReadToEnd'
  OBVIOUS
<1> USE DEF Typed, ReadToEnd, Step, transfer, request, pipeline, RunSteps
<1>1. ASSUME UNCHANGED <<rpc, eof, refused>>, \A r \in Runs : stopped[r] => stopped'[r]
      PROVE ReadToEnd'
  BY <1>1
<1>2. ASSUME NEW p \in Procs, \/ AddURL(p) \/ Resume(p) \/ PanicAll(p) \/ ResumeAll(p)
                             \/ Insert(p) \/ CheckPanic(p) \/ ParkAdded(p) \/ Start(p)
                             \/ ResumeChecksState(p) \/ UrlDrop(p)
                             \/ RemoveFile(p) \/ UrlResumeAll(p)
      PROVE ReadToEnd'
  BY <1>1, <1>2 DEF AddURL, Resume, PanicAll, ResumeAll, Insert, CheckPanic, ParkAdded, Start,
     ResumeChecksState, UrlDrop, RemoveFile, UrlResumeAll
<1>3. ASSUME NEW p \in Procs, Spawn(p) PROVE ReadToEnd'
  BY <1>3 DEF Spawn
<1>4. ASSUME NEW p \in Procs, Cancel(p) PROVE ReadToEnd'
  BY <1>1, <1>4 DEF Cancel, CancelRegistered
<1>5. ASSUME NEW p \in Procs, UrlPanic(p) PROVE ReadToEnd'
  BY <1>1, <1>5 DEF UrlPanic, Park, CancelRegistered
<1>6. CASE Pause
  BY <1>1, <1>6 DEF Pause, Park, CancelRegistered
<1>7. ASSUME NEW r \in Runs, RegisterCancel(r) \/ Answered(r) \/ CreateFile(r) \/ ReadStopped(r)
      PROVE ReadToEnd'
  BY <1>7 DEF RegisterCancel, Answered, CreateFile, ReadStopped
<1>8. ASSUME NEW r \in Runs, Read(r) \/ Write(r) PROVE ReadToEnd'
  BY <1>8 DEF Read, Write
<1>9. ASSUME NEW r \in Runs, WriteOverBurst(r) PROVE ReadToEnd'
  BY <1>9 DEF WriteOverBurst
<1>10. ASSUME NEW r \in Runs, Close(r) \/ MarkDone(r) \/ Notify(r) \/ Fail(r) PROVE ReadToEnd'
  BY <1>10 DEF Close, LooksStopped, MarkDone, Notify, Fail
<1>11. CASE UNCHANGED vars
  BY <1>11 DEF vars
<1> QED
  BY <1>2, <1>3, <1>4, <1>5, <1>6, <1>7, <1>8, <1>9, <1>10, <1>11 DEF Next, Continue, Transfer

\* Unless transfers cross, whoever has the file in hand created it.
LEMMA OwnFileKept == Typed /\ OwnFile /\ ReadToEnd /\ [Next]_vars => OwnFile'
<1> SUFFICES ASSUME Typed, OwnFile, ReadToEnd, [Next]_vars PROVE OwnFile'
  OBVIOUS
<1> USE DEF Typed, Step, Goto, transfer, request, pipeline, RunSteps
\* A step that takes nothing into hand and leaves the file alone.
<1>1. ASSUME UNCHANGED <<file, delivered, crossed>>, refused => refused',
             \A r \in Runs : Holds(r)' => Holds(r)
      PROVE OwnFile'
  BY <1>1 DEF OwnFile
<1>2. ASSUME NEW p \in Procs, \/ AddURL(p) \/ Resume(p) \/ PanicAll(p) \/ ResumeAll(p)
                             \/ Insert(p) \/ CheckPanic(p) \/ ParkAdded(p) \/ Start(p)
                             \/ Spawn(p) \/ ResumeChecksState(p) \/ UrlDrop(p)
                             \/ UrlResumeAll(p) \/ Cancel(p) \/ UrlPanic(p)
      PROVE OwnFile'
  BY <1>1, <1>2 DEF Holds, AddURL, Resume, PanicAll, ResumeAll, Insert, CheckPanic, ParkAdded,
     Start,
     Spawn, ResumeChecksState, UrlDrop, UrlResumeAll, Cancel, UrlPanic
<1>3. CASE Pause
  BY <1>1, <1>3 DEF Holds, Pause
<1>4. ASSUME NEW p \in Procs, RemoveFile(p) PROVE OwnFile'
  BY <1>4, NoneIsNeither DEF OwnFile, Holds, RemoveFile, NoteCrossed
<1>5. ASSUME NEW r \in Runs, CreateFile(r) PROVE OwnFile'
  BY <1>5 DEF OwnFile, Holds, CreateFile, NoteCrossed
<1>6. ASSUME NEW r \in Runs, Write(r) \/ WriteOverBurst(r) PROVE OwnFile'
  <2> SUFFICES ASSUME ~crossed PROVE OwnFile'
    BY <1>6 DEF OwnFile, Write, WriteOverBurst
  <2>1. file = Own(r)
    BY <1>6 DEF OwnFile, Holds, Write, WriteOverBurst, Own
  <2>2. Written(r) = file
    BY <2>1 DEF Written, Own
  <2>3. UNCHANGED <<file, delivered, crossed>>
    BY <1>6, <2>2 DEF Write, WriteOverBurst
  <2>4. refused => refused'
    <3>1. CASE Write(r)
      BY <3>1 DEF Write
    <3>2. CASE WriteOverBurst(r)
      BY <3>2 DEF WriteOverBurst
    <3> QED
      BY <1>6, <3>1, <3>2
  <2>5. rpc[r] = "write" /\ \A q \in Runs \ {r} : rpc'[q] = rpc[q]
    BY <1>6 DEF Write, WriteOverBurst
  <2>6. \A q \in Runs : Holds(q)' => Holds(q)
    BY <2>5 DEF Holds
  <2> QED BY <1>1, <2>3, <2>4, <2>6
<1>7. ASSUME NEW r \in Runs, Notify(r) PROVE OwnFile'
  <2> SUFFICES ASSUME ~crossed PROVE OwnFile'
    BY <1>7 DEF OwnFile, Notify
  <2>1. \A q \in Runs : Holds(q) => file = Own(q)
    BY DEF OwnFile, Own
  <2>2. Holds(r) /\ ~Holds(r)' /\ \A q \in Runs : Holds(q)' => Holds(q)
    BY <1>7 DEF Holds, Notify
  <2>3. file = Own(r) /\ \A q \in Runs : ~Holds(q)'
    BY <2>1, <2>2 DEF Own
  <2>4. file.exists /\ ~file.mixed /\ (refused \/ eof[file.creator])
    BY <1>7, <2>3 DEF Own, ReadToEnd, Notify
  <2>5. delivered' = "broken" => refused'
    BY <1>7, <2>4 DEF Notify, OwnFile
  <2> QED
    BY <2>3, <2>5 DEF OwnFile
<1>8. ASSUME NEW r \in Runs, \/ RegisterCancel(r) \/ Answered(r) \/ Read(r) \/ ReadStopped(r)
                             \/ Close(r) \/ MarkDone(r) \/ Fail(r)
      PROVE OwnFile'
  BY <1>1, <1>8 DEF Holds, RegisterCancel, Answered, Read, ReadStopped, Close, MarkDone, Fail
<1>9. CASE UNCHANGED vars
  BY <1>1, <1>9 DEF Holds, vars
<1> QED
  BY <1>2, <1>3, <1>4, <1>5, <1>6, <1>7, <1>8, <1>9 DEF Next, Continue, Transfer

-----------------------------------------------------------------------------

\* The invariant is inductive.
LEMMA URLInvKept == URLInv /\ [Next]_vars => URLInv'
BY TypedKept, NamedKept, FreshKept, DrivenKept, PassedByKept, ReadToEndKept,
   OwnFileKept DEF URLInv

(* A row that shows a download in progress has a transfer that nobody has  *)
(* stopped, or a request about to start one: a transfer that ends says so  *)
(* in the row, unless it was stopped by what changed the row already       *)
(* (setErr, and the silent returns of runURLDownload).                     *)
THEOREM RowsAreDriven == Spec => []DownloadingIsDriven
<1>1. URLInv => DownloadingIsDriven
  BY DEF URLInv
<1> QED
  BY <1>1, InitURLInv, URLInvKept, PTL DEF Spec

(* In panic mode, with every request through, what flows for the listed    *)
(* row is a transfer that the stop passed by; no later request starts      *)
(* another (urlPanic, urlResume, urlResumeAll and AddURL).                 *)
THEOREM PanicStopsTheRest == Spec => []NothingElseFlows
<1>1. URLInv => NothingElseFlows
  BY DEF URLInv, PassedBy, NothingElseFlows, Flowing
<1> QED
  BY <1>1, InitURLInv, URLInvKept, PTL DEF Spec

(* What is handed over is whole, and one transfer wrote it, unless a       *)
(* transfer's file was created anew or removed under it (runURLDownload).  *)
THEOREM HandsOverIntact == Spec => []DeliversIntact
<1>1. URLInv => DeliversIntact
  BY DEF URLInv, OwnFile, DeliversIntact
<1> QED
  BY <1>1, InitURLInv, URLInvKept, PTL DEF Spec

=============================================================================
