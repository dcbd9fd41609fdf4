----------------------------- MODULE URLDownload -----------------------------
(***************************************************************************)
(* The downloads over plain HTTP of internal/torrent/urldl.go, for one URL *)
(* and its one destination file.  A urlDownload struct (an entry) is       *)
(* listed under the URL's id; each start spawns a transfer goroutine (a    *)
(* run) that records the cancel function of its own context in the entry   *)
(* once it gets to run.  Requests and the panic and recover callbacks run  *)
(* in goroutines of their own (Procs).  Everything between two locks is a  *)
(* step.  The HTTP server and the file system are external: any request,   *)
(* read, write or create may fail, and any read may be the last.           *)
(***************************************************************************)
EXTENDS Naturals, FiniteSets

CONSTANTS
  Entries,   \* urlDownload structs that may be created
  Runs,      \* transfer goroutines that may be spawned
  Procs,     \* goroutines inside a request or a callback
  None

ASSUME NoneIsNeither == None \notin Entries \union Runs

VARIABLES
  panicked,   \* m.panicked
  listed,     \* m.urls[id]: the entry listed for the URL
  state,      \* per entry, dl.State ("unused": not created yet)
  done,       \* per entry, dl.done
  cancelOf,   \* per entry, the run whose cancel function dl.cancel is
  rpc,        \* per run, its next step ("free": not spawned, "over": returned)
  of,         \* per run, its entry
  stopped,    \* per run, ctx.Err() # nil
  fd,         \* per run, the file it has open: none, the listed path, unlinked
  eof,        \* per run, its last read ended the body
  file,       \* the destination: exists, the run that created it, and whether
              \* another run wrote into it since
  pc,         \* per request goroutine, its next step
  arg,        \* per request goroutine, the entry it works on
  processed,  \* the session's completion gate is taken for the URL's id
  delivered,  \* history: what the completion pipeline was handed
  missed,     \* history: entries with a transfer that a stop could not reach
  crossed,    \* history: a transfer's file was created anew or removed by others
  refused     \* history: the limiter ended a transfer before its body's end

transfer == <<rpc, of, stopped, fd, eof>>
request  == <<pc, arg>>
pipeline == <<processed, delivered, missed, crossed, refused>>
vars     == <<panicked, listed, state, done, cancelOf, rpc, of, stopped, fd, eof,
              file, pc, arg, processed, delivered, missed, crossed, refused>>

States   == {"unused", "downloading", "paused", "error", "complete", "cancelled"}
RunSteps == {"free", "spawned", "request", "response", "read", "write", "close",
             "finish", "notify", "over"}
Steps    == {"idle", "insert", "check", "park", "start", "spawn", "checked",
             "resumeAll", "urlPanic", "urlDrop", "remove"}
NoFile   == [exists |-> FALSE, creator |-> None, mixed |-> FALSE]

TypeOK ==
  /\ panicked \in BOOLEAN
  /\ listed \in Entries \union {None}
  /\ state \in [Entries -> States]
  /\ done \in [Entries -> BOOLEAN]
  /\ cancelOf \in [Entries -> Runs \union {None}]
  /\ rpc \in [Runs -> RunSteps]
  /\ of \in [Runs -> Entries \union {None}]
  /\ stopped \in [Runs -> BOOLEAN]
  /\ fd \in [Runs -> {"none", "path", "unlinked"}]
  /\ eof \in [Runs -> BOOLEAN]
  /\ file \in [exists : BOOLEAN, creator : Runs \union {None}, mixed : BOOLEAN]
  /\ pc \in [Procs -> Steps]
  /\ arg \in [Procs -> Entries \union {None}]
  /\ processed \in BOOLEAN
  /\ delivered \in {"nothing", "intact", "broken"}
  /\ missed \subseteq Entries
  /\ crossed \in BOOLEAN
  /\ refused \in BOOLEAN

Init ==
  /\ panicked \in BOOLEAN
  /\ listed = None
  /\ state = [e \in Entries |-> "unused"]
  /\ done = [e \in Entries |-> FALSE]
  /\ cancelOf = [e \in Entries |-> None]
  /\ rpc = [r \in Runs |-> "free"]
  /\ of = [r \in Runs |-> None]
  /\ stopped = [r \in Runs |-> FALSE]
  /\ fd = [r \in Runs |-> "none"]
  /\ eof = [r \in Runs |-> FALSE]
  /\ file = NoFile
  /\ pc = [p \in Procs |-> "idle"]
  /\ arg = [p \in Procs |-> None]
  /\ processed = FALSE
  /\ delivered = "nothing"
  /\ missed = {}
  /\ crossed = FALSE
  /\ refused = FALSE

-----------------------------------------------------------------------------
(* Bound: a request that may start a run begins only while a run is left.  *)

Starters == {p \in Procs : pc[p] \in {"insert", "check", "start", "spawn", "checked", "resumeAll"}}
RunLeft  == Cardinality({r \in Runs : rpc[r] = "free"}) > Cardinality(Starters)

-----------------------------------------------------------------------------
(* Requests: AddURL, urlPause, urlResume, urlCancel                        *)

Goto(p, from, to) == pc[p] = from /\ pc' = [pc EXCEPT ![p] = to]

SetState(e, s) == state' = [state EXCEPT ![e] = s]

\* dl.cancel(), when a run has registered one.
CancelRegistered(e) ==
  stopped' = IF cancelOf[e] = None THEN stopped
             ELSE [stopped EXCEPT ![cancelOf[e]] = TRUE]

\* Run r is transferring, and nothing has told it to stop.
Flows(r) == rpc[r] \notin {"free", "over", "notify"} /\ ~stopped[r]

\* History: e is being stopped in a way that stops only the runs in caught,
\* and another flows for it, or a request is on its way to start one.
NoteMissed(e, caught) ==
  LET escapes == \/ \E r \in Runs \ caught : of[r] = e /\ Flows(r)
                 \/ \E p \in Procs : arg[p] = e /\ pc[p] \in {"checked", "start", "spawn"}
  IN  missed' = IF escapes THEN missed \union {e} ELSE missed

\* Nothing is listed for the URL yet: AddURL builds an entry.
AddURL(p) ==
  /\ RunLeft /\ (\E e \in Entries : state[e] = "unused")
  /\ listed = None
  /\ Goto(p, "idle", "insert")
  /\ UNCHANGED <<panicked, listed, state, done, cancelOf, transfer, file, arg, pipeline>>

Insert(p) ==
  /\ Goto(p, "insert", "check")
  /\ \E e \in Entries :
       /\ state[e] = "unused"
       /\ SetState(e, "downloading")
       /\ arg' = [arg EXCEPT ![p] = e]
       /\ listed' = e
  /\ UNCHANGED <<panicked, done, cancelOf, transfer, file, pipeline>>

CheckPanic(p) ==
  /\ Goto(p, "check", IF panicked THEN "park" ELSE "start")
  /\ UNCHANGED <<panicked, listed, state, done, cancelOf, transfer, file, arg, pipeline>>

ParkAdded(p) ==
  /\ Goto(p, "park", "idle")
  /\ SetState(arg[p], "paused")
  /\ NoteMissed(arg[p], {})
  /\ UNCHANGED <<panicked, listed, done, cancelOf, transfer, file, arg, processed, delivered,
                 crossed, refused>>

\* startURLDownload: the state under the lock, then the goroutine.
Start(p) ==
  /\ Goto(p, "start", "spawn")
  /\ SetState(arg[p], "downloading")
  /\ UNCHANGED <<panicked, listed, done, cancelOf, transfer, file, arg, pipeline>>

Spawn(p) ==
  /\ Goto(p, "spawn", "idle")
  /\ \E r \in Runs :
       /\ rpc[r] = "free"
       /\ rpc' = [rpc EXCEPT ![r] = "spawned"]
       /\ of' = [of EXCEPT ![r] = arg[p]]
  /\ UNCHANGED <<panicked, listed, state, done, cancelOf, stopped, fd, eof, file, arg,
                 pipeline>>

\* urlPause, and urlPanic for the one entry of its snapshot.
Downloading(e) == state[e] = "downloading"

MarkPaused(e) == SetState(e, "paused") /\ UNCHANGED stopped
Park(e) ==
  /\ CancelRegistered(e)
  /\ SetState(e, "paused")

Pause ==
  /\ listed # None
  /\ Downloading(listed)
  /\ Park(listed)
  /\ NoteMissed(listed, {cancelOf[listed]})
  /\ UNCHANGED <<panicked, listed, done, cancelOf, rpc, of, fd, eof, file, request, processed,
                 delivered, crossed, refused>>

Resume(p) ==
  /\ RunLeft
  /\ ~panicked
  /\ listed # None
  /\ Goto(p, "idle", "checked")
  /\ arg' = [arg EXCEPT ![p] = listed]
  /\ UNCHANGED <<panicked, listed, state, done, cancelOf, transfer, file, pipeline>>

Resumable(e) == state[e] \in {"paused", "error"}

ResumeChecksState(p) ==
  /\ Goto(p, "checked", IF Resumable(arg[p]) THEN "start" ELSE "idle")
  /\ UNCHANGED <<panicked, listed, state, done, cancelOf, transfer, file, arg, pipeline>>

Cancel(p) ==
  /\ listed # None
  /\ Goto(p, "idle", "urlDrop")
  /\ arg' = [arg EXCEPT ![p] = listed]
  /\ CancelRegistered(listed)
  /\ SetState(listed, "cancelled")
  /\ NoteMissed(listed, {cancelOf[listed]})
  /\ UNCHANGED <<panicked, listed, done, cancelOf, rpc, of, fd, eof, file, processed, delivered,
                 crossed, refused>>

\* delete(m.urls, dl.ID), whichever entry is listed under the id by then.
UrlDrop(p) ==
  /\ Goto(p, "urlDrop", "remove")
  /\ listed' = None
  /\ UNCHANGED <<panicked, state, done, cancelOf, transfer, file, arg, pipeline>>

\* History: the file is created or removed while a transfer other than r has it
\* in hand, from creating it to handing it over.
Holds(r) == rpc[r] \in {"read", "write", "close", "finish", "notify"}
NoteCrossed(r) == crossed' = (crossed \/ \E q \in Runs \ {r} : Holds(q))

Unlinked == [r \in Runs |-> IF fd[r] = "path" THEN "unlinked" ELSE fd[r]]

RemoveFile(p) ==
  /\ Goto(p, "remove", "idle")
  /\ file' = NoFile
  /\ fd' = Unlinked
  /\ NoteCrossed(None)
  /\ UNCHANGED <<panicked, listed, state, done, cancelOf, rpc, of, stopped, eof, arg, processed,
                 delivered, missed, refused>>

-----------------------------------------------------------------------------
(* Panic mode: the flag of PanicAll and ResumeAll, urlPanic, urlResumeAll  *)

PanicAll(p) ==
  /\ Goto(p, "idle", "urlPanic")
  /\ panicked' = TRUE
  /\ UNCHANGED <<listed, state, done, cancelOf, transfer, file, arg, pipeline>>

UrlPanic(p) ==
  /\ Goto(p, "urlPanic", "idle")
  /\ IF listed # None /\ Downloading(listed) THEN Park(listed) ELSE UNCHANGED <<stopped, state>>
  /\ IF listed = None THEN UNCHANGED missed
     ELSE NoteMissed(listed, IF Downloading(listed) THEN {cancelOf[listed]} ELSE {})
  /\ UNCHANGED <<panicked, listed, done, cancelOf, rpc, of, fd, eof, file, arg, processed,
                 delivered, crossed, refused>>

ResumeAll(p) ==
  /\ RunLeft
  /\ Goto(p, "idle", "resumeAll")
  /\ panicked
  /\ panicked' = FALSE
  /\ UNCHANGED <<listed, state, done, cancelOf, transfer, file, arg, pipeline>>

\* urlResumeAll restarts what it finds paused; urlResume then refuses in panic.
Restartable(e) == state[e] = "paused"

UrlResumeAll(p) ==
  /\ Goto(p, "resumeAll",
          IF listed # None /\ ~panicked /\ Restartable(listed) THEN "checked" ELSE "idle")
  /\ arg' = [arg EXCEPT ![p] = listed]
  /\ UNCHANGED <<panicked, listed, state, done, cancelOf, transfer, file, pipeline>>

-----------------------------------------------------------------------------
(* runURLDownload                                                          *)

Step(r, from, to) == rpc[r] = from /\ rpc' = [rpc EXCEPT ![r] = to]

RegisterCancel(r) ==
  /\ Step(r, "spawned", "request")
  /\ cancelOf' = [cancelOf EXCEPT ![of[r]] = r]
  /\ UNCHANGED <<panicked, listed, state, done, of, stopped, fd, eof, file, request, pipeline>>

\* Do(req) answers; a context cancelled before that makes it fail.
Answered(r) ==
  /\ Step(r, "request", "response")
  /\ ~stopped[r]
  /\ UNCHANGED <<panicked, listed, state, done, cancelOf, of, stopped, fd, eof, file, request,
                 pipeline>>

\* os.Create truncates whatever is at the path.
CreateFile(r) ==
  /\ Step(r, "response", "read")
  /\ fd' = [fd EXCEPT ![r] = "path"]
  /\ file' = [exists |-> TRUE, creator |-> r, mixed |-> FALSE]
  /\ NoteCrossed(r)
  /\ UNCHANGED <<panicked, listed, state, done, cancelOf, of, stopped, eof, request, processed,
                 delivered, missed, refused>>

\* The loop's ctx.Err() test passed and Body.Read returned a chunk.
Read(r) ==
  /\ Step(r, "read", "write")
  /\ ~stopped[r]
  /\ eof' \in {[eof EXCEPT ![r] = FALSE], [eof EXCEPT ![r] = TRUE]}
  /\ UNCHANGED <<panicked, listed, state, done, cancelOf, of, stopped, fd, file, request,
                 pipeline>>

\* The chunk is written; then the limiter, which a cancelled context ends.
Written(r) == IF fd[r] = "path" /\ file.creator # r THEN [file EXCEPT !.mixed = TRUE] ELSE file

Write(r) ==
  /\ Step(r, "write", IF stopped[r] \/ eof[r] THEN "close" ELSE "read")
  /\ file' = Written(r)
  /\ UNCHANGED <<panicked, listed, state, done, cancelOf, of, stopped, fd, eof, request,
                 pipeline>>

\* A chunk (of up to 256 KB) beyond the limiter's burst (of 16 KB) while a limit
\* is set (the settings popup sets or lifts one at any time): WaitN fails at
\* once, and its error leaves the loop like the body's end.
WriteOverBurst(r) ==
  /\ Step(r, "write", "close")
  /\ file' = Written(r)
  /\ refused' = (refused \/ ~eof[r])
  /\ UNCHANGED <<panicked, listed, state, done, cancelOf, of, stopped, fd, eof, request, processed,
                 delivered, missed, crossed>>

ReadStopped(r) ==
  /\ Step(r, "read", "close")
  /\ stopped[r]
  /\ UNCHANGED <<panicked, listed, state, done, cancelOf, of, stopped, fd, eof, file, request,
                 pipeline>>

\* out.Close(), and the last look at the context.
NeverLooks(r) == FALSE
LooksStopped(r) == stopped[r]

Close(r) ==
  /\ Step(r, "close", IF LooksStopped(r) THEN "over" ELSE "finish")
  /\ fd' = [fd EXCEPT ![r] = "none"]
  /\ UNCHANGED <<panicked, listed, state, done, cancelOf, of, stopped, eof, file, request,
                 pipeline>>

MarkDone(r) ==
  /\ Step(r, "finish", "notify")
  /\ SetState(of[r], "complete")
  /\ done' = [done EXCEPT ![of[r]] = TRUE]
  /\ UNCHANGED <<panicked, listed, cancelOf, of, stopped, fd, eof, file, request, pipeline>>

\* onComplete(id): the pipeline takes the id's gate, looks the id up, moves the
\* file away and drops the entry, if the one listed is done.
Accepts == ~processed /\ listed # None /\ done[listed] /\ state[listed] = "complete"

Notify(r) ==
  /\ Step(r, "notify", "over")
  /\ processed' = TRUE
  /\ IF Accepts
     THEN /\ listed' = None
          /\ file' = NoFile
          /\ fd' = Unlinked
          /\ delivered' = IF file.exists /\ ~file.mixed /\ eof[file.creator]
                          THEN "intact" ELSE "broken"
     ELSE UNCHANGED <<listed, file, fd, delivered>>
  /\ UNCHANGED <<panicked, state, done, cancelOf, of, stopped, eof, request, missed, crossed,
                 refused>>

\* Where a failure is reported with setErr, and the two places where a
\* cancelled context makes it return without a word.
FailsSilently(r) == rpc[r] \in {"request", "read"} /\ stopped[r]
NeverReports(r) == FALSE
ReportsError(r) == ~FailsSilently(r)

Fail(r) ==
  /\ rpc[r] \in {"request", "response", "read", "write", "close"}
  /\ rpc' = [rpc EXCEPT ![r] = "over"]
  /\ fd' = [fd EXCEPT ![r] = "none"]
  /\ IF ReportsError(r) THEN SetState(of[r], "error") ELSE UNCHANGED state
  /\ UNCHANGED <<panicked, listed, done, cancelOf, of, stopped, eof, file, request, pipeline>>

-----------------------------------------------------------------------------

Continue(p) ==
  \/ Insert(p) \/ CheckPanic(p) \/ ParkAdded(p) \/ Start(p) \/ Spawn(p)
  \/ ResumeChecksState(p) \/ UrlDrop(p) \/ RemoveFile(p)
  \/ UrlPanic(p) \/ UrlResumeAll(p)

Transfer(r) ==
  \/ RegisterCancel(r) \/ Answered(r) \/ CreateFile(r) \/ Read(r) \/ Write(r)
  \/ WriteOverBurst(r) \/ ReadStopped(r) \/ Close(r) \/ MarkDone(r) \/ Notify(r) \/ Fail(r)

Next ==
  \/ Pause
  \/ \E p \in Procs : AddURL(p) \/ Resume(p) \/ Cancel(p) \/ PanicAll(p) \/ ResumeAll(p)
                      \/ Continue(p)
  \/ \E r \in Runs : Transfer(r)

Spec == Init /\ [][Next]_vars

-----------------------------------------------------------------------------
(* Properties                                                              *)

\* A request is about to start a run for entry e.
Starting(e) == \E p \in Procs : arg[p] = e /\ pc[p] \in {"check", "park", "start", "spawn"}

\* A row that shows a download in progress is never abandoned: a run that
\* nobody stopped is transferring for it, or one is about to be started.
DownloadingIsDriven ==
  \A e \in Entries : state[e] = "downloading" =>
    Starting(e) \/ \E r \in Runs : of[r] = e /\ Flows(r)

\* urlPanic's comment: it parks every active download "so nothing keeps
\* flowing off the tunnel while the VPN is down".  Once the operations are
\* over, what flows in panic mode for the listed row is a transfer that the
\* stop passed by: its goroutine had not recorded its cancel function, a request
\* was about to start it, or the row no longer showed it.
NothingElseFlows ==
  panicked /\ listed # None /\ (\A p \in Procs : pc[p] = "idle") =>
    \A r \in Runs : of[r] = listed /\ Flows(r) => listed \in missed

\* What the completion pipeline is handed is a whole body as one transfer
\* wrote it, however the transfer was paused, resumed, stopped or cancelled on
\* the way; unless the file was created anew, by a second transfer, or removed,
\* by a cancel, while another transfer had it in hand, or the limiter ended a
\* transfer short of its body's end (the code allows all three).
DeliversIntact == delivered = "broken" => crossed \/ refused

\* Mutiny.md says that URL entries "honor the global download rate limit" and
\* go "through the exact same pipeline as a torrent": a limit makes a download
\* slower, not shorter.  Only transfers that cross can break what is delivered.
LimitOnlySlows == delivered = "broken" => crossed

=============================================================================
