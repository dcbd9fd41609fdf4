----------------------------- MODULE StateRows ------------------------------
(***************************************************************************)
(* What main.go keeps of one download in the state store, and who writes   *)
(* it.  The row is read with Get and written back with Set, two calls that *)
(* nothing holds together, by                                              *)
(*   ui      a key or an HTTP request: adding, pausing, resuming, choosing *)
(*           files, deleting; and main itself, restoring at start          *)
(*   monitor the goroutine that adds everything again when the VPN is back *)
(*   info    the goroutine of register, once the metadata has arrived      *)
(*   events  the loop over the manager's event channel                     *)
(*   pass    the delivery pass of a finished download                      *)
(* The manager has its own record of the download; the row is what a       *)
(* restart has to go by.  A panic holds the download and tells nobody; the *)
(* recovery adds again whatever has a source and is not live: what the     *)
(* panic held, but also what the user had paused, deleted while it was     *)
(* live, or had delivered.                                                 *)
(***************************************************************************)
EXTENDS StateStore, Sequences

CONSTANTS
  Requests,  \* bound: requests of the user
  Capacity,  \* capacity of the event channel (256 in main.go)
  Restarts,  \* bound: restarts of the program
  Panics     \* bound: panics of the VPN monitor

VARIABLES
  registered, \* the manager's entry: "absent", "live", or in m.parked, by the
              \* user ("parked") or by a panic ("held"); no code tells these apart
  chosen,     \* sources[id].files
  applied,    \* m.applied[id]
  sourced,    \* m.sources has the download
  panicked,   \* m.panicked
  queue,      \* the event channel
  job,        \* per writer, what it does next
  row,        \* per writer, the row it is about to Set
  stale,      \* per writer, the row changed since it was read
  boot,       \* main: the restored row asked for a pause
  asked,      \* requests so far
  restarts,   \* restarts so far
  panics,     \* panics so far
  wish,       \* history: what the user last asked for: "run", "park" or "none";
              \* "left" once an HTTP delete has left the row behind, and "lost"
              \* once the program has given the wish up
  missed,     \* history: an event was dropped, came for a row not there, or
              \* was still on its way when the download was added again
  crossed,    \* history: a Set undid another's, a pass met a new registration or
              \* a panic, or two additions wrote their rows at once
  broken      \* history: the program stopped with something under way

manager == <<registered, chosen, applied, sourced, panicked>>
handler == <<job, row, stale>>
bounds  == <<asked, restarts, panics>>
rowVars == <<registered, chosen, applied, sourced, panicked, queue, job, row, stale, boot,
             asked, restarts, panics, wish, missed, crossed, broken>>
vars    == <<storeVars, rowVars>>

Choices == {"all", "some"}

\* A row: whether it is there, Relocated, Paused and Files.
Row == [here : BOOLEAN, done : BOOLEAN, paused : BOOLEAN, files : Choices]
Absent == [here |-> FALSE, done |-> FALSE, paused |-> FALSE, files |-> "all"]

\* The row the onAdd callback writes: nothing of an earlier one is kept.
Added == [Absent EXCEPT !.here = TRUE]

\* The row a delivery pass writes.
NotRelocated == Added
Delivered == [Added EXCEPT !.done = TRUE]

\* The writers are there, and the store holds this row and no other.
ASSUME FiveWriters == {"ui", "monitor", "info", "events", "pass"} \subseteq Writers
ASSUME StoreOfOneRow == Tables = Row /\ NoRows = Absent

Init ==
  /\ StoreInit
  /\ registered = "absent" /\ chosen = "all" /\ applied = FALSE
  /\ sourced = FALSE /\ panicked = FALSE
  /\ queue = <<>>
  /\ job = [w \in Writers |-> "idle"]
  /\ row = [w \in Writers |-> Absent]
  /\ stale = [w \in Writers |-> FALSE]
  /\ boot = FALSE
  /\ asked = 0 /\ restarts = 0 /\ panics = 0
  /\ wish = "none"
  /\ missed = FALSE /\ crossed = FALSE /\ broken = FALSE

Free(w) == job[w] = "idle" /\ pc[w] = "idle"

\* w is going to Set r, a row computed from the table as it is now.
Prepare(w, r) ==
  /\ row' = [row EXCEPT ![w] = r]
  /\ stale' = [stale EXCEPT ![w] = FALSE]

Ask == asked < Requests /\ asked' = asked + 1 /\ UNCHANGED <<restarts, panics>>

\* Manager.emit: a full channel loses the event.
Emit(e) ==
  IF Len(queue) < Capacity
  THEN queue' = Append(queue, e) /\ UNCHANGED missed
  ELSE missed' = TRUE /\ UNCHANGED queue

-----------------------------------------------------------------------------
(* The requests of the user                                                *)

\* Somebody other than w is about to write the row of an addition.
AddingElse(w) ==
  \E u \in {"ui", "monitor"} \ {w} : job[u] \in {"set", "setThenEmit"}

\* register, called by w: in a panic the download is held at once.
Register(w, f) ==
  /\ registered' = IF panicked THEN "held" ELSE "live"
  /\ chosen' = f
  /\ applied' = (panicked /\ applied)
  /\ sourced' = TRUE
  /\ Prepare(w, Added)
  /\ crossed' = (crossed \/ job["pass"] # "idle" \/ AddingElse(w))
  /\ UNCHANGED panicked

\* An addition that fails changes nothing.
Add ==
  /\ Free("ui") /\ Ask
  /\ registered = "absent"
  /\ Register("ui", "all")
  /\ job' = [job EXCEPT !["ui"] = "set"]
  /\ wish' = "run"
  /\ missed' = (missed \/ queue # <<>>)
  /\ UNCHANGED <<storeVars, queue, boot, broken>>

Pause ==
  /\ Free("ui") /\ Ask
  /\ registered = "live"
  /\ registered' = "parked"
  /\ Emit("paused")
  /\ wish' = "park"
  /\ UNCHANGED <<storeVars, chosen, applied, sourced, panicked, handler, boot, crossed, broken>>

\* Pause answers that all is well for a download that is parked already; one
\* that a panic holds will be added again all the same.
PauseHeld ==
  /\ Free("ui") /\ Ask
  /\ registered = "held"
  /\ wish' = "lost"
  /\ UNCHANGED <<storeVars, manager, queue, handler, boot, missed, crossed, broken>>

\* Resume re-adds the torrent, and emits its event when that has returned.
\* Over HTTP it also brings back a download that has left the list.
Resume ==
  /\ Free("ui") /\ Ask
  /\ ~panicked /\ registered # "live" /\ sourced
  /\ Register("ui", chosen)
  /\ job' = [job EXCEPT !["ui"] = "setThenEmit"]
  /\ wish' = "run"
  /\ UNCHANGED <<storeVars, queue, boot, missed, broken>>

EmitResumed ==
  /\ job["ui"] = "emit" /\ pc["ui"] = "idle"
  /\ Emit("resumed")
  /\ job' = [job EXCEPT !["ui"] = "idle"]
  /\ UNCHANGED <<storeVars, manager, row, stale, boot, bounds, wish, crossed, broken>>

\* SelectFiles: a parked torrent's choice is only remembered.
Choose(f) ==
  /\ Free("ui") /\ Ask
  /\ registered # "absent"
  /\ chosen' = f
  /\ applied' = (registered = "live" \/ applied)
  /\ job' = IF registered = "live" THEN [job EXCEPT !["ui"] = "choose"] ELSE job
  /\ row' = [row EXCEPT !["ui"].files = f]
  /\ UNCHANGED <<storeVars, registered, sourced, panicked, queue, stale, boot, wish, missed,
                 crossed, broken>>

\* Cancel forgets the source of a parked download, and keeps that of a live one.
Cancel ==
  /\ registered' = "absent"
  /\ sourced' = (sourced /\ registered \notin {"parked", "held"})
  /\ UNCHANGED <<chosen, applied, panicked>>

\* A key: Cancel and the Delete of the row; for a delivered download, the row alone.
Delete ==
  /\ Free("ui") /\ Ask
  /\ registered # "absent" \/ rows.done
  /\ Cancel
  /\ Prepare("ui", Absent)
  /\ job' = [job EXCEPT !["ui"] = "set"]
  /\ wish' = "none"
  /\ crossed' = (crossed \/ AddingElse("ui"))
  /\ UNCHANGED <<storeVars, queue, boot, missed, broken>>

\* The server's DELETE: Cancel, and nothing for the row.
DeleteOverHTTP ==
  /\ Free("ui") /\ Ask
  /\ registered # "absent"
  /\ Cancel
  /\ wish' = "left"
  /\ UNCHANGED <<storeVars, queue, handler, boot, missed, crossed, broken>>

-----------------------------------------------------------------------------
(* The callbacks of the VPN monitor.  The moment in which a torrent that a *)
(* panic dropped is in neither map is TorrentManager's subject.            *)

\* PanicAll: no row is written, and no event that the loop would record.
PanicAll ==
  /\ panics < Panics
  /\ panics' = panics + 1
  /\ panicked' = TRUE
  /\ registered' = IF registered = "live" THEN "held" ELSE registered
  /\ UNCHANGED <<storeVars, chosen, applied, sourced, queue, handler, boot, asked, restarts,
                 wish, missed, crossed, broken>>

\* ResumeAll under its lock: what is to be added again, with its files.  One
\* recovery at a time: a second one adds again what is there.
ResumeAll ==
  /\ Free("monitor")
  /\ panicked
  /\ panicked' = FALSE
  /\ job' = IF sourced /\ registered # "live" THEN [job EXCEPT !["monitor"] = "readd"] ELSE job
  /\ row' = [row EXCEPT !["monitor"].files = chosen]
  /\ UNCHANGED <<storeVars, registered, chosen, applied, sourced, queue, stale, boot, bounds,
                 wish, missed, crossed, broken>>

\* reAdd, after the lock: whatever the user has done since is done over.
ReAdd ==
  /\ job["monitor"] = "readd"
  /\ Register("monitor", row["monitor"].files)
  /\ job' = [job EXCEPT !["monitor"] = "set"]
  /\ missed' = (missed \/ queue # <<>>)
  /\ wish' = IF wish = "run" THEN "run" ELSE "lost"
  /\ UNCHANGED <<storeVars, queue, boot, bounds, broken>>

\* An error is logged, and what was held stays so.
ReAddFails ==
  /\ job["monitor"] = "readd"
  /\ job' = [job EXCEPT !["monitor"] = "idle"]
  /\ wish' = IF registered = "held" THEN "lost" ELSE wish
  /\ UNCHANGED <<storeVars, manager, queue, row, stale, boot, bounds, missed, crossed, broken>>

-----------------------------------------------------------------------------
(* The goroutines that write behind the user's back                        *)

\* applySelection, once the metadata is there.
Metadata ==
  /\ Free("info")
  /\ registered = "live" /\ ~applied
  /\ \A w \in {"ui", "monitor"} : job[w] \notin {"set", "setThenEmit"}
  /\ applied' = TRUE
  /\ job' = [job EXCEPT !["info"] = "choose"]
  /\ row' = [row EXCEPT !["info"].files = chosen]
  /\ UNCHANGED <<storeVars, registered, chosen, sourced, panicked, queue, stale, boot, bounds,
                 wish, missed, crossed, broken>>

\* The onSelect callback: Get, and nothing more for a row that is not there.
OnSelect(w) ==
  /\ job[w] = "choose"
  /\ job' = [job EXCEPT ![w] = IF rows.here THEN "setFiles" ELSE "idle"]
  /\ Prepare(w, [rows EXCEPT !.files = row[w].files])
  /\ missed' = (missed \/ ~rows.here)
  /\ UNCHANGED <<storeVars, manager, queue, boot, bounds, wish, crossed, broken>>

\* What the event loop makes of an event.
AlwaysPaused(e) == TRUE
PausedBy(e) == e = "paused"

OnEvent ==
  /\ Free("events")
  /\ queue # <<>>
  /\ queue' = Tail(queue)
  /\ job' = IF rows.here THEN [job EXCEPT !["events"] = "set"] ELSE job
  /\ Prepare("events", [rows EXCEPT !.paused = PausedBy(Head(queue))])
  /\ missed' = (missed \/ (~rows.here /\ registered # "absent"))
  /\ UNCHANGED <<storeVars, manager, boot, bounds, wish, crossed, broken>>

\* The end of completeTorrent: the row, and then the drop from the manager.
Pass ==
  /\ Free("pass")
  /\ registered = "live" /\ applied
  /\ Prepare("pass", Delivered)
  /\ job' = [job EXCEPT !["pass"] = "setThenDrop"]
  /\ UNCHANGED <<storeVars, manager, queue, boot, bounds, wish, missed, crossed, broken>>

DropCompleted ==
  /\ job["pass"] = "drop" /\ pc["pass"] = "idle"
  /\ registered' = IF registered = "live" THEN "absent" ELSE registered
  /\ wish' = IF registered = "live" THEN "none" ELSE wish
  /\ crossed' = (crossed \/ registered # "live")
  /\ job' = [job EXCEPT !["pass"] = "idle"]
  /\ UNCHANGED <<storeVars, chosen, applied, sourced, panicked, queue, row, stale, boot, bounds,
                 missed, broken>>

-----------------------------------------------------------------------------

\* The Set of w writes over what it did not see, or says what is not so.
Crosses(w) ==
  \/ w # "pass" /\ stale[w]
  \/ job[w] = "setFiles" /\ row[w].files # chosen
  \/ w = "pass" /\ registered # "live"

AfterSet(w) == CASE job[w] = "setThenEmit" -> "emit"
                 [] job[w] = "setThenDrop" -> "drop"
                 [] OTHER -> IF w = "ui" /\ boot THEN "park" ELSE "idle"

Setting == {"set", "setFiles", "setThenEmit", "setThenDrop"}

SetRow(w) ==
  /\ job[w] \in Setting
  /\ Set(w, row[w])
  /\ job' = [job EXCEPT ![w] = AfterSet(w)]
  /\ crossed' = (crossed \/ Crosses(w))
  /\ row' = [row EXCEPT ![w] = Absent]
  /\ stale' = [u \in Writers |-> u # w /\ job[u] \in Setting]
  /\ UNCHANGED <<manager, queue, boot, bounds, wish, missed, broken>>

Saves ==
  /\ \E w \in Writers : SaveStep(w)
  /\ UNCHANGED rowVars

-----------------------------------------------------------------------------
(* Stopping and starting again                                             *)

Quiet == queue = <<>> /\ ~boot /\ \A w \in Writers : Free(w)

\* The row of a delivered download is history; any other is added again,
\* with its files and without its pause, which main makes good afterwards.
AddsEverything == rows.here
AddsUndelivered == Load.here /\ ~Load.done

\* The monitor has started by then, and may have found the tunnel down; an
\* addition that fails is logged, and leaves its row where it is.
Start ==
  /\ restarts < Restarts
  /\ restarts' = restarts + 1
  /\ Restart
  /\ queue' = <<>>
  /\ panicked' \in BOOLEAN
  /\ sourced' \in (IF AddsUndelivered THEN BOOLEAN ELSE {FALSE})
  /\ boot' = (sourced' /\ Load.paused)
  /\ registered' = IF ~sourced' THEN "absent" ELSE IF panicked' THEN "held" ELSE "live"
  /\ chosen' = Load.files
  /\ applied' = FALSE
  /\ job' = [w \in Writers |-> IF w = "ui" /\ sourced' THEN "set" ELSE "idle"]
  /\ row' = [w \in Writers |-> Added]
  /\ stale' = [w \in Writers |-> FALSE]
  /\ wish' = IF AddsUndelivered /\ ~sourced' THEN "lost" ELSE wish
  /\ broken' = (broken \/ ~Quiet \/ failed)
  /\ UNCHANGED <<asked, panics, missed, crossed>>

\* Main parks the torrents whose rows asked for it, after Restore; one that a
\* panic holds counts as parked already, and is added again all the same.
RePark ==
  /\ job["ui"] = "park" /\ pc["ui"] = "idle"
  /\ IF registered = "live"
     THEN registered' = "parked" /\ Emit("paused")
     ELSE UNCHANGED <<registered, queue, missed>>
  /\ wish' = IF registered = "held" THEN "lost" ELSE wish
  /\ boot' = FALSE
  /\ job' = [job EXCEPT !["ui"] = "idle"]
  /\ UNCHANGED <<storeVars, chosen, applied, sourced, panicked, row, stale, bounds, crossed, broken>>

Next ==
  \/ \E f \in Choices : Choose(f)
  \/ Add \/ Pause \/ PauseHeld \/ Resume \/ EmitResumed \/ Delete \/ DeleteOverHTTP
  \/ PanicAll \/ ResumeAll \/ ReAdd \/ ReAddFails
  \/ Metadata \/ \E w \in {"ui", "info"} : OnSelect(w)
  \/ OnEvent \/ Pass \/ DropCompleted
  \/ \E w \in Writers : SetRow(w)
  \/ Saves \/ Start \/ RePark

Spec == Init /\ [][Next]_vars

-----------------------------------------------------------------------------

Excused == missed \/ crossed \/ failed

(* When everything under way has ended, the row of a download the manager  *)
(* has says what the manager says: paused if the user has paused it and    *)
(* not if a panic holds it, the files chosen and applied, not delivered;   *)
(* unless an event was lost, or came after its download had been added     *)
(* again, a Set undid another's change (a pass that ends on a paused       *)
(* download included, and a recovery during a request), or a Save could    *)
(* not write (the onAdd and onSelect callbacks, the event loop and the end *)
(* of completeTorrent in main.go, and ResumeAll of manager.go).            *)
RowFollowsManager ==
  Quiet /\ ~Excused /\ registered # "absent" =>
    /\ rows.here /\ ~rows.done
    /\ rows.paused = (registered = "parked")
    /\ registered = "live" /\ applied => rows.files = chosen

(* A download the user paused stays paused, one left running runs or waits *)
(* for the VPN, and one deleted or delivered stays away, across panics and *)
(* across restarts that find the program at rest.  The wish is given up,   *)
(* and no more is said of it, where the code gives it up: a recovery adds  *)
(* again what the user had paused, deleted or had delivered; a pause asked *)
(* for in a panic, or to be made good in one, is ignored; an addition      *)
(* fails; a DELETE over HTTP leaves the row (the restore of main.go, with  *)
(* the pauses it makes good afterwards, PanicAll and ResumeAll).           *)
WishSurvives ==
  Quiet /\ ~Excused /\ ~broken =>
    CASE wish = "park" -> registered = "parked"
      [] wish = "run"  -> registered = "live" \/ (registered = "held" /\ panicked)
      [] wish = "none" -> registered = "absent"
      [] OTHER -> TRUE

=============================================================================
