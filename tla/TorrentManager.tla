--------------------------- MODULE TorrentManager ---------------------------
(***************************************************************************)
(* The download registry of internal/torrent/manager.go: the maps that say *)
(* which torrents are live, parked and known by source, the panic flag,    *)
(* and the operations on them.  Every request (a key of the TUI, an HTTP   *)
(* handler, the hand-off of a second invocation, a callback of the VPN     *)
(* monitor) runs in a goroutine of its own.  An operation that releases    *)
(* the lock in the middle is modelled as the steps between the locks:      *)
(*   - adding a torrent joins it to the client first and registers second; *)
(*   - Pause drops the torrent and parks its snapshot in a later lock;     *)
(*   - PanicAll parks the torrents it dropped one lock at a time;          *)
(*   - ResumeAll and Resume re-add, and then take the parked row away.     *)
(* The anacrolix client is external.  It keeps one torrent per infohash,   *)
(* so adding one it has returns the same handle; dropping a handle closes  *)
(* it for everyone who holds it, and dropping it again does nothing.       *)
(***************************************************************************)
EXTENDS Naturals, FiniteSets

CONSTANTS
  Ids,    \* infohashes
  Procs   \* goroutines that may be inside an operation at the same time

VARIABLES
  attached,   \* torrents the client is connected for
  torrents,   \* m.torrents: the handle of each live entry
  sources,    \* m.sources: how to add a torrent again
  parked,     \* m.parked: the rows shown as paused
  panicked,   \* m.panicked
  pc,         \* per goroutine, the step it takes next
  task,       \* per goroutine, the operation it is in
  at,         \* per goroutine, the torrent it is working on
  handle,     \* per goroutine, its handle on that torrent
  todo,       \* per goroutine, PanicAll's snapshot or ResumeAll's toResume
  wanted,     \* history: added by the user, not cancelled or delivered since
  overtaken,  \* history: lost its paused row while it was not live
  clobbered   \* history: a live entry was overwritten by a closed handle

registry == <<torrents, sources, parked, panicked>>
local    == <<pc, task, at, handle, todo>>
history  == <<wanted, overtaken, clobbered>>
vars     == <<attached, torrents, sources, parked, panicked, pc, task, at,
              handle, todo, wanted, overtaken, clobbered>>

Handles == {"none", "open", "closed"}
Steps   == {"idle", "reAdd", "register", "drop", "unpark", "next", "park"}
Tasks   == {"add", "resume", "resumeAll", "pause", "panicAll"}

TypeOK ==
  /\ attached \subseteq Ids
  /\ torrents \in [Ids -> Handles]
  /\ sources \subseteq Ids
  /\ parked \subseteq Ids
  /\ panicked \in BOOLEAN
  /\ pc \in [Procs -> Steps]
  /\ task \in [Procs -> Tasks]
  /\ at \in [Procs -> Ids]
  /\ handle \in [Procs -> Handles]
  /\ todo \in [Procs -> SUBSET Ids]
  /\ wanted \subseteq Ids
  /\ overtaken \subseteq Ids
  /\ clobbered \subseteq Ids

Init ==
  /\ attached = {}
  /\ torrents = [i \in Ids |-> "none"]
  /\ sources = {}
  /\ parked = {}
  /\ panicked = FALSE
  /\ pc = [p \in Procs |-> "idle"]
  /\ task = [p \in Procs |-> "add"]
  /\ at \in [Procs -> Ids]
  /\ handle = [p \in Procs |-> "none"]
  /\ todo = [p \in Procs |-> {}]
  /\ wanted = {}
  /\ overtaken = {}
  /\ clobbered = {}

Live == {i \in Ids : torrents[i] # "none"}

-----------------------------------------------------------------------------
(* The client                                                              *)

\* AddMagnet / AddTorrent: the goroutine gets the one open handle on i.
Join(p, i) ==
  /\ attached' = attached \union {i}
  /\ handle' = [handle EXCEPT ![p] = "open"]

\* Drop() on the open handles of the torrents in S, for everyone holding one.
ClosedFor(S) == [p \in Procs |-> IF at[p] \in S /\ handle[p] = "open"
                                 THEN "closed" ELSE handle[p]]

-----------------------------------------------------------------------------
(* Adding: AddMagnet and AddTorrentFile, then register                     *)

Add(p, i) ==
  /\ pc[p] = "idle"
  /\ task' = [task EXCEPT ![p] = "add"]
  /\ at' = [at EXCEPT ![p] = i]
  /\ Join(p, i)
  /\ pc' = [pc EXCEPT ![p] = "register"]
  /\ UNCHANGED <<registry, todo, history>>

\* Where a goroutine goes once its torrent is registered.
AfterRegister(p) == IF task[p] = "add" THEN "idle" ELSE "unpark"

ForgetSource(i) == UNCHANGED sources
RecordSource(i) == sources' = sources \union {i}

\* register() looks at the flag under the lock.
AlwaysGoesLive == TRUE
MayGoLive == ~panicked

\* The user asked for the torrent: by adding it, or by resuming it.
Asked(p) == task[p] \in {"add", "resume"}

RegisterLive(p) ==
  /\ pc[p] = "register"
  /\ MayGoLive
  /\ torrents' = [torrents EXCEPT ![at[p]] = handle[p]]
  /\ RecordSource(at[p])
  /\ clobbered' = IF torrents[at[p]] = "open" /\ handle[p] = "closed"
                  THEN clobbered \union {at[p]} ELSE clobbered
  /\ wanted' = IF Asked(p) THEN wanted \union {at[p]} ELSE wanted
  /\ overtaken' = overtaken \ {at[p]}
  /\ handle' = [handle EXCEPT ![p] = "none"]
  /\ pc' = [pc EXCEPT ![p] = AfterRegister(p)]
  /\ UNCHANGED <<attached, parked, panicked, task, at, todo>>

\* Panic mode: the torrent is parked, and dropped once the lock is released.
RegisterParked(p) ==
  /\ pc[p] = "register"
  /\ panicked
  /\ RecordSource(at[p])
  /\ parked' = parked \union {at[p]}
  /\ wanted' = IF Asked(p) THEN wanted \union {at[p]} ELSE wanted
  /\ overtaken' = overtaken \ {at[p]}
  /\ pc' = [pc EXCEPT ![p] = "drop"]
  /\ UNCHANGED <<attached, torrents, panicked, task, at, handle, todo, clobbered>>

\* What p's t.Drop() disconnects.
NothingDropped(p) == {}
Dropped(p) == IF handle[p] = "open" THEN {at[p]} ELSE {}

DropParked(p) ==
  /\ pc[p] = "drop"
  /\ attached' = attached \ Dropped(p)
  /\ torrents' = [i \in Ids |-> IF i \in Dropped(p) /\ torrents[i] = "open"
                                THEN "closed" ELSE torrents[i]]
  /\ handle' = [ClosedFor(Dropped(p)) EXCEPT ![p] = "none"]
  /\ pc' = [pc EXCEPT ![p] = AfterRegister(p)]
  /\ UNCHANGED <<sources, parked, panicked, task, at, todo, history>>

-----------------------------------------------------------------------------
(* Stopping one torrent: Pause, Cancel, DropCompleted                      *)

\* The part the three share: cancel, Drop, and delete from m.torrents.
TakeDown(i) ==
  LET dropped == IF torrents[i] = "open" THEN {i} ELSE {}
  IN  /\ torrents[i] # "none"
      /\ torrents' = [torrents EXCEPT ![i] = "none"]
      /\ attached' = attached \ dropped
      /\ handle' = ClosedFor(dropped)

Pause(p, i) ==
  /\ pc[p] = "idle"
  /\ TakeDown(i)
  /\ task' = [task EXCEPT ![p] = "pause"]
  /\ at' = [at EXCEPT ![p] = i]
  /\ pc' = [pc EXCEPT ![p] = "park"]
  /\ UNCHANGED <<sources, parked, panicked, todo, history>>

ParkPaused(p) ==
  /\ pc[p] = "park" /\ task[p] = "pause"
  /\ parked' = parked \union {at[p]}
  /\ pc' = [pc EXCEPT ![p] = "idle"]
  /\ UNCHANGED <<attached, torrents, sources, panicked, task, at, handle, todo, history>>

\* A live torrent's source is left behind.
CancelLive(i) ==
  /\ TakeDown(i)
  /\ parked' = parked \ {i}
  /\ wanted' = wanted \ {i}
  /\ UNCHANGED <<sources, panicked, pc, task, at, todo, overtaken, clobbered>>

CancelParked(i) ==
  /\ torrents[i] = "none"
  /\ i \in parked
  /\ parked' = parked \ {i}
  /\ sources' = sources \ {i}
  /\ wanted' = wanted \ {i}
  /\ UNCHANGED <<attached, torrents, panicked, local, overtaken, clobbered>>

DropCompleted(i) ==
  /\ TakeDown(i)
  /\ parked' = parked \ {i}
  /\ wanted' = wanted \ {i}
  /\ UNCHANGED <<sources, panicked, pc, task, at, todo, overtaken, clobbered>>

-----------------------------------------------------------------------------
(* Bringing one torrent back: Resume                                       *)

Resume(p, i) ==
  /\ pc[p] = "idle"
  /\ ~panicked
  /\ torrents[i] = "none"
  /\ i \in sources
  /\ task' = [task EXCEPT ![p] = "resume"]
  /\ at' = [at EXCEPT ![p] = i]
  /\ pc' = [pc EXCEPT ![p] = "reAdd"]
  /\ UNCHANGED <<attached, registry, handle, todo, history>>

ReAdd(p) ==
  /\ pc[p] = "reAdd"
  /\ Join(p, at[p])
  /\ pc' = [pc EXCEPT ![p] = "register"]
  /\ UNCHANGED <<registry, task, at, todo, history>>

\* The source cannot be read any more (a .torrent file that was moved).
ReAddFails(p) ==
  /\ pc[p] = "reAdd"
  /\ pc' = [pc EXCEPT ![p] = IF task[p] = "resume" THEN "idle" ELSE "next"]
  /\ UNCHANGED <<attached, registry, task, at, handle, todo, history>>

Unpark(p) ==
  /\ pc[p] = "unpark"
  /\ parked' = parked \ {at[p]}
  /\ overtaken' = IF torrents[at[p]] = "none" THEN overtaken \union {at[p]} ELSE overtaken
  /\ pc' = [pc EXCEPT ![p] = IF task[p] = "resume" THEN "idle" ELSE "next"]
  /\ UNCHANGED <<attached, torrents, sources, panicked, task, at, handle, todo, wanted,
                 clobbered>>

-----------------------------------------------------------------------------
(* Panic mode: PanicAll and ResumeAll                                      *)

\* The snapshots PanicAll takes of what it is about to drop; the bug is to
\* take them when the map has been replaced.
EmptiedFirst == {}
Snapshots    == Live

PanicAll(p) ==
  /\ pc[p] = "idle"
  /\ panicked' = TRUE
  /\ LET dropped == {i \in Ids : torrents[i] = "open"}
     IN  attached' = attached \ dropped /\ handle' = ClosedFor(dropped)
  /\ torrents' = [i \in Ids |-> "none"]
  /\ todo' = [todo EXCEPT ![p] = Snapshots]
  /\ task' = [task EXCEPT ![p] = "panicAll"]
  /\ pc' = [pc EXCEPT ![p] = "park"]
  /\ UNCHANGED <<sources, parked, at, history>>

ParkSnapshot(p) ==
  /\ pc[p] = "park" /\ task[p] = "panicAll"
  /\ \E i \in todo[p] :
       /\ parked' = parked \union {i}
       /\ todo' = [todo EXCEPT ![p] = @ \ {i}]
  /\ UNCHANGED <<attached, torrents, sources, panicked, pc, task, at, handle, history>>

PanicAllDone(p) ==
  /\ pc[p] = "park" /\ task[p] = "panicAll"
  /\ todo[p] = {}
  /\ pc' = [pc EXCEPT ![p] = "idle"]
  /\ UNCHANGED <<attached, registry, task, at, handle, todo, history>>

ResumeAll(p) ==
  /\ pc[p] = "idle"
  /\ panicked
  /\ panicked' = FALSE
  /\ todo' = [todo EXCEPT ![p] = sources \ Live]
  /\ task' = [task EXCEPT ![p] = "resumeAll"]
  /\ pc' = [pc EXCEPT ![p] = "next"]
  /\ UNCHANGED <<attached, torrents, sources, parked, at, handle, history>>

NextSource(p) ==
  /\ pc[p] = "next"
  /\ \E i \in todo[p] :
       /\ at' = [at EXCEPT ![p] = i]
       /\ todo' = [todo EXCEPT ![p] = @ \ {i}]
  /\ pc' = [pc EXCEPT ![p] = "reAdd"]
  /\ UNCHANGED <<attached, registry, task, handle, history>>

ResumeAllDone(p) ==
  /\ pc[p] = "next"
  /\ todo[p] = {}
  /\ pc' = [pc EXCEPT ![p] = "idle"]
  /\ UNCHANGED <<attached, registry, task, at, handle, todo, history>>

-----------------------------------------------------------------------------

\* The steps a goroutine owes once it has begun an operation.
Continue(p) ==
  \/ RegisterLive(p) \/ RegisterParked(p) \/ DropParked(p)
  \/ ParkPaused(p)
  \/ ReAdd(p) \/ ReAddFails(p) \/ Unpark(p)
  \/ ParkSnapshot(p) \/ PanicAllDone(p)
  \/ NextSource(p) \/ ResumeAllDone(p)

Next ==
  \/ \E p \in Procs, i \in Ids : Add(p, i) \/ Pause(p, i) \/ Resume(p, i)
  \/ \E i \in Ids : CancelLive(i) \/ CancelParked(i) \/ DropCompleted(i)
  \/ \E p \in Procs : PanicAll(p) \/ ResumeAll(p) \/ Continue(p)

\* The runtime runs every goroutine; no request ever has to be made.
Fairness == \A p \in Procs : WF_vars(Continue(p))

Spec == Init /\ [][Next]_vars /\ Fairness

-----------------------------------------------------------------------------
(* Properties                                                              *)

\* In panic mode the registry holds no live torrent: what register, PanicAll
\* and ResumeAll decide under the lock agrees with the flag at every moment.
NothingLiveInPanic == panicked => Live = {}

\* p is between joining torrent i to the client and registering or dropping it.
Holds(p, i) ==
  pc[p] \in {"register", "drop"} /\ at[p] = i /\ handle[p] = "open"

\* The client is never connected for a torrent the manager cannot stop: it is
\* a live entry with its handle, or an add of it is in flight and will
\* register or drop it.  The exception is a live entry that a slower add
\* overwrote with a handle that was closed in the meantime.
AttachedAccounted ==
  \A i \in attached \ clobbered :
    torrents[i] = "open" \/ \E p \in Procs : Holds(p, i)

\* What the user wants can always be added again by the next ResumeAll.
WantedKeepsSource == wanted \subseteq sources

\* p is about to give torrent i its paused row.
Parks(p, i) ==
  /\ pc[p] = "park"
  /\ i \in IF task[p] = "pause" THEN {at[p]} ELSE todo[p]

\* A torrent the user wants never falls out of the list: it is live, shown as
\* paused, or about to be (Mutiny.md: what panic mode parks stays "visible in
\* the Downloads list").  The exception is a re-add that ends after the torrent
\* has been stopped again: it takes the new paused row away.
WantedIsListed ==
  \A i \in wanted \ overtaken :
    i \in Live \union parked \/ \E p \in Procs : Parks(p, i)

\* Panic mode lets go of every torrent: one that an add is just joining to
\* the client leaves it again, unless panic mode ends first.
PanicDrains ==
  \A i \in Ids :
    (panicked /\ i \in attached \ clobbered) ~> (~panicked \/ i \notin attached \ clobbered)

\* The registry implements the gate: while panic mode is engaged nothing is
\* live and nothing becomes live.
RegistryGate == INSTANCE Gate WITH Items <- Ids, engaged <- panicked, flowing <- Live
ImplementsGate == RegistryGate!Spec

=============================================================================
