------------------------------- MODULE Seeding -------------------------------
(***************************************************************************)
(* Re-seeding of delivered torrents: the seeding client with its set of    *)
(* active seeds (seed.go), the controller (seedController of main.go) and  *)
(* those that call it: the panic callbacks, the delivery pass, a re-scan,  *)
(* the history's delete and seed keys, the master switch.  Nothing but the *)
(* engine's map is locked, so each call of the client, of the map and of   *)
(* the store is a step of the goroutine that makes it.                     *)
(***************************************************************************)
EXTENDS FiniteSets

CONSTANTS Torrents, Actors   \* torrents with metadata; goroutines

VARIABLES
  row,        \* per torrent, the verdict in the state store
  mark,       \* per torrent, the row's Seeding mark
  data,       \* torrents whose files are in clean/
  enabled,    \* cfg.SeedCompleted
  panicked,   \* the last panic callback to start was panic, not recover
  client,     \* torrents registered with the seeding client
  active,     \* e.active
  pc,         \* per actor, the step it takes next
  next,       \* per actor, what follows when its torrent is unseeded
  todo,       \* per actor, the torrents it is about to handle
  copy,       \* per actor, the row it is about to write
  added,      \* per actor, the torrent the client has accepted but e.active lacks
  crossed,    \* history: a call that adds seeds overlapped one that ends some, or
              \* a mark changed that a re-scan had read and not yet written back
  failed      \* history: torrents a call failed for, and which none has dealt with since

store   == <<row, mark>>
seeds   == <<client, active>>
own     == <<next, todo, copy, added>>
seeding == <<store, data, enabled, panicked, seeds, pc, own, crossed, failed>>

RowVerdicts == {"none", "clean", "not_clean"}
Rescanning  == {"reread", "rewrite", "resolve"}
Steps == {"idle", "flip", "reseed", "seed_new", "add", "activate", "unseed", "deactivate",
          "clear_mark", "erase", "delete_row", "drain", "drop", "clear"} \union Rescanning

Blank == [row |-> "none", mark |-> FALSE]

TypeOK ==
  /\ row \in [Torrents -> RowVerdicts]
  /\ mark \in [Torrents -> BOOLEAN]
  /\ data \subseteq Torrents
  /\ enabled \in BOOLEAN
  /\ panicked \in BOOLEAN
  /\ client \subseteq Torrents
  /\ active \subseteq Torrents
  /\ pc \in [Actors -> Steps]
  /\ next \in [Actors -> {"idle", "clear_mark", "erase"}]
  /\ todo \in [Actors -> SUBSET Torrents]
  /\ copy \in [Actors -> [row : RowVerdicts, mark : BOOLEAN]]
  /\ added \in [Actors -> SUBSET Torrents]
  /\ crossed \in BOOLEAN
  /\ failed \subseteq Torrents

SeedsInit ==
  /\ row = [t \in Torrents |-> "none"]
  /\ mark = [t \in Torrents |-> FALSE]
  /\ data = {}
  /\ enabled \in BOOLEAN
  /\ panicked = FALSE
  /\ client = {} /\ active = {}
  /\ pc = [a \in Actors |-> "idle"]
  /\ next = [a \in Actors |-> "idle"]
  /\ todo = [a \in Actors |-> {}]
  /\ copy = [a \in Actors |-> Blank]
  /\ added = [a \in Actors |-> {}]
  /\ crossed = FALSE
  /\ failed = {}

Goes(a, from, to)  == pc[a] = from /\ pc' = [pc EXCEPT ![a] = to]
Handles(a, ts)     == todo' = [todo EXCEPT ![a] = ts]
Continues(a, step) == next' = [next EXCEPT ![a] = step]
Copies(a, r, m)    == copy' = [copy EXCEPT ![a] = [row |-> r, mark |-> m]]

\* Set, in memory, for what a handles.
Writes(a, r, m) ==
  /\ row'  = [t \in Torrents |-> IF t \in todo[a] THEN r ELSE row[t]]
  /\ mark' = [t \in Torrents |-> IF t \in todo[a] THEN m ELSE mark[t]]

-----------------------------------------------------------------------------
(* What starts a call                                                      *)

\* Toggle reads the row and works on its copy.
Toggle(a, t) ==
  /\ row[t] = "clean"
  /\ Goes(a, "idle", "flip") /\ Handles(a, {t}) /\ Copies(a, "clean", ~mark[t])
  /\ UNCHANGED <<store, data, enabled, panicked, seeds, next, added, failed>>

SetEnabled(a) ==
  /\ enabled' = ~enabled
  /\ Goes(a, "idle", IF enabled' THEN "reseed" ELSE "drain")
  /\ UNCHANGED <<store, data, panicked, seeds, own, failed>>

UnseedAll(a) ==
  /\ panicked' = TRUE
  /\ Goes(a, "idle", "drain")
  /\ UNCHANGED <<store, data, enabled, seeds, own, failed>>

ReseedAll(a) ==
  /\ panicked' = FALSE
  /\ Goes(a, "idle", "reseed")
  /\ UNCHANGED <<store, data, enabled, seeds, own, failed>>

\* The end of a completion pass, for a torrent that scanned clean, whether or not
\* its files could be moved.
Delivered(a, t) ==
  /\ row[t] = "none"
  /\ row' = [row EXCEPT ![t] = "clean"]
  /\ mark' = [mark EXCEPT ![t] = TRUE]
  /\ data' \in {data, data \union {t}}
  /\ Goes(a, "idle", "seed_new") /\ Handles(a, {t})
  /\ UNCHANGED <<enabled, panicked, seeds, next, copy, added, failed>>

\* The end of a re-scan: files go to clean/, or leave it, as far as that works.
RescanEnds(a, t, verdict) ==
  /\ row[t] # "none"
  /\ data' \in {data, IF verdict = "clean" THEN data \union {t} ELSE data \ {t}}
  /\ Goes(a, "idle", "reread") /\ Handles(a, {t}) /\ Copies(a, verdict, FALSE)
  /\ UNCHANGED <<store, enabled, panicked, seeds, next, added, failed>>

DeleteHistory(a, t) ==
  /\ row[t] # "none"
  /\ Goes(a, "idle", "unseed") /\ Handles(a, {t}) /\ Continues(a, "erase")
  /\ UNCHANGED <<store, data, enabled, panicked, seeds, copy, added, failed>>

-----------------------------------------------------------------------------
(* The controller                                                          *)

\* Toggle's Set writes its copy of the row back.  When the store cannot be
\* saved Toggle returns, with the mark flipped and the seed as it was.
Flip(a) ==
  /\ LET to == CASE enabled /\ copy[a].mark -> "add"
                 [] enabled /\ ~copy[a].mark -> "unseed"
                 [] ~enabled -> "idle"
     IN \/ Goes(a, "flip", to) /\ Handles(a, IF enabled THEN todo[a] ELSE {}) /\ UNCHANGED failed
        \/ Goes(a, "flip", "idle") /\ Handles(a, {}) /\ failed' = failed \union todo[a]
  /\ Writes(a, "clean", copy[a].mark)
  /\ Copies(a, "none", FALSE) /\ Continues(a, "idle")
  /\ UNCHANGED <<data, enabled, panicked, seeds, added>>

Marked     == {t \in Torrents : row[t] = "clean" /\ mark[t]}
CleanRows  == {t \in Torrents : row[t] = "clean"}
Reseedable == Marked

Reseed(a) ==
  /\ Goes(a, "reseed", "add")
  /\ Handles(a, IF enabled THEN Reseedable ELSE {})
  /\ UNCHANGED <<store, data, enabled, panicked, seeds, next, copy, added, failed>>

\* The completion pass reads its row again, but not its mark.
SeedNew(a, t) ==
  /\ t \in todo[a]
  /\ LET seed == enabled /\ row[t] = "clean"
     IN Goes(a, "seed_new", IF seed THEN "add" ELSE "idle") /\ Handles(a, IF seed THEN {t} ELSE {})
  /\ UNCHANGED <<store, data, enabled, panicked, seeds, next, copy, added, failed>>

\* SeedNow, for one of the torrents at a time: AddTorrentBytes verifies that
\* the delivered files exist, registers, and then notes the seed as active.
Add(a, t) ==
  /\ t \in todo[a] /\ t \in data
  /\ Goes(a, "add", "activate")
  /\ client' = client \union {t}
  /\ Handles(a, todo[a] \ {t})
  /\ added' = [added EXCEPT ![a] = {t}]
  /\ failed' = failed \ {t}
  /\ UNCHANGED <<store, data, enabled, panicked, active, next, copy>>

\* Without its files, or because the engine cannot be created or the client
\* does not take it: the error is logged.
NotAdded(a, t) ==
  /\ pc[a] = "add"
  /\ t \in todo[a]
  /\ Handles(a, todo[a] \ {t})
  /\ failed' = failed \union ({t} \intersect data)
  /\ UNCHANGED <<store, data, enabled, panicked, seeds, pc, next, copy, added>>

Activate(a) ==
  /\ Goes(a, "activate", "add")
  /\ active' = active \union added[a]
  /\ added' = [added EXCEPT ![a] = {}]
  /\ UNCHANGED <<store, data, enabled, panicked, client, next, todo, copy, failed>>

Added(a) ==
  /\ Goes(a, "add", "idle")
  /\ todo[a] = {}
  /\ UNCHANGED <<store, data, enabled, panicked, seeds, own, failed>>

\* UnseedOne looks the torrent up in the active set before it removes it.
UnseedOne(a) ==
  /\ todo[a] \intersect active # {}
  /\ Goes(a, "unseed", "deactivate")
  /\ client' = client \ todo[a]
  /\ failed' = failed \ todo[a]
  /\ UNCHANGED <<store, data, enabled, panicked, active, own>>

Remaining(a) == IF next[a] = "idle" THEN {} ELSE todo[a]

NotActive(a) ==
  /\ todo[a] \intersect active = {}
  /\ Goes(a, "unseed", next[a]) /\ Handles(a, Remaining(a)) /\ Continues(a, "idle")
  /\ UNCHANGED <<store, data, enabled, panicked, seeds, copy, added, failed>>

StillActive(a) == active
Inactive(a)    == active \ todo[a]

Deactivate(a) ==
  /\ active' = Inactive(a)
  /\ Goes(a, "deactivate", next[a]) /\ Handles(a, Remaining(a)) /\ Continues(a, "idle")
  /\ UNCHANGED <<store, data, enabled, panicked, client, copy, added, failed>>

\* DrainAll drops what the client held when it asked.
Drain(a) ==
  /\ Goes(a, "drain", "drop")
  /\ Handles(a, client)
  /\ UNCHANGED <<store, data, enabled, panicked, seeds, next, copy, added, failed>>

Drop(a) ==
  /\ Goes(a, "drop", "clear")
  /\ client' = client \ todo[a]
  /\ failed' = failed \ todo[a]
  /\ UNCHANGED <<store, data, enabled, panicked, active, own>>

Clear(a) ==
  /\ Goes(a, "clear", "idle")
  /\ active' = {}
  /\ Handles(a, {})
  /\ UNCHANGED <<store, data, enabled, panicked, client, next, copy, added, failed>>

-----------------------------------------------------------------------------
(* The end of a re-scan, and of a deletion                                 *)

\* Get: without a row the re-scan is over.
Reread(a, t) ==
  /\ t \in todo[a]
  /\ \/ /\ row[t] = "none"
        /\ Goes(a, "reread", "idle") /\ Handles(a, {}) /\ Copies(a, "none", FALSE)
     \/ /\ row[t] # "none"
        /\ Goes(a, "reread", "rewrite") /\ Copies(a, copy[a].row, mark[t])
        /\ UNCHANGED todo
  /\ UNCHANGED <<store, data, enabled, panicked, seeds, next, added, failed>>

\* Set: the new verdict, with the mark as it was read.
Rewrite(a) ==
  /\ Goes(a, "rewrite", "resolve")
  /\ Writes(a, copy[a].row, copy[a].mark)
  /\ UNCHANGED <<data, enabled, panicked, seeds, own, failed>>

\* Another Get, and what its mark asks for.
Resolve(a, t) ==
  /\ t \in todo[a]
  /\ LET clean == copy[a].row = "clean"
         to    == CASE clean /\ enabled /\ row[t] = "clean" /\ mark[t] -> "add"
                    [] ~clean /\ row[t] # "none" -> "unseed"
                    [] OTHER -> "idle"
     IN /\ Goes(a, "resolve", to)
        /\ Handles(a, IF to = "idle" THEN {} ELSE {t})
        /\ IF to = "unseed" /\ mark[t]
           THEN Copies(a, row[t], FALSE) /\ Continues(a, "clear_mark")
           ELSE Copies(a, "none", FALSE) /\ UNCHANGED next
  /\ UNCHANGED <<store, data, enabled, panicked, seeds, added, failed>>

\* The mark is cleared on the copy, and the copy written.
ClearMark(a) ==
  /\ Goes(a, "clear_mark", "idle") /\ Handles(a, {})
  /\ Writes(a, copy[a].row, copy[a].mark)
  /\ Copies(a, "none", FALSE)
  /\ UNCHANGED <<data, enabled, panicked, seeds, next, added, failed>>

\* When not all of the files can be removed the row stays, and the seed is gone.
Erase(a) ==
  /\ \/ data' = data \ todo[a] /\ Goes(a, "erase", "delete_row") /\ UNCHANGED <<todo, failed>>
     \/ data' \in {data, data \ todo[a]} /\ Goes(a, "erase", "idle") /\ Handles(a, {})
          /\ failed' = failed \union todo[a]
  /\ UNCHANGED <<store, enabled, panicked, seeds, next, copy, added>>

DeleteRow(a) ==
  /\ Goes(a, "delete_row", "idle") /\ Handles(a, {})
  /\ Writes(a, "none", FALSE)
  /\ UNCHANGED <<data, enabled, panicked, seeds, next, copy, added, failed>>

-----------------------------------------------------------------------------

Begins(a) ==
  \/ SetEnabled(a) \/ UnseedAll(a) \/ ReseedAll(a)
  \/ \E t \in Torrents :
       \/ Toggle(a, t) \/ Delivered(a, t) \/ DeleteHistory(a, t)
       \/ RescanEnds(a, t, "clean") \/ RescanEnds(a, t, "not_clean")

Proceeds(a) ==
  \/ Flip(a) \/ Reseed(a) \/ Activate(a) \/ Added(a)
  \/ UnseedOne(a) \/ NotActive(a) \/ Deactivate(a) \/ Drain(a) \/ Drop(a) \/ Clear(a)
  \/ Rewrite(a) \/ ClearMark(a) \/ Erase(a) \/ DeleteRow(a)
  \/ \E t \in Torrents :
       SeedNew(a, t) \/ Add(a, t) \/ NotAdded(a, t) \/ Reread(a, t) \/ Resolve(a, t)

Adding ==
  {a \in Actors : \/ pc[a] \in {"reseed", "seed_new", "add", "activate"}
                  \/ pc[a] = "flip" /\ copy[a].mark
                  \/ pc[a] \in Rescanning /\ copy[a].row = "clean"}
Ending == {a \in Actors : pc[a] # "idle"} \ Adding

\* A mark that a re-scan is about to write back as it was.
Stale == \E a \in Actors : pc[a] = "rewrite" /\ \E t \in todo[a] : mark[t] # copy[a].mark

NoteCrossing == crossed' = (crossed \/ (Adding' # {} /\ Ending' # {}) \/ Stale')

SeedsNext == \E a \in Actors : (Begins(a) \/ Proceeds(a)) /\ NoteCrossing

SeedsSpec == SeedsInit /\ [][SeedsNext]_seeding

-----------------------------------------------------------------------------
(* Properties                                                              *)

Quiet == \A a \in Actors : pc[a] = "idle"

\* Between calls, the client seeds exactly what is wanted: the clean, marked
\* rows whose data is there, with the switch on, and nothing with it off, in
\* whatever order calls that add overlap each other, and calls that end seeds
\* each other, and whatever failed for other torrents.  Panic mode makes a
\* difference, and recovering undoes it; so does an add that overlaps a drain or
\* a removal, and a mark that a re-scan writes back as it was before.  And where
\* a call failed for a torrent it stays as the call left it until another call
\* adds or drops it: an add is logged and not tried again, a toggle that
\* cannot be saved has flipped the mark, a deletion has dropped the seed.
WantedSeeds == IF enabled THEN Marked \intersect data ELSE {}

SeedsExactlyWanted ==
  Quiet /\ ~panicked /\ ~crossed => client \ failed = WantedSeeds \ failed

\* IsActive's comment: it "reports whether a torrent with this infohash is
\* registered in the seed client"; UnseedOne relies on it.
ActiveIsRegistered == Quiet /\ ~crossed => active = client

=============================================================================
