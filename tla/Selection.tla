----------------------------- MODULE Selection -----------------------------
(***************************************************************************)
(* Which files of a torrent are downloaded (internal/torrent/manager.go).  *)
(* A choice is made by the add itself, by the picker of the terminal UI or *)
(* over HTTP, before or after the metadata is known, while the torrent is  *)
(* live or paused.  It is written to the source record under the lock and  *)
(* carried out without it, file by file, by whoever made it or by the      *)
(* goroutine that waited for the metadata; then it is marked as applied,   *)
(* and last it is put in the store's row, from which a restart takes it.   *)
(*                                                                         *)
(* One torrent is modelled.  The empty choice stands for every file, as in *)
(* the code.  A client handle lives from a registration to the pause,      *)
(* cancel or delivery that drops it; setting priorities on a dropped one   *)
(* does nothing.  A pass may meet any of these; two passes at once are     *)
(* module Delivery's.                                                      *)
(***************************************************************************)
EXTENDS Naturals

CONSTANTS
  NFiles,    \* files of the torrent
  Offers,    \* choices that are made: sets of files
  Choosers,  \* requests that may be choosing files at the same time
  MaxGen,    \* bound: registrations
  Choices,   \* bound: choices made after the add
  Restarts,  \* bound: kills
  None

ASSUME SelectionAssumption ==
  /\ NFiles \in Nat \ {0} /\ MaxGen \in Nat
  /\ Offers \subseteq SUBSET (1..NFiles)
  /\ \A choose \in SUBSET (1..NFiles) : choose # None
  /\ Choosers \intersect 1..MaxGen = {}

VARIABLES
  reg,       \* where the torrent is
  gen,       \* registrations so far: the number of the last handle
  info,      \* handles whose metadata is known
  src,       \* m.sources: the files asked for, and the hold for a choice
  applied,   \* m.applied
  want,      \* files the open handle downloads
  disk,      \* per file, what lies in the download root
  row,       \* the store's row: the choice to restore, or None
  actor,     \* choosers, and the goroutine of each handle
  entry,     \* the add or resume under way
  pass,      \* the completion pass
  delivered, \* the files it handed over since the last choice or registration
  asked,     \* history: the user's last choice, or None
  mixed,     \* history: two choices, a choice and another step, or a pass and
             \* what takes its torrent or its files away, met
  made, killed  \* counters of the bounds

torrent == <<reg, gen, info, want, disk>>
choice  == <<src, applied, row>>
work    == <<actor, entry, pass, delivered>>
history == <<asked, mixed, made, killed>>
selection    == <<torrent, choice, work, history>>

Files == 1..NFiles
Sel(choose) == IF choose = {} THEN Files ELSE choose
Actors == Choosers \union 1..MaxGen

Rest == [pc |-> "idle", on |-> 0, files |-> {}, next |-> 1]
NoEntry == [pc |-> "idle", files |-> {}, wait |-> FALSE]

\* The entry of an add: without files the hold decides.
Adding(choose, hold) == [pc |-> "register", files |-> choose, wait |-> hold]

Busy(a) == actor[a].pc \notin {"idle", "wait"}
Quiet == entry.pc = "idle" /\ pass = "idle" /\ \A a \in Actors : ~Busy(a)

\* A choice that is on its way is met by a different one.
Clash(a, choose) == \E b \in Actors \ {a} : Busy(b) /\ actor[b].files # choose

SelectionInit ==
  /\ reg = "absent" /\ gen = 0 /\ info = {} /\ want = {}
  /\ disk = [f \in Files |-> "none"]
  /\ src = [files |-> {}, wait |-> FALSE] /\ applied = FALSE
  /\ row = None
  /\ actor = [a \in Actors |-> Rest]
  /\ entry = NoEntry /\ pass = "idle"
  /\ delivered = None /\ asked = None
  /\ mixed = FALSE /\ made = 0 /\ killed = 0

-----------------------------------------------------------------------------
(* Adding and resuming                                                     *)

Add(choose, hold) ==
  /\ entry.pc = "idle" /\ reg \in {"absent", "delivered"}
  /\ gen < MaxGen
  /\ entry' = Adding(choose, hold)
  /\ asked' = IF choose = {} /\ hold THEN None ELSE choose
  /\ mixed' = (pass # "idle" \/ (asked' = None /\ \E f \in Files : disk[f] # "none"))
  /\ delivered' = None
  /\ UNCHANGED <<torrent, choice, actor, pass, made, killed>>

ForgottenEntry == [pc |-> "register", files |-> {}, wait |-> src.wait]
ResumeEntry == [pc |-> "register", files |-> src.files, wait |-> src.wait]

\* Resume reads the source record and registers later.
Resume ==
  /\ entry.pc = "idle" /\ reg = "parked" /\ gen < MaxGen
  /\ entry' = ResumeEntry
  /\ UNCHANGED <<torrent, choice, actor, pass, delivered, history>>

\* register, under the lock: a new handle, whose selection is open again.
Register ==
  /\ entry.pc = "register"
  /\ reg' = "live" /\ gen' = gen + 1 /\ want' = {}
  /\ src' = [files |-> entry.files, wait |-> entry.wait]
  /\ applied' = FALSE
  /\ entry' = [entry EXCEPT !.pc = "onAdd"]
  /\ mixed' = (mixed \/ pass # "idle" \/ \E a \in Actors : Busy(a))
  /\ delivered' = None
  /\ UNCHANGED <<info, disk, row, actor, pass, asked, made, killed>>

\* The row begins anew, and the goroutine that waits for metadata starts.
OnAdd ==
  /\ entry.pc = "onAdd"
  /\ row' = {}
  /\ entry' = NoEntry
  /\ actor' = [actor EXCEPT ![gen] = [Rest EXCEPT !.pc = "wait", !.on = gen]]
  /\ mixed' = (mixed \/ \E a \in Choosers : Busy(a))
  /\ UNCHANGED <<torrent, src, applied, pass, delivered, asked, made, killed>>

Metadata ==
  /\ reg = "live" /\ gen \notin info
  /\ info' = info \union {gen}
  /\ UNCHANGED <<reg, gen, want, disk, choice, work, history>>

-----------------------------------------------------------------------------
(* SelectFiles                                                             *)

\* A goroutine of the handle before has marked this one: the mark keeps the
\* goroutine of this one from carrying out what it finds.
AppliedEarly == reg = "live" /\ applied /\ gen \notin info

\* Only a torrent that is listed can be chosen from; a paused one has the
\* choice recorded and no more.
Choose(c, choose) ==
  /\ actor[c].pc = "idle" /\ made < Choices
  /\ made' = made + 1
  /\ reg \in {"live", "parked"}
  /\ src' = [files |-> choose, wait |-> FALSE]
  /\ asked' = choose
  /\ mixed' = IF Quiet /\ ~AppliedEarly THEN FALSE
              ELSE mixed \/ AppliedEarly \/ Clash(c, choose) \/ entry.pc # "idle" \/ pass # "idle"
  /\ actor' = IF reg = "parked" THEN actor
              ELSE [actor EXCEPT ![c] = [pc |-> "look", on |-> gen, files |-> choose, next |-> 1]]
  /\ delivered' = None
  /\ UNCHANGED <<torrent, applied, row, entry, pass, killed>>

\* Without metadata the choice waits for the goroutine of the handle.
Look(c) ==
  /\ actor[c].pc = "look"
  /\ actor' = [actor EXCEPT ![c] = IF actor[c].on \in info
                                   THEN [@ EXCEPT !.pc = "apply"] ELSE Rest]
  /\ UNCHANGED <<torrent, choice, entry, pass, delivered, history>>

-----------------------------------------------------------------------------
(* The goroutine that waits for the metadata                               *)

\* A handle is done when its torrent was dropped.  With both known the
\* goroutine takes either, and asks whether the infohash is registered.
Dropped(g) == reg # "live" \/ gen # g

GiveUp(g) ==
  /\ actor[g].pc = "wait" /\ Dropped(g)
  /\ actor' = [actor EXCEPT ![g] = Rest]
  /\ UNCHANGED <<torrent, choice, entry, pass, delivered, history>>

GotInfo(g) ==
  /\ actor[g].pc = "wait" /\ g \in info
  /\ actor' = [actor EXCEPT ![g] = IF reg = "live" THEN [@ EXCEPT !.pc = "read"] ELSE Rest]
  /\ UNCHANGED <<torrent, choice, entry, pass, delivered, history>>

\* applySelection: a selection applied meanwhile stands, and a hold is kept.
NoHold == FALSE
Held == src.files = {} /\ src.wait

ApplySelection(g) ==
  /\ actor[g].pc = "read"
  /\ IF applied \/ Held
     THEN /\ actor' = [actor EXCEPT ![g] = Rest]
          /\ UNCHANGED mixed
     ELSE /\ actor' = [actor EXCEPT ![g].pc = "apply", ![g].files = src.files]
          /\ mixed' = (mixed \/ Clash(g, src.files) \/ Dropped(g))
  /\ UNCHANGED <<torrent, choice, entry, pass, delivered, asked, made, killed>>

-----------------------------------------------------------------------------
(* applyFiles, downloadAll and markSelection                               *)

OnlyAdded(f, choose) == want \union ({f} \intersect Sel(choose))
Wanted(f, choose) == IF f \in Sel(choose) THEN want \union {f} ELSE want \ {f}

Apply(a) ==
  /\ actor[a].pc = "apply"
  /\ want' = IF Dropped(actor[a].on) THEN want ELSE Wanted(actor[a].next, actor[a].files)
  /\ actor' = [actor EXCEPT ![a].next = @ + 1,
                            ![a].pc = IF actor[a].next = NFiles THEN "mark" ELSE @]
  /\ UNCHANGED <<reg, gen, info, disk, choice, entry, pass, delivered, history>>

Mark(a) ==
  /\ actor[a].pc = "mark"
  /\ applied' = TRUE
  /\ src' = [files |-> actor[a].files, wait |-> FALSE]
  /\ actor' = [actor EXCEPT ![a].pc = "notify"]
  /\ UNCHANGED <<torrent, row, entry, pass, delivered, history>>

NothingSaved(choose) == row
Saved(choose) == IF row = None THEN None ELSE choose

\* onSelect, outside the lock: a row that is there takes the choice.
Notify(a) ==
  /\ actor[a].pc = "notify"
  /\ row' = Saved(actor[a].files)
  /\ actor' = [actor EXCEPT ![a] = Rest]
  /\ UNCHANGED <<torrent, src, applied, entry, pass, delivered, history>>

ActorStep(a) ==
  \/ a \in Choosers /\ Look(a)
  \/ a \in 1..MaxGen /\ (GiveUp(a) \/ GotInfo(a) \/ ApplySelection(a))
  \/ Apply(a) \/ Mark(a) \/ Notify(a)

-----------------------------------------------------------------------------
(* The client, pausing and cancelling                                      *)

\* A piece that two files share leaves a piece of the other one too.
Fetch(f) ==
  /\ reg = "live" /\ gen \in info /\ f \in want /\ disk[f] # "whole"
  /\ \E scraps \in SUBSET {g \in Files \ want : disk[g] = "none"} :
       disk' = [g \in Files |-> IF g = f THEN "whole"
                                ELSE IF g \in scraps THEN "scrap" ELSE disk[g]]
  /\ UNCHANGED <<reg, gen, info, want, choice, work, history>>

\* Pause, and PanicAll for one torrent.  A pass under way goes on without it.
Pause ==
  /\ reg = "live" /\ entry.pc = "idle"
  /\ reg' = "parked" /\ want' = {}
  /\ mixed' = (mixed \/ pass = "prune")
  /\ UNCHANGED <<gen, info, disk, choice, work, asked, made, killed>>

\* Cancel, from the terminal UI, which deletes the row too.
Cancel ==
  /\ reg \in {"live", "parked"} /\ entry.pc = "idle"
  /\ reg' = "absent" /\ want' = {}
  /\ disk' = [f \in Files |-> "none"]
  /\ row' = None
  /\ mixed' = (mixed \/ pass # "idle")
  /\ UNCHANGED <<gen, info, src, applied, work, asked, made, killed>>

-----------------------------------------------------------------------------
(* Completion                                                              *)

\* complete and selectionComplete.
WholeTorrent == \A f \in Files : disk[f] = "whole"
IsComplete ==
  IF applied /\ src.files # {} THEN \A f \in src.files : disk[f] = "whole"
  ELSE WholeTorrent

Complete ==
  /\ reg = "live" /\ gen \in info /\ entry.pc = "idle" /\ pass = "idle"
  /\ IsComplete
  /\ pass' = "prune"
  /\ mixed' = (mixed \/ \E a \in Actors : Busy(a))
  /\ UNCHANGED <<torrent, choice, actor, entry, delivered, asked, made, killed>>

\* PruneUnselected goes by the record as it is by then.  It fails when the
\* torrent is not registered any more, and does nothing without metadata; the
\* pass goes on with what lies there.
NothingPruned == disk
Pruned == IF reg = "live" /\ gen \in info /\ src.files # {}
          THEN [f \in Files |-> IF f \in src.files THEN disk[f] ELSE "none"]
          ELSE disk

Prune ==
  /\ pass = "prune"
  /\ disk' = Pruned
  /\ pass' = "deliver"
  /\ UNCHANGED <<reg, gen, info, want, choice, actor, entry, delivered, history>>

\* MoveFiles takes whatever is there; then the torrent is dropped, if it is
\* still registered.
Deliver ==
  /\ pass = "deliver"
  /\ delivered' = {f \in Files : disk[f] # "none"}
  /\ disk' = [f \in Files |-> "none"]
  /\ reg' = IF reg = "live" THEN "delivered" ELSE reg
  /\ want' = {}
  /\ pass' = "idle"
  /\ UNCHANGED <<gen, info, choice, actor, entry, history>>

-----------------------------------------------------------------------------
(* A kill, and the start that follows: the row decides, and nothing holds  *)

RestoreEntry == IF row = None THEN NoEntry ELSE Adding(row, FALSE)

Restart ==
  /\ killed < Restarts /\ gen < MaxGen /\ reg \in {"live", "parked"} /\ pass = "idle"
  /\ killed' = killed + 1
  /\ reg' = "absent" /\ want' = {}
  /\ src' = [files |-> {}, wait |-> FALSE] /\ applied' = FALSE
  /\ actor' = [a \in Actors |-> Rest]
  /\ entry' = RestoreEntry
  /\ mixed' = (mixed \/ asked = None \/ row # asked)
  /\ UNCHANGED <<gen, info, disk, row, pass, delivered, asked, made>>

Progress ==
  \/ Register \/ OnAdd \/ Metadata \/ Complete \/ Prune \/ Deliver
  \/ \E a \in Actors : ActorStep(a)
  \/ \E f \in Files : Fetch(f)

SelectionNext ==
  \/ \E choose \in Offers, hold \in BOOLEAN : Add(choose, hold)
  \/ \E c \in Choosers, choose \in Offers : Choose(c, choose)
  \/ Resume \/ Pause \/ Cancel \/ Restart
  \/ Progress

\* Goroutines run on, metadata and data arrive, and the watch goroutine
\* looks every two seconds.
SelectionFairness ==
  /\ WF_selection(Register) /\ WF_selection(OnAdd) /\ WF_selection(Metadata)
  /\ WF_selection(Complete) /\ WF_selection(Prune) /\ WF_selection(Deliver)
  /\ \A a \in Actors : WF_selection(ActorStep(a))
  /\ \A f \in Files : WF_selection(Fetch(f))

SelectionSpec == SelectionInit /\ [][SelectionNext]_selection /\ SelectionFairness

-----------------------------------------------------------------------------

(* A choice that has been carried out is the user's last one, and the four *)
(* places that hold it agree: the record, the priorities of the open       *)
(* handle, and the row a restart reads, through pauses, resumes, restarts  *)
(* and metadata that comes early or late, unless two choices met.          *)
ChoiceStands ==
  Quiet /\ reg = "live" /\ applied /\ ~mixed =>
    /\ asked # None
    /\ src.files = asked
    /\ want = Sel(asked)
    /\ row = asked

(* Nothing of a torrent that waits for a choice is fetched, however often  *)
(* it is paused and resumed ("Nothing flows until a choice lands",         *)
(* tui.go:862); a restart does drop the hold.                              *)
HeldFetchesNothing == asked = None /\ ~mixed => want = {} /\ pass = "idle"

(* What is handed over is what was chosen, no file less and none more,     *)
(* though the client leaves pieces of others behind and an earlier choice  *)
(* may have fetched them whole (PruneUnselected and selectionComplete),    *)
(* and though the torrent may be paused while it is handed over.  Paused   *)
(* before it is pruned, it is handed over with what was not chosen.        *)
DeliversChosen == delivered # None /\ ~mixed => asked # None /\ delivered = Sel(asked)

(* A live torrent with a choice is delivered, unless it is stopped or two  *)
(* choices met.                                                            *)
ChosenIsDelivered ==
  (reg = "live" /\ asked # None) ~> (delivered # None \/ reg # "live" \/ mixed)

=============================================================================
