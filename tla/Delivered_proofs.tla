-------------------------- MODULE Delivered_proofs --------------------------
(***************************************************************************)
(* What happens to downloads once delivered: their seeding (Seeding) and   *)
(* their re-scans (Rescan).                                                *)
(*                                                                         *)
(* Seeding.  Between calls the seeding client has exactly what is wanted,  *)
(* and the active set is its set of torrents, for any number of torrents   *)
(* and of callers, as long as no call that adds seeds overlaps one that    *)
(* ends some, and no re-scan writes a mark back that has changed since it  *)
(* read it.  While calls are under way the two sets differ, and the        *)
(* invariant says by whom every difference will be made good: what the     *)
(* client has and the active set has not is about to be noted by a call    *)
(* that added it (Activating), and what the active set has and the client  *)
(* has not is about to be taken out by one that dropped it (Deactivating). *)
(* A drain clears the whole active set, so by then the client must be      *)
(* empty: what it drops must still be all there is (DrainIsWhole), which   *)
(* only holds because nobody adds meanwhile (Apart).  Likewise for what is *)
(* wanted (Exact): what is seeded and not wanted is on its way out         *)
(* (SurplusGoes), what is wanted and not seeded on its way in or about to  *)
(* be wanted no more (MissingComes), unless a call failed for it, and      *)
(* every call acts on what is still so (Purposeful), since those that      *)
(* could have changed it are of the other kind.                            *)
(*                                                                         *)
(* Re-scans.  Nothing keeps two of them, or a deletion, from working on    *)
(* the same files, and still rows, folders, reports and seeds agree when   *)
(* they are done.  The proof rests on what cannot be undone.  Files never  *)
(* come back to a folder and records are never taken back, so a download   *)
(* found clean stays so (Cleared) and one with a bad record keeps it       *)
(* (BadRecorded): the jobs that move to clean/ and those that sweep into   *)
(* quarantine exclude each other (Verdicts).  A scan sees of its download  *)
(* all that is in reach, or what it misses is clean and on its way to      *)
(* clean/ (Covered): only a job that found the download clean splits it    *)
(* over two folders, so whoever says "clean", a job, a report or the row,  *)
(* has someone moving the rest, or the rest is stuck (Moved, StuckTold).   *)
(* A row is written from a copy read before: the copy says what the job    *)
(* found (Copied), a verdict is on the row or about to be written (Says,   *)
(* Telling), and unless a second scan or a deletion came between the row   *)
(* has it when the seeds are brought in line (Faithful).  Reports outlive  *)
(* the files they stand for (Reported), and a seed the verdict forbids has *)
(* a job that ends it (SeedsEnd).  All of that is said of downloads whose  *)
(* files were not taken for another's (strayed), and that a threat stays   *)
(* on the row, of those that one scan at a time has (Alone, ThreatKept).   *)
(***************************************************************************)
EXTENDS Seeding, Rescan, TLAPS

Apart == \A a, b \in Actors : ~(a \in Adding /\ b \in Ending)

Activating ==
  /\ \A t \in client : t \in active \/ \E a \in Actors : pc[a] = "activate" /\ t \in added[a]
  /\ \A a \in Actors : pc[a] = "activate" => added[a] \subseteq client

Deactivating ==
  /\ \A t \in active :
       t \in client \/ \E a \in Actors : \/ pc[a] = "deactivate" /\ t \in todo[a]
                                         \/ pc[a] = "clear"
  /\ \A a \in Actors : pc[a] = "deactivate" => todo[a] \intersect client = {}

DrainIsWhole ==
  /\ \A a \in Actors : pc[a] = "drop" => client \subseteq todo[a]
  /\ \A a \in Actors : pc[a] = "clear" => client = {}

\* What follows the seeds' removal is known only while they are removed.
Follows == \A a \in Actors : pc[a] \notin {"unseed", "deactivate"} => next[a] = "idle"

Consistent == Activating /\ Deactivating /\ DrainIsWhole

Accounted == ~crossed => Apart /\ ~Stale /\ Consistent

SeedsInv == TypeOK /\ Follows /\ Accounted

\* Both sets start empty, and nobody is under way.
LEMMA StartsEmpty == SeedsInit => SeedsInv
<1> SUFFICES ASSUME SeedsInit PROVE SeedsInv
  OBVIOUS
<1>1. TypeOK
  BY DEF SeedsInit, TypeOK, Steps, Rescanning, RowVerdicts, Blank
<1>2. client = {} /\ active = {} /\ \A a \in Actors : pc[a] = "idle" /\ next[a] = "idle"
  BY DEF SeedsInit
<1>3. Apart /\ ~Stale
  BY <1>2 DEF Apart, Adding, Ending, Rescanning, Stale
<1>4. Consistent
  BY <1>2 DEF Consistent, Activating, Deactivating, DrainIsWhole
<1>5. Follows
  BY <1>2 DEF Follows
<1> QED
  BY <1>1, <1>3, <1>4, <1>5 DEF SeedsInv, Accounted

-----------------------------------------------------------------------------
(* Types                                                                   *)

\* What starts a call keeps the types, and so does each of its steps.
LEMMA BeginsTyped ==
  ASSUME TypeOK, crossed' \in BOOLEAN, NEW a \in Actors, Begins(a)
  PROVE  TypeOK'
<1> USE DEF TypeOK, Steps, Rescanning, RowVerdicts, Goes, Handles, Continues, Copies, seeds,
   store, own
<1>1. CASE SetEnabled(a)
  BY <1>1 DEF SetEnabled
<1>2. CASE UnseedAll(a)
  BY <1>2 DEF UnseedAll
<1>3. CASE ReseedAll(a)
  BY <1>3 DEF ReseedAll
<1>4. ASSUME NEW t \in Torrents, Toggle(a, t) PROVE TypeOK'
  BY <1>4 DEF Toggle
<1>5. ASSUME NEW t \in Torrents, Delivered(a, t) PROVE TypeOK'
  BY <1>5 DEF Delivered
<1>6. ASSUME NEW t \in Torrents, DeleteHistory(a, t) PROVE TypeOK'
  BY <1>6 DEF DeleteHistory
<1>7. ASSUME NEW t \in Torrents, NEW v \in {"clean", "not_clean"}, RescanEnds(a, t, v)
      PROVE  TypeOK'
  BY <1>7 DEF RescanEnds
<1> QED
  BY <1>1, <1>2, <1>3, <1>4, <1>5, <1>6, <1>7 DEF Begins

\* So does what a call goes on to do.
LEMMA ProceedsTyped ==
  ASSUME TypeOK, crossed' \in BOOLEAN, NEW a \in Actors, Proceeds(a)
  PROVE  TypeOK'
<1> USE DEF TypeOK, Steps, Rescanning, RowVerdicts, Goes, Handles, Continues, Copies, seeds,
   store, own
<1>1. CASE Flip(a)
  <2>1. todo[a] \subseteq Torrents /\ copy[a].mark \in BOOLEAN /\ copy[a].row \in RowVerdicts
    OBVIOUS
  <2>2. row' \in [Torrents -> RowVerdicts] /\ mark' \in [Torrents -> BOOLEAN]
    BY <1>1, <2>1 DEF Flip, Writes
  <2>3. \E to \in {"add", "unseed", "idle"}, ts \in SUBSET Torrents :
          pc' = [pc EXCEPT ![a] = to] /\ todo' = [todo EXCEPT ![a] = ts]
    BY <1>1, <2>1 DEF Flip
  <2>4. failed' \subseteq Torrents
    BY <1>1, <2>1 DEF Flip
  <2> QED BY <1>1, <2>2, <2>3, <2>4 DEF Flip
<1>2. CASE Reseed(a)
  BY <1>2 DEF Reseed, Reseedable, Marked
<1>3. CASE Activate(a)
  BY <1>3 DEF Activate
<1>4. CASE Added(a)
  BY <1>4 DEF Added
<1>5. CASE UnseedOne(a)
  BY <1>5 DEF UnseedOne
<1>6. CASE NotActive(a)
  BY <1>6 DEF NotActive, Remaining
<1>7. CASE Deactivate(a)
  BY <1>7 DEF Deactivate, Inactive, Remaining
<1>8. CASE Drain(a)
  BY <1>8 DEF Drain
<1>9. CASE Drop(a)
  BY <1>9 DEF Drop
<1>10. CASE Clear(a)
  BY <1>10 DEF Clear
<1>11. CASE Rewrite(a)
  BY <1>11 DEF Rewrite, Writes
<1>12. CASE ClearMark(a)
  BY <1>12 DEF ClearMark, Writes
<1>13. CASE Erase(a)
  BY <1>13 DEF Erase
<1>14. CASE DeleteRow(a)
  BY <1>14 DEF DeleteRow, Writes
<1>15. ASSUME NEW t \in Torrents, SeedNew(a, t) PROVE TypeOK'
  BY <1>15 DEF SeedNew
<1>16. ASSUME NEW t \in Torrents, Add(a, t) PROVE TypeOK'
  BY <1>16 DEF Add
<1>17. ASSUME NEW t \in Torrents, NotAdded(a, t) PROVE TypeOK'
  BY <1>17 DEF NotAdded
<1>18. ASSUME NEW t \in Torrents, Reread(a, t) PROVE TypeOK'
  <2>1. copy' \in [Actors -> [row : RowVerdicts, mark : BOOLEAN]]
    <3>1. copy[a].row \in RowVerdicts /\ mark[t] \in BOOLEAN
      OBVIOUS
    <3>2. PICK r \in RowVerdicts, m \in BOOLEAN :
            copy' = [copy EXCEPT ![a] = [row |-> r, mark |-> m]]
      BY <1>18, <3>1 DEF Reread
    <3> QED BY <3>2
  <2>2. \E to \in {"rewrite", "idle"}, ts \in SUBSET Torrents :
          pc' = [pc EXCEPT ![a] = to] /\ todo' = [todo EXCEPT ![a] = ts]
    BY <1>18 DEF Reread
  <2> QED BY <1>18, <2>1, <2>2 DEF Reread
<1>19. ASSUME NEW t \in Torrents, Resolve(a, t) PROVE TypeOK'
  <2>1. \E to \in {"add", "unseed", "idle"}, ts \in SUBSET Torrents :
          pc' = [pc EXCEPT ![a] = to] /\ todo' = [todo EXCEPT ![a] = ts]
    BY <1>19 DEF Resolve
  <2>2. copy' \in [Actors -> [row : RowVerdicts, mark : BOOLEAN]]
    <3>1. row[t] \in RowVerdicts
      OBVIOUS
    <3>2. PICK r \in RowVerdicts, m \in BOOLEAN :
            copy' = [copy EXCEPT ![a] = [row |-> r, mark |-> m]]
      BY <1>19, <3>1 DEF Resolve
    <3> QED BY <3>2
  <2>3. next' \in [Actors -> {"idle", "clear_mark", "erase"}]
    BY <1>19 DEF Resolve
  <2> QED BY <1>19, <2>1, <2>2, <2>3 DEF Resolve
<1> QED
  BY <1>1, <1>2, <1>3, <1>4, <1>5, <1>6, <1>7, <1>8, <1>9, <1>10, <1>11, <1>12, <1>13, <1>14,
     <1>15, <1>16, <1>17, <1>18, <1>19 DEF Proceeds

\* Every step keeps the types.
LEMMA TypesKept == TypeOK /\ [SeedsNext]_seeding => TypeOK'
<1> SUFFICES ASSUME TypeOK, [SeedsNext]_seeding PROVE TypeOK'
  OBVIOUS
<1>1. crossed' \in BOOLEAN
  BY DEF TypeOK, SeedsNext, NoteCrossing, seeding
<1>2. CASE UNCHANGED seeding
  BY <1>2 DEF TypeOK, seeding, store, seeds, own
<1> QED
  BY <1>1, <1>2, BeginsTyped, ProceedsTyped DEF SeedsNext

\* A call that ends a seed takes what follows with it.
LEMMA FollowsKept == TypeOK /\ Follows /\ [SeedsNext]_seeding => Follows'
<1> SUFFICES ASSUME TypeOK, Follows, [SeedsNext]_seeding PROVE Follows'
  OBVIOUS
<1>1. CASE UNCHANGED seeding
  BY <1>1 DEF Follows, seeding, own
<1>2. ASSUME NEW a \in Actors, Begins(a) PROVE Follows'
  <2> USE DEF TypeOK, Follows, Goes, Continues, own
  <2>1. CASE SetEnabled(a)
    BY <2>1 DEF SetEnabled
  <2>2. CASE UnseedAll(a)
    BY <2>2 DEF UnseedAll
  <2>3. CASE ReseedAll(a)
    BY <2>3 DEF ReseedAll
  <2>4. ASSUME NEW t \in Torrents, Toggle(a, t) PROVE Follows'
    BY <2>4 DEF Toggle
  <2>5. ASSUME NEW t \in Torrents, Delivered(a, t) PROVE Follows'
    BY <2>5 DEF Delivered
  <2>6. ASSUME NEW t \in Torrents, DeleteHistory(a, t) PROVE Follows'
    BY <2>6 DEF DeleteHistory
  <2>7. ASSUME NEW t \in Torrents, NEW v \in {"clean", "not_clean"}, RescanEnds(a, t, v)
        PROVE  Follows'
    BY <2>7 DEF RescanEnds
  <2> QED
    BY <1>2, <2>1, <2>2, <2>3, <2>4, <2>5, <2>6, <2>7 DEF Begins
<1>3. ASSUME NEW a \in Actors, Proceeds(a) PROVE Follows'
  <2> USE DEF TypeOK, Follows, Goes, Continues, own
  <2>1. CASE Flip(a)
    BY <2>1 DEF Flip, Writes
  <2>2. CASE Reseed(a)
    BY <2>2 DEF Reseed, Reseedable, Marked
  <2>3. CASE Activate(a)
    BY <2>3 DEF Activate
  <2>4. CASE Added(a)
    BY <2>4 DEF Added
  <2>5. CASE UnseedOne(a)
    BY <2>5 DEF UnseedOne
  <2>6. CASE NotActive(a)
    BY <2>6 DEF NotActive, Remaining
  <2>7. CASE Deactivate(a)
    BY <2>7 DEF Deactivate, Inactive, Remaining
  <2>8. CASE Drain(a)
    BY <2>8 DEF Drain
  <2>9. CASE Drop(a)
    BY <2>9 DEF Drop
  <2>10. CASE Clear(a)
    BY <2>10 DEF Clear
  <2>11. CASE Rewrite(a)
    BY <2>11 DEF Rewrite, Writes
  <2>12. CASE ClearMark(a)
    BY <2>12 DEF ClearMark, Writes
  <2>13. CASE Erase(a)
    BY <2>13 DEF Erase
  <2>14. CASE DeleteRow(a)
    BY <2>14 DEF DeleteRow, Writes
  <2>15. ASSUME NEW t \in Torrents, SeedNew(a, t) PROVE Follows'
    BY <2>15 DEF SeedNew
  <2>16. ASSUME NEW t \in Torrents, Add(a, t) PROVE Follows'
    BY <2>16 DEF Add
  <2>17. ASSUME NEW t \in Torrents, NotAdded(a, t) PROVE Follows'
    BY <2>17 DEF NotAdded
  <2>18. ASSUME NEW t \in Torrents, Reread(a, t) PROVE Follows'
    BY <2>18 DEF Reread
  <2>19. ASSUME NEW t \in Torrents, Resolve(a, t) PROVE Follows'
    BY <2>19 DEF Resolve
  <2> QED
    BY <1>3, <2>1, <2>2, <2>3, <2>4, <2>5, <2>6, <2>7, <2>8, <2>9, <2>10, <2>11, <2>12, <2>13,
       <2>14, <2>15, <2>16, <2>17, <2>18, <2>19 DEF Proceeds
<1> QED
  BY <1>1, <1>2, <1>3 DEF SeedsNext

-----------------------------------------------------------------------------
(* The differences between the two sets                                    *)

Owing == {"activate", "deactivate", "drop", "clear"}

\* A step of a that leaves both sets alone and owes nothing before or after.
Neutral(a) ==
  /\ UNCHANGED <<client, active, added>>
  /\ pc[a] \notin Owing /\ pc'[a] \notin Owing
  /\ \A b \in Actors \ {a} : pc'[b] = pc[b] /\ todo'[b] = todo[b]

\* A step that touches neither set and that nobody owes anything for.
LEMMA NeutralKeeps ==
  ASSUME NEW a \in Actors, Neutral(a), Consistent
  PROVE  Consistent'
<1>1. \A b \in Actors : (pc[b] \in Owing \/ pc'[b] \in Owing) =>
        b # a /\ pc'[b] = pc[b] /\ todo'[b] = todo[b]
  BY DEF Neutral
<1>2. client' = client /\ active' = active /\ added' = added
  BY DEF Neutral
<1>3. Activating'
  BY <1>1, <1>2 DEF Consistent, Activating, Owing
<1>4. Deactivating'
  BY <1>1, <1>2 DEF Consistent, Deactivating, Owing
<1>5. DrainIsWhole'
  BY <1>1, <1>2 DEF Consistent, DrainIsWhole, Owing
<1> QED
  BY <1>3, <1>4, <1>5 DEF Consistent

\* A call that begins is such a step.
LEMMA BeginsIsNeutral ==
  ASSUME TypeOK, NEW a \in Actors, Begins(a)
  PROVE  Neutral(a)
<1> USE DEF TypeOK, Neutral, Owing, Goes, Handles, Continues, Copies, seeds, store, own
<1>1. CASE SetEnabled(a)
  BY <1>1 DEF SetEnabled
<1>2. CASE UnseedAll(a)
  BY <1>2 DEF UnseedAll
<1>3. CASE ReseedAll(a)
  BY <1>3 DEF ReseedAll
<1>4. ASSUME NEW t \in Torrents, Toggle(a, t) PROVE Neutral(a)
  BY <1>4 DEF Toggle
<1>5. ASSUME NEW t \in Torrents, Delivered(a, t) PROVE Neutral(a)
  BY <1>5 DEF Delivered
<1>6. ASSUME NEW t \in Torrents, DeleteHistory(a, t) PROVE Neutral(a)
  BY <1>6 DEF DeleteHistory
<1>7. ASSUME NEW t \in Torrents, NEW v \in {"clean", "not_clean"}, RescanEnds(a, t, v)
      PROVE  Neutral(a)
  BY <1>7 DEF RescanEnds
<1> QED
  BY <1>1, <1>2, <1>3, <1>4, <1>5, <1>6, <1>7 DEF Begins

\* And so is a step that registers and drops nothing.
Quietly(a) ==
  \/ Flip(a) \/ Reseed(a) \/ Added(a) \/ NotActive(a)
  \/ Rewrite(a) \/ ClearMark(a) \/ Erase(a) \/ DeleteRow(a)
  \/ \E t \in Torrents : SeedNew(a, t) \/ NotAdded(a, t) \/ Reread(a, t) \/ Resolve(a, t)

LEMMA QuietlyIsNeutral ==
  ASSUME TypeOK, NEW a \in Actors, Quietly(a)
  PROVE  Neutral(a)
<1> USE DEF TypeOK, Neutral, Owing, Goes, Handles, Continues, Copies, seeds, store, own
<1>1. CASE Flip(a)
  BY <1>1 DEF Flip, Writes
<1>2. CASE Reseed(a)
  BY <1>2 DEF Reseed, Reseedable, Marked
<1>3. CASE Added(a)
  BY <1>3 DEF Added
<1>4. CASE NotActive(a)
  BY <1>4 DEF NotActive, Remaining
<1>5. CASE Rewrite(a)
  BY <1>5 DEF Rewrite, Writes
<1>6. CASE ClearMark(a)
  BY <1>6 DEF ClearMark, Writes
<1>7. CASE Erase(a)
  BY <1>7 DEF Erase
<1>8. CASE DeleteRow(a)
  BY <1>8 DEF DeleteRow, Writes
<1>9. ASSUME NEW t \in Torrents, SeedNew(a, t) PROVE Neutral(a)
  BY <1>9 DEF SeedNew
<1>10. ASSUME NEW t \in Torrents, NotAdded(a, t) PROVE Neutral(a)
  BY <1>10 DEF NotAdded
<1>11. ASSUME NEW t \in Torrents, Reread(a, t) PROVE Neutral(a)
  BY <1>11 DEF Reread
<1>12. ASSUME NEW t \in Torrents, Resolve(a, t) PROVE Neutral(a)
  BY <1>12 DEF Resolve
<1> QED
  BY <1>1, <1>2, <1>3, <1>4, <1>5, <1>6, <1>7, <1>8, <1>9, <1>10, <1>11, <1>12 DEF Quietly

\* What is not seeded any more stays so while calls end seeds, and the other
\* way round while calls add some.
LEMMA ProceedsKeeps ==
  ASSUME TypeOK, Follows, Apart, Consistent, NEW a \in Actors, Proceeds(a)
  PROVE  Consistent'
<1> USE DEF Goes, Handles, Continues, seeds, store, own
<1>1. CASE Quietly(a)
  BY <1>1, QuietlyIsNeutral, NeutralKeeps
<1>2. ASSUME NEW t \in Torrents, Add(a, t) PROVE Consistent'
  <2>1. \A b \in Actors : pc[b] \notin {"deactivate", "drop", "clear"}
    BY <1>2 DEF Add, Apart, Adding, Ending, Rescanning
  <2>2. /\ pc[a] = "add" /\ client' = client \union {t} /\ active' = active
        /\ pc' = [pc EXCEPT ![a] = "activate"] /\ added' = [added EXCEPT ![a] = {t}]
    BY <1>2 DEF Add
  <2>3. Activating'
    BY <2>2 DEF TypeOK, Consistent, Activating
  <2>4. Deactivating' /\ DrainIsWhole'
    BY <2>1, <2>2 DEF TypeOK, Consistent, Deactivating, DrainIsWhole
  <2> QED BY <2>3, <2>4 DEF Consistent
<1>3. CASE Activate(a)
  <2>1. \A b \in Actors : pc[b] \notin {"deactivate", "drop", "clear"}
    BY <1>3 DEF Activate, Apart, Adding, Ending, Rescanning
  <2>2. /\ pc[a] = "activate" /\ client' = client /\ active' = active \union added[a]
        /\ pc' = [pc EXCEPT ![a] = "add"] /\ added' = [added EXCEPT ![a] = {}]
    BY <1>3 DEF Activate
  <2>3. Activating'
    BY <2>2 DEF TypeOK, Consistent, Activating
  <2>4. Deactivating' /\ DrainIsWhole'
    BY <2>1, <2>2 DEF TypeOK, Consistent, Activating, Deactivating, DrainIsWhole
  <2> QED BY <2>3, <2>4 DEF Consistent
<1>4. CASE UnseedOne(a)
  <2>1. \A b \in Actors : pc[b] # "activate"
    BY <1>4 DEF UnseedOne, Apart, Adding, Ending, Rescanning
  <2>2. /\ pc[a] = "unseed" /\ client' = client \ todo[a] /\ active' = active /\ todo' = todo
        /\ pc' = [pc EXCEPT ![a] = "deactivate"]
    BY <1>4 DEF UnseedOne
  <2>3. Activating'
    BY <2>1, <2>2 DEF TypeOK, Consistent, Activating
  <2>4. Deactivating'
    BY <2>2 DEF TypeOK, Consistent, Deactivating
  <2>5. DrainIsWhole'
    BY <2>2 DEF TypeOK, Consistent, DrainIsWhole
  <2> QED BY <2>3, <2>4, <2>5 DEF Consistent
<1>5. CASE Deactivate(a)
  <2>1. \A b \in Actors : pc[b] # "activate"
    BY <1>5 DEF Deactivate, Apart, Adding, Ending, Rescanning
  <2>2. /\ pc[a] = "deactivate" /\ client' = client /\ active' = active \ todo[a]
        /\ pc' = [pc EXCEPT ![a] = next[a]] /\ next[a] \notin Owing
        /\ \A b \in Actors \ {a} : todo'[b] = todo[b]
    BY <1>5 DEF TypeOK, Deactivate, Inactive, Owing
  <2>3. Activating'
    BY <2>1, <2>2 DEF TypeOK, Consistent, Activating, Deactivating, Owing
  <2>4. Deactivating'
    BY <2>2 DEF TypeOK, Consistent, Deactivating, Owing
  <2>5. DrainIsWhole'
    BY <2>2 DEF TypeOK, Consistent, DrainIsWhole, Owing
  <2> QED BY <2>3, <2>4, <2>5 DEF Consistent
<1>6. CASE Drain(a)
  <2>1. /\ pc[a] = "drain" /\ client' = client /\ active' = active /\ added' = added
        /\ pc' = [pc EXCEPT ![a] = "drop"] /\ todo' = [todo EXCEPT ![a] = client]
    BY <1>6 DEF Drain
  <2>2. Activating'
    BY <2>1 DEF TypeOK, Consistent, Activating
  <2>3. Deactivating'
    BY <2>1 DEF TypeOK, Consistent, Deactivating
  <2>4. DrainIsWhole'
    BY <2>1 DEF TypeOK, Consistent, DrainIsWhole
  <2> QED BY <2>2, <2>3, <2>4 DEF Consistent
<1>7. CASE Drop(a)
  <2>1. \A b \in Actors : pc[b] # "activate"
    BY <1>7 DEF Drop, Apart, Adding, Ending, Rescanning
  <2>2. /\ pc[a] = "drop" /\ client' = client \ todo[a] /\ active' = active /\ todo' = todo
        /\ pc' = [pc EXCEPT ![a] = "clear"] /\ client' = {}
    BY <1>7 DEF Drop, Consistent, DrainIsWhole
  <2>3. Activating'
    BY <2>1, <2>2 DEF TypeOK, Activating
  <2>4. Deactivating' /\ DrainIsWhole'
    BY <2>2 DEF TypeOK, Consistent, Deactivating, DrainIsWhole
  <2> QED BY <2>3, <2>4 DEF Consistent
<1>8. CASE Clear(a)
  <2>1. \A b \in Actors : pc[b] # "activate"
    BY <1>8 DEF Clear, Apart, Adding, Ending, Rescanning
  <2>2. /\ pc[a] = "clear" /\ client = {} /\ client' = {} /\ active' = {}
        /\ pc' = [pc EXCEPT ![a] = "idle"]
    BY <1>8 DEF Clear, Consistent, DrainIsWhole
  <2>3. Activating'
    BY <2>1, <2>2 DEF TypeOK, Activating
  <2>4. Deactivating' /\ DrainIsWhole'
    BY <2>2 DEF TypeOK, Deactivating, DrainIsWhole
  <2> QED BY <2>3, <2>4 DEF Consistent
<1> QED
  BY <1>1, <1>2, <1>3, <1>4, <1>5, <1>6, <1>7, <1>8 DEF Proceeds, Quietly

\* Every step leaves each difference between the sets to somebody.
LEMMA AccountedKept == SeedsInv /\ [SeedsNext]_seeding => Accounted'
<1> SUFFICES ASSUME SeedsInv, [SeedsNext]_seeding, ~crossed'
             PROVE  Apart' /\ ~Stale' /\ Consistent'
  BY DEF Accounted
<1>1. CASE UNCHANGED seeding
  BY <1>1 DEF seeding, store, seeds, own, SeedsInv, Accounted, Consistent, Apart, Adding, Ending,
     Rescanning, Stale, Activating, Deactivating, DrainIsWhole
<1>2. CASE SeedsNext
  <2>1. ~crossed /\ (Adding' = {} \/ Ending' = {}) /\ ~Stale'
    BY <1>2 DEF SeedsNext, NoteCrossing, SeedsInv, TypeOK
  <2>2. Apart /\ Consistent /\ TypeOK /\ Follows
    BY <2>1 DEF SeedsInv, Accounted
  <2>3. Apart'
    BY <2>1 DEF Apart
  <2> QED
    BY <1>2, <2>1, <2>2, <2>3, BeginsIsNeutral, NeutralKeeps, ProceedsKeeps DEF SeedsNext
<1> QED
  BY <1>1, <1>2

-----------------------------------------------------------------------------
(* Exactly what is wanted                                                  *)

\* What would be seeded if its files were there, and what is to be seeded
\* unless panic mode withholds it.
Seedable(t) == enabled /\ row[t] = "clean" /\ mark[t]
Wanted(t)   == Seedable(t) /\ t \in data
Withheld    == panicked \/ ~enabled

\* The calls that are about to end the seeding of t, and those about to start it,
\* or to do away with the mark or the files.
Rescans(a, t, verdict) == pc[a] \in Rescanning /\ copy[a].row = verdict /\ t \in todo[a]

Takes(a, t) ==
  \/ pc[a] \in {"drain", "drop"}
  \/ pc[a] = "unseed" /\ t \in todo[a]
  \/ Rescans(a, t, "not_clean")

Registers(a) == pc[a] \in {"add", "activate"}

Unmarks(a) ==
  \/ pc[a] \in {"clear_mark", "erase", "delete_row"}
  \/ pc[a] \in {"unseed", "deactivate"} /\ next[a] # "idle"

Brings(a, t) ==
  \/ pc[a] = "reseed"
  \/ (Registers(a) \/ Unmarks(a) \/ pc[a] = "seed_new") /\ t \in todo[a]
  \/ Rescans(a, t, "clean")

\* A call registers what is seedable, leaves out what it has dropped, ends seeds
\* for a reason, and what it is about to write takes a mark away, if it is on its
\* way to do that, and is of one torrent, if it re-scans.
AddsSeedable(a) ==
  /\ Registers(a) => \A t \in todo[a] : Seedable(t)
  /\ pc[a] = "seed_new" => \A t \in todo[a] : row[t] = "clean" /\ mark[t]

StaysOut(a) ==
  pc[a] \in {"deactivate", "clear_mark", "erase", "delete_row"} => todo[a] \intersect client = {}

HasReason(a) ==
  /\ pc[a] \in {"drain", "drop"} => Withheld
  /\ pc[a] = "unseed" /\ next[a] = "idle" => \A t \in todo[a] : ~Seedable(t)

Carries(a) ==
  /\ pc[a] = "clear_mark" \/ next[a] = "clear_mark" => ~copy[a].mark
  /\ pc[a] \in Rescanning \union {"seed_new"} => \A t, u \in todo[a] : t = u
  /\ pc[a] \in Rescanning => copy[a].row # "none"

Purposeful(a) == AddsSeedable(a) /\ StaysOut(a) /\ HasReason(a) /\ Carries(a)

\* What is seeded has a row.
Rowed == \A t \in client : row[t] # "none"

\* What is seeded and not wanted is on its way out, what is wanted and not
\* seeded on its way in, or about to be wanted no more, unless a call failed for it.
SurplusGoes == \A t \in client \ failed : Wanted(t) \/ \E a \in Actors : Takes(a, t)

MissingComes ==
  ~panicked => \A t \in Torrents \ failed :
                 Wanted(t) /\ t \notin client => \E a \in Actors : Brings(a, t)

Exact == (\A a \in Actors : Purposeful(a)) /\ Rowed /\ SurplusGoes /\ MissingComes

\* What a step of a call may do to the others: nothing to those that add seeds
\* but make more of them seedable, and nothing to those that end seeds but the
\* reverse, for the two kinds do not meet.
Own(a) ==
  \A b \in Actors \ {a} :
    pc'[b] = pc[b] /\ todo'[b] = todo[b] /\ next'[b] = next[b] /\ copy'[b] = copy[b]

OneKind == Adding' = {} \/ Ending' = {}

SparesAdders ==
  Adding' = {} \/ /\ enabled => enabled'
                  /\ \A t \in Torrents :
                       row[t] = "clean" /\ mark[t] => row'[t] = "clean" /\ mark'[t]

SparesEnders ==
  Ending' = {} \/ /\ client' \subseteq client
                  /\ Withheld => Withheld'
                  /\ \A t \in Torrents : Seedable(t)' => Seedable(t)

\* What a step makes surplus it takes on itself, and so with what is missing.
OwnsSurplus(a) ==
  \A t \in client' \ failed' :
    \/ Wanted(t)' \/ Takes(a, t)'
    \/ t \in client \ failed /\ ~Wanted(t) /\ ~Takes(a, t)

OwnsMissing(a) ==
  ~panicked' => \A t \in Torrents \ failed' : Wanted(t)' /\ t \notin client' =>
    \/ Brings(a, t)'
    \/ ~panicked /\ t \notin failed /\ Wanted(t) /\ t \notin client /\ ~Brings(a, t)

\* A step that does so leaves the seeds accounted for.
LEMMA OwnsItsStep ==
  ASSUME TypeOK, Exact, NEW a \in Actors, Own(a), SparesAdders, SparesEnders,
         Purposeful(a)', Rowed', OwnsSurplus(a), OwnsMissing(a)
  PROVE  Exact'
<1>1. ASSUME NEW b \in Actors, b # a PROVE Purposeful(b)'
  <2>1. /\ todo[b] \subseteq Torrents /\ Purposeful(b) /\ pc'[b] = pc[b]
        /\ todo'[b] = todo[b] /\ next'[b] = next[b] /\ copy'[b] = copy[b]
    BY <1>1 DEF TypeOK, Own, Exact
  <2>2. AddsSeedable(b)'
    <3>1. CASE Adding' = {}
      BY <2>1, <3>1 DEF Adding, AddsSeedable, Registers
    <3>2. CASE Adding' # {}
      BY <2>1, <3>2 DEF SparesAdders, Purposeful, AddsSeedable, Registers, Seedable
    <3> QED BY <3>1, <3>2
  <2>3. Carries(b)'
    BY <2>1 DEF Purposeful, Carries
  <2>4. CASE Ending' = {}
    BY <2>1, <2>2, <2>3, <2>4 DEF Ending, Adding, Rescanning, StaysOut, HasReason, Purposeful
  <2>5. CASE Ending' # {}
    <3>1. /\ client' \subseteq client /\ (Withheld => Withheld')
          /\ \A t \in Torrents : Seedable(t)' => Seedable(t)
      BY <2>5 DEF SparesEnders
    <3>2. StaysOut(b)'
      BY <2>1, <3>1 DEF Purposeful, StaysOut
    <3>3. HasReason(b)'
      BY <2>1, <3>1 DEF Purposeful, HasReason
    <3> QED BY <2>2, <2>3, <3>2, <3>3 DEF Purposeful
  <2> QED BY <2>4, <2>5
<1>2. SurplusGoes'
  <2> SUFFICES ASSUME NEW t \in client' \ failed', ~Wanted(t)', ~Takes(a, t)'
               PROVE  \E b \in Actors : Takes(b, t)'
    BY DEF SurplusGoes
  <2>1. PICK b \in Actors : Takes(b, t) /\ b # a
    BY DEF OwnsSurplus, Exact, SurplusGoes
  <2> QED BY <2>1 DEF Own, Takes, Rescans
<1>3. MissingComes'
  <2> SUFFICES ASSUME ~panicked', NEW t \in Torrents \ failed', Wanted(t)', t \notin client',
                      ~Brings(a, t)'
               PROVE  \E b \in Actors : Brings(b, t)'
    BY DEF MissingComes
  <2>1. PICK b \in Actors : Brings(b, t) /\ b # a
    BY DEF OwnsMissing, Exact, MissingComes
  <2> QED BY <2>1 DEF Own, Brings, Registers, Unmarks, Rescans
<1> QED BY <1>1, <1>2, <1>3 DEF Exact

\* A step that touches only the call's own state need only keep its own part.
SameWorld == UNCHANGED <<row, mark, data, enabled, panicked, client>> /\ failed \subseteq failed'

LEMMA LeavesWorld ==
  ASSUME TypeOK, Exact, NEW a \in Actors, Own(a), SameWorld, Purposeful(a)',
         \A t \in client \ failed' : Takes(a, t) /\ ~Wanted(t) => Takes(a, t)',
         \A t \in Torrents \ failed' :
           Brings(a, t) /\ Wanted(t) /\ t \notin client => Brings(a, t)'
  PROVE  Exact'
<1>1. \A t \in Torrents : (Seedable(t)' <=> Seedable(t)) /\ (Wanted(t)' <=> Wanted(t))
  BY DEF SameWorld, Seedable, Wanted
<1>2. /\ client' = client /\ (panicked' <=> panicked) /\ (Withheld' <=> Withheld)
      /\ client \subseteq Torrents /\ failed \subseteq failed'
  BY DEF SameWorld, Withheld, TypeOK
<1>3. SparesAdders /\ SparesEnders
  BY <1>1, <1>2 DEF SparesAdders, SparesEnders, SameWorld
<1>4. OwnsSurplus(a) /\ OwnsMissing(a)
  BY <1>1, <1>2 DEF OwnsSurplus, OwnsMissing
<1>5. Rowed'
  BY DEF SameWorld, Exact, Rowed
<1> QED BY <1>3, <1>4, <1>5, OwnsItsStep

\* A call that only reads before it acts keeps that.
LEMMA BeginsWaiting ==
  ASSUME TypeOK, Follows, Apart, ~Stale, Consistent, Exact, OneKind, ~Stale',
         NEW a \in Actors,
         \E t \in Torrents : Toggle(a, t) \/ DeleteHistory(a, t)
  PROVE  Exact'
<1> USE DEF TypeOK, Goes, Handles, Continues, Copies, store, seeds, own
<1>1. ASSUME NEW t \in Torrents, Toggle(a, t) PROVE Exact'
  <2>1. Own(a) /\ SameWorld
    BY <1>1 DEF Toggle, Own, SameWorld
  <2>2. Purposeful(a)'
    <3>1. pc'[a] = "flip" /\ next'[a] = "idle"
      BY <1>1 DEF Toggle, Follows
    <3> QED BY <3>1 DEF Purposeful, AddsSeedable, Registers, StaysOut, HasReason, Carries,
       Rescanning
  <2>3. \A u \in client \ failed' : Takes(a, u) /\ ~Wanted(u) => Takes(a, u)'
    BY <1>1 DEF Toggle, Takes, Rescans, Rescanning, Exact, Rowed, Purposeful, Carries,
       Consistent, Activating, Apart, Adding, Ending
  <2>4. \A u \in Torrents \ failed' : Brings(a, u) /\ Wanted(u) /\ u \notin client => Brings(a, u)'
    BY <1>1 DEF Toggle, Brings, Registers, Unmarks, Rescans, Rescanning, Wanted, Seedable, Exact,
       Purposeful, Carries, Follows, Marked
  <2> QED BY <2>1, <2>2, <2>3, <2>4, LeavesWorld
<1>2. ASSUME NEW t \in Torrents, DeleteHistory(a, t) PROVE Exact'
  <2>1. Own(a) /\ SameWorld
    BY <1>2 DEF DeleteHistory, Own, SameWorld
  <2>2. Purposeful(a)'
    BY <1>2 DEF DeleteHistory, Exact, Purposeful, AddsSeedable, Registers, StaysOut, HasReason,
       Carries, Withheld, Seedable, Rescanning, Consistent, Activating, Apart, Adding, Ending
  <2>3. \A u \in client \ failed' : Takes(a, u) /\ ~Wanted(u) => Takes(a, u)'
    BY <1>2 DEF DeleteHistory, Takes, Rescans, Rescanning, Exact, Rowed, Purposeful, Carries,
       Consistent, Activating, Apart, Adding, Ending
  <2>4. \A u \in Torrents \ failed' : Brings(a, u) /\ Wanted(u) /\ u \notin client => Brings(a, u)'
    BY <1>2 DEF DeleteHistory, Brings, Registers, Unmarks, Rescans, Rescanning, Wanted, Seedable,
       Exact, Purposeful, Carries, Follows, Marked
  <2> QED BY <2>1, <2>2, <2>3, <2>4, LeavesWorld
<1> QED BY <1>1, <1>2

\* A call that begins with a verdict, a switch or a callback answers for it.
LEMMA ChangesWorld ==
  ASSUME TypeOK, Follows, Apart, ~Stale, Consistent, Exact, OneKind, ~Stale',
         NEW a \in Actors, Begins(a)
  PROVE  Exact'
<1> USE DEF TypeOK, Goes, Handles, Continues, Copies, store, seeds, own
<1>1. CASE SetEnabled(a)
  <2>1. Own(a)
    BY <1>1 DEF SetEnabled, Own
  <2>2. SparesAdders
    BY <1>1 DEF SetEnabled, SparesAdders, OneKind, Apart, Adding, Ending, Rescanning
  <2>3. SparesEnders
    BY <1>1 DEF SetEnabled, SparesEnders, OneKind, Adding, Ending, Rescanning, Seedable, Withheld
  <2>4. Purposeful(a)'
    BY <1>1 DEF SetEnabled, Exact, Purposeful, AddsSeedable, Registers, StaysOut, HasReason,
       Carries, Withheld, Seedable, Rescanning
  <2>5. Rowed'
    BY <1>1 DEF SetEnabled, Exact, Rowed, Purposeful, AddsSeedable, Registers, Seedable, Carries,
       StaysOut, Rescanning
  <2>6. OwnsSurplus(a)
    BY <1>1 DEF SetEnabled, OwnsSurplus, Takes, Rescans, Rescanning, Wanted, Seedable, Exact,
       Purposeful, StaysOut, Consistent, DrainIsWhole
  <2>7. OwnsMissing(a)
    BY <1>1 DEF SetEnabled, OwnsMissing, Brings, Registers, Unmarks, Rescans, Rescanning, Wanted,
       Seedable, Exact, Purposeful, AddsSeedable, HasReason, Withheld
  <2> QED BY <2>1, <2>2, <2>3, <2>4, <2>5, <2>6, <2>7, OwnsItsStep
<1>2. CASE UnseedAll(a)
  <2>1. Own(a)
    BY <1>2 DEF UnseedAll, Own
  <2>2. SparesAdders
    BY <1>2 DEF UnseedAll, SparesAdders, OneKind, Apart, Adding, Ending, Rescanning
  <2>3. SparesEnders
    BY <1>2 DEF UnseedAll, SparesEnders, OneKind, Adding, Ending, Rescanning, Seedable, Withheld
  <2>4. Purposeful(a)'
    BY <1>2 DEF UnseedAll, Exact, Purposeful, AddsSeedable, Registers, StaysOut, HasReason,
       Carries, Withheld, Seedable, Rescanning
  <2>5. Rowed'
    BY <1>2 DEF UnseedAll, Exact, Rowed, Purposeful, AddsSeedable, Registers, Seedable, Carries,
       StaysOut, Rescanning
  <2>6. OwnsSurplus(a)
    BY <1>2 DEF UnseedAll, OwnsSurplus, Takes, Rescans, Rescanning, Wanted, Seedable, Exact,
       Purposeful, StaysOut, Consistent, DrainIsWhole
  <2>7. OwnsMissing(a)
    BY <1>2 DEF UnseedAll, OwnsMissing, Brings, Registers, Unmarks, Rescans, Rescanning, Wanted,
       Seedable, Exact, Purposeful, AddsSeedable, HasReason, Withheld
  <2> QED BY <2>1, <2>2, <2>3, <2>4, <2>5, <2>6, <2>7, OwnsItsStep
<1>3. CASE ReseedAll(a)
  <2>1. Own(a)
    BY <1>3 DEF ReseedAll, Own
  <2>2. SparesAdders
    BY <1>3 DEF ReseedAll, SparesAdders, OneKind, Apart, Adding, Ending, Rescanning
  <2>3. SparesEnders
    BY <1>3 DEF ReseedAll, SparesEnders, OneKind, Adding, Ending, Rescanning, Seedable, Withheld
  <2>4. Purposeful(a)'
    BY <1>3 DEF ReseedAll, Exact, Purposeful, AddsSeedable, Registers, StaysOut, HasReason,
       Carries, Withheld, Seedable, Rescanning
  <2>5. Rowed'
    BY <1>3 DEF ReseedAll, Exact, Rowed, Purposeful, AddsSeedable, Registers, Seedable, Carries,
       StaysOut, Rescanning
  <2>6. OwnsSurplus(a)
    BY <1>3 DEF ReseedAll, OwnsSurplus, Takes, Rescans, Rescanning, Wanted, Seedable, Exact,
       Purposeful, StaysOut, Consistent, DrainIsWhole
  <2>7. OwnsMissing(a)
    BY <1>3 DEF ReseedAll, OwnsMissing, Brings, Registers, Unmarks, Rescans, Rescanning, Wanted,
       Seedable, Exact, Purposeful, AddsSeedable, HasReason, Withheld
  <2> QED BY <2>1, <2>2, <2>3, <2>4, <2>5, <2>6, <2>7, OwnsItsStep
<1>4. ASSUME NEW t \in Torrents, Delivered(a, t) PROVE Exact'
  <2>1. Own(a)
    BY <1>4 DEF Delivered, Own
  <2>2. SparesAdders
    BY <1>4 DEF Delivered, SparesAdders, OneKind, Apart, Adding, Ending, Rescanning
  <2>3. SparesEnders
    BY <1>4 DEF Delivered, SparesEnders, OneKind, Adding, Ending, Rescanning, Seedable, Withheld
  <2>4. Purposeful(a)'
    BY <1>4 DEF Delivered, Exact, Purposeful, AddsSeedable, Registers, StaysOut, HasReason,
       Carries, Withheld, Seedable, Rescanning
  <2>5. Rowed'
    BY <1>4 DEF Delivered, Exact, Rowed, Purposeful, AddsSeedable, Registers, Seedable, Carries,
       StaysOut, Rescanning
  <2>6. OwnsSurplus(a)
    BY <1>4 DEF Delivered, OwnsSurplus, Takes, Rescans, Rescanning, Wanted, Seedable, Exact,
       Purposeful, StaysOut, Consistent, DrainIsWhole
  <2>7. OwnsMissing(a)
    BY <1>4 DEF Delivered, OwnsMissing, Brings, Registers, Unmarks, Rescans, Rescanning, Wanted,
       Seedable, Exact, Purposeful, AddsSeedable, HasReason, Withheld
  <2> QED BY <2>1, <2>2, <2>3, <2>4, <2>5, <2>6, <2>7, OwnsItsStep
<1>5. ASSUME NEW t \in Torrents, NEW v \in {"clean", "not_clean"}, RescanEnds(a, t, v)
      PROVE  Exact'
  <2>1. Own(a)
    BY <1>5 DEF RescanEnds, Own
  <2>2. SparesAdders
    BY <1>5 DEF RescanEnds, SparesAdders, OneKind, Apart, Adding, Ending, Rescanning
  <2>3. SparesEnders
    BY <1>5 DEF RescanEnds, SparesEnders, OneKind, Adding, Ending, Rescanning, Seedable, Withheld
  <2>4. Purposeful(a)'
    BY <1>5 DEF RescanEnds, Exact, Purposeful, AddsSeedable, Registers, StaysOut, HasReason,
       Carries, Withheld, Seedable, Rescanning
  <2>5. Rowed'
    BY <1>5 DEF RescanEnds, Exact, Rowed, Purposeful, AddsSeedable, Registers, Seedable, Carries,
       StaysOut, Rescanning
  <2>6. OwnsSurplus(a)
    BY <1>5 DEF RescanEnds, OwnsSurplus, Takes, Rescans, Rescanning, Wanted, Seedable, Exact,
       Purposeful, StaysOut, Consistent, DrainIsWhole
  <2>7. OwnsMissing(a)
    BY <1>5 DEF RescanEnds, OwnsMissing, Brings, Registers, Unmarks, Rescans, Rescanning, Wanted,
       Seedable, Exact, Purposeful, AddsSeedable, HasReason, Withheld
  <2> QED BY <2>1, <2>2, <2>3, <2>4, <2>5, <2>6, <2>7, OwnsItsStep
<1> QED
  BY <1>1, <1>2, <1>3, <1>4, <1>5, BeginsWaiting DEF Begins

\* Between its changes, a call keeps that.
Reads(a) ==
  \/ Reseed(a) \/ Activate(a) \/ Added(a) \/ NotActive(a) \/ Deactivate(a) \/ Drain(a) \/ Clear(a)
  \/ \E t \in Torrents : SeedNew(a, t) \/ NotAdded(a, t) \/ Reread(a, t) \/ Resolve(a, t)

LEMMA InTurn ==
  ASSUME TypeOK, Follows, Apart, ~Stale, Consistent, Exact, OneKind, ~Stale',
         NEW a \in Actors, Reads(a)
  PROVE  Exact'
<1> USE DEF TypeOK, Goes, Handles, Continues, Copies, store, seeds, own
<1>1. CASE Reseed(a)
  <2>1. Own(a) /\ SameWorld
    BY <1>1 DEF Reseed, Reseedable, Marked, Own, SameWorld
  <2>2. Purposeful(a)'
    BY <1>1 DEF Reseed, Reseedable, Marked, Exact, Purposeful, AddsSeedable, Registers, StaysOut,
       HasReason, Carries, Withheld, Seedable, Rescanning, Consistent, Activating, Apart, Adding,
       Ending
  <2>3. \A u \in client \ failed' : Takes(a, u) /\ ~Wanted(u) => Takes(a, u)'
    BY <1>1 DEF Reseed, Reseedable, Marked, Takes, Rescans, Rescanning, Exact, Rowed, Purposeful,
       Carries, Consistent, Activating, Apart, Adding, Ending
  <2>4. \A u \in Torrents \ failed' : Brings(a, u) /\ Wanted(u) /\ u \notin client => Brings(a, u)'
    BY <1>1 DEF Reseed, Reseedable, Marked, Brings, Registers, Unmarks, Rescans, Rescanning,
       Wanted, Seedable, Exact, Purposeful, Carries, Follows, Marked
  <2> QED BY <2>1, <2>2, <2>3, <2>4, LeavesWorld
<1>2. CASE Activate(a)
  <2>1. Own(a) /\ SameWorld
    BY <1>2 DEF Activate, Own, SameWorld
  <2>2. Purposeful(a)'
    BY <1>2 DEF Activate, Exact, Purposeful, AddsSeedable, Registers, StaysOut, HasReason,
       Carries, Withheld, Seedable, Rescanning, Consistent, Activating, Apart, Adding, Ending
  <2>3. \A u \in client \ failed' : Takes(a, u) /\ ~Wanted(u) => Takes(a, u)'
    BY <1>2 DEF Activate, Takes, Rescans, Rescanning, Exact, Rowed, Purposeful, Carries,
       Consistent, Activating, Apart, Adding, Ending
  <2>4. \A u \in Torrents \ failed' : Brings(a, u) /\ Wanted(u) /\ u \notin client => Brings(a, u)'
    BY <1>2 DEF Activate, Brings, Registers, Unmarks, Rescans, Rescanning, Wanted, Seedable,
       Exact, Purposeful, Carries, Follows, Marked
  <2> QED BY <2>1, <2>2, <2>3, <2>4, LeavesWorld
<1>3. CASE Added(a)
  <2>1. Own(a) /\ SameWorld
    BY <1>3 DEF Added, Own, SameWorld
  <2>2. Purposeful(a)'
    BY <1>3 DEF Added, Exact, Purposeful, AddsSeedable, Registers, StaysOut, HasReason, Carries,
       Withheld, Seedable, Rescanning, Consistent, Activating, Apart, Adding, Ending
  <2>3. \A u \in client \ failed' : Takes(a, u) /\ ~Wanted(u) => Takes(a, u)'
    BY <1>3 DEF Added, Takes, Rescans, Rescanning, Exact, Rowed, Purposeful, Carries, Consistent,
       Activating, Apart, Adding, Ending
  <2>4. \A u \in Torrents \ failed' : Brings(a, u) /\ Wanted(u) /\ u \notin client => Brings(a, u)'
    BY <1>3 DEF Added, Brings, Registers, Unmarks, Rescans, Rescanning, Wanted, Seedable, Exact,
       Purposeful, Carries, Follows, Marked
  <2> QED BY <2>1, <2>2, <2>3, <2>4, LeavesWorld
<1>4. CASE NotActive(a)
  <2>1. Own(a) /\ SameWorld
    BY <1>4 DEF NotActive, Remaining, Own, SameWorld
  <2>2. Purposeful(a)'
    BY <1>4 DEF NotActive, Remaining, Exact, Purposeful, AddsSeedable, Registers, StaysOut,
       HasReason, Carries, Withheld, Seedable, Rescanning, Consistent, Activating, Apart, Adding,
       Ending
  <2>3. \A u \in client \ failed' : Takes(a, u) /\ ~Wanted(u) => Takes(a, u)'
    BY <1>4 DEF NotActive, Remaining, Takes, Rescans, Rescanning, Exact, Rowed, Purposeful,
       Carries, Consistent, Activating, Apart, Adding, Ending
  <2>4. \A u \in Torrents \ failed' : Brings(a, u) /\ Wanted(u) /\ u \notin client => Brings(a, u)'
    BY <1>4 DEF NotActive, Remaining, Brings, Registers, Unmarks, Rescans, Rescanning, Wanted,
       Seedable, Exact, Purposeful, Carries, Follows, Marked
  <2> QED BY <2>1, <2>2, <2>3, <2>4, LeavesWorld
<1>5. CASE Deactivate(a)
  <2>1. Own(a) /\ SameWorld
    BY <1>5 DEF Deactivate, Inactive, Remaining, Own, SameWorld
  <2>2. Purposeful(a)'
    BY <1>5 DEF Deactivate, Inactive, Remaining, Exact, Purposeful, AddsSeedable, Registers,
       StaysOut, HasReason, Carries, Withheld, Seedable, Rescanning, Consistent, Activating,
       Apart, Adding, Ending
  <2>3. \A u \in client \ failed' : Takes(a, u) /\ ~Wanted(u) => Takes(a, u)'
    BY <1>5 DEF Deactivate, Inactive, Remaining, Takes, Rescans, Rescanning, Exact, Rowed,
       Purposeful, Carries, Consistent, Activating, Apart, Adding, Ending
  <2>4. \A u \in Torrents \ failed' : Brings(a, u) /\ Wanted(u) /\ u \notin client => Brings(a, u)'
    BY <1>5 DEF Deactivate, Inactive, Remaining, Brings, Registers, Unmarks, Rescans, Rescanning,
       Wanted, Seedable, Exact, Purposeful, Carries, Follows, Marked
  <2> QED BY <2>1, <2>2, <2>3, <2>4, LeavesWorld
<1>6. CASE Drain(a)
  <2>1. Own(a) /\ SameWorld
    BY <1>6 DEF Drain, Own, SameWorld
  <2>2. Purposeful(a)'
    BY <1>6 DEF Drain, Exact, Purposeful, AddsSeedable, Registers, StaysOut, HasReason, Carries,
       Withheld, Seedable, Rescanning, Consistent, Activating, Apart, Adding, Ending
  <2>3. \A u \in client \ failed' : Takes(a, u) /\ ~Wanted(u) => Takes(a, u)'
    BY <1>6 DEF Drain, Takes, Rescans, Rescanning, Exact, Rowed, Purposeful, Carries, Consistent,
       Activating, Apart, Adding, Ending
  <2>4. \A u \in Torrents \ failed' : Brings(a, u) /\ Wanted(u) /\ u \notin client => Brings(a, u)'
    BY <1>6 DEF Drain, Brings, Registers, Unmarks, Rescans, Rescanning, Wanted, Seedable, Exact,
       Purposeful, Carries, Follows, Marked
  <2> QED BY <2>1, <2>2, <2>3, <2>4, LeavesWorld
<1>7. CASE Clear(a)
  <2>1. Own(a) /\ SameWorld
    BY <1>7 DEF Clear, Own, SameWorld
  <2>2. Purposeful(a)'
    BY <1>7 DEF Clear, Exact, Purposeful, AddsSeedable, Registers, StaysOut, HasReason, Carries,
       Withheld, Seedable, Rescanning, Consistent, Activating, Apart, Adding, Ending
  <2>3. \A u \in client \ failed' : Takes(a, u) /\ ~Wanted(u) => Takes(a, u)'
    BY <1>7 DEF Clear, Takes, Rescans, Rescanning, Exact, Rowed, Purposeful, Carries, Consistent,
       Activating, Apart, Adding, Ending
  <2>4. \A u \in Torrents \ failed' : Brings(a, u) /\ Wanted(u) /\ u \notin client => Brings(a, u)'
    BY <1>7 DEF Clear, Brings, Registers, Unmarks, Rescans, Rescanning, Wanted, Seedable, Exact,
       Purposeful, Carries, Follows, Marked
  <2> QED BY <2>1, <2>2, <2>3, <2>4, LeavesWorld
<1>8. ASSUME NEW t \in Torrents, SeedNew(a, t) PROVE Exact'
  <2>1. Own(a) /\ SameWorld
    BY <1>8 DEF SeedNew, Own, SameWorld
  <2>2. Purposeful(a)'
    BY <1>8 DEF SeedNew, Exact, Purposeful, AddsSeedable, Registers, StaysOut, HasReason,
       Carries, Withheld, Seedable, Rescanning, Consistent, Activating, Apart, Adding, Ending
  <2>3. \A u \in client \ failed' : Takes(a, u) /\ ~Wanted(u) => Takes(a, u)'
    BY <1>8 DEF SeedNew, Takes, Rescans, Rescanning, Exact, Rowed, Purposeful, Carries,
       Consistent, Activating, Apart, Adding, Ending
  <2>4. \A u \in Torrents \ failed' : Brings(a, u) /\ Wanted(u) /\ u \notin client => Brings(a, u)'
    BY <1>8 DEF SeedNew, Brings, Registers, Unmarks, Rescans, Rescanning, Wanted, Seedable,
       Exact, Purposeful, Carries, Follows, Marked
  <2> QED BY <2>1, <2>2, <2>3, <2>4, LeavesWorld
<1>9. ASSUME NEW t \in Torrents, NotAdded(a, t) PROVE Exact'
  <2>1. Own(a) /\ SameWorld
    BY <1>9 DEF NotAdded, Own, SameWorld
  <2>2. Purposeful(a)'
    BY <1>9 DEF NotAdded, Exact, Purposeful, AddsSeedable, Registers, StaysOut, HasReason,
       Carries, Withheld, Seedable, Rescanning, Consistent, Activating, Apart, Adding, Ending
  <2>3. \A u \in client \ failed' : Takes(a, u) /\ ~Wanted(u) => Takes(a, u)'
    BY <1>9 DEF NotAdded, Takes, Rescans, Rescanning, Exact, Rowed, Purposeful, Carries,
       Consistent, Activating, Apart, Adding, Ending
  <2>4. \A u \in Torrents \ failed' : Brings(a, u) /\ Wanted(u) /\ u \notin client => Brings(a, u)'
    BY <1>9 DEF NotAdded, Brings, Registers, Unmarks, Rescans, Rescanning, Wanted, Seedable,
       Exact, Purposeful, Carries, Follows, Marked
  <2> QED BY <2>1, <2>2, <2>3, <2>4, LeavesWorld
<1>10. ASSUME NEW t \in Torrents, Reread(a, t) PROVE Exact'
  <2>1. Own(a) /\ SameWorld
    BY <1>10 DEF Reread, Own, SameWorld
  <2>2. Purposeful(a)'
    <3>1. /\ pc[a] = "reread" /\ next'[a] = "idle" /\ copy[a].row # "none"
          /\ \A u, v \in todo[a] : u = v
      BY <1>10 DEF Reread, Follows, Exact, Purposeful, Carries, Rescanning
    <3>2. \/ pc'[a] = "idle"
          \/ pc'[a] = "rewrite" /\ todo'[a] = todo[a] /\ copy'[a].row = copy[a].row
      BY <1>10 DEF Reread
    <3> QED BY <3>1, <3>2 DEF Purposeful, AddsSeedable, Registers, StaysOut, HasReason, Carries,
       Rescanning
  <2>3. \A u \in client \ failed' : Takes(a, u) /\ ~Wanted(u) => Takes(a, u)'
    BY <1>10 DEF Reread, Takes, Rescans, Rescanning, Exact, Rowed, Purposeful, Carries,
       Consistent, Activating, Apart, Adding, Ending
  <2>4. \A u \in Torrents \ failed' : Brings(a, u) /\ Wanted(u) /\ u \notin client => Brings(a, u)'
    BY <1>10 DEF Reread, Brings, Registers, Unmarks, Rescans, Rescanning, Wanted, Seedable,
       Exact, Purposeful, Carries, Follows, Marked
  <2> QED BY <2>1, <2>2, <2>3, <2>4, LeavesWorld
<1>11. ASSUME NEW t \in Torrents, Resolve(a, t) PROVE Exact'
  <2>1. Own(a) /\ SameWorld
    BY <1>11 DEF Resolve, Own, SameWorld
  <2>2. Purposeful(a)'
    BY <1>11 DEF Resolve, Exact, Purposeful, AddsSeedable, Registers, StaysOut, HasReason,
       Carries, Withheld, Seedable, Rescanning, Consistent, Activating, Apart, Adding, Ending
  <2>3. \A u \in client \ failed' : Takes(a, u) /\ ~Wanted(u) => Takes(a, u)'
    BY <1>11 DEF Resolve, Takes, Rescans, Rescanning, Exact, Rowed, Purposeful, Carries,
       Consistent, Activating, Apart, Adding, Ending
  <2>4. \A u \in Torrents \ failed' : Brings(a, u) /\ Wanted(u) /\ u \notin client => Brings(a, u)'
    BY <1>11 DEF Resolve, Brings, Registers, Unmarks, Rescans, Rescanning, Wanted, Seedable,
       Exact, Purposeful, Carries, Follows, Marked
  <2> QED BY <2>1, <2>2, <2>3, <2>4, LeavesWorld
<1> QED
  BY <1>1, <1>2, <1>3, <1>4, <1>5, <1>6, <1>7, <1>8, <1>9, <1>10, <1>11 DEF Reads

\* So does a call that changes the client, a mark, or files.
LEMMA ChangesSeeds ==
  ASSUME TypeOK, Follows, Apart, ~Stale, Consistent, Exact, OneKind, ~Stale',
         NEW a \in Actors, Proceeds(a)
  PROVE  Exact'
<1> USE DEF TypeOK, Goes, Handles, Continues, Copies, store, seeds, own
<1>1. CASE Flip(a)
  <2>1. Own(a)
    BY <1>1 DEF Flip, Writes, Own
  <2>2. SparesAdders
    <3>1. CASE copy[a].mark
      BY <1>1, <3>1 DEF Flip, Writes, SparesAdders
    <3>2. CASE ~copy[a].mark
      <4>1. a \in Ending
        BY <1>1, <3>2 DEF Flip, Ending, Adding, Rescanning
      <4>2. \A b \in Actors : b \notin Adding
        BY <4>1 DEF Apart
      <4>3. Adding' = {}
        <5>1. \A b \in Actors \ {a} : pc'[b] = pc[b] /\ copy'[b] = copy[b]
          BY <1>1 DEF Flip
        <5>2. pc'[a] \in {"unseed", "idle"}
          BY <1>1, <3>2 DEF Flip
        <5> QED BY <4>2, <5>1, <5>2 DEF Adding, Rescanning
      <4> QED BY <4>3 DEF SparesAdders
    <3> QED BY <3>1, <3>2
  <2>3. SparesEnders
    <3>1. CASE ~copy[a].mark
      BY <1>1, <3>1 DEF Flip, Writes, SparesEnders, Seedable, Withheld
    <3>2. CASE copy[a].mark
      <4>1. a \in Adding
        BY <1>1, <3>2 DEF Flip, Adding
      <4>2. \A b \in Actors : b \notin Ending
        BY <4>1 DEF Apart
      <4>3. Ending' = {}
        <5>1. \A b \in Actors \ {a} : pc'[b] = pc[b] /\ copy'[b] = copy[b]
          BY <1>1 DEF Flip
        <5>2. pc'[a] \in {"add", "idle"}
          BY <1>1, <3>2 DEF Flip
        <5> QED BY <4>2, <5>1, <5>2 DEF Ending, Adding, Rescanning
      <4> QED BY <4>3 DEF SparesEnders
    <3> QED BY <3>1, <3>2
  <2>4. Purposeful(a)'
    BY <1>1 DEF Flip, Writes, Exact, Purposeful, AddsSeedable, Registers, StaysOut, HasReason,
       Carries, Withheld, Seedable, Rescanning
  <2>5. Rowed'
    BY <1>1 DEF Flip, Writes, Exact, Rowed, Purposeful, AddsSeedable, Registers, Seedable,
       Carries, StaysOut, Rescanning
  <2>6. OwnsSurplus(a)
    BY <1>1 DEF Flip, Writes, OwnsSurplus, Takes, Rescans, Rescanning, Wanted, Seedable, Exact,
       Purposeful, StaysOut, Consistent, DrainIsWhole
  <2>7. OwnsMissing(a)
    BY <1>1 DEF Flip, Writes, OwnsMissing, Brings, Registers, Unmarks, Rescans, Rescanning,
       Wanted, Seedable, Exact, Purposeful, AddsSeedable, HasReason, Withheld
  <2> QED BY <2>1, <2>2, <2>3, <2>4, <2>5, <2>6, <2>7, OwnsItsStep
<1>2. CASE UnseedOne(a)
  <2>1. Own(a)
    BY <1>2 DEF UnseedOne, Own
  <2>2. SparesAdders
    BY <1>2 DEF UnseedOne, SparesAdders, OneKind, Apart, Adding, Ending, Rescanning
  <2>3. SparesEnders
    BY <1>2 DEF UnseedOne, SparesEnders, OneKind, Adding, Ending, Rescanning, Seedable, Withheld
  <2>4. Purposeful(a)'
    BY <1>2 DEF UnseedOne, Exact, Purposeful, AddsSeedable, Registers, StaysOut, HasReason,
       Carries, Withheld, Seedable, Rescanning
  <2>5. Rowed'
    BY <1>2 DEF UnseedOne, Exact, Rowed, Purposeful, AddsSeedable, Registers, Seedable, Carries,
       StaysOut, Rescanning
  <2>6. OwnsSurplus(a)
    BY <1>2 DEF UnseedOne, OwnsSurplus, Takes, Rescans, Rescanning, Wanted, Seedable, Exact,
       Purposeful, StaysOut, Consistent, DrainIsWhole
  <2>7. OwnsMissing(a)
    BY <1>2 DEF UnseedOne, OwnsMissing, Brings, Registers, Unmarks, Rescans, Rescanning, Wanted,
       Seedable, Exact, Purposeful, AddsSeedable, HasReason, Withheld
  <2> QED BY <2>1, <2>2, <2>3, <2>4, <2>5, <2>6, <2>7, OwnsItsStep
<1>3. CASE Drop(a)
  <2>1. Own(a)
    BY <1>3 DEF Drop, Own
  <2>2. SparesAdders
    BY <1>3 DEF Drop, SparesAdders, OneKind, Apart, Adding, Ending, Rescanning
  <2>3. SparesEnders
    BY <1>3 DEF Drop, SparesEnders, OneKind, Adding, Ending, Rescanning, Seedable, Withheld
  <2>4. Purposeful(a)'
    BY <1>3 DEF Drop, Exact, Purposeful, AddsSeedable, Registers, StaysOut, HasReason, Carries,
       Withheld, Seedable, Rescanning
  <2>5. Rowed'
    BY <1>3 DEF Drop, Exact, Rowed, Purposeful, AddsSeedable, Registers, Seedable, Carries,
       StaysOut, Rescanning
  <2>6. OwnsSurplus(a)
    BY <1>3 DEF Drop, OwnsSurplus, Takes, Rescans, Rescanning, Wanted, Seedable, Exact,
       Purposeful, StaysOut, Consistent, DrainIsWhole
  <2>7. OwnsMissing(a)
    BY <1>3 DEF Drop, OwnsMissing, Brings, Registers, Unmarks, Rescans, Rescanning, Wanted,
       Seedable, Exact, Purposeful, AddsSeedable, HasReason, Withheld
  <2> QED BY <2>1, <2>2, <2>3, <2>4, <2>5, <2>6, <2>7, OwnsItsStep
<1>4. CASE Rewrite(a)
  <2>1. Own(a)
    BY <1>4 DEF Rewrite, Writes, Own
  <2>2. SparesAdders
    <3>1. CASE copy[a].row = "clean"
      <4>1. \A u \in todo[a] : mark[u] = copy[a].mark
        BY <1>4 DEF Rewrite, Stale
      <4> QED BY <1>4, <3>1, <4>1 DEF Rewrite, Writes, SparesAdders
    <3>2. CASE copy[a].row # "clean"
      <4>1. a \in Ending
        BY <1>4, <3>2 DEF Rewrite, Ending, Adding, Rescanning
      <4>2. \A b \in Actors : b \notin Adding
        BY <4>1 DEF Apart
      <4>3. Adding' = {}
        BY <1>4, <3>2, <4>2 DEF Rewrite, Adding, Rescanning
      <4> QED BY <4>3 DEF SparesAdders
    <3> QED BY <3>1, <3>2
  <2>3. SparesEnders
    BY <1>4 DEF Rewrite, Writes, SparesEnders, OneKind, Adding, Ending, Rescanning, Seedable,
       Withheld
  <2>4. Purposeful(a)'
    BY <1>4 DEF Rewrite, Writes, Exact, Purposeful, AddsSeedable, Registers, StaysOut, HasReason,
       Carries, Withheld, Seedable, Rescanning
  <2>5. Rowed'
    BY <1>4 DEF Rewrite, Writes, Exact, Rowed, Purposeful, AddsSeedable, Registers, Seedable,
       Carries, StaysOut, Rescanning
  <2>6. OwnsSurplus(a)
    <3>1. /\ \A u \in todo[a] : mark[u] = copy[a].mark
          /\ copy[a].row \in {"clean", "not_clean"}
      BY <1>4 DEF Rewrite, Stale, Exact, Purposeful, Carries, Rescanning, RowVerdicts
    <3>2. \A u \in todo[a] : copy[a].row = "not_clean" => Takes(a, u)'
      BY <1>4 DEF Rewrite, Takes, Rescans, Rescanning
    <3>3. \A u \in client : u \notin todo[a] \/ copy[a].row = "clean" => (Wanted(u) => Wanted(u)')
      BY <1>4, <3>1 DEF Rewrite, Writes, Wanted, Seedable
    <3>4. \A u \in Torrents : Takes(a, u) => u \in todo[a] /\ copy[a].row = "not_clean"
      BY <1>4 DEF Rewrite, Takes, Rescans
    <3>5. client' = client /\ failed' = failed
      BY <1>4 DEF Rewrite
    <3> QED BY <3>1, <3>2, <3>3, <3>4, <3>5 DEF OwnsSurplus
  <2>7. OwnsMissing(a)
    BY <1>4 DEF Rewrite, Writes, OwnsMissing, Brings, Registers, Unmarks, Rescans, Rescanning,
       Wanted, Seedable, Exact, Purposeful, AddsSeedable, HasReason, Withheld
  <2> QED BY <2>1, <2>2, <2>3, <2>4, <2>5, <2>6, <2>7, OwnsItsStep
<1>5. CASE ClearMark(a)
  <2>1. Own(a)
    BY <1>5 DEF ClearMark, Writes, Own
  <2>2. SparesAdders
    <3>1. a \in Ending
      BY <1>5 DEF ClearMark, Ending, Adding, Rescanning
    <3>2. \A b \in Actors : b \notin Adding
      BY <3>1 DEF Apart
    <3>3. Adding' = {}
      BY <1>5, <3>2 DEF ClearMark, Adding, Rescanning
    <3> QED BY <3>3 DEF SparesAdders
  <2>3. SparesEnders
    <3>1. ~copy[a].mark
      BY <1>5 DEF ClearMark, Exact, Purposeful, Carries
    <3> QED BY <1>5, <3>1 DEF ClearMark, Writes, SparesEnders, Seedable, Withheld
  <2>4. Purposeful(a)'
    BY <1>5 DEF ClearMark, Writes, Exact, Purposeful, AddsSeedable, Registers, StaysOut,
       HasReason, Carries, Withheld, Seedable, Rescanning
  <2>5. Rowed'
    BY <1>5 DEF ClearMark, Writes, Exact, Rowed, Purposeful, AddsSeedable, Registers, Seedable,
       Carries, StaysOut, Rescanning
  <2>6. OwnsSurplus(a)
    BY <1>5 DEF ClearMark, Writes, OwnsSurplus, Takes, Rescans, Rescanning, Wanted, Seedable,
       Exact, Purposeful, StaysOut, Consistent, DrainIsWhole
  <2>7. OwnsMissing(a)
    <3>1. ~copy[a].mark
      BY <1>5 DEF ClearMark, Exact, Purposeful, Carries
    <3>2. \A u \in todo[a] : ~Wanted(u)'
      BY <1>5, <3>1 DEF ClearMark, Writes, Wanted, Seedable
    <3>3. \A u \in Torrents \ todo[a] : (Wanted(u)' <=> Wanted(u)) /\ ~Brings(a, u)
      BY <1>5 DEF ClearMark, Writes, Wanted, Seedable, Brings, Registers, Unmarks, Rescans,
         Rescanning
    <3>4. client' = client /\ panicked' = panicked /\ failed' = failed
      BY <1>5 DEF ClearMark
    <3> QED BY <3>2, <3>3, <3>4 DEF OwnsMissing
  <2> QED BY <2>1, <2>2, <2>3, <2>4, <2>5, <2>6, <2>7, OwnsItsStep
<1>6. CASE Erase(a)
  <2>1. Own(a)
    BY <1>6 DEF Erase, Own
  <2>2. SparesAdders
    BY <1>6 DEF Erase, SparesAdders, OneKind, Apart, Adding, Ending, Rescanning
  <2>3. SparesEnders
    BY <1>6 DEF Erase, SparesEnders, OneKind, Adding, Ending, Rescanning, Seedable, Withheld
  <2>4. Purposeful(a)'
    BY <1>6 DEF Erase, Exact, Purposeful, AddsSeedable, Registers, StaysOut, HasReason, Carries,
       Withheld, Seedable, Rescanning
  <2>5. Rowed'
    BY <1>6 DEF Erase, Exact, Rowed, Purposeful, AddsSeedable, Registers, Seedable, Carries,
       StaysOut, Rescanning
  <2>6. OwnsSurplus(a)
    BY <1>6 DEF Erase, OwnsSurplus, Takes, Rescans, Rescanning, Wanted, Seedable, Exact,
       Purposeful, StaysOut, Consistent, DrainIsWhole
  <2>7. OwnsMissing(a)
    BY <1>6 DEF Erase, OwnsMissing, Brings, Registers, Unmarks, Rescans, Rescanning, Wanted,
       Seedable, Exact, Purposeful, AddsSeedable, HasReason, Withheld
  <2> QED BY <2>1, <2>2, <2>3, <2>4, <2>5, <2>6, <2>7, OwnsItsStep
<1>7. CASE DeleteRow(a)
  <2>1. Own(a)
    BY <1>7 DEF DeleteRow, Writes, Own
  <2>2. SparesAdders
    <3>1. a \in Ending
      BY <1>7 DEF DeleteRow, Ending, Adding, Rescanning
    <3>2. \A b \in Actors : b \notin Adding
      BY <3>1 DEF Apart
    <3>3. Adding' = {}
      BY <1>7, <3>2 DEF DeleteRow, Adding, Rescanning
    <3> QED BY <3>3 DEF SparesAdders
  <2>3. SparesEnders
    BY <1>7 DEF DeleteRow, Writes, SparesEnders, OneKind, Adding, Ending, Rescanning, Seedable,
       Withheld
  <2>4. Purposeful(a)'
    BY <1>7 DEF DeleteRow, Writes, Exact, Purposeful, AddsSeedable, Registers, StaysOut,
       HasReason, Carries, Withheld, Seedable, Rescanning
  <2>5. Rowed'
    BY <1>7 DEF DeleteRow, Writes, Exact, Rowed, Purposeful, AddsSeedable, Registers, Seedable,
       Carries, StaysOut, Rescanning
  <2>6. OwnsSurplus(a)
    BY <1>7 DEF DeleteRow, Writes, OwnsSurplus, Takes, Rescans, Rescanning, Wanted, Seedable,
       Exact, Purposeful, StaysOut, Consistent, DrainIsWhole
  <2>7. OwnsMissing(a)
    BY <1>7 DEF DeleteRow, Writes, OwnsMissing, Brings, Registers, Unmarks, Rescans, Rescanning,
       Wanted, Seedable, Exact, Purposeful, AddsSeedable, HasReason, Withheld
  <2> QED BY <2>1, <2>2, <2>3, <2>4, <2>5, <2>6, <2>7, OwnsItsStep
<1>8. ASSUME NEW t \in Torrents, Add(a, t) PROVE Exact'
  <2>1. Own(a)
    BY <1>8 DEF Add, Own
  <2>2. SparesAdders
    BY <1>8 DEF Add, SparesAdders, OneKind, Apart, Adding, Ending, Rescanning
  <2>3. SparesEnders
    BY <1>8 DEF Add, SparesEnders, OneKind, Adding, Ending, Rescanning, Seedable, Withheld
  <2>4. Purposeful(a)'
    BY <1>8 DEF Add, Exact, Purposeful, AddsSeedable, Registers, StaysOut, HasReason, Carries,
       Withheld, Seedable, Rescanning
  <2>5. Rowed'
    BY <1>8 DEF Add, Exact, Rowed, Purposeful, AddsSeedable, Registers, Seedable, Carries,
       StaysOut, Rescanning
  <2>6. OwnsSurplus(a)
    <3>1. /\ Seedable(t) /\ t \in data /\ pc[a] = "add"
          /\ client' = client \union {t} /\ failed' = failed \ {t}
      BY <1>8 DEF Add, Exact, Purposeful, AddsSeedable, Registers
    <3>2. \A u \in Torrents : Wanted(u)' <=> Wanted(u)
      BY <1>8 DEF Add, Wanted, Seedable
    <3> QED BY <3>1, <3>2 DEF OwnsSurplus, Takes, Rescans, Rescanning, Wanted
  <2>7. OwnsMissing(a)
    BY <1>8 DEF Add, OwnsMissing, Brings, Registers, Unmarks, Rescans, Rescanning, Wanted,
       Seedable, Exact, Purposeful, AddsSeedable, HasReason, Withheld
  <2> QED BY <2>1, <2>2, <2>3, <2>4, <2>5, <2>6, <2>7, OwnsItsStep
<1> QED
  BY <1>1, <1>2, <1>3, <1>4, <1>5, <1>6, <1>7, <1>8, InTurn DEF Proceeds, Reads

\* Nothing is seeded, wanted or under way at first.
LEMMA StartsExact == SeedsInit => Exact
BY DEF SeedsInit, Exact, Purposeful, AddsSeedable, Registers, StaysOut, HasReason, Carries,
   Rescanning, Rowed, SurplusGoes, MissingComes, Wanted, Seedable

\* Every step keeps the seeds to what is wanted, as far as no call answers for
\* the difference.
LEMMA ExactKept ==
  SeedsInv /\ (~crossed => Exact) /\ [SeedsNext]_seeding => (~crossed => Exact)'
<1> SUFFICES ASSUME SeedsInv, ~crossed => Exact, [SeedsNext]_seeding, ~crossed' PROVE Exact'
  OBVIOUS
<1>1. CASE UNCHANGED seeding
  <2>1. Exact
    BY <1>1 DEF seeding
  <2>2. UNCHANGED <<row, mark, data, enabled, panicked, client, pc, next, todo, copy, failed>>
    BY <1>1 DEF seeding, store, seeds, own
  <2>3. \A a \in Actors : Purposeful(a)'
    BY <2>1, <2>2 DEF Exact, Purposeful, AddsSeedable, Registers, StaysOut, HasReason, Carries,
       Withheld, Seedable
  <2>4. Rowed' /\ SurplusGoes' /\ MissingComes'
    BY <2>1, <2>2 DEF Exact, Rowed, SurplusGoes, MissingComes, Wanted, Seedable, Takes, Brings,
       Registers, Unmarks, Rescans
  <2> QED BY <2>3, <2>4 DEF Exact
<1>2. CASE SeedsNext
  <2>1. ~crossed /\ OneKind /\ ~Stale'
    BY <1>2 DEF SeedsNext, NoteCrossing, SeedsInv, TypeOK, OneKind
  <2>2. Apart /\ ~Stale /\ Consistent /\ TypeOK /\ Follows /\ Exact
    BY <2>1 DEF SeedsInv, Accounted
  <2> QED BY <1>2, <2>1, <2>2, ChangesWorld, ChangesSeeds DEF SeedsNext
<1> QED BY <1>1, <1>2

(* The calls of the seeding engine and of the controller keep their state  *)
(* well typed.                                                             *)
THEOREM SeedsTypeCorrect == SeedsSpec => []TypeOK
<1>1. SeedsInit => TypeOK
  BY StartsEmpty DEF SeedsInv
<1> QED
  BY <1>1, TypesKept, PTL DEF SeedsSpec

(* Between calls the active set is what the seeding client has, whichever  *)
(* calls of one kind overlapped: UnseedOne looks a torrent up there before *)
(* it drops it, and would leave one seeding that it does not find          *)
(* (SeedEngine's Add, Remove, DrainAll; seedController).                   *)
THEOREM ActiveIsTheClients == SeedsSpec => []ActiveIsRegistered
<1>1. SeedsInv /\ [SeedsNext]_seeding => SeedsInv'
  BY TypesKept, FollowsKept, AccountedKept DEF SeedsInv
<1>2. SeedsInv => ActiveIsRegistered
  <2> SUFFICES ASSUME SeedsInv, Quiet, ~crossed PROVE active = client
    BY DEF ActiveIsRegistered
  <2>1. Activating /\ Deactivating
    BY DEF SeedsInv, Accounted, Consistent
  <2> QED
    BY <2>1 DEF Activating, Deactivating, Quiet
<1> QED
  BY <1>1, <1>2, StartsEmpty, PTL DEF SeedsSpec

(* Between calls the client seeds exactly what is clean, marked and there, *)
(* with the switch on, and nothing with it off, however many calls that    *)
(* add, or calls that end seeds, overlapped their like; rows, marks and    *)
(* the switch were read long before they were acted on (seedController).   *)
THEOREM SeedsWhatIsWanted == SeedsSpec => []SeedsExactlyWanted
<1>1. SeedsInit => SeedsInv /\ (~crossed => Exact)
  BY StartsEmpty, StartsExact
<1>2. SeedsInv /\ (~crossed => Exact) /\ [SeedsNext]_seeding
        => (SeedsInv /\ (~crossed => Exact))'
  BY TypesKept, FollowsKept, AccountedKept, ExactKept DEF SeedsInv
<1>3. SeedsInv /\ (~crossed => Exact) => SeedsExactlyWanted
  <2> SUFFICES ASSUME TypeOK, Exact, Quiet, ~panicked
               PROVE  client \ failed = WantedSeeds \ failed
    BY DEF SeedsInv, SeedsExactlyWanted
  <2>1. \A t \in client \ failed : Wanted(t)
    BY DEF Exact, SurplusGoes, Takes, Rescans, Rescanning, Quiet
  <2>2. \A t \in Torrents \ failed : Wanted(t) => t \in client
    BY DEF Exact, MissingComes, Brings, Registers, Unmarks, Rescans, Rescanning, Quiet
  <2>3. \A t \in Torrents : Wanted(t) <=> t \in WantedSeeds
    BY DEF TypeOK, Wanted, Seedable, WantedSeeds, Marked
  <2>4. client \subseteq Torrents /\ WantedSeeds \subseteq Torrents
    BY DEF TypeOK, WantedSeeds, Marked
  <2> QED BY <2>1, <2>2, <2>3, <2>4
<1> QED
  BY <1>1, <1>2, <1>3, PTL DEF SeedsSpec

-----------------------------------------------------------------------------
(* Re-scans: the invariant                                                 *)


\* The folders a delivered file may be used from.
Kept  == {"clean", "scan"}

\* The target that file f is when found below r.
At(f, r) == [file |-> f, root |-> r]

\* A job that moves its files to clean/, or to quarantine.
Cleaning(j) == job[j].pc = "move" /\ job[j].result = "clean"
Sweeping(j) == job[j].pc = "move" /\ job[j].result = "threats_found"

\* d has no file in a delivery folder that is not clean, and no record of a threat.
HasThreat(d) == \E f \in Files : scans[d][f] = "threat"
Cleared(d) ==
  /\ \A f \in FilesOf(d) : place[f] \in Kept => nature[f] = "clean"
  /\ ~HasThreat(d)
BadRecorded(d) == \E f \in Files : nature[f] = "threat" /\ scans[d][f] \in {"threat", "unscanned"}

\* A job is about to write verdict v into the row of its download, and the
\* download's row has it, or will.
Telling(j, v) ==
  \/ job[j].pc \in {"get", "set"} /\ job[j].result = v
  \/ job[j].pc = "clear" /\ ours[j].result = v
Says(d, v) ==
  \/ record[d].here /\ record[d].result = v
  \/ \E j \in Jobs : job[j].id = d /\ Telling(j, v)

\* A job is about to move f from scan/ to clean/.
BeingMoved(f) ==
  \E j \in Jobs : Cleaning(j) /\ job[j].id = f.of /\ At(f, "scan") \in job[j].todo

\* What a job has in hand.
JobTargets(j) ==
  /\ job[j].todo \subseteq job[j].targets /\ job[j].moved \subseteq job[j].targets
  /\ job[j].pc \in {"idle", "collect"} => job[j].targets = {} /\ job[j].result = "none"
  /\ \A t, u \in job[j].targets : t.file = u.file => t = u
  /\ \A t \in job[j].targets :
       /\ place[t.file] = "scan" => t.root = "scan"
       /\ t.file.of \in Singles => job[j].id \in Singles
  /\ job[j].pc = "move" /\ job[j].result \notin {"clean", "threats_found"} => job[j].todo = {}
  /\ Cleaning(j) => \A t \in job[j].todo : t.root = "scan"
Targeted == \A j \in Jobs : JobTargets(j)

\* Whose files a job has, and whom a report names, unless files strayed.
OwnTargets(j) ==
  \A t \in job[j].targets : t.file.of = job[j].id \/ {t.file.of, job[j].id} \subseteq strayed
OwnReports ==
  /\ \A r \in Roots, k \in Keys, d \in Downloads : report[r][k] = d /\ k # Key(d) => d \in strayed
  /\ \A r \in Roots : report[r]["top"] \in Singles \union {None}
OwnFiles == OwnReports /\ \A j \in Jobs : OwnTargets(j)

\* A record tells what the file is, and what it calls a threat is out of reach,
\* unless it is stuck; a job has a record of every file it is done scanning.
TrueRecords ==
  \A d \in Downloads, f \in Files :
    /\ scans[d][f] = "clean" => nature[f] = "clean"
    /\ scans[d][f] = "threat" => nature[f] = "threat" /\ (place[f] \in Kept => f \in stuck)
JobScans(j) ==
  job[j].pc = "scan" =>
    \A t \in job[j].targets \ job[j].todo : scans[job[j].id][t.file] # "none"
Recorded == TrueRecords /\ \A j \in Jobs : JobScans(j)

\* What a scan does not see of its download is clean, or being moved, or stuck.
JobCovers(j) ==
  job[j].pc = "scan" /\ job[j].id \notin strayed =>
    \A f \in FilesOf(job[j].id) : place[f] \in Kept =>
      \/ At(f, place[f]) \in job[j].targets
      \/ f \in stuck
      \/ Cleared(job[j].id) /\ (place[f] = "scan" => BeingMoved(f))
Covered == \A j \in Jobs : JobCovers(j)

\* What got stuck did in the hands of a job that had its verdict, or for a threat.
StuckTold == \A f \in stuck : f.of \in strayed \/ Cleared(f.of) \/ BadRecorded(f.of)

\* What a job acts on is so: of a clean download nothing bad is in reach, and one
\* with a threat has been told of it; no two jobs of one download disagree.
Verdicts ==
  \A j \in Jobs : job[j].id \notin strayed =>
    /\ Cleaning(j) => Cleared(job[j].id)
    /\ Sweeping(j) => BadRecorded(job[j].id)
    /\ Sweeping(j) => \A i \in Jobs : job[i].id = job[j].id => ~Cleaning(i)

\* A job that found a threat has what is left of its download before it.
Swept ==
  \A j \in Jobs : job[j].id \notin strayed /\ Sweeping(j) =>
    \A f \in FilesOf(job[j].id) :
      place[f] \in Kept => At(f, place[f]) \in job[j].todo \/ f \in stuck

\* A row that tells of a threat, or will: nothing of the download is in reach.
Threatened ==
  \A d \in Downloads \ strayed : Says(d, "threats_found") =>
    \A f \in FilesOf(d) : place[f] \in Kept => f \in stuck

\* Who says that d is clean: then what waits in scan/ is on its way.
SaysClean(d) ==
  \/ \E j \in Jobs : Cleaning(j) /\ job[j].id = d
  \/ report["clean"][Key(d)] = d
  \/ Says(d, "clean")
Moved ==
  \A d \in Downloads \ strayed : SaysClean(d) =>
    \A f \in FilesOf(d) : place[f] = "scan" => BeingMoved(f) \/ f \in stuck

\* Where a download lies a report names one of the place, or is about to.
Reported ==
  \A d \in Downloads \ strayed, r \in Kept : Item(r, d) # {} =>
     \/ \E e \in Downloads : Key(e) = Key(d) /\ report[r][Key(d)] = e
     \/ r = "clean" /\ \E j \in Jobs : Cleaning(j) /\ job[j].id = d

\* A job writes the verdict it came to.
Copied == \A j \in Jobs : job[j].pc = "set" => ours[j].result = job[j].result

\* Of a download that one scan at a time has, the row has the verdict when the
\* seeding is brought in line with it, and when the mark is cleared.
FaithfulAt(j) ==
  job[j].id \notin raced =>
    /\ job[j].pc \in {"seed", "clear"} /\ record[job[j].id].here =>
         record[job[j].id].result = job[j].result
    /\ job[j].pc = "clear" =>
         job[j].result # "clean" /\ ours[j].result = job[j].result /\ job[j].id \notin seeded
Faithful == \A j \in Jobs : FaithfulAt(j)

\* What is seeded then without being clean is about to be ended.
Unclean(d) == record[d].here /\ record[d].result # "clean"
Ends(d) == \E j \in Jobs : job[j].id = d /\ job[j].pc = "seed" /\ job[j].result # "clean"
SeedsEnd == \A d \in Downloads \ raced : Unclean(d) /\ d \in seeded => Ends(d)

\* Downloads whose files one scan at a time has, and could move: its verdict is
\* the record's.
Done == {"move", "get", "set", "seed", "clear"}
Lone(d) == d \notin strayed \union raced /\ FilesOf(d) \intersect stuck = {}
AloneAt(j) ==
  Lone(job[j].id) =>
    /\ job[j].pc = "scan" => \A t \in job[j].todo : place[t.file] = t.root
    /\ job[j].pc \in Done => (HasThreat(job[j].id) <=> job[j].result = "threats_found")
Alone ==
  /\ \A i, j \in Jobs : job[i].id = job[j].id /\ job[i].id # None /\ job[i].id \notin raced =>
       i = j
  /\ \A j \in Jobs : AloneAt(j)

\* Then a file in quarantine has its record, and the record its row.
AtThreat(d) ==
  \E j \in Jobs : /\ job[j].id = d
                  /\ \/ job[j].pc = "scan"
                     \/ job[j].pc \in {"move", "get", "set"} /\ job[j].result = "threats_found"
ThreatKept ==
  \A d \in Downloads : Lone(d) =>
    /\ Item("quarantine", d) # {} => HasThreat(d)
    /\ record[d].here /\ HasThreat(d) => record[d].result = "threats_found" \/ AtThreat(d)

-----------------------------------------------------------------------------
\* Files and what names them.
LEMMA FileFacts ==
  /\ \A f \in Files : f.of \in Downloads
  /\ \A d : \A f \in FilesOf(d) : f \in Files /\ f.of = d
  /\ \A f \in Files : f \in FilesOf(f.of)
  /\ \A d \in Singles : \A f, g \in FilesOf(d) : f = g
<1>1. \A f \in Files : f.of \in Downloads
  BY DEF Files, Downloads
<1>2. \A d \in Singles : \A f \in Files : f.of = d => f = [of |-> d, n |-> 1]
  BY ReportsAreTold DEF Files
<1> QED
  BY <1>1, <1>2 DEF FilesOf

LEMMA TargetFacts ==
  /\ \A t \in Targets : t.file \in Files /\ t.root \in Kept /\ t = At(t.file, t.root)
  /\ \A f, r : At(f, r).file = f /\ At(f, r).root = r
  /\ \A f \in Files, r \in Kept : At(f, r) \in Targets
BY DEF Targets, At, Kept

LEMMA KeyFacts ==
  /\ \A d \in Downloads : Key(d) \in Keys
  /\ \A d \in Folders : Key(d) = d
  /\ \A d \in Singles : Key(d) = "top"
  /\ None \notin Downloads
BY ReportsAreTold, NoneIsNoDownload DEF Keys, Key, Downloads

\* What job j has in hand after a step; the other jobs stay as they are.
Becomes(j, stage, of, found, left, taken, verdict) ==
  /\ job'[j].pc = stage /\ job'[j].id = of
  /\ job'[j].targets = found /\ job'[j].todo = left /\ job'[j].moved = taken
  /\ job'[j].result = verdict
  /\ \A i \in Jobs : i # j => job'[i] = job[i]

\* Jobs are records; a job assigned one stays a job.
JobType == [pc : {"idle", "collect", "scan", "move", "get", "set", "seed", "clear"},
            id : Downloads \union {None},
            targets : SUBSET Targets, todo : SUBSET Targets, moved : SUBSET Targets,
            result : Results]

LEMMA HasType ==
  RescanTypeOK => /\ job \in [Jobs -> JobType] /\ record \in [Downloads -> Row]
                  /\ ours \in [Jobs -> Row]
BY DEF RescanTypeOK, JobType

LEMMA Assigned ==
  ASSUME RescanTypeOK, NEW j \in Jobs, NEW v \in JobType, job' = [job EXCEPT ![j] = v]
  PROVE  /\ job' \in [Jobs -> JobType]
         /\ Becomes(j, v.pc, v.id, v.targets, v.todo, v.moved, v.result)
BY HasType DEF Becomes

\* What each step does, with the types of what it assigns: one formula per
\* operation, of which the proofs below use the conjuncts they need.
Started(j, d) ==
  /\ Becomes(j, "collect", d, {}, {}, {}, "none") /\ job[j].id = None
  /\ UNCHANGED <<place, report, record, seeded, scans, loaded, nature, strayed, ours, stuck>>
  /\ raced' = raced \union (IF Holders(d) = {} THEN {} ELSE {d})
  /\ job' \in [Jobs -> JobType]

\* Start, on typed jobs.
LEMMA StartJob ==
  ASSUME RescanTypeOK, Targeted, NEW j \in Jobs, NEW d \in Downloads, Start(j, d)
  PROVE  Started(j, d)
<1>1. job[j].pc = "idle" /\ job[j].id = None
  BY DEF RescanTypeOK, Start, Running
<1>2. job[j].targets = {} /\ job[j].todo = {} /\ job[j].moved = {} /\ job[j].result = "none"
  BY <1>1 DEF Targeted, JobTargets
<1> DEFINE v == [[job[j] EXCEPT !.pc = "collect"] EXCEPT !.id = d]
<1>3. job[j] \in JobType
  BY HasType
<1>4. v \in JobType
  BY <1>3 DEF JobType
<1>5. job' = [job EXCEPT ![j] = v]
  BY HasType DEF Start
<1>6. /\ v.pc = "collect" /\ v.id = d /\ v.targets = job[j].targets /\ v.todo = job[j].todo
      /\ v.moved = job[j].moved /\ v.result = job[j].result
  BY <1>3 DEF JobType
<1> HIDE DEF v
<1>7. job' \in [Jobs -> JobType] /\ Becomes(j, v.pc, v.id, v.targets, v.todo, v.moved, v.result)
  BY <1>4, <1>5, Assigned
<1> QED
  BY <1>1, <1>2, <1>6, <1>7 DEF Start, disk, records, world, errors, Started

\* What Found returns: targets where they are, all of d's that are in reach if
\* the client has it, what its report stands for if not.
LEMMA FoundIs ==
  ASSUME RescanTypeOK, NEW d
  PROVE  /\ Found(d) \subseteq Targets
         /\ \A t \in Found(d) : place[t.file] = t.root
         /\ d \in loaded => \A f \in FilesOf(d) : place[f] \in Kept =>
              At(f, place[f]) \in Found(d)
         /\ d \in loaded => \A t \in Found(d) : t.file.of = d
         /\ d \notin loaded => \A f \in DiskTargets(d) : At(f, place[f]) \in Found(d)
         /\ d \notin loaded => \A t \in Found(d) : t.file \in DiskTargets(d)
<1>1. \A f \in RegisteredTargets(d) : f \in Files /\ place[f] \in Kept /\ f.of = d
  BY DEF RegisteredTargets, FilesOf, Kept
<1>2. \A f \in DiskTargets(d) : f \in Files /\ place[f] \in Kept
  BY DEF DiskTargets, CollectDelivered, Below, Kept
<1>3. \A t \in Found(d) : \E f \in IF d \in loaded THEN RegisteredTargets(d) ELSE DiskTargets(d) :
        t = At(f, place[f])
  BY DEF Found, At
<1>4. \A f \in IF d \in loaded THEN RegisteredTargets(d) ELSE DiskTargets(d) :
        At(f, place[f]) \in Found(d)
  BY DEF Found, At
<1>5. \A f \in FilesOf(d) : place[f] \in Kept => f \in RegisteredTargets(d)
  BY DEF RegisteredTargets, Kept
<1> QED
  BY <1>1, <1>2, <1>3, <1>4, <1>5, TargetFacts

Owners(S) == {t.file.of : t \in S}

Collected(j) ==
  /\ job[j].pc = "collect" /\ job[j].id \in Downloads
  /\ \/ Becomes(j, "idle", None, {}, {}, {}, "none")
     \/ /\ Found(job[j].id) # {}
        /\ Becomes(j, "scan", job[j].id, Found(job[j].id), Found(job[j].id), {}, "none")
  /\ UNCHANGED <<place, report, record, seeded, scans, loaded, nature, raced, ours, stuck>>
  /\ strayed \subseteq strayed'
  /\ \A t \in Found(job[j].id) :
       t.file.of = job[j].id \/ {t.file.of, job[j].id} \subseteq strayed'
  /\ strayed' \subseteq Downloads
  /\ job' \in [Jobs -> JobType]

\* Collect, likewise.
LEMMA CollectJob ==
  ASSUME RescanTypeOK, Targeted, NEW j \in Jobs, Collect(j)
  PROVE  Collected(j)
<1>1. job[j].pc = "collect" /\ job[j].targets = {} /\ job[j].result = "none"
  BY DEF Collect, Targeted, JobTargets
<1>2. job[j] \in JobType
  BY HasType
<1>3. job[j].id \in Downloads /\ job[j].moved = {}
  BY <1>1, <1>2 DEF RescanTypeOK, Running, JobType, Targeted, JobTargets
<1> DEFINE d == job[j].id
           S == Found(d)
           v == [[[job[j] EXCEPT !.pc = "scan"] EXCEPT !.targets = S] EXCEPT !.todo = S]
<1>4. S \subseteq Targets
  BY FoundIs
<1>5. v \in JobType /\ Idle \in JobType
  BY <1>2, <1>4 DEF JobType, Idle, Results
<1>6. /\ v.pc = "scan" /\ v.id = job[j].id /\ v.targets = S /\ v.todo = S
      /\ v.moved = job[j].moved /\ v.result = job[j].result
  BY <1>2 DEF JobType
<1>7. /\ Idle.pc = "idle" /\ Idle.id = None /\ Idle.targets = {} /\ Idle.todo = {} /\ Idle.moved = {}
      /\ Idle.result = "none"
  BY DEF Idle
<1>8. CASE S = {}
  <2>1. job' = [job EXCEPT ![j] = Idle]
    BY <1>8 DEF Collect, End
  <2> HIDE DEF v, S
  <2>2. job' \in [Jobs -> JobType] /\ Becomes(j, "idle", None, {}, {}, {}, "none")
    BY <1>5, <1>7, <2>1, Assigned
  <2> QED
    BY <1>1, <1>3, <1>8, <2>2 DEF Collect, disk, records, world, errors, RescanTypeOK, S, Collected
<1>9. CASE S # {}
  <2>1. job' = [job EXCEPT ![j] = v]
    BY <1>9, HasType DEF Collect
  <2>2. \A t \in S : t.file \in Files /\ t.file.of \in Downloads
    BY <1>4, TargetFacts, FileFacts
  <2>3. strayed' = strayed \union (IF Owners(S) \subseteq {d} THEN {} ELSE Owners(S) \union {d})
    BY DEF Collect, Owners
  <2>4. Owners(S) \subseteq Downloads /\ \A t \in S : t.file.of \in Owners(S)
    BY <2>2 DEF Owners
  <2> HIDE DEF v, S
  <2>5. job' \in [Jobs -> JobType] /\ Becomes(j, "scan", d, S, S, {}, "none")
    BY <1>1, <1>3, <1>5, <1>6, <2>1, Assigned
  <2>6. /\ strayed \subseteq strayed' /\ strayed' \subseteq Downloads
        /\ \A t \in S : t.file.of = d \/ {t.file.of, d} \subseteq strayed'
    <3>1. strayed \subseteq Downloads
      BY DEF RescanTypeOK
    <3> QED
      BY <1>3, <2>3, <2>4, <3>1
  <2>7. UNCHANGED <<place, report, record, seeded, scans, loaded, nature, raced, ours, stuck>>
    BY DEF Collect, disk, records, world, errors
  <2> QED
    BY <1>1, <1>3, <1>9, <2>5, <2>6, <2>7 DEF S, Collected
<1> QED
  BY <1>8, <1>9

Judges(t, v) ==
  /\ v \in {"clean", "threat", "unscanned"}
  /\ v # "unscanned" => place[t.file] = t.root /\ nature[t.file] = v
  /\ nature[t.file] = "threat" => v \in {"threat", "unscanned"}

Scanned(j, t) ==
  /\ job[j].pc = "scan" /\ t \in Targets /\ job[j].id \in Downloads
  /\ Becomes(j, "scan", job[j].id, job[j].targets, job[j].todo \ {t}, job[j].moved, job[j].result)
  /\ \E v : /\ Judges(t, v)
            /\ scans' = [scans EXCEPT ![job[j].id][t.file] = v]
            /\ \/ v = "threat" /\ place' = [place EXCEPT ![t.file] = "quarantine"] /\ stuck' = stuck
               \/ v = "threat" /\ place' = place /\ stuck' = stuck \union {t.file}
               \/ v # "threat" /\ place' = place /\ stuck' = stuck
  /\ UNCHANGED <<report, record, seeded, loaded, nature, strayed, raced, ours>>
  /\ job' \in [Jobs -> JobType]

\* Scan, likewise.
LEMMA ScanJob ==
  ASSUME RescanTypeOK, NEW j \in Jobs, NEW t \in job[j].todo, Scan(j, t)
  PROVE  Scanned(j, t)
<1>1. job[j].pc = "scan"
  BY DEF Scan
<1>2. job[j] \in JobType
  BY HasType
<1>3. job[j].id \in Downloads /\ t \in Targets
  BY <1>1, <1>2 DEF RescanTypeOK, Running, JobType
<1> DEFINE v == [job[j] EXCEPT !.todo = job[j].todo \ {t}]
<1>4. v \in JobType
  BY <1>2 DEF JobType
<1>5. /\ v.pc = job[j].pc /\ v.id = job[j].id /\ v.targets = job[j].targets /\ v.todo = job[j].todo \ {t}
      /\ v.moved = job[j].moved /\ v.result = job[j].result
  BY <1>2 DEF JobType
<1>6. job' = [job EXCEPT ![j] = v]
  BY HasType DEF Scan
<1> HIDE DEF v
<1>7. job' \in [Jobs -> JobType] /\ Becomes(j, v.pc, v.id, v.targets, v.todo, v.moved, v.result)
  BY <1>4, <1>6, Assigned
<1>8. \A w \in {Verdict(t), "unscanned"} : Judges(t, w)
  BY <1>3, TargetFacts DEF Verdict, Judges, RescanTypeOK
<1>9. PICK w \in {Verdict(t), "unscanned"}, stays \in BOOLEAN :
        /\ stays => w = "threat"
        /\ scans' = [scans EXCEPT ![job[j].id][t.file] = w]
        /\ place' = IF w = "threat" /\ ~stays THEN [place EXCEPT ![t.file] = "quarantine"] ELSE place
        /\ stuck' = IF stays THEN stuck \union {t.file} ELSE stuck
  BY DEF Scan
<1>10. \/ w = "threat" /\ place' = [place EXCEPT ![t.file] = "quarantine"] /\ stuck' = stuck
       \/ w = "threat" /\ place' = place /\ stuck' = stuck \union {t.file}
       \/ w # "threat" /\ place' = place /\ stuck' = stuck
  BY <1>9
<1>11. UNCHANGED <<report, record, seeded, loaded, nature, strayed, raced, ours>>
  BY DEF Scan, world, history
<1> QED
  BY <1>1, <1>3, <1>5, <1>7, <1>8, <1>9, <1>10, <1>11 DEF Scanned

Summarised(j) ==
  /\ job[j].pc = "scan" /\ job[j].todo = {} /\ job[j].id \in Downloads
  /\ Becomes(j, "move", job[j].id, job[j].targets,
             IF Summary(job[j].id) = "unscanned" THEN {}
             ELSE {t \in job[j].targets : t.root # Destination(Summary(job[j].id))},
             job[j].moved, Summary(job[j].id))
  /\ UNCHANGED <<place, report, record, seeded, scans, loaded, nature, strayed, raced, ours, stuck>>
  /\ job' \in [Jobs -> JobType]

\* Summarise, likewise.
LEMMA SummariseJob ==
  ASSUME RescanTypeOK, NEW j \in Jobs, Summarise(j)
  PROVE  Summarised(j)
<1>1. job[j].pc = "scan" /\ job[j].todo = {}
  BY DEF Summarise
<1>2. job[j] \in JobType
  BY HasType
<1>3. job[j].id \in Downloads
  BY <1>1, <1>2 DEF RescanTypeOK, Running, JobType
<1> DEFINE r == Summary(job[j].id)
           S == IF r = "unscanned" THEN {} ELSE {t \in job[j].targets : t.root # Destination(r)}
           v == [[[job[j] EXCEPT !.pc = "move"] EXCEPT !.result = r] EXCEPT !.todo = S]
<1>4. r \in {"clean", "unscanned", "threats_found"}
  BY DEF Summary
<1>5. S \subseteq Targets
  BY <1>2 DEF JobType
<1>6. job' = [job EXCEPT ![j] = v]
  BY HasType DEF Summarise
<1> HIDE DEF r, S
<1>7. v \in JobType
  BY <1>2, <1>4, <1>5 DEF JobType, Results
<1>8. /\ v.pc = "move" /\ v.id = job[j].id /\ v.targets = job[j].targets /\ v.todo = S
      /\ v.moved = job[j].moved /\ v.result = r
  BY <1>2 DEF JobType
<1> HIDE DEF v
<1>9. job' \in [Jobs -> JobType] /\ Becomes(j, v.pc, v.id, v.targets, v.todo, v.moved, v.result)
  BY <1>6, <1>7, Assigned
<1> QED
  BY <1>1, <1>3, <1>8, <1>9 DEF Summarise, disk, records, world, history, errors, r, S, Summarised

MovedOne(j, t) ==
  /\ job[j].pc = "move" /\ t \in Targets /\ job[j].id \in Downloads
  /\ \E m \in {job[j].moved, job[j].moved \union {t}} :
       Becomes(j, "move", job[j].id, job[j].targets, job[j].todo \ {t}, m, job[j].result)
  /\ \/ /\ place[t.file] = t.root /\ stuck' = stuck
        /\ place' = [place EXCEPT ![t.file] = Destination(job[j].result)]
     \/ place[t.file] = t.root /\ place' = place /\ stuck' = stuck \union {t.file}
     \/ place[t.file] # t.root /\ place' = place /\ stuck' = stuck
  /\ UNCHANGED <<report, record, seeded, scans, loaded, nature, strayed, raced, ours>>
  /\ job' \in [Jobs -> JobType]

\* Move, likewise.
LEMMA MoveJob ==
  ASSUME RescanTypeOK, NEW j \in Jobs, NEW t \in job[j].todo, Move(j, t)
  PROVE  MovedOne(j, t)
<1>1. job[j].pc = "move"
  BY DEF Move
<1>2. job[j] \in JobType
  BY HasType
<1>3. job[j].id \in Downloads /\ t \in Targets
  BY <1>1, <1>2 DEF RescanTypeOK, Running, JobType
<1>4. PICK moves \in IF place[t.file] = t.root THEN BOOLEAN ELSE {FALSE} :
        /\ stuck' = IF place[t.file] = t.root /\ ~moves THEN stuck \union {t.file} ELSE stuck
        /\ place' = IF moves THEN [place EXCEPT ![t.file] = Destination(job[j].result)] ELSE place
        /\ job' = [job EXCEPT ![j].todo = @ \ {t}, ![j].moved = IF moves THEN @ \union {t} ELSE @]
  BY DEF Move
<1> DEFINE M == IF moves THEN job[j].moved \union {t} ELSE job[j].moved
           v == [[job[j] EXCEPT !.todo = job[j].todo \ {t}] EXCEPT !.moved = M]
<1>5. M \subseteq Targets /\ M \in {job[j].moved, job[j].moved \union {t}}
  BY <1>2, <1>3 DEF JobType
<1>6. job' = [job EXCEPT ![j] = v]
  BY <1>4, HasType
<1> HIDE DEF M
<1>7. v \in JobType
  BY <1>2, <1>5 DEF JobType
<1>8. /\ v.pc = job[j].pc /\ v.id = job[j].id /\ v.targets = job[j].targets /\ v.todo = job[j].todo \ {t}
      /\ v.moved = M /\ v.result = job[j].result
  BY <1>2 DEF JobType
<1> HIDE DEF v
<1>9. job' \in [Jobs -> JobType] /\ Becomes(j, v.pc, v.id, v.targets, v.todo, v.moved, v.result)
  BY <1>6, <1>7, Assigned
<1>10. \/ /\ place[t.file] = t.root /\ stuck' = stuck
          /\ place' = [place EXCEPT ![t.file] = Destination(job[j].result)]
       \/ place[t.file] = t.root /\ place' = place /\ stuck' = stuck \union {t.file}
       \/ place[t.file] # t.root /\ place' = place /\ stuck' = stuck
  BY <1>4
<1>11. UNCHANGED <<report, record, seeded, scans, loaded, nature, strayed, raced, ours>>
  BY DEF Move, records, world, history
<1> QED
  BY <1>1, <1>3, <1>5, <1>8, <1>9, <1>10, <1>11 DEF MovedOne

\* The next stage of a job that keeps what it has in hand.
Passes(j, stage) ==
  Becomes(j, stage, job[j].id, job[j].targets, job[j].todo, job[j].moved, job[j].result)
Ended(j) == Becomes(j, "idle", None, {}, {}, {}, "none")

LEMMA PassJob ==
  ASSUME RescanTypeOK, NEW j \in Jobs, NEW stage \in {"get", "set", "seed", "clear"},
         job' = [job EXCEPT ![j].pc = stage]
  PROVE  job' \in [Jobs -> JobType] /\ Passes(j, stage)
<1>1. job[j] \in JobType
  BY HasType
<1> DEFINE v == [job[j] EXCEPT !.pc = stage]
<1>2. v \in JobType
  BY <1>1 DEF JobType
<1>3. /\ v.pc = stage /\ v.id = job[j].id /\ v.targets = job[j].targets /\ v.todo = job[j].todo
      /\ v.moved = job[j].moved /\ v.result = job[j].result
  BY <1>1 DEF JobType
<1>4. job' = [job EXCEPT ![j] = v]
  BY HasType
<1> HIDE DEF v
<1>5. job' \in [Jobs -> JobType] /\ Becomes(j, v.pc, v.id, v.targets, v.todo, v.moved, v.result)
  BY <1>2, <1>4, Assigned
<1> QED
  BY <1>3, <1>5 DEF Passes

LEMMA EndJob ==
  ASSUME RescanTypeOK, NEW j \in Jobs, End(j)
  PROVE  job' \in [Jobs -> JobType] /\ Ended(j)
<1>1. Idle \in JobType
  BY DEF JobType, Idle, Results
<1>2. /\ Idle.pc = "idle" /\ Idle.id = None /\ Idle.targets = {} /\ Idle.todo = {} /\ Idle.moved = {}
      /\ Idle.result = "none"
  BY DEF Idle
<1>3. job' = [job EXCEPT ![j] = Idle]
  BY DEF End
<1> QED
  BY <1>1, <1>2, <1>3, Assigned DEF Ended

Noted(j, first) ==
  /\ job[j].pc = "move" /\ job[j].todo = {} /\ first \in Targets /\ job[j].id \in Downloads
  /\ Passes(j, "get")
  /\ strayed \subseteq strayed' /\ strayed' \subseteq Downloads
  /\ \/ {job[j].id, first.file.of} \subseteq strayed'
     \/ /\ strayed' = strayed
        /\ report'[Destination(job[j].result)][Key(first.file.of)] = job[j].id
  /\ \A r \in Roots, k \in Keys :
       \/ report'[r][k] = report[r][k]
       \/ report'[r][k] = None /\ Emptied(j, r, k)
       \/ report'[r][k] = job[j].id /\ r = Destination(job[j].result) /\ k = Key(first.file.of)
  /\ UNCHANGED <<place, record, seeded, scans, loaded, nature, raced, ours, stuck>>
  /\ job' \in [Jobs -> JobType]
  /\ report' \in [Roots -> [Keys -> Downloads \union {None}]]

\* Report, likewise.
LEMMA ReportJob ==
  ASSUME RescanTypeOK, NEW j \in Jobs, NEW first \in job[j].targets, Report(j, first)
  PROVE  Noted(j, first)
<1>1. job[j].pc = "move" /\ job[j].todo = {}
  BY DEF Report
<1>2. job[j] \in JobType
  BY HasType
<1>3. job[j].id \in Downloads /\ first \in Targets /\ first.file.of \in Downloads
  BY <1>1, <1>2, TargetFacts, FileFacts DEF RescanTypeOK, Running, JobType
<1>4. job' \in [Jobs -> JobType] /\ Passes(j, "get")
  BY PassJob DEF Report
<1>5. Destination(job[j].result) \in Roots /\ Key(first.file.of) \in Keys
  BY <1>3, KeyFacts DEF Destination, Roots
<1> DEFINE pruned == [r \in Roots |-> [k \in Keys |-> IF Emptied(j, r, k) THEN None ELSE report[r][k]]]
           there == Destination(job[j].result)
           written == [pruned EXCEPT ![there][Key(first.file.of)] = job[j].id]
<1>6. report \in [Roots -> [Keys -> Downloads \union {None}]] /\ strayed \subseteq Downloads
  BY DEF RescanTypeOK
<1>7. /\ pruned \in [Roots -> [Keys -> Downloads \union {None}]]
      /\ \A r \in Roots, k \in Keys :
           pruned[r][k] = report[r][k] \/ (pruned[r][k] = None /\ Emptied(j, r, k))
  BY <1>6
<1>8. \/ report' = written /\ strayed' = strayed
      \/ report' = pruned /\ strayed' = strayed \union {job[j].id, first.file.of}
  BY DEF Report, ReportRoot
<1> HIDE DEF pruned
<1>9. CASE report' = written /\ strayed' = strayed
  <2>1. /\ written \in [Roots -> [Keys -> Downloads \union {None}]]
        /\ written[there][Key(first.file.of)] = job[j].id
        /\ \A r \in Roots, k \in Keys :
             written[r][k] = pruned[r][k]
               \/ (written[r][k] = job[j].id /\ r = there /\ k = Key(first.file.of))
    BY <1>3, <1>5, <1>7
  <2> QED
    BY <1>1, <1>3, <1>4, <1>6, <1>7, <1>9, <2>1 DEF Noted, Report, records, world
<1>10. CASE report' = pruned /\ strayed' = strayed \union {job[j].id, first.file.of}
  BY <1>1, <1>3, <1>4, <1>6, <1>7, <1>10 DEF Noted, Report, records, world
<1> QED
  BY <1>8, <1>9, <1>10

\* What the last stages of a job leave alone: files, reports, records of scans.
AtRest == UNCHANGED <<place, report, scans, loaded, nature, strayed, raced, stuck>>
OursOnly(j) ==
  ours' \in [Jobs -> Row] /\ \A i \in Jobs : i # j => ours'[i] = ours[i]

Looked(j) ==
  /\ job[j].pc = "get" /\ job[j].id \in Downloads
  /\ \/ record[job[j].id].here /\ Passes(j, "set") /\ ours'[j].result = job[j].result
     \/ ~record[job[j].id].here /\ Passes(j, "seed")
  /\ OursOnly(j) /\ AtRest /\ UNCHANGED <<record, seeded>>
  /\ job' \in [Jobs -> JobType]

\* A job that is under way has a download.
LEMMA JobHasDownload ==
  ASSUME RescanTypeOK, NEW j \in Jobs, job[j].pc # "idle"
  PROVE  job[j].id \in Downloads
BY HasType DEF RescanTypeOK, Running, JobType

\* Get, likewise.
LEMMA GetJob ==
  ASSUME RescanTypeOK, NEW j \in Jobs, Get(j)
  PROVE  Looked(j)
<1>1. job[j].pc = "get" /\ job[j].id \in Downloads
  BY JobHasDownload DEF Get
<1>2. AtRest /\ UNCHANGED <<record, seeded>>
  BY DEF Get, disk, records, world, history, errors, AtRest
<1>3. CASE record[job[j].id].here
  <2>1. job' \in [Jobs -> JobType] /\ Passes(j, "set")
    BY <1>3, PassJob DEF Get
  <2> DEFINE w == [record[job[j].id] EXCEPT !.result = job[j].result]
  <2>2. record[job[j].id] \in Row /\ job[j].result \in Results
    BY <1>1, HasType DEF JobType
  <2>3. w \in Row /\ w.result = job[j].result
    BY <2>2 DEF Row
  <2>4. ours' = [ours EXCEPT ![j] = w]
    BY <1>3 DEF Get
  <2> HIDE DEF w
  <2>5. OursOnly(j) /\ ours'[j].result = job[j].result
    BY <2>3, <2>4, HasType DEF OursOnly
  <2> QED
    BY <1>1, <1>2, <1>3, <2>1, <2>5 DEF Looked
<1>4. CASE ~record[job[j].id].here
  <2>1. job' \in [Jobs -> JobType] /\ Passes(j, "seed")
    BY <1>4, PassJob DEF Get
  <2>2. OursOnly(j)
    BY <1>4, HasType DEF Get, OursOnly
  <2> QED
    BY <1>1, <1>2, <1>4, <2>1, <2>2 DEF Looked
<1> QED
  BY <1>3, <1>4

\* The copy a job has is written back.
WritesOurs(j) ==
  /\ record' \in [Downloads -> Row]
  /\ record'[job[j].id] = ours[j]
  /\ \A e \in Downloads : e # job[j].id => record'[e] = record[e]
  /\ UNCHANGED seeded

LEMMA WriteOurs ==
  ASSUME RescanTypeOK, NEW j \in Jobs, job[j].id \in Downloads,
         record' = [record EXCEPT ![job[j].id] = ours[j]], ours' = [ours EXCEPT ![j] = NoRow]
  PROVE  /\ record' \in [Downloads -> Row] /\ record'[job[j].id] = ours[j]
         /\ \A e \in Downloads : e # job[j].id => record'[e] = record[e]
         /\ OursOnly(j)
<1>1. NoRow \in Row
  BY DEF NoRow, Row, Results
<1> QED
  BY <1>1, HasType DEF OursOnly

Written(j) ==
  /\ job[j].pc = "set" /\ job[j].id \in Downloads
  /\ Passes(j, "seed")
  /\ WritesOurs(j) /\ OursOnly(j) /\ AtRest
  /\ job' \in [Jobs -> JobType]

\* Set, likewise.
LEMMA SetJob ==
  ASSUME RescanTypeOK, NEW j \in Jobs, Set(j)
  PROVE  Written(j)
<1>1. job[j].pc = "set" /\ job[j].id \in Downloads
  BY JobHasDownload DEF Set
<1>2. AtRest /\ UNCHANGED seeded
  BY DEF Set, disk, world, history, errors, AtRest
<1>3. job' \in [Jobs -> JobType] /\ Passes(j, "seed")
  BY PassJob DEF Set
<1>4. WritesOurs(j) /\ OursOnly(j)
  BY <1>1, <1>2, WriteOurs DEF Set, WritesOurs
<1> QED
  BY <1>1, <1>2, <1>3, <1>4 DEF Written

SeededOne(j) ==
  /\ job[j].pc = "seed" /\ job[j].id \in Downloads
  /\ \/ Ended(j)
     \/ /\ record[job[j].id].here /\ job[j].result # "clean"
        /\ Passes(j, "clear") /\ ours'[j].result = record[job[j].id].result
  /\ seeded' \subseteq Downloads
  /\ \A e \in seeded' :
       e \in seeded \/ (job[j].result = "clean" /\ e = job[j].id /\ record[e].here)
  /\ record[job[j].id].here /\ job[j].result # "clean" => job[j].id \notin seeded'
  /\ OursOnly(j) /\ AtRest /\ UNCHANGED record
  /\ job' \in [Jobs -> JobType]

\* Seed, likewise.
LEMMA SeedJob ==
  ASSUME RescanTypeOK, NEW j \in Jobs, Seed(j)
  PROVE  SeededOne(j)
<1>1. job[j].pc = "seed" /\ job[j].id \in Downloads
  BY JobHasDownload DEF Seed
<1>2. AtRest /\ UNCHANGED record /\ seeded \subseteq Downloads
  BY DEF Seed, disk, world, history, errors, AtRest, RescanTypeOK
<1> DEFINE d == job[j].id
<1>3. \/ /\ ~record[d].here /\ End(j) /\ UNCHANGED <<seeded, ours>>
      \/ /\ record[d].here /\ job[j].result = "clean"
         /\ seeded' \in {seeded, IF record[d].seeding THEN seeded \union {d} ELSE seeded}
         /\ End(j) /\ UNCHANGED ours
      \/ /\ record[d].here /\ job[j].result # "clean" /\ seeded' = seeded \ {d}
         /\ End(j) /\ UNCHANGED ours
      \/ /\ record[d].here /\ job[j].result # "clean" /\ seeded' = seeded \ {d}
         /\ job' = [job EXCEPT ![j].pc = "clear"]
         /\ ours' = [ours EXCEPT ![j] = [record[d] EXCEPT !.seeding = FALSE]]
  BY DEF Seed, Unseeded
<1>4. CASE End(j) /\ UNCHANGED ours
  <2>1. Ended(j) /\ job' \in [Jobs -> JobType] /\ OursOnly(j)
    BY <1>4, EndJob, HasType DEF OursOnly
  <2>2. CASE ~record[d].here /\ UNCHANGED seeded
    BY <1>1, <1>2, <2>1, <2>2 DEF SeededOne
  <2>3. CASE /\ record[d].here /\ job[j].result = "clean"
             /\ seeded' \in {seeded, IF record[d].seeding THEN seeded \union {d} ELSE seeded}
    <3>1. /\ seeded' \subseteq Downloads
          /\ \A e \in seeded' : e \in seeded \/ (e = d /\ record[e].here)
      BY <1>1, <1>2, <2>3
    <3> QED
      BY <1>1, <1>2, <2>1, <2>3, <3>1 DEF SeededOne
  <2>4. CASE record[d].here /\ job[j].result # "clean" /\ seeded' = seeded \ {d}
    BY <1>1, <1>2, <2>1, <2>4 DEF SeededOne
  <2>5. job' # [job EXCEPT ![j].pc = "clear"]
    BY <1>1, <2>1, HasType DEF Ended, Becomes, JobType
  <2> QED
    BY <1>3, <2>2, <2>3, <2>4, <2>5
<1>5. CASE /\ record[d].here /\ job[j].result # "clean" /\ seeded' = seeded \ {d}
           /\ job' = [job EXCEPT ![j].pc = "clear"]
           /\ ours' = [ours EXCEPT ![j] = [record[d] EXCEPT !.seeding = FALSE]]
  <2>1. job' \in [Jobs -> JobType] /\ Passes(j, "clear")
    BY <1>5, PassJob
  <2> DEFINE w == [record[d] EXCEPT !.seeding = FALSE]
  <2>2. record[d] \in Row
    BY <1>1, HasType
  <2>3. w \in Row /\ w.result = record[d].result
    BY <2>2 DEF Row
  <2>4. ours' = [ours EXCEPT ![j] = w]
    BY <1>5
  <2> HIDE DEF w
  <2>5. OursOnly(j) /\ ours'[j].result = record[d].result
    BY <2>3, <2>4, HasType DEF OursOnly
  <2> QED
    BY <1>1, <1>2, <1>5, <2>1, <2>5 DEF SeededOne
<1> QED
  BY <1>3, <1>4, <1>5

Unmarked(j) ==
  /\ job[j].pc = "clear" /\ job[j].id \in Downloads
  /\ Ended(j)
  /\ WritesOurs(j) /\ OursOnly(j) /\ AtRest
  /\ job' \in [Jobs -> JobType]

\* Unmark, likewise.
LEMMA UnmarkJob ==
  ASSUME RescanTypeOK, NEW j \in Jobs, Unmark(j)
  PROVE  Unmarked(j)
<1>1. job[j].pc = "clear" /\ job[j].id \in Downloads
  BY JobHasDownload DEF Unmark
<1>2. AtRest /\ UNCHANGED seeded
  BY DEF Unmark, disk, world, history, errors, AtRest
<1>3. job' \in [Jobs -> JobType] /\ Ended(j)
  BY EndJob DEF Unmark
<1>4. WritesOurs(j) /\ OursOnly(j)
  BY <1>1, <1>2, WriteOurs DEF Unmark, WritesOurs
<1> QED
  BY <1>1, <1>2, <1>3, <1>4 DEF Unmarked

\* The last stages of a job, as far as files, reports and scans are concerned.
Settles(j) ==
  /\ job[j].pc \in {"get", "set", "seed", "clear"} /\ job[j].id \in Downloads
  /\ Ended(j) \/ \E stage \in {"set", "seed", "clear"} : Passes(j, stage)
  /\ AtRest
  /\ record' \in [Downloads -> Row] /\ seeded' \subseteq Downloads /\ ours' \in [Jobs -> Row]
  /\ job' \in [Jobs -> JobType]

LEMMA SettleJob ==
  ASSUME RescanTypeOK, NEW j \in Jobs, Looked(j) \/ Written(j) \/ SeededOne(j) \/ Unmarked(j)
  PROVE  Settles(j)
<1>1. record \in [Downloads -> Row] /\ seeded \subseteq Downloads
  BY DEF RescanTypeOK
<1>2. CASE Looked(j)
  BY <1>1, <1>2 DEF Looked, Settles, OursOnly
<1>3. CASE Written(j)
  BY <1>1, <1>3 DEF Written, Settles, OursOnly, WritesOurs
<1>4. CASE SeededOne(j)
  BY <1>1, <1>4 DEF SeededOne, Settles, OursOnly
<1>5. CASE Unmarked(j)
  BY <1>1, <1>5 DEF Unmarked, Settles, OursOnly, WritesOurs
<1> QED
  BY <1>2, <1>3, <1>4, <1>5

Removed(r, d) ==
  /\ place' = [f \in Files |-> IF f \in Item(r, d) THEN "gone" ELSE place[f]]
  /\ report' \in [Roots -> [Keys -> Downloads \union {None}]]
  /\ \A q \in Roots, k \in Keys :
       report'[q][k] = IF q = r /\ k = d /\ d \in Folders THEN None ELSE report[q][k]
  /\ record' \in [Downloads -> Row]
  /\ \A e \in Downloads : record'[e] = record[e] \/ ~record'[e].here
  /\ seeded' \subseteq seeded
  /\ strayed \subseteq strayed' /\ strayed' \subseteq Downloads
  /\ raced \subseteq raced' /\ raced' \subseteq Downloads
  /\ Holders(d) # {} => d \in raced'
  /\ UNCHANGED <<scans, loaded, nature, job, ours, stuck>>

\* Delete, likewise.
LEMMA DeleteStep ==
  ASSUME RescanTypeOK, NEW d \in Downloads, NEW r \in Roots, Delete(r, d)
  PROVE  Removed(r, d)
<1> DEFINE n == Named(r, d)
<1>1. report \in [Roots -> [Keys -> Downloads \union {None}]]
  BY DEF RescanTypeOK
<1>2. n \in Downloads \union {None}
  BY <1>1, KeyFacts DEF Named
<1>3. NoRow \in Row /\ ~NoRow.here
  BY DEF NoRow, Row, Results
<1>4. record' = IF n = None THEN record ELSE [record EXCEPT ![n] = NoRow]
  BY DEF Delete
<1>5. record' \in [Downloads -> Row] /\ \A e \in Downloads :
        record'[e] = record[e] \/ ~record'[e].here
  BY <1>2, <1>3, <1>4, HasType
<1>6. report' = IF d \in Folders THEN [report EXCEPT ![r][d] = None] ELSE report
  BY DEF Delete
<1>7. d \in Folders => d \in Keys
  BY DEF Keys
<1>8. /\ report' \in [Roots -> [Keys -> Downloads \union {None}]]
      /\ \A q \in Roots, k \in Keys :
           report'[q][k] = IF q = r /\ k = d /\ d \in Folders THEN None ELSE report[q][k]
  BY <1>1, <1>6, <1>7
<1>9. /\ strayed \subseteq strayed' /\ strayed' \subseteq Downloads
      /\ raced \subseteq raced' /\ raced' \subseteq Downloads
      /\ Holders(d) # {} => d \in raced'
  BY <1>2, KeyFacts DEF Delete, RescanTypeOK
<1>10. /\ place' = [f \in Files |-> IF f \in Item(r, d) THEN "gone" ELSE place[f]]
       /\ seeded' \subseteq seeded
       /\ UNCHANGED <<scans, loaded, nature, job, ours, stuck>>
  BY DEF Delete, world, errors
<1> QED
  BY <1>5, <1>8, <1>9, <1>10 DEF Removed

\* The last stages of job j, one formula per operation.
Finishes(j) == Looked(j) \/ Written(j) \/ SeededOne(j) \/ Unmarked(j)

LEMMA FinishJob ==
  ASSUME RescanTypeOK, NEW j \in Jobs, Get(j) \/ Set(j) \/ Seed(j) \/ Unmark(j)
  PROVE  Finishes(j)
BY GetJob, SetJob, SeedJob, UnmarkJob DEF Finishes

\* Every step is one of these.
LEMMA RescanDetail ==
  ASSUME RescanTypeOK, Targeted, RescanNext
  PROVE  \/ \E j \in Jobs :
              \/ \E d \in Downloads : Started(j, d)
              \/ Collected(j) \/ Summarised(j) \/ Finishes(j)
              \/ \E t \in job[j].todo : Scanned(j, t) \/ MovedOne(j, t)
              \/ \E t \in job[j].targets : Noted(j, t)
         \/ \E d \in Downloads, r \in Roots : Removed(r, d)
BY StartJob, CollectJob, ScanJob, SummariseJob, MoveJob, ReportJob, FinishJob, DeleteStep
DEF RescanNext, Work

\* The same, seen from the files.
LEMMA RescanMoves ==
  ASSUME RescanTypeOK, Targeted, RescanNext
  PROVE  \/ \E j \in Jobs :
              \/ \E d \in Downloads : Started(j, d)
              \/ Collected(j) \/ Summarised(j) \/ Settles(j)
              \/ \E t \in job[j].todo : Scanned(j, t) \/ MovedOne(j, t)
              \/ \E t \in job[j].targets : Noted(j, t)
         \/ \E d \in Downloads, r \in Roots : Removed(r, d)
BY RescanDetail, SettleJob DEF Finishes

\* And from the rows.
Early == {"idle", "collect", "scan", "move", "get"}
Busywork(j) ==
  /\ job[j].pc \in Early \ {"get"} /\ job'[j].pc \in Early
  /\ job'[j].pc = "get" => \E t \in job[j].targets : Noted(j, t)
  /\ \A i \in Jobs : i # j => job'[i] = job[i]
  /\ UNCHANGED <<record, seeded, raced, ours>>

LEMMA RescanKinds ==
  ASSUME RescanTypeOK, Targeted, RescanNext
  PROVE  \/ \E j \in Jobs : Finishes(j) \/ \E d \in Downloads : Started(j, d)
         \/ \E j \in Jobs : Busywork(j)
         \/ \E d \in Downloads, r \in Roots : Removed(r, d)
<1>1. \A j \in Jobs : Collect(j) => Busywork(j)
  BY CollectJob DEF Collected, Becomes, Busywork, Early
<1>2. \A j \in Jobs : Summarise(j) => Busywork(j)
  BY SummariseJob DEF Summarised, Becomes, Busywork, Early
<1>3. \A j \in Jobs : \A t \in job[j].todo : Scan(j, t) => Busywork(j)
  BY ScanJob DEF Scanned, Becomes, Busywork, Early
<1>4. \A j \in Jobs : \A t \in job[j].todo : Move(j, t) => Busywork(j)
  BY MoveJob DEF MovedOne, Becomes, Busywork, Early
<1>5. \A j \in Jobs : \A t \in job[j].targets : Report(j, t) => Busywork(j)
  BY ReportJob DEF Noted, Passes, Becomes, Busywork, Early
<1> QED
  BY <1>1, <1>2, <1>3, <1>4, <1>5, StartJob, FinishJob, DeleteStep DEF RescanNext, Work

-----------------------------------------------------------------------------
(* Types                                                                   *)

\* The type invariant of the next state, in the terms of the formulas above.
Busy == \A i \in Jobs : job[i].pc # "idle" <=> job[i].id # None

NewTyped ==
  /\ place' \in [Files -> Roots \union {"gone"}]
  /\ report' \in [Roots -> [Keys -> Downloads \union {None}]]
  /\ record' \in [Downloads -> Row]
  /\ seeded' \subseteq Downloads
  /\ scans' \in [Downloads -> [Files -> {"none", "clean", "threat", "unscanned"}]]
  /\ UNCHANGED <<loaded, nature>>
  /\ job' \in [Jobs -> JobType]
  /\ Busy'
  /\ strayed' \subseteq Downloads /\ raced' \subseteq Downloads
  /\ ours' \in [Jobs -> Row] /\ stuck' \subseteq Files

\* The type invariant, in the same terms.
LEMMA TypeFacts ==
  ASSUME RescanTypeOK
  PROVE  /\ place \in [Files -> Roots \union {"gone"}]
         /\ report \in [Roots -> [Keys -> Downloads \union {None}]]
         /\ record \in [Downloads -> Row]
         /\ seeded \subseteq Downloads
         /\ scans \in [Downloads -> [Files -> {"none", "clean", "threat", "unscanned"}]]
         /\ nature \in [Files -> {"clean", "threat", "unscanned"}]
         /\ job \in [Jobs -> JobType]
         /\ Busy
         /\ strayed \subseteq Downloads /\ raced \subseteq Downloads
         /\ ours \in [Jobs -> Row] /\ stuck \subseteq Files
BY DEF RescanTypeOK, JobType, Row, Busy, Running

\* Every step keeps the types.
LEMMA RescanTypesKept ==
  ASSUME RescanTypeOK, Targeted, RescanNext
  PROVE  RescanTypeOK'
<1>1. Busy
  BY TypeFacts DEF Running, Busy, NewTyped, Busy
<1>2. None \notin Downloads
  BY KeyFacts, TypeFacts DEF NewTyped
<1> SUFFICES NewTyped
  BY DEF RescanTypeOK, Running, JobType, Row, NewTyped, Busy
<1>3. ASSUME NEW j \in Jobs, NEW d \in Downloads, Started(j, d) PROVE NewTyped
  <2>1. Busy'
    BY <1>1, <1>2, <1>3 DEF Becomes, Busy, Started
  <2> QED
    BY <1>3, <2>1, TypeFacts DEF NewTyped, Started
<1>4. ASSUME NEW j \in Jobs, Collected(j) PROVE NewTyped
  <2>1. Busy'
    BY <1>1, <1>2, <1>4 DEF Becomes, Busy, Collected
  <2> QED
    BY <1>4, <2>1, TypeFacts DEF NewTyped, Collected
<1>5. ASSUME NEW j \in Jobs, NEW t \in job[j].todo, Scanned(j, t) PROVE NewTyped
  <2>1. Busy'
    BY <1>1, <1>2, <1>5 DEF Becomes, Busy, Scanned
  <2>2. t.file \in Files
    BY <1>5, TargetFacts DEF Scanned
  <2>3. place' \in [Files -> Roots \union {"gone"}] /\ stuck' \subseteq Files
    BY <1>5, <2>2, TypeFacts DEF Roots, Scanned
  <2>4. scans' \in [Downloads -> [Files -> {"none", "clean", "threat", "unscanned"}]]
    BY <1>5, <2>2, TypeFacts DEF Judges, Scanned
  <2> QED
    BY <1>5, <2>1, <2>3, <2>4, TypeFacts DEF NewTyped, Scanned
<1>6. ASSUME NEW j \in Jobs, Summarised(j) PROVE NewTyped
  <2>1. Busy'
    BY <1>1, <1>2, <1>6 DEF Becomes, Busy, Summarised
  <2> QED
    BY <1>6, <2>1, TypeFacts DEF NewTyped, Summarised
<1>7. ASSUME NEW j \in Jobs, NEW t \in job[j].todo, MovedOne(j, t) PROVE NewTyped
  <2>1. Busy'
    BY <1>1, <1>2, <1>7 DEF Becomes, Busy, MovedOne
  <2>2. Destination(job[j].result) \in Roots /\ t.file \in Files
    BY <1>7, TargetFacts, TypeFacts DEF Destination, Roots, NewTyped, MovedOne
  <2>3. place' \in [Files -> Roots \union {"gone"}] /\ stuck' \subseteq Files
    BY <1>7, <2>2, TypeFacts DEF MovedOne
  <2> QED
    BY <1>7, <2>1, <2>3, TypeFacts DEF NewTyped, MovedOne
<1>8. ASSUME NEW j \in Jobs, NEW t \in job[j].targets, Noted(j, t) PROVE NewTyped
  <2>1. Busy'
    BY <1>1, <1>2, <1>8 DEF Becomes, Busy, Noted, Passes
  <2> QED
    BY <1>8, <2>1, TypeFacts DEF NewTyped, Noted
<1>9. ASSUME NEW j \in Jobs, Settles(j) PROVE NewTyped
  <2>1. Busy'
    <3>1. /\ job'[j].pc = "idle" <=> job'[j].id = None
          /\ \A i \in Jobs : i # j => job'[i] = job[i]
      BY <1>2, <1>9 DEF Becomes, Settles, Ended, Passes
    <3> QED
      BY <1>1, <3>1 DEF Busy
  <2> QED
    BY <1>9, <2>1, TypeFacts DEF NewTyped, Settles, AtRest
<1>10. ASSUME NEW d \in Downloads, NEW r \in Roots, Removed(r, d) PROVE NewTyped
  <2>1. Busy'
    BY <1>1, <1>10 DEF Busy, Removed
  <2>2. place' \in [Files -> Roots \union {"gone"}]
    BY <1>10, TypeFacts DEF Removed
  <2> QED
    BY <1>10, <2>1, <2>2, TypeFacts DEF NewTyped, Removed
<1> QED
  BY <1>3, <1>4, <1>5, <1>6, <1>7, <1>8, <1>9, <1>10, RescanMoves

-----------------------------------------------------------------------------
(* Where files go                                                          *)

\* Where a step may leave a file.
MovesOn(f) ==
  \/ place'[f] = place[f]
  \/ place'[f] \in {"quarantine", "gone"}
  \/ /\ place[f] = "scan" /\ place'[f] = "clean"
     /\ \E j \in Jobs : Cleaning(j) /\ At(f, "scan") \in job[j].todo

\* A file never comes back to a folder; from scan/ it goes to clean/ in the
\* hands of a job that found its download clean.
LEMMA PlaceStep ==
  ASSUME RescanTypeOK, Targeted, RescanNext, NEW f \in Files
  PROVE  MovesOn(f)
<1>1. ASSUME NEW j \in Jobs, NEW d \in Downloads, Started(j, d) PROVE MovesOn(f)
  BY <1>1 DEF MovesOn, Started
<1>2. ASSUME NEW j \in Jobs, Collected(j) PROVE MovesOn(f)
  BY <1>2 DEF MovesOn, Collected
<1>3. ASSUME NEW j \in Jobs, NEW t \in job[j].todo, Scanned(j, t) PROVE MovesOn(f)
  BY <1>3, TargetFacts, TypeFacts DEF MovesOn, Scanned
<1>4. ASSUME NEW j \in Jobs, Summarised(j) PROVE MovesOn(f)
  BY <1>4 DEF MovesOn, Summarised
<1>5. ASSUME NEW j \in Jobs, NEW t \in job[j].todo, MovedOne(j, t) PROVE MovesOn(f)
  <2>1. CASE place[t.file] = t.root /\ t.file = f /\ place' # place
    <3>1. place'[f] = Destination(job[j].result)
      BY <1>5, <2>1, TargetFacts, TypeFacts DEF MovesOn, MovedOne
    <3>2. job[j].result \in {"clean", "threats_found"}
      BY <1>5 DEF Targeted, JobTargets, MovesOn, MovedOne
    <3>3. CASE job[j].result = "clean"
      <4>1. Cleaning(j) /\ t.root = "scan"
        BY <1>5, <3>3 DEF Cleaning, Targeted, JobTargets, MovesOn, MovedOne
      <4> QED
        BY <1>5, <2>1, <3>1, <3>3, <4>1, TargetFacts DEF Destination, MovesOn, MovedOne
    <3> QED
      BY <3>1, <3>2, <3>3 DEF Destination, MovesOn
  <2>2. CASE ~(place[t.file] = t.root /\ t.file = f /\ place' # place)
    BY <1>5, <2>2, TargetFacts, TypeFacts DEF MovesOn, MovedOne
  <2> QED
    BY <2>1, <2>2 DEF MovesOn
<1>6. ASSUME NEW j \in Jobs, NEW t \in job[j].targets, Noted(j, t) PROVE MovesOn(f)
  BY <1>6 DEF MovesOn, Noted
<1>7. ASSUME NEW j \in Jobs, Settles(j) PROVE MovesOn(f)
  BY <1>7 DEF MovesOn, Settles, AtRest
<1>8. ASSUME NEW d \in Downloads, NEW r \in Roots, Removed(r, d) PROVE MovesOn(f)
  BY <1>8 DEF Removed, MovesOn
<1> QED
  BY <1>1, <1>2, <1>3, <1>4, <1>5, <1>6, <1>7, <1>8, RescanMoves

\* The same, of files that stay in reach.
LEMMA ScanGoes ==
  ASSUME RescanTypeOK, Targeted, RescanNext, NEW f \in Files
  PROVE  /\ place'[f] = "scan" => place[f] = "scan"
         /\ place'[f] \in Kept => place[f] \in Kept
         /\ place'[f] \in Kept /\ place'[f] # place[f] =>
              /\ place[f] = "scan" /\ place'[f] = "clean"
              /\ \E j \in Jobs : Cleaning(j) /\ At(f, "scan") \in job[j].todo
BY PlaceStep DEF MovesOn, Kept

-----------------------------------------------------------------------------
(* What a job has in hand                                                  *)

\* Only a single file finds single files.
LEMMA FoundSingles ==
  ASSUME RescanTypeOK, OwnFiles, NEW d \in Downloads
  PROVE  \A t \in Found(d) : t.file.of \in Singles => d \in Singles
<1>1. \A f \in DiskTargets(d) : f.of \in Singles => d \in Singles
  BY KeyFacts, ReportsAreTold DEF DiskTargets, CollectDelivered, OwnFiles, OwnReports, Roots
<1> QED
  BY <1>1, FoundIs

\* Whatever a job has in hand are targets.
LEMMA TodoIsTyped ==
  ASSUME RescanTypeOK, NEW j \in Jobs
  PROVE  job[j].targets \subseteq Targets /\ job[j].todo \subseteq Targets
BY TypeFacts DEF JobType

\* What a job has in hand stays in order as long as the job does nothing.
LEMMA OthersTargets ==
  ASSUME RescanTypeOK, Targeted, RescanNext, NEW i \in Jobs, job'[i] = job[i]
  PROVE  JobTargets(i)'
<1>1. \A t \in job[i].targets : place'[t.file] = "scan" => place[t.file] = "scan"
  BY ScanGoes, TodoIsTyped, TargetFacts
<1> QED
  BY <1>1 DEF Targeted, JobTargets, Cleaning

\* Nor does a step of the job that only works off what it has.
Final == {"get", "set", "seed", "clear"}

LEMMA OwnTargetsStay ==
  ASSUME RescanTypeOK, Targeted, RescanNext, NEW j \in Jobs,
         job'[j].targets = job[j].targets, job'[j].id = job[j].id, job'[j].result = job[j].result,
         job'[j].todo \subseteq job[j].todo, job'[j].moved \subseteq job[j].targets,
         job'[j].pc \in {job[j].pc} \union Final, job[j].pc \notin {"idle", "collect"}
  PROVE  JobTargets(j)'
<1>1. \A t \in job[j].targets : place'[t.file] = "scan" => place[t.file] = "scan"
  BY ScanGoes, TodoIsTyped, TargetFacts
<1>2. /\ job[j].todo \subseteq job[j].targets
      /\ \A t, u \in job[j].targets : t.file = u.file => t = u
      /\ \A t \in job[j].targets :
           /\ place[t.file] = "scan" => t.root = "scan"
           /\ t.file.of \in Singles => job[j].id \in Singles
      /\ job[j].pc = "move" /\ job[j].result \notin {"clean", "threats_found"} => job[j].todo = {}
      /\ Cleaning(j) => \A t \in job[j].todo : t.root = "scan"
  BY DEF Targeted, JobTargets
<1> QED
  BY <1>1, <1>2 DEF JobTargets, Cleaning, Final

\* What each job has in hand stays in order.
LEMMA TargetedKept ==
  ASSUME RescanTypeOK, Targeted, RescanNext, OwnFiles
  PROVE  Targeted'
<1>1. ASSUME NEW j \in Jobs, NEW e \in Downloads, Started(j, e) PROVE Targeted'
  <2>1. JobTargets(j)'
    BY <1>1 DEF JobTargets, Cleaning, Becomes, Started
  <2>2. \A i \in Jobs : i # j => job'[i] = job[i]
    BY <1>1 DEF Becomes, Started
  <2> QED
    BY <2>1, <2>2, OthersTargets DEF Targeted
<1>2. ASSUME NEW j \in Jobs, Collected(j) PROVE Targeted'
  <2>1. CASE Becomes(j, "idle", None, {}, {}, {}, "none")
    <3>1. JobTargets(j)'
      BY <2>1 DEF JobTargets, Cleaning, Becomes
    <3> QED
      BY <2>1, <3>1, OthersTargets DEF Targeted, Becomes
  <2>2. CASE Becomes(j, "scan", job[j].id, Found(job[j].id), Found(job[j].id), {}, "none")
    <3>1. Found(job[j].id) \subseteq Targets
      BY FoundIs
    <3>2. \A t \in Found(job[j].id) : place'[t.file] = t.root
      BY <1>2, FoundIs DEF Collected
    <3>3. \A t, u \in Found(job[j].id) : t.file = u.file => t = u
      BY <3>1, FoundIs, TargetFacts
    <3>4. \A t \in Found(job[j].id) : t.file.of \in Singles => job[j].id \in Singles
      BY <1>2, FoundSingles DEF Collected
    <3>5. JobTargets(j)'
      BY <2>2, <3>2, <3>3, <3>4 DEF JobTargets, Cleaning, Becomes
    <3> QED
      BY <2>2, <3>5, OthersTargets DEF Targeted, Becomes
  <2> QED
    BY <1>2, <2>1, <2>2 DEF Collected
<1>3. ASSUME NEW j \in Jobs, NEW t \in job[j].todo, Scanned(j, t) PROVE Targeted'
  <2>1. /\ job'[j].targets = job[j].targets /\ job'[j].id = job[j].id /\ job'[j].result = job[j].result
        /\ job'[j].todo \subseteq job[j].todo /\ job'[j].moved \subseteq job[j].targets
        /\ job'[j].pc \in {job[j].pc} \union Final /\ job[j].pc \notin {"idle", "collect"}
    BY <1>3 DEF Targeted, JobTargets, Becomes, Scanned
  <2>2. JobTargets(j)'
    BY <2>1, OwnTargetsStay
  <2>3. \A i \in Jobs : i # j => job'[i] = job[i]
    BY <1>3 DEF Becomes, Scanned
  <2> QED
    BY <2>2, <2>3, OthersTargets DEF Targeted
<1>4. ASSUME NEW j \in Jobs, Summarised(j) PROVE Targeted'
  <2>1. \A u \in job[j].targets : place'[u.file] = "scan" => place[u.file] = "scan"
    BY ScanGoes, TodoIsTyped, TargetFacts
  <2>2. \A u \in job[j].targets : u.root # "clean" => u.root = "scan"
    BY TodoIsTyped, TargetFacts DEF Kept
  <2>3. Summary(job[j].id) \in {"clean", "unscanned", "threats_found"}
    BY DEF Summary
  <2>4. /\ job[j].todo \subseteq job[j].targets /\ job[j].moved \subseteq job[j].targets
        /\ \A t, u \in job[j].targets : t.file = u.file => t = u
        /\ \A t \in job[j].targets :
             /\ place[t.file] = "scan" => t.root = "scan"
             /\ t.file.of \in Singles => job[j].id \in Singles
    BY DEF Targeted, JobTargets
  <2>5. /\ job'[j].pc = "move" /\ job'[j].id = job[j].id /\ job'[j].targets = job[j].targets
        /\ job'[j].moved = job[j].moved /\ job'[j].result = Summary(job[j].id)
        /\ job'[j].todo = IF Summary(job[j].id) = "unscanned" THEN {}
                          ELSE {t \in job[j].targets : t.root # Destination(Summary(job[j].id))}
    BY <1>4 DEF Becomes, Summarised
  <2>6. JobTargets(j)'
    BY <2>1, <2>2, <2>3, <2>4, <2>5 DEF JobTargets, Cleaning, Destination
  <2> QED
    BY <1>4, <2>6, OthersTargets DEF Targeted, Becomes, Summarised
<1>5. ASSUME NEW j \in Jobs, NEW t \in job[j].todo, MovedOne(j, t) PROVE Targeted'
  <2>1. job[j].moved \union {t} \subseteq job[j].targets
    BY DEF Targeted, JobTargets
  <2>2. /\ job'[j].targets = job[j].targets /\ job'[j].id = job[j].id /\ job'[j].result = job[j].result
        /\ job'[j].todo \subseteq job[j].todo /\ job'[j].moved \subseteq job[j].targets
        /\ job'[j].pc \in {job[j].pc} \union Final /\ job[j].pc \notin {"idle", "collect"}
    BY <1>5, <2>1 DEF Targeted, JobTargets, Becomes, MovedOne
  <2>3. JobTargets(j)'
    BY <2>2, OwnTargetsStay
  <2>4. \A i \in Jobs : i # j => job'[i] = job[i]
    BY <1>5 DEF Becomes, MovedOne
  <2> QED
    BY <2>3, <2>4, OthersTargets DEF Targeted
<1>6. ASSUME NEW j \in Jobs, NEW t \in job[j].targets, Noted(j, t) PROVE Targeted'
  <2>1. /\ job'[j].targets = job[j].targets /\ job'[j].id = job[j].id /\ job'[j].result = job[j].result
        /\ job'[j].todo \subseteq job[j].todo /\ job'[j].moved \subseteq job[j].targets
        /\ job'[j].pc \in {job[j].pc} \union Final /\ job[j].pc \notin {"idle", "collect"}
    BY <1>6 DEF Targeted, JobTargets, Becomes, Noted, Passes, Final
  <2>2. JobTargets(j)'
    BY <2>1, OwnTargetsStay
  <2>3. \A i \in Jobs : i # j => job'[i] = job[i]
    BY <1>6 DEF Becomes, Noted, Passes
  <2> QED
    BY <2>2, <2>3, OthersTargets DEF Targeted
<1>7. ASSUME NEW j \in Jobs, Settles(j) PROVE Targeted'
  <2>1. \A i \in Jobs : i # j => job'[i] = job[i]
    BY <1>7 DEF Becomes, Settles, Ended, Passes
  <2>2. JobTargets(j)'
    <3>1. CASE Ended(j)
      BY <3>1 DEF JobTargets, Cleaning, Becomes, Ended
    <3>2. CASE \E stage \in {"set", "seed", "clear"} : Passes(j, stage)
      <4>1. /\ job'[j].targets = job[j].targets /\ job'[j].id = job[j].id /\ job'[j].result = job[j].result
            /\ job'[j].todo \subseteq job[j].todo /\ job'[j].moved \subseteq job[j].targets
            /\ job'[j].pc \in {job[j].pc} \union Final /\ job[j].pc \notin {"idle", "collect"}
        BY <1>7, <3>2 DEF Targeted, JobTargets, Becomes, Passes, Settles, Final
      <4> QED
        BY <4>1, OwnTargetsStay
    <3> QED
      BY <1>7, <3>1, <3>2 DEF Settles
  <2> QED
    BY <2>1, <2>2, OthersTargets DEF Targeted
<1>8. ASSUME NEW c \in Downloads, NEW r \in Roots, Removed(r, c) PROVE Targeted'
  BY <1>8, OthersTargets DEF Targeted, Removed
<1> QED
  BY <1>1, <1>2, <1>3, <1>4, <1>5, <1>6, <1>7, <1>8, RescanMoves

\* What strayed, was raced for or got stuck stays so.
Grown == strayed \subseteq strayed' /\ raced \subseteq raced' /\ stuck \subseteq stuck'

LEMMA HistoryGrows ==
  ASSUME RescanTypeOK, Targeted, RescanNext
  PROVE  Grown
<1>1. ASSUME NEW j \in Jobs, NEW d \in Downloads, Started(j, d)
      PROVE  Grown
  BY <1>1 DEF Started, Grown
<1>2. ASSUME NEW j \in Jobs, Collected(j) \/ Summarised(j) \/ Settles(j)
      PROVE  Grown
  BY <1>2 DEF Collected, Summarised, Settles, AtRest, Grown
<1>3. ASSUME NEW j \in Jobs, NEW t, Scanned(j, t) \/ MovedOne(j, t) \/ Noted(j, t)
      PROVE  Grown
  BY <1>3 DEF Scanned, MovedOne, Noted, Grown
<1>4. ASSUME NEW d \in Downloads, NEW r \in Roots, Removed(r, d)
      PROVE  Grown
  BY <1>4 DEF Removed, Grown
<1> QED
  BY <1>1, <1>2, <1>3, <1>4, RescanMoves

-----------------------------------------------------------------------------
(* Whose files a job has, and whom a report names                          *)

\* A job has files of its own download, and a report names that of its place, unless
\* files strayed.
LEMMA OwnKept ==
  ASSUME RescanTypeOK, Targeted, RescanNext, OwnFiles
  PROVE  OwnFiles'
<1>1. ASSUME NEW j \in Jobs, NEW e \in Downloads, Started(j, e) PROVE OwnFiles'
  <2>1. OwnReports'
    BY <1>1 DEF OwnFiles, OwnReports, Started
  <2>2. OwnTargets(j)'
    BY <1>1 DEF OwnFiles, OwnTargets, Becomes, Started
  <2>3. \A i \in Jobs : i # j => job'[i] = job[i]
    BY <1>1 DEF Becomes, Started
  <2>4. strayed \subseteq strayed'
    BY <1>1 DEF Started
  <2> QED
    BY <2>1, <2>2, <2>3, <2>4 DEF OwnFiles, OwnTargets
<1>2. ASSUME NEW j \in Jobs, Collected(j) PROVE OwnFiles'
  <2>1. OwnReports'
    BY <1>2 DEF OwnFiles, OwnReports, Collected
  <2>2. OwnTargets(j)'
    BY <1>2 DEF OwnFiles, OwnTargets, Becomes, Collected
  <2>3. \A i \in Jobs : i # j => job'[i] = job[i]
    BY <1>2 DEF Becomes, Collected
  <2>4. strayed \subseteq strayed'
    BY <1>2 DEF Collected
  <2> QED
    BY <2>1, <2>2, <2>3, <2>4 DEF OwnFiles, OwnTargets
<1>3. ASSUME NEW j \in Jobs, NEW t \in job[j].todo, Scanned(j, t) PROVE OwnFiles'
  <2>1. OwnReports'
    BY <1>3 DEF OwnFiles, OwnReports, Scanned
  <2>2. OwnTargets(j)'
    BY <1>3 DEF OwnFiles, OwnTargets, Becomes, Scanned
  <2>3. \A i \in Jobs : i # j => job'[i] = job[i]
    BY <1>3 DEF Becomes, Scanned
  <2>4. strayed \subseteq strayed'
    BY <1>3 DEF Scanned
  <2> QED
    BY <2>1, <2>2, <2>3, <2>4 DEF OwnFiles, OwnTargets
<1>4. ASSUME NEW j \in Jobs, Summarised(j) PROVE OwnFiles'
  <2>1. OwnReports'
    BY <1>4 DEF OwnFiles, OwnReports, Summarised
  <2>2. OwnTargets(j)'
    BY <1>4 DEF OwnFiles, OwnTargets, Becomes, Summarised
  <2>3. \A i \in Jobs : i # j => job'[i] = job[i]
    BY <1>4 DEF Becomes, Summarised
  <2>4. strayed \subseteq strayed'
    BY <1>4 DEF Summarised
  <2> QED
    BY <2>1, <2>2, <2>3, <2>4 DEF OwnFiles, OwnTargets
<1>5. ASSUME NEW j \in Jobs, NEW t \in job[j].todo, MovedOne(j, t) PROVE OwnFiles'
  <2>1. OwnReports'
    BY <1>5 DEF OwnFiles, OwnReports, MovedOne
  <2>2. OwnTargets(j)'
    BY <1>5 DEF OwnFiles, OwnTargets, Becomes, MovedOne
  <2>3. \A i \in Jobs : i # j => job'[i] = job[i]
    BY <1>5 DEF Becomes, MovedOne
  <2>4. strayed \subseteq strayed'
    BY <1>5 DEF MovedOne
  <2> QED
    BY <2>1, <2>2, <2>3, <2>4 DEF OwnFiles, OwnTargets
<1>6. ASSUME NEW j \in Jobs, NEW t \in job[j].targets, Noted(j, t) PROVE OwnFiles'
  <2>1. OwnReports'
    <3>1. t.file.of \in Downloads /\ job[j].id \in Downloads
      BY <1>6, TargetFacts, FileFacts DEF Noted
    <3>2. Key(t.file.of) = "top" => job[j].id \in Singles
      BY <3>1, KeyFacts, ReportsAreTold DEF Targeted, JobTargets, Downloads
    <3>3. Key(t.file.of) # Key(job[j].id) => job[j].id \in strayed
      BY <3>1 DEF OwnFiles, OwnTargets
    <3>4. \A q \in Roots, k \in Keys :
             \/ report'[q][k] = report[q][k] \/ report'[q][k] = None
             \/ k = Key(t.file.of) /\ report'[q][k] = job[j].id
      BY <1>6 DEF Noted
    <3>5. "top" \in Keys /\ strayed \subseteq strayed'
      BY <1>6 DEF Keys, Noted
    <3>6. \A q \in Roots : report'[q]["top"] \in Singles \union {None}
      BY <3>2, <3>4, <3>5 DEF OwnFiles, OwnReports
    <3>7. \A q \in Roots, k \in Keys, d \in Downloads : report'[q][k] = d /\ k # Key(d) =>
            d \in strayed'
      BY <3>3, <3>4, <3>5, KeyFacts DEF OwnFiles, OwnReports
    <3> QED
      BY <3>5, <3>6, <3>7 DEF OwnReports
  <2>2. OwnTargets(j)'
    BY <1>6 DEF OwnFiles, OwnTargets, Becomes, Noted, Passes
  <2>3. \A i \in Jobs : i # j => job'[i] = job[i]
    BY <1>6 DEF Becomes, Noted, Passes
  <2>4. strayed \subseteq strayed'
    BY <1>6 DEF Noted
  <2> QED
    BY <2>1, <2>2, <2>3, <2>4 DEF OwnFiles, OwnTargets
<1>7. ASSUME NEW j \in Jobs, Settles(j) PROVE OwnFiles'
  <2>1. OwnReports'
    <3>1. UNCHANGED <<report, strayed>>
      BY <1>7 DEF Settles, AtRest
    <3> QED
      BY <3>1 DEF OwnFiles, OwnReports
  <2>2. OwnTargets(j)'
    BY <1>7 DEF OwnFiles, OwnTargets, Becomes, Settles, Ended, Passes, AtRest
  <2>3. \A i \in Jobs : i # j => job'[i] = job[i]
    BY <1>7 DEF Becomes, Settles, Ended, Passes
  <2>4. strayed \subseteq strayed'
    BY <1>7 DEF Settles, AtRest
  <2> QED
    BY <2>1, <2>2, <2>3, <2>4 DEF OwnFiles, OwnTargets
<1>8. ASSUME NEW c \in Downloads, NEW r \in Roots, Removed(r, c) PROVE OwnFiles'
  <2>1. OwnReports'
    <3>1. \A q \in Roots, k \in Keys : report'[q][k] = report[q][k] \/ report'[q][k] = None
      BY <1>8 DEF Removed
    <3>2. "top" \in Keys /\ strayed \subseteq strayed'
      BY <1>8 DEF Keys, Removed
    <3>3. \A q \in Roots : report'[q]["top"] \in Singles \union {None}
      BY <3>1, <3>2 DEF OwnFiles, OwnReports
    <3>4. \A q \in Roots, k \in Keys, d \in Downloads : report'[q][k] = d /\ k # Key(d) =>
            d \in strayed'
      BY <3>1, <3>2, KeyFacts DEF OwnFiles, OwnReports
    <3> QED
      BY <3>3, <3>4 DEF OwnReports
  <2> QED
    BY <1>8, <2>1 DEF OwnFiles, OwnTargets, Removed
<1> QED
  BY <1>1, <1>2, <1>3, <1>4, <1>5, <1>6, <1>7, <1>8, RescanMoves

-----------------------------------------------------------------------------
(* The records of scans                                                    *)

\* A scan writes one record, and only scans do.
Rewrites(j, t) ==
  /\ t \in Targets /\ t.file \in Files /\ t.root \in Kept /\ job[j].id \in Downloads
  /\ Judges(t, scans'[job[j].id][t.file])
  /\ \A d \in Downloads, f \in Files : d # job[j].id \/ f # t.file => scans'[d][f] = scans[d][f]
  /\ scans'[job[j].id][t.file] = "threat" => place'[t.file] = "quarantine" \/ t.file \in stuck'

LEMMA ScanRewrites ==
  ASSUME RescanTypeOK, NEW j \in Jobs, NEW t \in job[j].todo, Scanned(j, t)
  PROVE  Rewrites(j, t)
<1>1. t \in Targets /\ t.file \in Files /\ t.root \in Kept /\ job[j].id \in Downloads
  BY TargetFacts DEF Scanned
<1>2. PICK v : /\ Judges(t, v)
               /\ scans' = [scans EXCEPT ![job[j].id][t.file] = v]
               /\ \/ v = "threat" /\ place' = [place EXCEPT ![t.file] = "quarantine"] /\ stuck' = stuck
                  \/ v = "threat" /\ place' = place /\ stuck' = stuck \union {t.file}
                  \/ v # "threat" /\ place' = place /\ stuck' = stuck
  BY DEF Scanned
<1>3. /\ scans'[job[j].id][t.file] = v
      /\ \A d \in Downloads, f \in Files : d # job[j].id \/ f # t.file =>
           scans'[d][f] = scans[d][f]
  BY <1>1, <1>2, TypeFacts
<1>4. v = "threat" => place'[t.file] = "quarantine" \/ t.file \in stuck'
  BY <1>1, <1>2, TypeFacts
<1> QED
  BY <1>1, <1>2, <1>3, <1>4 DEF Rewrites

LEMMA ScansStep ==
  ASSUME RescanTypeOK, Targeted, RescanNext
  PROVE  /\ nature' = nature
         /\ \/ scans' = scans
            \/ \E j \in Jobs : \E t \in job[j].todo : job[j].pc = "scan" /\ Rewrites(j, t)
<1>1. ASSUME NEW j \in Jobs, NEW t \in job[j].todo, Scanned(j, t)
      PROVE  nature' = nature /\ job[j].pc = "scan" /\ Rewrites(j, t)
  BY <1>1, ScanRewrites DEF Scanned
<1>2. ASSUME NEW j \in Jobs, NEW d \in Downloads, Started(j, d) PROVE UNCHANGED <<scans, nature>>
  BY <1>2 DEF Started
<1>3. ASSUME NEW j \in Jobs, Collected(j) \/ Summarised(j) \/ Settles(j)
      PROVE  UNCHANGED <<scans, nature>>
  BY <1>3 DEF Collected, Summarised, Settles, AtRest
<1>4. ASSUME NEW j \in Jobs, NEW t, MovedOne(j, t) \/ Noted(j, t)
      PROVE  UNCHANGED <<scans, nature>>
  BY <1>4 DEF MovedOne, Noted
<1>5. ASSUME NEW d \in Downloads, NEW r \in Roots, Removed(r, d) PROVE UNCHANGED <<scans, nature>>
  BY <1>5 DEF Removed
<1> QED
  BY <1>1, <1>2, <1>3, <1>4, <1>5, RescanMoves

\* Records stay true: a file in reach is never called a threat, unless it is stuck.
LEMMA TrueRecordsKept ==
  ASSUME RescanTypeOK, Targeted, Recorded, RescanNext
  PROVE  TrueRecords'
<1> SUFFICES ASSUME NEW d \in Downloads, NEW f \in Files
             PROVE  /\ scans'[d][f] = "clean" => nature[f] = "clean"
                    /\ scans'[d][f] = "threat" =>
                         nature[f] = "threat" /\ (place'[f] \in Kept => f \in stuck')
  BY ScansStep DEF TrueRecords
<1>1. CASE scans'[d][f] = scans[d][f]
  BY <1>1, ScanGoes, HistoryGrows DEF Recorded, TrueRecords, Grown
<1>2. CASE scans'[d][f] # scans[d][f]
  <2>1. PICK j \in Jobs : \E t \in job[j].todo : Rewrites(j, t)
    BY <1>2, ScansStep
  <2> QED
    BY <1>2, <2>1 DEF Rewrites, Judges, Kept
<1> QED
  BY <1>1, <1>2

\* A record once written is never "none" again.
LEMMA RecordsStay ==
  ASSUME RescanTypeOK, Targeted, RescanNext, NEW d \in Downloads, NEW f \in Files,
         scans[d][f] # "none"
  PROVE  scans'[d][f] # "none"
<1>1. CASE scans' = scans
  BY <1>1
<1>2. CASE scans' # scans
  <2>1. PICK j \in Jobs : \E t \in job[j].todo : Rewrites(j, t)
    BY <1>2, ScansStep
  <2> QED
    BY <2>1 DEF Rewrites, Judges
<1> QED
  BY <1>1, <1>2

\* A job that works has a download.
LEMMA IdsAreDownloads ==
  ASSUME RescanTypeOK, NEW j \in Jobs, job[j].pc # "idle"
  PROVE  job[j].id \in Downloads
BY TypeFacts DEF JobType, Busy

\* A job that does nothing keeps the records of its scans.
LEMMA OthersScans ==
  ASSUME RescanTypeOK, Targeted, Recorded, RescanNext, NEW i \in Jobs, job'[i] = job[i]
  PROVE  JobScans(i)'
<1>1. ASSUME job[i].pc = "scan", NEW t \in job[i].targets \ job[i].todo
      PROVE  scans'[job[i].id][t.file] # "none"
  BY <1>1, RecordsStay, IdsAreDownloads, TodoIsTyped, TargetFacts DEF Recorded, JobScans
<1> QED
  BY <1>1 DEF JobScans

\* Records are true, and a target that is no longer to be scanned has one.
LEMMA RecordedKept ==
  ASSUME RescanTypeOK, Targeted, RescanNext, Recorded
  PROVE  \A i \in Jobs : JobScans(i)'
<1>1. ASSUME NEW j \in Jobs, NEW e \in Downloads, Started(j, e) PROVE \A i \in Jobs : JobScans(i)'
  <2>1. JobScans(j)'
    BY <1>1 DEF JobScans, Becomes, Started
  <2>2. \A i \in Jobs : i # j => job'[i] = job[i]
    BY <1>1 DEF Becomes, Started
  <2> QED
    BY <2>1, <2>2, OthersScans
<1>2. ASSUME NEW j \in Jobs, Collected(j) PROVE \A i \in Jobs : JobScans(i)'
  <2>1. JobScans(j)'
    <3>1. CASE Becomes(j, "idle", None, {}, {}, {}, "none")
      BY <3>1 DEF Becomes, JobScans
    <3>2. CASE Becomes(j, "scan", job[j].id, Found(job[j].id), Found(job[j].id), {}, "none")
      BY <3>2 DEF Becomes, JobScans
    <3> QED
      BY <1>2, <3>1, <3>2 DEF Collected
  <2>2. \A i \in Jobs : i # j => job'[i] = job[i]
    BY <1>2 DEF Becomes, Collected
  <2> QED
    BY <2>1, <2>2, OthersScans
<1>3. ASSUME NEW j \in Jobs, NEW t \in job[j].todo, Scanned(j, t)
      PROVE  \A i \in Jobs : JobScans(i)'
  <2>1. Becomes(j, "scan", job[j].id, job[j].targets, job[j].todo \ {t}, job[j].moved, job[j].result)
    BY <1>3 DEF Scanned
  <2>2. Rewrites(j, t) /\ job[j].pc = "scan"
    BY <1>3, ScanRewrites DEF Scanned
  <2>3. ASSUME NEW u \in job[j].targets \ (job[j].todo \ {t})
        PROVE  scans'[job[j].id][u.file] # "none"
    <3>1. CASE u = t
      BY <2>2, <3>1 DEF Rewrites, Judges
    <3>2. CASE u # t
      BY <2>2, <3>2, RecordsStay, IdsAreDownloads, TodoIsTyped, TargetFacts DEF Recorded, JobScans
    <3> QED
      BY <3>1, <3>2
  <2>4. JobScans(j)'
    BY <2>1, <2>3 DEF JobScans, Becomes
  <2> QED
    BY <2>1, <2>4, OthersScans DEF Becomes
<1>4. ASSUME NEW j \in Jobs, Summarised(j) PROVE \A i \in Jobs : JobScans(i)'
  <2>1. JobScans(j)'
    BY <1>4 DEF JobScans, Becomes, Summarised
  <2>2. \A i \in Jobs : i # j => job'[i] = job[i]
    BY <1>4 DEF Becomes, Summarised
  <2> QED
    BY <2>1, <2>2, OthersScans
<1>5. ASSUME NEW j \in Jobs, NEW t \in job[j].todo, MovedOne(j, t)
      PROVE  \A i \in Jobs : JobScans(i)'
  <2>1. JobScans(j)'
    BY <1>5 DEF JobScans, Becomes, MovedOne
  <2>2. \A i \in Jobs : i # j => job'[i] = job[i]
    BY <1>5 DEF Becomes, MovedOne
  <2> QED
    BY <2>1, <2>2, OthersScans
<1>6. ASSUME NEW j \in Jobs, NEW t \in job[j].targets, Noted(j, t)
      PROVE  \A i \in Jobs : JobScans(i)'
  <2>1. JobScans(j)'
    BY <1>6 DEF JobScans, Becomes, Noted, Passes
  <2>2. \A i \in Jobs : i # j => job'[i] = job[i]
    BY <1>6 DEF Becomes, Noted, Passes
  <2> QED
    BY <2>1, <2>2, OthersScans
<1>7. ASSUME NEW j \in Jobs, Settles(j) PROVE \A i \in Jobs : JobScans(i)'
  <2>1. JobScans(j)'
    BY <1>7 DEF JobScans, Becomes, Settles, Ended, Passes
  <2>2. \A i \in Jobs : i # j => job'[i] = job[i]
    BY <1>7 DEF Becomes, Settles, Ended, Passes
  <2> QED
    BY <2>1, <2>2, OthersScans
<1>8. ASSUME NEW c \in Downloads, NEW r \in Roots, Removed(r, c)
      PROVE  \A i \in Jobs : JobScans(i)'
  BY <1>8, OthersScans DEF Removed
<1> QED
  BY <1>1, <1>2, <1>3, <1>4, <1>5, <1>6, <1>7, <1>8, RescanMoves

\* What is settled about a download stays so: that nothing of it is bad, and
\* that something is.
LEMMA ClearedStays ==
  ASSUME RescanTypeOK, Targeted, OwnFiles, RescanNext, NEW d \in Downloads, d \notin strayed,
         Cleared(d)
  PROVE  Cleared(d)'
<1>1. \A f \in FilesOf(d) : place'[f] \in Kept => nature'[f] = "clean"
  BY ScanGoes, ScansStep, FileFacts DEF Cleared
<1>2. ASSUME NEW j \in Jobs, NEW t \in job[j].todo, Rewrites(j, t), job[j].id = d
      PROVE  scans'[d][t.file] # "threat"
  <2>1. t.file \in FilesOf(d)
    BY <1>2, FileFacts DEF OwnFiles, OwnTargets, Targeted, JobTargets, Rewrites
  <2> QED
    BY <1>2, <2>1 DEF Rewrites, Judges, Cleared
<1>3. ASSUME NEW f \in Files PROVE scans'[d][f] # "threat"
  <2>1. scans[d][f] # "threat"
    BY DEF Cleared, HasThreat
  <2>2. CASE scans'[d][f] # scans[d][f]
    <3>1. PICK j \in Jobs : \E t \in job[j].todo : Rewrites(j, t)
      BY <2>2, ScansStep
    <3> QED
      BY <1>2, <2>2, <3>1 DEF Rewrites
  <2> QED
    BY <2>1, <2>2
<1> QED
  BY <1>1, <1>3 DEF Cleared, HasThreat

LEMMA BadStays ==
  ASSUME RescanTypeOK, Targeted, RescanNext, NEW d \in Downloads, BadRecorded(d)
  PROVE  BadRecorded(d)'
<1>1. PICK f \in Files : nature[f] = "threat" /\ scans[d][f] \in {"threat", "unscanned"}
  BY DEF BadRecorded
<1>2. scans'[d][f] \in {"threat", "unscanned"}
  <2>1. CASE scans'[d][f] # scans[d][f]
    <3>1. PICK j \in Jobs : \E t \in job[j].todo : Rewrites(j, t)
      BY <2>1, ScansStep
    <3> QED
      BY <1>1, <2>1, <3>1 DEF Rewrites, Judges
  <2> QED
    BY <1>1, <2>1
<1> QED
  BY <1>1, <1>2, ScansStep DEF BadRecorded

-----------------------------------------------------------------------------
(* What a scan covers                                                      *)

\* A file of a download that did not stray is moved to clean/ by a job of it.
LEMMA OwnerMoves ==
  ASSUME RescanTypeOK, Targeted, OwnFiles, RescanNext, NEW d \in Downloads, d \notin strayed,
         NEW f \in FilesOf(d),
         place'[f] \in Kept, place'[f] # place[f]
  PROVE  /\ place[f] = "scan" /\ place'[f] = "clean"
         /\ \E j \in Jobs : Cleaning(j) /\ job[j].id = d
<1>1. f \in Files /\ f.of = d
  BY FileFacts
<1>2. place[f] = "scan" /\ place'[f] = "clean" /\ \E j \in Jobs :
        Cleaning(j) /\ At(f, "scan") \in job[j].todo
  BY <1>1, ScanGoes
<1>3. PICK j \in Jobs : Cleaning(j) /\ At(f, "scan") \in job[j].todo
  BY <1>2
<1>4. At(f, "scan").file = f /\ At(f, "scan") \in job[j].targets
  BY <1>3, TargetFacts DEF Targeted, JobTargets
<1>5. job[j].id = d
  BY <1>1, <1>4 DEF OwnFiles, OwnTargets
<1> QED
  BY <1>2, <1>3, <1>5

\* A file that is being moved is so until it is moved, or gets stuck.
LEMMA BeingMovedStays ==
  ASSUME RescanTypeOK, Targeted, RescanNext, NEW f \in Files, BeingMoved(f), place'[f] = "scan",
         f \notin stuck'
  PROVE  BeingMoved(f)'
<1>1. PICK i \in Jobs : Cleaning(i) /\ job[i].id = f.of /\ At(f, "scan") \in job[i].todo
  BY DEF BeingMoved
<1>2. f.of \in Downloads
  BY FileFacts
<1>3. ASSUME NEW j \in Jobs, NEW e \in Downloads, Started(j, e) PROVE BeingMoved(f)'
  <2>1. j # i
    BY <1>3, <1>1, <1>2, KeyFacts DEF Started
  <2>2. job'[i] = job[i]
    BY <1>3, <2>1 DEF Becomes, Started
  <2> QED
    BY <1>1, <2>2 DEF BeingMoved, Cleaning
<1>4. ASSUME NEW j \in Jobs, Collected(j) PROVE BeingMoved(f)'
  <2>1. j # i
    BY <1>4, <1>1 DEF Cleaning, Collected
  <2>2. job'[i] = job[i]
    BY <1>4, <2>1 DEF Becomes, Collected
  <2> QED
    BY <1>1, <2>2 DEF BeingMoved, Cleaning
<1>5. ASSUME NEW j \in Jobs, NEW t \in job[j].todo, Scanned(j, t) PROVE BeingMoved(f)'
  <2>1. j # i
    BY <1>5, <1>1 DEF Cleaning, Scanned
  <2>2. job'[i] = job[i]
    BY <1>5, <2>1 DEF Becomes, Scanned
  <2> QED
    BY <1>1, <2>2 DEF BeingMoved, Cleaning
<1>6. ASSUME NEW j \in Jobs, Summarised(j) PROVE BeingMoved(f)'
  <2>1. j # i
    BY <1>6, <1>1 DEF Cleaning, Summarised
  <2>2. job'[i] = job[i]
    BY <1>6, <2>1 DEF Becomes, Summarised
  <2> QED
    BY <1>1, <2>2 DEF BeingMoved, Cleaning
<1>7. ASSUME NEW j \in Jobs, NEW t \in job[j].todo, MovedOne(j, t) PROVE BeingMoved(f)'
  <2>1. CASE j # i
    <3>1. job'[i] = job[i]
      BY <1>7, <2>1 DEF Becomes, MovedOne
    <3> QED
      BY <1>1, <3>1 DEF BeingMoved, Cleaning
  <2>2. CASE j = i
    <3>1. t # At(f, "scan")
      <4>1. SUFFICES ASSUME t = At(f, "scan") PROVE FALSE
        OBVIOUS
      <4>2. place[t.file] = t.root /\ t.file = f
        BY <4>1, TargetFacts, ScanGoes
      <4>3. place'[f] = "clean" \/ f \in stuck'
        BY <1>7, <1>1, <2>2, <4>2, TypeFacts DEF MovedOne, Cleaning, Destination
      <4> QED
        BY <4>3
    <3>2. /\ job'[i].pc = job[i].pc /\ job'[i].id = job[i].id /\ job'[i].result = job[i].result
          /\ job'[i].todo = job[i].todo \ {t}
      BY <1>7, <2>2 DEF MovedOne, Becomes
    <3> QED
      BY <1>1, <3>1, <3>2 DEF BeingMoved, Cleaning
  <2> QED
    BY <2>1, <2>2
<1>8. ASSUME NEW j \in Jobs, NEW t \in job[j].targets, Noted(j, t) PROVE BeingMoved(f)'
  <2>1. j # i
    BY <1>8, <1>1 DEF Cleaning, Noted
  <2>2. job'[i] = job[i]
    BY <1>8, <2>1 DEF Becomes, Noted, Passes
  <2> QED
    BY <1>1, <2>2 DEF BeingMoved, Cleaning
<1>9. ASSUME NEW j \in Jobs, Settles(j) PROVE BeingMoved(f)'
  <2>1. j # i
    BY <1>9, <1>1 DEF Cleaning, Settles
  <2>2. job'[i] = job[i]
    BY <1>9, <2>1 DEF Becomes, Settles, Ended, Passes
  <2> QED
    BY <1>1, <2>2 DEF BeingMoved, Cleaning
<1>10. ASSUME NEW c \in Downloads, NEW r \in Roots, Removed(r, c) PROVE BeingMoved(f)'
  BY <1>10, <1>1 DEF BeingMoved, Cleaning, Removed
<1> QED
  BY <1>3, <1>4, <1>5, <1>6, <1>7, <1>8, <1>9, <1>10, RescanMoves

\* A scan goes on covering what it covers.
LEMMA CoversStays ==
  ASSUME RescanTypeOK, Targeted, OwnFiles, Verdicts, Covered, RescanNext, NEW i \in Jobs,
         job'[i].pc = job[i].pc, job'[i].id = job[i].id, job'[i].targets = job[i].targets
  PROVE  JobCovers(i)'
<1> SUFFICES ASSUME job[i].pc = "scan", job[i].id \notin strayed', NEW f \in FilesOf(job[i].id),
                    place'[f] \in Kept, f \notin stuck'
             PROVE  \/ At(f, place'[f]) \in job[i].targets
                    \/ Cleared(job[i].id)' /\ (place'[f] = "scan" => BeingMoved(f)')
  BY DEF JobCovers
<1>1. job[i].id \in Downloads /\ job[i].id \notin strayed /\ f \in Files /\ f \notin stuck
  BY IdsAreDownloads, HistoryGrows, FileFacts DEF Grown
<1>2. CASE place'[f] = place[f]
  <2>1. At(f, place[f]) \in job[i].targets \/ (Cleared(job[i].id) /\ (place[f] = "scan" =>
          BeingMoved(f)))
    BY <1>1, <1>2 DEF Covered, JobCovers
  <2> QED
    BY <1>1, <1>2, <2>1, ClearedStays, BeingMovedStays
<1>3. CASE place'[f] # place[f]
  <2>1. place'[f] = "clean" /\ \E j \in Jobs : Cleaning(j) /\ job[j].id = job[i].id
    BY <1>1, <1>3, OwnerMoves
  <2>2. Cleared(job[i].id)
    BY <1>1, <2>1 DEF Verdicts
  <2> QED
    BY <1>1, <2>1, <2>2, ClearedStays
<1> QED
  BY <1>2, <1>3

\* What a scan finds of its download, or the reason why it need not.
LEMMA FoundCovers ==
  ASSUME RescanTypeOK, Targeted, OwnFiles, Verdicts, Moved, Reported, NEW d \in Downloads,
         d \notin strayed,
         Found(d) # {}, \A t \in Found(d) : t.file.of = d, NEW f \in FilesOf(d), place[f] \in Kept
  PROVE  \/ At(f, place[f]) \in Found(d)
         \/ f \in stuck
         \/ Cleared(d) /\ (place[f] = "scan" => BeingMoved(f))
<1>1. CASE d \in loaded
  BY <1>1, FoundIs
<1>2. CASE d \notin loaded /\ d \in Singles
  <2>1. PICK t \in Found(d) : TRUE
    OBVIOUS
  <2>2. t \in Targets /\ place[t.file] = t.root /\ t = At(t.file, t.root) /\ t.file \in Files
    BY FoundIs, TargetFacts
  <2>3. t.file \in FilesOf(d)
    BY <2>2, FileFacts
  <2>4. t.file = f
    BY <1>2, <2>3, FileFacts
  <2> QED
    BY <2>2, <2>4
<1>3. CASE d \notin loaded /\ d \in Folders
  <2>1. /\ Key(d) = d /\ d \in Keys /\ d # "top" /\ f.of = d /\ f \in Files
        /\ \A e \in Downloads : Key(e) = d => e = d
    BY <1>3, KeyFacts, FileFacts, ReportsAreTold DEF Downloads
  <2>2. \A r \in Kept : report[r]["top"] # d /\ (HasReport(r, d) <=> report[r][d] = d)
    BY <2>1 DEF HasReport, OwnFiles, OwnReports, Kept, Roots, Keys
  <2>3. \A r \in Kept : place[f] = r /\ report[r][d] = d => f \in CollectDelivered(r, d)
    BY <1>3, <2>1, <2>2 DEF CollectDelivered, Below
  <2>4. place[f] = "clean" /\ report["clean"][d] # d => Cleared(d)
    <3>1. SUFFICES ASSUME place[f] = "clean", report["clean"][d] # d PROVE Cleared(d)
      OBVIOUS
    <3>2. Item("clean", d) # {}
      BY <3>1 DEF Item
    <3>3. \E j \in Jobs : Cleaning(j) /\ job[j].id = d
      BY <2>1, <3>1, <3>2 DEF Reported, Kept
    <3> QED
      BY <3>3 DEF Verdicts
  <2>5. place[f] = "scan" /\ report["clean"][d] = d =>
          f \in stuck \/ (Cleared(d) /\ BeingMoved(f))
    <3>1. SUFFICES ASSUME place[f] = "scan", report["clean"][d] = d, f \notin stuck
                   PROVE  Cleared(d) /\ BeingMoved(f)
      OBVIOUS
    <3>2. BeingMoved(f)
      BY <2>1, <3>1 DEF Moved, SaysClean
    <3> QED
      BY <2>1, <3>2 DEF BeingMoved, Verdicts
  <2>6. report["clean"][d] = d => DiskTargets(d) = CollectDelivered("clean", d)
    BY <2>2 DEF DiskTargets, Kept
  <2>7. report["clean"][d] # d /\ report["scan"][d] = d =>
          DiskTargets(d) = CollectDelivered("scan", d)
    BY <2>2 DEF DiskTargets, Kept
  <2>8. report["clean"][d] # d /\ report["scan"][d] # d => DiskTargets(d) = {}
    BY <2>2 DEF DiskTargets, Kept
  <2>9. DiskTargets(d) # {} /\ \A g \in DiskTargets(d) : At(g, place[g]) \in Found(d)
    BY <1>3, FoundIs
  <2>10. CASE place[f] = "clean"
    BY <2>3, <2>4, <2>6, <2>9, <2>10 DEF Kept
  <2>11. CASE place[f] = "scan"
    BY <2>3, <2>5, <2>6, <2>7, <2>8, <2>9, <2>11 DEF Kept
  <2> QED
    BY <2>10, <2>11 DEF Kept
<1> QED
  BY <1>1, <1>2, <1>3 DEF Downloads

\* A scan covers its download.
LEMMA CoveredKept ==
  ASSUME RescanTypeOK, Targeted, RescanNext, OwnFiles, Verdicts, Covered, Moved, Reported
  PROVE  Covered'
<1>1. ASSUME NEW j \in Jobs, NEW e \in Downloads, Started(j, e) PROVE Covered'
  <2>1. JobCovers(j)'
    BY <1>1 DEF JobCovers, Becomes, Started
  <2>2. \A i \in Jobs : i # j => job'[i] = job[i]
    BY <1>1 DEF Becomes, Started
  <2> QED
    BY <2>1, <2>2, CoversStays DEF Covered
<1>2. ASSUME NEW j \in Jobs, Collected(j) PROVE Covered'
  <2>1. PICK d \in Downloads : d = job[j].id
    BY <1>2 DEF Collected
  <2>2. JobCovers(j)'
    <3>1. CASE Becomes(j, "idle", None, {}, {}, {}, "none")
      BY <3>1 DEF Becomes, JobCovers
    <3>2. CASE Becomes(j, "scan", d, Found(d), Found(d), {}, "none") /\ Found(d) # {}
      <4>1. SUFFICES ASSUME d \notin strayed', NEW f \in FilesOf(d), place'[f] \in Kept,
                            f \notin stuck'
                     PROVE  \/ At(f, place'[f]) \in Found(d)
                            \/ Cleared(d)' /\ (place'[f] = "scan" => BeingMoved(f)')
        BY <2>1, <3>2 DEF Becomes, JobCovers
      <4>2. d \in Downloads /\ place' = place /\ strayed \subseteq strayed' /\ stuck' = stuck
        BY <1>2 DEF Collected
      <4>3. \A t \in Found(d) : t.file.of = d
        BY <1>2, <2>1, <4>1 DEF Collected
      <4>4. At(f, place[f]) \in Found(d) \/ (Cleared(d) /\ (place[f] = "scan" => BeingMoved(f)))
        BY <3>2, <4>1, <4>2, <4>3, FoundCovers
      <4> QED
        BY <4>1, <4>2, <4>4, ClearedStays, BeingMovedStays, FileFacts
    <3> QED
      BY <1>2, <2>1, <3>1, <3>2 DEF Collected
  <2>3. \A i \in Jobs : i # j => job'[i] = job[i]
    BY <1>2 DEF Becomes, Collected
  <2> QED
    BY <2>2, <2>3, CoversStays DEF Covered
<1>3. ASSUME NEW j \in Jobs, NEW t \in job[j].todo, Scanned(j, t) PROVE Covered'
  <2>1. /\ job'[j].pc = job[j].pc /\ job'[j].id = job[j].id /\ job'[j].targets = job[j].targets
        /\ \A i \in Jobs : i # j => job'[i] = job[i]
    BY <1>3 DEF Becomes, Scanned
  <2> QED
    BY <2>1, CoversStays DEF Covered
<1>4. ASSUME NEW j \in Jobs, Summarised(j) PROVE Covered'
  <2>1. JobCovers(j)'
    BY <1>4 DEF JobCovers, Becomes, Summarised
  <2>2. \A i \in Jobs : i # j => job'[i] = job[i]
    BY <1>4 DEF Becomes, Summarised
  <2> QED
    BY <2>1, <2>2, CoversStays DEF Covered
<1>5. ASSUME NEW j \in Jobs, NEW t \in job[j].todo, MovedOne(j, t) PROVE Covered'
  <2>1. JobCovers(j)'
    BY <1>5 DEF JobCovers, Becomes, MovedOne
  <2>2. \A i \in Jobs : i # j => job'[i] = job[i]
    BY <1>5 DEF Becomes, MovedOne
  <2> QED
    BY <2>1, <2>2, CoversStays DEF Covered
<1>6. ASSUME NEW j \in Jobs, NEW t \in job[j].targets, Noted(j, t) PROVE Covered'
  <2>1. JobCovers(j)'
    BY <1>6 DEF JobCovers, Becomes, Noted, Passes
  <2>2. \A i \in Jobs : i # j => job'[i] = job[i]
    BY <1>6 DEF Becomes, Noted, Passes
  <2> QED
    BY <2>1, <2>2, CoversStays DEF Covered
<1>7. ASSUME NEW j \in Jobs, Settles(j) PROVE Covered'
  <2>1. JobCovers(j)'
    BY <1>7 DEF JobCovers, Becomes, Settles, Ended, Passes
  <2>2. \A i \in Jobs : i # j => job'[i] = job[i]
    BY <1>7 DEF Becomes, Settles, Ended, Passes
  <2> QED
    BY <2>1, <2>2, CoversStays DEF Covered
<1>8. ASSUME NEW c \in Downloads, NEW r \in Roots, Removed(r, c) PROVE Covered'
  BY <1>8, CoversStays DEF Covered, Removed
<1> QED
  BY <1>1, <1>2, <1>3, <1>4, <1>5, <1>6, <1>7, <1>8, RescanMoves

-----------------------------------------------------------------------------
(* Verdicts, and what is moved after them                                  *)

\* What ScanSummary makes of the records.
LEMMA SummaryIs ==
  ASSUME RescanTypeOK, NEW d \in Downloads
  PROVE  /\ Summary(d) \in {"clean", "unscanned", "threats_found"}
         /\ Summary(d) = "threats_found" <=> HasThreat(d)
         /\ Summary(d) = "clean" => \A f \in Files : scans[d][f] \in {"none", "clean"}
<1>1. \A x : x \in Scans(d) <=> \E f \in Files : x = scans[d][f]
  BY DEF Scans
<1>2. \A f \in Files : scans[d][f] \in {"none", "clean", "threat", "unscanned"}
  BY TypeFacts
<1> QED
  BY <1>1, <1>2 DEF Summary, HasThreat

\* How a job comes to move files, and goes on.
LEMMA MoveStep ==
  ASSUME RescanTypeOK, Targeted, RescanNext, NEW i \in Jobs, job'[i].pc = "move"
  PROVE  \/ /\ job[i].pc = "move" /\ job'[i].id = job[i].id /\ job'[i].result = job[i].result
            /\ job'[i].todo = job[i].todo \/ \E t \in job[i].todo : MovedOne(i, t)
         \/ Summarised(i)
<1> DEFINE Goal == \/ /\ job[i].pc = "move" /\ job'[i].id = job[i].id /\ job'[i].result = job[i].result
                      /\ job'[i].todo = job[i].todo \/ \E t \in job[i].todo : MovedOne(i, t)
                   \/ Summarised(i)
<1> SUFFICES Goal
  OBVIOUS
<1>1. ASSUME NEW j \in Jobs, NEW e \in Downloads, Started(j, e) PROVE Goal
  BY <1>1 DEF Becomes, Started
<1>2. ASSUME NEW j \in Jobs, Collected(j) PROVE Goal
  BY <1>2 DEF Becomes, Collected
<1>3. ASSUME NEW j \in Jobs, NEW t \in job[j].todo, Scanned(j, t) PROVE Goal
  BY <1>3 DEF Becomes, Scanned
<1>4. ASSUME NEW j \in Jobs, Summarised(j) PROVE Goal
  <2>1. i = j \/ job'[i] = job[i]
    BY <1>4 DEF Becomes, Summarised
  <2> QED
    BY <1>4, <2>1
<1>5. ASSUME NEW j \in Jobs, NEW t \in job[j].todo, MovedOne(j, t) PROVE Goal
  <2>1. i = j \/ job'[i] = job[i]
    BY <1>5 DEF Becomes, MovedOne
  <2>2. job[j].pc = "move" /\ job'[j].id = job[j].id /\ job'[j].result = job[j].result
    BY <1>5 DEF Becomes, MovedOne
  <2> QED
    BY <1>5, <2>1, <2>2
<1>6. ASSUME NEW j \in Jobs, NEW t \in job[j].targets, Noted(j, t) PROVE Goal
  BY <1>6 DEF Becomes, Noted, Passes
<1>7. ASSUME NEW j \in Jobs, Settles(j) PROVE Goal
  BY <1>7 DEF Becomes, Settles, Ended, Passes
<1>8. ASSUME NEW c \in Downloads, NEW r \in Roots, Removed(r, c) PROVE Goal
  BY <1>8 DEF Becomes, Removed
<1> QED
  BY <1>1, <1>2, <1>3, <1>4, <1>5, <1>6, <1>7, <1>8, RescanMoves

\* A job that found its download clean is at that until it writes it down.
LEMMA CleaningStays ==
  ASSUME RescanTypeOK, Targeted, RescanNext, NEW i \in Jobs, Cleaning(i)
  PROVE  \/ Cleaning(i)' /\ job'[i].id = job[i].id
         \/ \E t \in job[i].targets : Noted(i, t)
<1> DEFINE Goal == \/ Cleaning(i)' /\ job'[i].id = job[i].id
                   \/ \E t \in job[i].targets : Noted(i, t)
<1> SUFFICES Goal
  OBVIOUS
<1>1. job[i].id \in Downloads
  BY IdsAreDownloads DEF Cleaning
<1>2. ASSUME NEW j \in Jobs, NEW e \in Downloads, Started(j, e) PROVE Goal
  BY <1>2, <1>1, KeyFacts DEF Becomes, Cleaning, Started
<1>3. ASSUME NEW j \in Jobs, Collected(j) PROVE Goal
  BY <1>3 DEF Becomes, Cleaning, Collected
<1>4. ASSUME NEW j \in Jobs, NEW t \in job[j].todo, Scanned(j, t) PROVE Goal
  BY <1>4 DEF Becomes, Cleaning, Scanned
<1>5. ASSUME NEW j \in Jobs, Summarised(j) PROVE Goal
  BY <1>5 DEF Becomes, Cleaning, Summarised
<1>6. ASSUME NEW j \in Jobs, NEW t \in job[j].todo, MovedOne(j, t) PROVE Goal
  BY <1>6 DEF Becomes, Cleaning, MovedOne
<1>7. ASSUME NEW j \in Jobs, NEW t \in job[j].targets, Noted(j, t) PROVE Goal
  <2>1. j = i \/ job'[i] = job[i]
    BY <1>7 DEF Becomes, Noted, Passes
  <2> QED
    BY <1>7, <2>1 DEF Cleaning
<1>8. ASSUME NEW j \in Jobs, Settles(j) PROVE Goal
  BY <1>8 DEF Becomes, Cleaning, Settles, Ended, Passes
<1>9. ASSUME NEW c \in Downloads, NEW r \in Roots, Removed(r, c) PROVE Goal
  BY <1>9 DEF Becomes, Cleaning, Removed
<1> QED
  BY <1>2, <1>3, <1>4, <1>5, <1>6, <1>7, <1>8, <1>9, RescanMoves

\* A clean summary is right about the whole download.
LEMMA CleanSummary ==
  ASSUME RescanTypeOK, Recorded, Covered, StuckTold, NEW i \in Jobs, Summarised(i),
         job[i].id \notin strayed,
         Summary(job[i].id) = "clean"
  PROVE  Cleared(job[i].id)
<1>1. job[i].id \in Downloads /\ job[i].pc = "scan" /\ job[i].todo = {}
  BY DEF Summarised
<1>2. \A f \in Files : scans[job[i].id][f] \in {"none", "clean"}
  BY <1>1, SummaryIs
<1>3. ASSUME NEW f \in FilesOf(job[i].id), place[f] \in Kept, At(f, place[f]) \in job[i].targets
      PROVE  nature[f] = "clean"
  <2>1. f \in Files /\ At(f, place[f]).file = f
    BY FileFacts, TargetFacts
  <2>2. scans[job[i].id][f] # "none"
    BY <1>1, <1>3, <2>1 DEF Recorded, JobScans
  <2> QED
    BY <1>1, <1>2, <2>1, <2>2 DEF Recorded, TrueRecords
<1>4. ~BadRecorded(job[i].id)
  BY <1>2 DEF BadRecorded
<1>5. \A f \in FilesOf(job[i].id) : f \in stuck => Cleared(job[i].id)
  BY <1>4, FileFacts DEF StuckTold
<1> QED
  BY <1>1, <1>2, <1>3, <1>5 DEF Cleared, HasThreat, Covered, JobCovers

\* Verdicts stay right, and a second one does not contradict them.
LEMMA VerdictsKept ==
  ASSUME RescanTypeOK, Targeted, OwnFiles, Recorded, Covered, StuckTold, Verdicts, RescanNext
  PROVE  Verdicts'
<1> SUFFICES ASSUME NEW i \in Jobs, job'[i].id \notin strayed', job'[i].pc = "move"
             PROVE  /\ Cleaning(i)' => Cleared(job[i].id)'
                    /\ Sweeping(i)' => BadRecorded(job[i].id)'
                    /\ Sweeping(i)' => \A k \in Jobs : job'[k].id = job'[i].id => ~Cleaning(k)'
                    /\ job'[i].id = job[i].id
  BY DEF Verdicts, Cleaning, Sweeping
<1>1. \A k \in Jobs : job'[k].pc = "move" =>
        \/ job[k].pc = "move" /\ job'[k].id = job[k].id /\ job'[k].result = job[k].result
        \/ /\ Summarised(k) /\ job'[k].id = job[k].id /\ job'[k].result = Summary(job[k].id)
  <2>1. ASSUME NEW k \in Jobs, Summarised(k)
        PROVE  job'[k].id = job[k].id /\ job'[k].result = Summary(job[k].id)
    BY <2>1 DEF Summarised, Becomes
  <2> QED
    BY <2>1, MoveStep
<1>2. job'[i].id = job[i].id /\ job[i].id \in Downloads /\ job[i].id \notin strayed
  BY <1>1, HistoryGrows, IdsAreDownloads DEF Summarised, Grown
<1>3. ASSUME Cleaning(i)' PROVE Cleared(job[i].id)
  BY <1>1, <1>2, <1>3, CleanSummary DEF Verdicts, Cleaning
<1>4. ASSUME Sweeping(i)' PROVE BadRecorded(job[i].id)
  <2>1. CASE Sweeping(i)
    BY <1>2, <2>1 DEF Verdicts
  <2>2. CASE Summary(job[i].id) = "threats_found"
    BY <1>2, <2>2, SummaryIs DEF BadRecorded, HasThreat, Recorded, TrueRecords
  <2> QED
    BY <1>1, <1>4, <2>1, <2>2 DEF Sweeping
<1>5. ASSUME Sweeping(i)', NEW k \in Jobs, job'[k].id = job'[i].id, Cleaning(k)' PROVE FALSE
  <2>1. job[k].id = job[i].id
    BY <1>1, <1>2, <1>5 DEF Cleaning
  <2>2. Sweeping(i) \/ Summary(job[i].id) = "threats_found"
    BY <1>1, <1>5 DEF Sweeping
  <2>3. Cleaning(k) \/ Summary(job[i].id) = "clean"
    BY <1>1, <1>5, <2>1 DEF Cleaning
  <2>4. ~(Sweeping(i) /\ Cleaning(k))
    BY <1>2, <2>1 DEF Verdicts
  <2>5. Cleaning(k) => ~HasThreat(job[i].id)
    BY <1>2, <2>1 DEF Verdicts, Cleared
  <2>6. Sweeping(i) => Summary(job[i].id) # "clean"
    <3>1. Sweeping(i) => \E f \in Files : scans[job[i].id][f] \in {"threat", "unscanned"}
      BY <1>2 DEF Verdicts, BadRecorded
    <3> QED
      BY <1>2, <3>1, SummaryIs
  <2> QED
    BY <1>2, <2>2, <2>3, <2>4, <2>5, <2>6, SummaryIs
<1>6. PICK d \in Downloads : d = job[i].id
  BY <1>2
<1>7. /\ Cleaning(i)' => Cleared(d)'
      /\ Sweeping(i)' => BadRecorded(d)'
  BY <1>2, <1>3, <1>4, <1>6, ClearedStays, BadStays
<1>8. d = job'[i].id
  BY <1>2, <1>6
<1> QED
  BY <1>2, <1>5, <1>6, <1>7, <1>8

\* How a file gets stuck.
LEMMA StuckStep ==
  ASSUME RescanTypeOK, Targeted, RescanNext, NEW f \in stuck', f \notin stuck
  PROVE  \E j \in Jobs : \E t \in job[j].todo :
           t.file = f /\ (MovedOne(j, t) \/ (Rewrites(j, t) /\ scans'[job[j].id][f] = "threat"))
<1> DEFINE Goal == \E j \in Jobs : \E t \in job[j].todo :
             t.file = f /\ (MovedOne(j, t) \/ (Rewrites(j, t) /\ scans'[job[j].id][f] = "threat"))
<1> SUFFICES Goal
  OBVIOUS
<1>1. ASSUME NEW j \in Jobs, NEW t \in job[j].todo, Scanned(j, t) PROVE Goal
  <2>1. t.file \in Files /\ job[j].id \in Downloads
    BY <1>1, TargetFacts DEF Scanned
  <2>2. t.file = f /\ scans'[job[j].id][f] = "threat"
    BY <1>1, <2>1, TypeFacts DEF Scanned
  <2> QED
    BY <1>1, <2>2, ScanRewrites
<1>2. ASSUME NEW j \in Jobs, NEW t \in job[j].todo, MovedOne(j, t) PROVE Goal
  <2>1. t.file = f
    BY <1>2 DEF MovedOne
  <2> QED
    BY <1>2, <2>1
<1>3. ASSUME NEW j \in Jobs, NEW d \in Downloads, Started(j, d) PROVE Goal
  BY <1>3 DEF Started
<1>4. ASSUME NEW j \in Jobs, Collected(j) \/ Summarised(j) \/ Settles(j) PROVE Goal
  BY <1>4 DEF Collected, Summarised, Settles, AtRest
<1>5. ASSUME NEW j \in Jobs, NEW t, Noted(j, t) PROVE Goal
  BY <1>5 DEF Noted
<1>6. ASSUME NEW d \in Downloads, NEW r \in Roots, Removed(r, d) PROVE Goal
  BY <1>6 DEF Removed
<1> QED
  BY <1>1, <1>2, <1>3, <1>4, <1>5, <1>6, RescanMoves

\* The verdict of a download with a stuck file is known.
LEMMA StuckToldKept ==
  ASSUME RescanTypeOK, Targeted, OwnFiles, Verdicts, StuckTold, RescanNext
  PROVE  StuckTold'
<1> SUFFICES ASSUME NEW f \in stuck', f.of \notin strayed'
             PROVE  Cleared(f.of)' \/ BadRecorded(f.of)'
  BY DEF StuckTold
<1>1. f \in Files /\ f.of \in Downloads /\ f.of \notin strayed
  <2>1. f \in Files
    BY RescanTypesKept DEF RescanTypeOK
  <2> QED
    BY <2>1, FileFacts, HistoryGrows DEF Grown
<1>2. CASE f \in stuck
  BY <1>1, <1>2, ClearedStays, BadStays DEF StuckTold
<1>3. CASE f \notin stuck
  <2>1. PICK j \in Jobs : \E t \in job[j].todo :
          t.file = f /\ (MovedOne(j, t) \/ (Rewrites(j, t) /\ scans'[job[j].id][f] = "threat"))
    BY <1>3, StuckStep
  <2> PICK t \in job[j].todo :
          t.file = f /\ (MovedOne(j, t) \/ (Rewrites(j, t) /\ scans'[job[j].id][f] = "threat"))
    BY <2>1
  <2>2. job[j].id = f.of
    BY <1>1, <2>1 DEF OwnFiles, OwnTargets, Targeted, JobTargets
  <2>3. CASE MovedOne(j, t)
    <3>1. Cleaning(j) \/ Sweeping(j)
      BY <2>3 DEF MovedOne, Targeted, JobTargets, Cleaning, Sweeping
    <3>2. Cleared(f.of) \/ BadRecorded(f.of)
      BY <1>1, <2>2, <3>1 DEF Verdicts
    <3> QED
      BY <1>1, <3>2, ClearedStays, BadStays
  <2>4. CASE Rewrites(j, t) /\ scans'[job[j].id][f] = "threat"
    <3>1. nature[f] = "threat"
      BY <2>4 DEF Rewrites, Judges
    <3>2. nature' = nature
      BY ScansStep
    <3>3. scans'[f.of][f] = "threat"
      BY <2>2, <2>4
    <3> QED
      BY <1>1, <3>1, <3>2, <3>3 DEF BadRecorded
  <2> QED
    BY <2>3, <2>4
<1> QED
  BY <1>2, <1>3

\* A job that found a threat goes on having the rest before it.
LEMMA SweptKept ==
  ASSUME RescanTypeOK, Targeted, OwnFiles, Recorded, Covered, Verdicts, Swept, RescanNext
  PROVE  Swept'
<1> SUFFICES ASSUME NEW i \in Jobs, job'[i].id \notin strayed', job'[i].pc = "move",
                    job'[i].result = "threats_found",
                    NEW f \in FilesOf(job'[i].id), place'[f] \in Kept, f \notin stuck'
             PROVE  At(f, place'[f]) \in job'[i].todo
  BY DEF Swept, Sweeping
<1>1. CASE Summarised(i)
  <2>1. /\ job[i].pc = "scan" /\ place' = place /\ job'[i].id = job[i].id /\ job[i].id \in Downloads
        /\ Summary(job[i].id) = "threats_found"
        /\ job'[i].todo = {t \in job[i].targets : t.root # "quarantine"}
    BY <1>1 DEF Summarised, Becomes, Destination
  <2>2. ~Cleared(job[i].id)
    BY <2>1, SummaryIs DEF Cleared
  <2>3. At(f, place[f]) \in job[i].targets
    BY <2>1, <2>2, HistoryGrows DEF Covered, JobCovers, Grown
  <2> QED
    BY <2>1, <2>3, TargetFacts DEF Kept
<1>2. CASE ~Summarised(i)
  <2>1. /\ Sweeping(i) /\ job'[i].id = job[i].id
        /\ job'[i].todo = job[i].todo \/ \E t \in job[i].todo : MovedOne(i, t)
    BY <1>2, MoveStep DEF Sweeping
  <2>2. job[i].id \in Downloads /\ job[i].id \notin strayed /\ f \in Files /\ f \notin stuck
    BY <2>1, IdsAreDownloads, HistoryGrows, FileFacts DEF Sweeping, Grown
  <2>3. place'[f] = place[f]
    BY <2>1, <2>2, OwnerMoves DEF Verdicts
  <2>4. At(f, place[f]) \in job[i].todo
    BY <2>1, <2>2, <2>3 DEF Swept
  <2>5. ASSUME NEW t \in job[i].todo, MovedOne(i, t) PROVE At(f, place[f]) \in job'[i].todo
    <3>1. job'[i].todo = job[i].todo \ {t}
      BY <2>5 DEF MovedOne, Becomes
    <3>2. t = At(f, place[f]) => place'[f] = "quarantine" \/ f \in stuck'
      BY <2>1, <2>2, <2>5, TargetFacts, TypeFacts DEF MovedOne, Sweeping, Destination
    <3> QED
      BY <2>3, <2>4, <3>1, <3>2 DEF Kept
  <2> QED
    BY <2>1, <2>3, <2>4, <2>5
<1> QED
  BY <1>1, <1>2

-----------------------------------------------------------------------------
(* What rows and reports say                                               *)

\* A verdict comes into a row, and a name into a report, from a job that is
\* done with its files.
Wrote(d, r) ==
  \E j \in Jobs : /\ job[j].pc = "move" /\ job[j].todo = {} /\ job[j].id = d /\ job[j].result = r
                  /\ \E t \in job[j].targets : Noted(j, t)

\* A job that tells of a verdict did so before, or wrote its report just now.
LEMMA TellingStep ==
  ASSUME RescanTypeOK, Targeted, RescanNext, NEW d \in Downloads, NEW v,
         NEW i \in Jobs, job'[i].id = d, Telling(i, v)'
  PROVE  Says(d, v) \/ Wrote(d, v)
<1> DEFINE Goal == Says(d, v) \/ Wrote(d, v)
<1> SUFFICES Goal
  OBVIOUS
<1>1. CASE job'[i] = job[i] /\ ours'[i] = ours[i]
  BY <1>1 DEF Says, Telling
<1>2. ASSUME NEW j \in Jobs, Looked(j) PROVE Goal
  <2>1. CASE i = j
    <3>1. job[i].pc = "get" /\ job[i].id = d /\ job[i].result = v
      BY <1>2, <2>1 DEF Looked, Passes, Becomes, Telling
    <3> QED
      BY <3>1 DEF Says, Telling
  <2>2. CASE i # j
    BY <1>1, <1>2, <2>2 DEF Looked, Passes, Becomes, OursOnly
  <2> QED
    BY <2>1, <2>2
<1>3. ASSUME NEW j \in Jobs, Written(j) PROVE Goal
  BY <1>1, <1>3 DEF Written, Passes, Becomes, OursOnly, Telling
<1>4. ASSUME NEW j \in Jobs, SeededOne(j) PROVE Goal
  <2>1. CASE i = j
    <3>1. record[d].here /\ record[d].result = v
      BY <1>4, <2>1 DEF SeededOne, Passes, Ended, Becomes, Telling
    <3> QED
      BY <3>1 DEF Says
  <2>2. CASE i # j
    BY <1>1, <1>4, <2>2 DEF SeededOne, Passes, Ended, Becomes, OursOnly
  <2> QED
    BY <2>1, <2>2
<1>5. ASSUME NEW j \in Jobs, Unmarked(j) PROVE Goal
  BY <1>1, <1>5 DEF Unmarked, Ended, Becomes, OursOnly, Telling
<1>6. ASSUME NEW j \in Jobs, NEW e \in Downloads, Started(j, e) PROVE Goal
  BY <1>1, <1>6 DEF Started, Becomes, Telling
<1>7. ASSUME NEW j \in Jobs, Busywork(j) PROVE Goal
  <2>1. CASE i = j
    <3>1. job'[j].pc = "get" /\ job'[j].result = v
      BY <1>7, <2>1 DEF Busywork, Early, Telling
    <3>2. PICK t \in job[j].targets : Noted(j, t)
      BY <1>7, <3>1 DEF Busywork
    <3> QED
      BY <2>1, <3>1, <3>2 DEF Noted, Passes, Becomes, Wrote
  <2>2. CASE i # j
    BY <1>1, <1>7, <2>2 DEF Busywork
  <2> QED
    BY <2>1, <2>2
<1>8. ASSUME NEW c \in Downloads, NEW r \in Roots, Removed(r, c) PROVE Goal
  BY <1>1, <1>8 DEF Removed
<1> QED
  BY <1>2, <1>3, <1>4, <1>5, <1>6, <1>7, <1>8, RescanKinds DEF Finishes

\* A row is written by two steps of a job, or goes.
LEMMA RowBy ==
  ASSUME RescanTypeOK, Targeted, RescanNext, NEW d \in Downloads, record'[d].here
  PROVE  \/ record'[d] = record[d]
         \/ \E j \in Jobs : (Written(j) \/ Unmarked(j)) /\ job[j].id = d
<1> DEFINE Goal == \/ record'[d] = record[d]
                   \/ \E j \in Jobs : (Written(j) \/ Unmarked(j)) /\ job[j].id = d
<1> SUFFICES Goal
  OBVIOUS
<1>1. ASSUME NEW j \in Jobs, Finishes(j) PROVE Goal
  BY <1>1 DEF Finishes, Looked, Written, SeededOne, Unmarked, WritesOurs
<1>2. ASSUME NEW j \in Jobs, NEW e \in Downloads, Started(j, e) PROVE Goal
  BY <1>2 DEF Started
<1>3. ASSUME NEW j \in Jobs, Busywork(j) PROVE Goal
  BY <1>3 DEF Busywork
<1>4. ASSUME NEW c \in Downloads, NEW r \in Roots, Removed(r, c) PROVE Goal
  BY <1>4 DEF Removed
<1> QED
  BY <1>1, <1>2, <1>3, <1>4, RescanKinds

\* It comes to say what a job was telling.
LEMMA RowStep ==
  ASSUME RescanTypeOK, Targeted, Copied, RescanNext, NEW d \in Downloads, record'[d].here
  PROVE  record'[d] = record[d] \/ Says(d, record'[d].result)
<1>1. ASSUME NEW j \in Jobs, Written(j) \/ Unmarked(j), job[j].id = d
      PROVE  Says(d, record'[d].result)
  <2>1. Telling(j, record'[d].result)
    BY <1>1 DEF Copied, Written, Unmarked, WritesOurs, Telling
  <2> QED
    BY <1>1, <2>1 DEF Says
<1> QED
  BY <1>1, RowBy

\* What is said of a download was said before, or its report was written just now.
LEMMA SaysStep ==
  ASSUME RescanTypeOK, Targeted, Copied, RescanNext, NEW d \in Downloads, NEW v, Says(d, v)'
  PROVE  Says(d, v) \/ Wrote(d, v)
BY RowStep, TellingStep DEF Says

\* A report comes to name a download only by a job of it.
LEMMA ReportStep ==
  ASSUME RescanTypeOK, Targeted, RescanNext, NEW d \in Downloads, NEW r \in Roots, NEW k \in Keys,
         report'[r][k] = d
  PROVE  report[r][k] = d \/ \E w : Wrote(d, w) /\ r = Destination(w)
<1> DEFINE Goal == report[r][k] = d \/ \E w : Wrote(d, w) /\ r = Destination(w)
<1> SUFFICES Goal
  OBVIOUS
<1>1. ASSUME NEW j \in Jobs, NEW e \in Downloads, Started(j, e) PROVE Goal
  BY <1>1 DEF Started
<1>2. ASSUME NEW j \in Jobs, Collected(j) PROVE Goal
  BY <1>2 DEF Collected
<1>3. ASSUME NEW j \in Jobs, NEW t \in job[j].todo, Scanned(j, t) PROVE Goal
  BY <1>3 DEF Scanned
<1>4. ASSUME NEW j \in Jobs, Summarised(j) PROVE Goal
  BY <1>4 DEF Summarised
<1>5. ASSUME NEW j \in Jobs, NEW t \in job[j].todo, MovedOne(j, t) PROVE Goal
  BY <1>5 DEF MovedOne
<1>6. ASSUME NEW j \in Jobs, NEW t \in job[j].targets, Noted(j, t) PROVE Goal
  <2>1. CASE report'[r][k] = report[r][k]
    BY <2>1
  <2>2. CASE report'[r][k] # report[r][k]
    <3>1. r = Destination(job[j].result) /\ job[j].id = d
      BY <1>6, <2>2, KeyFacts DEF Noted
    <3>2. Wrote(d, job[j].result)
      BY <1>6, <3>1 DEF Noted, Wrote
    <3> QED
      BY <3>1, <3>2
  <2> QED
    BY <2>1, <2>2
<1>7. ASSUME NEW j \in Jobs, Settles(j) PROVE Goal
  BY <1>7 DEF Settles, AtRest
<1>8. ASSUME NEW c \in Downloads, NEW q \in Roots, Removed(q, c) PROVE Goal
  BY <1>8, KeyFacts DEF Removed
<1> QED
  BY <1>1, <1>2, <1>3, <1>4, <1>5, <1>6, <1>7, <1>8, RescanMoves

\* The verdict of a threat is written when everything has been swept.
LEMMA ThreatenedKept ==
  ASSUME RescanTypeOK, Targeted, Copied, Swept, Threatened, RescanNext
  PROVE  Threatened'
<1> SUFFICES ASSUME NEW d \in Downloads, d \notin strayed', Says(d, "threats_found")',
                    NEW f \in FilesOf(d), f \notin stuck'
             PROVE  place'[f] \notin Kept
  BY DEF Threatened
<1>1. d \notin strayed /\ f \in Files /\ f \notin stuck
  BY HistoryGrows, FileFacts DEF Grown
<1>2. CASE Says(d, "threats_found")
  BY <1>1, <1>2, ScanGoes DEF Threatened
<1>3. CASE Wrote(d, "threats_found")
  <2>1. PICK j \in Jobs :
               job[j].pc = "move" /\ job[j].todo = {} /\ job[j].id = d /\ job[j].result = "threats_found"
    BY <1>3 DEF Wrote
  <2> QED
    BY <1>1, <2>1, ScanGoes DEF Swept, Sweeping
<1> QED
  BY <1>2, <1>3, SaysStep

\* Whoever says that a download is clean was told so, or found it.
LEMMA CleanStep ==
  ASSUME RescanTypeOK, Targeted, Copied, RescanNext, NEW d \in Downloads, SaysClean(d)'
  PROVE  SaysClean(d) \/ \E j \in Jobs : Summarised(j) /\ job[j].id = d /\ Summary(d) = "clean"
<1>1. Wrote(d, "clean") => SaysClean(d)
  BY DEF Wrote, SaysClean, Cleaning
<1>2. ASSUME NEW j \in Jobs, Cleaning(j)', job'[j].id = d
      PROVE  SaysClean(d) \/ (Summarised(j) /\ job[j].id = d /\ Summary(d) = "clean")
  <2>1. CASE Summarised(j)
    BY <1>2, <2>1 DEF Summarised, Becomes, Cleaning
  <2>2. CASE ~Summarised(j)
    BY <1>2, <2>2, MoveStep DEF SaysClean, Cleaning
  <2> QED
    BY <2>1, <2>2
<1>3. ASSUME report'["clean"][Key(d)] = d PROVE SaysClean(d)
  <2>1. CASE report["clean"][Key(d)] = d
    BY <2>1 DEF SaysClean
  <2>2. ASSUME NEW w, Wrote(d, w), "clean" = Destination(w) PROVE SaysClean(d)
    BY <1>1, <2>2 DEF Destination
  <2> QED
    BY <1>3, <2>1, <2>2, ReportStep, KeyFacts DEF Roots
<1>4. ASSUME Says(d, "clean")' PROVE SaysClean(d)
  BY <1>1, <1>4, SaysStep DEF SaysClean
<1> QED
  BY <1>2, <1>3, <1>4 DEF SaysClean

\* What a clean download has left in scan/ is on its way.
LEMMA MovedKept ==
  ASSUME RescanTypeOK, Targeted, OwnFiles, Copied, Covered, Verdicts, Moved, RescanNext
  PROVE  Moved'
<1> SUFFICES ASSUME NEW d \in Downloads, d \notin strayed', SaysClean(d)', NEW f \in FilesOf(d),
                    place'[f] = "scan", f \notin stuck'
             PROVE  BeingMoved(f)'
  BY DEF Moved
<1>1. d \notin strayed /\ f \in Files /\ f.of = d /\ place[f] = "scan" /\ f \notin stuck
  BY HistoryGrows, FileFacts, ScanGoes DEF Grown
<1>2. CASE SaysClean(d)
  BY <1>1, <1>2, BeingMovedStays DEF Moved
<1>3. ASSUME NEW j \in Jobs, Summarised(j), job[j].id = d, Summary(d) = "clean"
      PROVE  BeingMoved(f)'
  <2>1. /\ job'[j].pc = "move" /\ job'[j].id = d /\ job'[j].result = "clean" /\ job[j].pc = "scan"
        /\ job'[j].todo = {t \in job[j].targets : t.root # "clean"}
    BY <1>3 DEF Summarised, Becomes, Destination
  <2>2. CASE At(f, "scan") \in job[j].targets
    BY <1>1, <2>1, <2>2, TargetFacts DEF BeingMoved, Cleaning
  <2>3. CASE BeingMoved(f)
    BY <1>1, <2>3, BeingMovedStays
  <2> QED
    BY <1>1, <1>3, <2>1, <2>2, <2>3 DEF Covered, JobCovers, Kept
<1> QED
  BY <1>2, <1>3, CleanStep

\* A report at r names a download of the place d has there.
Findable(d, r) == \E e \in Downloads : Key(e) = Key(d) /\ report[r][Key(d)] = e

\* The name at the place of a download changes for that of another of the
\* place, or goes with the last of its files.
LEMMA FindableStays ==
  ASSUME RescanTypeOK, Targeted, OwnFiles, RescanNext, NEW d \in Downloads, d \notin strayed,
         NEW r \in Roots,
         Findable(d, r), NEW f \in FilesOf(d), place[f] = r, place'[f] = r
  PROVE  Findable(d, r)'
<1>1. Key(d) \in Keys /\ f \in Files /\ f \in Item(r, d)
  BY KeyFacts, FileFacts DEF Item
<1>2. report'[r][Key(d)] = report[r][Key(d)] => Findable(d, r)'
  BY DEF Findable
<1>3. ASSUME NEW j \in Jobs, NEW e \in Downloads, Started(j, e) PROVE Findable(d, r)'
  BY <1>3, <1>2 DEF Started
<1>4. ASSUME NEW j \in Jobs, Collected(j) PROVE Findable(d, r)'
  BY <1>4, <1>2 DEF Collected
<1>5. ASSUME NEW j \in Jobs, NEW t \in job[j].todo, Scanned(j, t) PROVE Findable(d, r)'
  BY <1>5, <1>2 DEF Scanned
<1>6. ASSUME NEW j \in Jobs, Summarised(j) PROVE Findable(d, r)'
  BY <1>6, <1>2 DEF Summarised
<1>7. ASSUME NEW j \in Jobs, NEW t \in job[j].todo, MovedOne(j, t) PROVE Findable(d, r)'
  BY <1>7, <1>2 DEF MovedOne
<1>8. ASSUME NEW j \in Jobs, NEW t \in job[j].targets, Noted(j, t) PROVE Findable(d, r)'
  <2>1. ~Emptied(j, r, Key(d))
    <3>1. Key(d) \in Folders => Key(d) = d
      BY KeyFacts, ReportsAreTold DEF Downloads
    <3> QED
      BY <1>1, <3>1 DEF Emptied
  <2>2. CASE /\ report'[r][Key(d)] = job[j].id
             /\ r = Destination(job[j].result) /\ Key(d) = Key(t.file.of)
    <3>1. t.file.of \in Downloads /\ job[j].id \in Downloads
      BY <1>8, TargetFacts, FileFacts DEF Noted
    <3>2. Key(job[j].id) = Key(d)
      <4>1. CASE d \in Folders
        <5>1. t.file.of = d
          BY <2>2, <3>1, <4>1, KeyFacts, ReportsAreTold DEF Downloads
        <5> QED
          BY <5>1 DEF OwnFiles, OwnTargets
      <4>2. CASE d \in Singles
        <5>1. t.file.of \in Singles
          BY <2>2, <3>1, <4>2, KeyFacts, ReportsAreTold DEF Downloads
        <5>2. job[j].id \in Singles
          BY <5>1 DEF Targeted, JobTargets
        <5> QED
          BY <4>2, <5>2, KeyFacts
      <4> QED
        BY <4>1, <4>2 DEF Downloads
    <3> QED
      BY <2>2, <3>1, <3>2 DEF Findable
  <2> QED
    BY <1>8, <1>1, <1>2, <2>1, <2>2 DEF Noted
<1>9. ASSUME NEW j \in Jobs, Settles(j) PROVE Findable(d, r)'
  BY <1>9, <1>2 DEF Settles, AtRest
<1>10. ASSUME NEW c \in Downloads, NEW q \in Roots, Removed(q, c) PROVE Findable(d, r)'
  <2>1. r = q /\ Key(d) = c /\ c \in Folders => d = c
    BY KeyFacts, ReportsAreTold DEF Downloads
  <2>2. ~(r = q /\ d = c)
    BY <1>10, <1>1 DEF Removed, Roots
  <2> QED
    BY <1>10, <1>1, <1>2, <2>1, <2>2 DEF Removed
<1> QED
  BY <1>3, <1>4, <1>5, <1>6, <1>7, <1>8, <1>9, <1>10, RescanMoves

\* What lies in a folder keeps a report there.
LEMMA ReportedKept ==
  ASSUME RescanTypeOK, Targeted, OwnFiles, Reported, RescanNext
  PROVE  Reported'
<1> DEFINE Mover(d) == \E j \in Jobs : Cleaning(j) /\ job[j].id = d
<1> SUFFICES ASSUME NEW d \in Downloads, d \notin strayed', NEW r \in Kept, NEW f \in FilesOf(d),
                    place'[f] = r
             PROVE  Findable(d, r)' \/ (r = "clean" /\ Mover(d)')
  BY DEF Reported, Findable, Item
<1>1. d \notin strayed /\ f \in Files /\ r \in Roots
  BY HistoryGrows, FileFacts DEF Kept, Roots, Grown
<1>2. ASSUME r = "clean", NEW j \in Jobs, Cleaning(j), job[j].id = d
      PROVE  Findable(d, r)' \/ Mover(d)'
  <2>1. CASE Cleaning(j)' /\ job'[j].id = job[j].id
    BY <1>2, <2>1
  <2>2. ASSUME NEW t \in job[j].targets, Noted(j, t) PROVE Findable(d, r)'
    <3>1. t.file.of = d
      BY <1>1, <1>2 DEF OwnFiles, OwnTargets
    <3>2. report'["clean"][Key(d)] = d
      BY <1>1, <1>2, <2>2, <3>1, KeyFacts DEF Noted, Cleaning, Destination
    <3> QED
      BY <1>2, <3>2 DEF Findable
  <2> QED
    BY <1>2, <2>1, <2>2, CleaningStays
<1>3. CASE place'[f] # place[f]
  BY <1>1, <1>2, <1>3, OwnerMoves
<1>4. CASE place'[f] = place[f]
  <2>1. Item(r, d) # {}
    BY <1>4 DEF Item
  <2>2. Findable(d, r) \/ (r = "clean" /\ Mover(d))
    BY <1>1, <2>1 DEF Reported, Findable
  <2> QED
    BY <1>1, <1>2, <1>4, <2>2, FindableStays
<1> QED
  BY <1>3, <1>4

-----------------------------------------------------------------------------
(* The row, and the seeding                                                *)

\* What a job is about to write is its verdict.
LEMMA CopiedKept ==
  ASSUME RescanTypeOK, Targeted, RescanNext, Copied
  PROVE  Copied'
<1> SUFFICES ASSUME NEW i \in Jobs, job'[i].pc = "set"
             PROVE  ours'[i].result = job'[i].result
  BY DEF Copied
<1> DEFINE Goal == ours'[i].result = job'[i].result
<1>1. CASE job'[i] = job[i] /\ ours'[i] = ours[i]
  BY <1>1 DEF Copied
<1>2. ASSUME NEW j \in Jobs, Finishes(j) PROVE Goal
  BY <1>1, <1>2 DEF Finishes, Looked, Written, SeededOne, Unmarked, Passes, Ended, Becomes, OursOnly
<1>3. ASSUME NEW j \in Jobs, NEW e \in Downloads, Started(j, e) PROVE Goal
  BY <1>1, <1>3 DEF Started, Becomes
<1>4. ASSUME NEW j \in Jobs, Busywork(j) PROVE Goal
  BY <1>1, <1>4 DEF Busywork, Early
<1>5. ASSUME NEW c \in Downloads, NEW r \in Roots, Removed(r, c) PROVE Goal
  BY <1>1, <1>5 DEF Removed
<1> QED
  BY <1>2, <1>3, <1>4, <1>5, RescanKinds

\* The row has the verdict of the one job a download has, from its writing on.
LEMMA FaithfulKept ==
  ASSUME RescanTypeOK, Targeted, RescanNext, Copied, Faithful, Alone
  PROVE  Faithful'
<1> SUFFICES ASSUME NEW i \in Jobs, job'[i].id \notin raced', job'[i].pc \in {"seed", "clear"}
             PROVE  FaithfulAt(i)'
  BY DEF Faithful, FaithfulAt
<1>1. ASSUME job'[i] = job[i], ours'[i] = ours[i],
             record'[job[i].id] = record[job[i].id] \/ ~record'[job[i].id].here,
             job[i].id \in seeded' => job[i].id \in seeded
      PROVE  FaithfulAt(i)'
  <2>1. job[i].id \notin raced
    BY <1>1, HistoryGrows DEF Grown
  <2> QED
    BY <1>1, <2>1 DEF Faithful, FaithfulAt
<1>2. ASSUME NEW j \in Jobs, j # i, job'[i] = job[i], raced' = raced, job[j].pc # "idle"
      PROVE  job[i].id # job[j].id /\ job[i].id \in Downloads
  BY <1>2, IdsAreDownloads, KeyFacts DEF Alone
<1>3. ASSUME NEW j \in Jobs, Looked(j) PROVE FaithfulAt(i)'
  <2>1. CASE i = j
    BY <1>3, <2>1 DEF Looked, Passes, Becomes, FaithfulAt
  <2>2. CASE i # j
    BY <1>1, <1>3, <2>2 DEF Looked, Passes, Becomes, OursOnly
  <2> QED
    BY <2>1, <2>2
<1>4. ASSUME NEW j \in Jobs, Written(j) PROVE FaithfulAt(i)'
  <2>1. CASE i = j
    BY <1>4, <2>1 DEF Written, WritesOurs, Passes, Becomes, FaithfulAt, Copied
  <2>2. CASE i # j
    BY <1>1, <1>2, <1>4, <2>2 DEF Written, WritesOurs, Passes, Becomes, OursOnly, AtRest
  <2> QED
    BY <2>1, <2>2
<1>5. ASSUME NEW j \in Jobs, SeededOne(j) PROVE FaithfulAt(i)'
  <2>1. CASE i = j
    <3>1. /\ Passes(j, "clear") /\ record[job[j].id].here /\ job[j].result # "clean"
          /\ ours'[j].result = record[job[j].id].result
      BY <1>5, <2>1 DEF SeededOne, Ended, Becomes
    <3>2. record[job[j].id].result = job[j].result
      BY <1>5, <2>1, <3>1 DEF SeededOne, Faithful, FaithfulAt, Passes, Becomes, AtRest
    <3> QED
      BY <1>5, <2>1, <3>1, <3>2 DEF SeededOne, Passes, Becomes, FaithfulAt
  <2>2. CASE i # j
    BY <1>1, <1>2, <1>5, <2>2 DEF SeededOne, Passes, Ended, Becomes, OursOnly, AtRest
  <2> QED
    BY <2>1, <2>2
<1>6. ASSUME NEW j \in Jobs, Unmarked(j) PROVE FaithfulAt(i)'
  BY <1>1, <1>2, <1>6 DEF Unmarked, WritesOurs, Ended, Becomes, OursOnly, AtRest
<1>7. ASSUME NEW j \in Jobs, NEW e \in Downloads, Started(j, e) PROVE FaithfulAt(i)'
  BY <1>1, <1>7 DEF Started, Becomes
<1>8. ASSUME NEW j \in Jobs, Busywork(j) PROVE FaithfulAt(i)'
  BY <1>1, <1>8 DEF Busywork, Early
<1>9. ASSUME NEW c \in Downloads, NEW r \in Roots, Removed(r, c) PROVE FaithfulAt(i)'
  BY <1>1, <1>9, IdsAreDownloads DEF Removed
<1> QED
  BY <1>3, <1>4, <1>5, <1>6, <1>7, <1>8, <1>9, RescanKinds DEF Finishes

\* What is seeded against the verdict is about to end.
LEMMA SeedsEndKept ==
  ASSUME RescanTypeOK, Targeted, RescanNext, Copied, Faithful, SeedsEnd
  PROVE  SeedsEnd'
<1> SUFFICES ASSUME NEW d \in Downloads, d \notin raced', Unclean(d)', d \in seeded'
             PROVE  Ends(d)'
  BY DEF SeedsEnd
<1>1. d \notin raced
  BY HistoryGrows DEF Grown
<1>2. ASSUME record'[d] = record[d], d \in seeded,
             \A i \in Jobs : job[i].pc = "seed" /\ job[i].id = d /\ job[i].result # "clean" =>
               job'[i] = job[i]
      PROVE  Ends(d)'
  BY <1>1, <1>2 DEF SeedsEnd, Unclean, Ends
<1>3. ASSUME NEW j \in Jobs, Looked(j) PROVE Ends(d)'
  BY <1>2, <1>3 DEF Looked, Passes, Becomes
<1>4. ASSUME NEW j \in Jobs, Written(j) PROVE Ends(d)'
  <2>1. CASE d = job[j].id
    BY <1>4, <2>1 DEF Written, WritesOurs, Passes, Becomes, Copied, Unclean, Ends
  <2>2. CASE d # job[j].id
    BY <1>2, <1>4, <2>2 DEF Written, WritesOurs, Passes, Becomes
  <2> QED
    BY <2>1, <2>2
<1>5. ASSUME NEW j \in Jobs, SeededOne(j) PROVE Ends(d)'
  <2>1. record'[d] = record[d] /\ record[d].here /\ record[d].result # "clean"
    BY <1>5 DEF SeededOne, Unclean
  <2>2. d \in seeded
    BY <1>1, <1>5, <2>1 DEF SeededOne, Faithful, FaithfulAt
  <2>3. job[j].id = d => job[j].result = "clean"
    BY <1>5, <2>1 DEF SeededOne
  <2> QED
    BY <1>2, <1>5, <2>1, <2>2, <2>3 DEF SeededOne, Passes, Ended, Becomes
<1>6. ASSUME NEW j \in Jobs, Unmarked(j) PROVE Ends(d)'
  <2>1. d # job[j].id
    BY <1>1, <1>6 DEF Unmarked, WritesOurs, Faithful, FaithfulAt
  <2> QED
    BY <1>2, <1>6, <2>1 DEF Unmarked, WritesOurs, Ended, Becomes
<1>7. ASSUME NEW j \in Jobs, NEW e \in Downloads, Started(j, e) PROVE Ends(d)'
  BY <1>2, <1>7, KeyFacts DEF Started, Becomes
<1>8. ASSUME NEW j \in Jobs, Busywork(j) PROVE Ends(d)'
  BY <1>2, <1>8 DEF Busywork, Early
<1>9. ASSUME NEW c \in Downloads, NEW r \in Roots, Removed(r, c) PROVE Ends(d)'
  BY <1>2, <1>9 DEF Removed, Unclean
<1> QED
  BY <1>3, <1>4, <1>5, <1>6, <1>7, <1>8, <1>9, RescanKinds DEF Finishes

-----------------------------------------------------------------------------
(* A download that one scan at a time has                                  *)

\* Whoever moves a file has it in hand, or deletes its download.
LEMMA PlaceBy ==
  ASSUME RescanTypeOK, Targeted, RescanNext, NEW f \in Files, place'[f] # place[f]
  PROVE  \/ \E j \in Jobs : \E t \in job[j].todo : t.file = f /\ (Scanned(j, t) \/ MovedOne(j, t))
         \/ \E c \in Downloads, r \in Roots : Removed(r, c) /\ f.of = c /\ place'[f] = "gone"
<1> DEFINE Goal ==
             \/ \E j \in Jobs : \E t \in job[j].todo :
                  t.file = f /\ (Scanned(j, t) \/ MovedOne(j, t))
             \/ \E c \in Downloads, r \in Roots : Removed(r, c) /\ f.of = c /\ place'[f] = "gone"
<1> SUFFICES Goal
  OBVIOUS
<1>1. ASSUME NEW j \in Jobs, NEW e \in Downloads, Started(j, e) PROVE Goal
  BY <1>1 DEF Started
<1>2. ASSUME NEW j \in Jobs, Collected(j) PROVE Goal
  BY <1>2 DEF Collected
<1>3. ASSUME NEW j \in Jobs, NEW t \in job[j].todo, Scanned(j, t) PROVE Goal
  <2>1. t.file = f
    BY <1>3, TypeFacts DEF Scanned
  <2> QED
    BY <1>3, <2>1
<1>4. ASSUME NEW j \in Jobs, Summarised(j) PROVE Goal
  BY <1>4 DEF Summarised
<1>5. ASSUME NEW j \in Jobs, NEW t \in job[j].todo, MovedOne(j, t) PROVE Goal
  <2>1. t.file = f
    BY <1>5, TypeFacts DEF MovedOne
  <2> QED
    BY <1>5, <2>1
<1>6. ASSUME NEW j \in Jobs, NEW t \in job[j].targets, Noted(j, t) PROVE Goal
  BY <1>6 DEF Noted
<1>7. ASSUME NEW j \in Jobs, Settles(j) PROVE Goal
  BY <1>7 DEF Settles, AtRest
<1>8. ASSUME NEW c \in Downloads, NEW r \in Roots, Removed(r, c) PROVE Goal
  <2>1. f \in Item(r, c) /\ place'[f] = "gone"
    BY <1>8 DEF Removed
  <2>2. f.of = c
    BY <2>1, FileFacts DEF Item
  <2> QED
    BY <1>8, <2>1, <2>2
<1> QED
  BY <1>1, <1>2, <1>3, <1>4, <1>5, <1>6, <1>7, <1>8, RescanMoves

\* Records are written by scans alone.
LEMMA ScansBy ==
  ASSUME RescanTypeOK, Targeted, RescanNext, scans' # scans
  PROVE  \E j \in Jobs : \E t \in job[j].todo : Scanned(j, t) /\ Rewrites(j, t)
<1> DEFINE Goal == \E j \in Jobs : \E t \in job[j].todo : Scanned(j, t) /\ Rewrites(j, t)
<1> SUFFICES Goal
  OBVIOUS
<1>1. ASSUME NEW j \in Jobs, NEW e \in Downloads, Started(j, e) PROVE Goal
  BY <1>1 DEF Started
<1>2. ASSUME NEW j \in Jobs, Collected(j) PROVE Goal
  BY <1>2 DEF Collected
<1>3. ASSUME NEW j \in Jobs, NEW t \in job[j].todo, Scanned(j, t) PROVE Goal
  BY <1>3, ScanRewrites
<1>4. ASSUME NEW j \in Jobs, Summarised(j) PROVE Goal
  BY <1>4 DEF Summarised
<1>5. ASSUME NEW j \in Jobs, NEW t \in job[j].todo, MovedOne(j, t) PROVE Goal
  BY <1>5 DEF MovedOne
<1>6. ASSUME NEW j \in Jobs, NEW t \in job[j].targets, Noted(j, t) PROVE Goal
  BY <1>6 DEF Noted
<1>7. ASSUME NEW j \in Jobs, Settles(j) PROVE Goal
  BY <1>7 DEF Settles, AtRest
<1>8. ASSUME NEW c \in Downloads, NEW r \in Roots, Removed(r, c) PROVE Goal
  BY <1>8 DEF Removed
<1> QED
  BY <1>1, <1>2, <1>3, <1>4, <1>5, <1>6, <1>7, <1>8, RescanMoves

\* The job that has a file of such a download is the one job of it.
LEMMA OneJob ==
  ASSUME RescanTypeOK, Targeted, OwnFiles, Alone, NEW i \in Jobs, job[i].id \in Downloads,
         Lone(job[i].id),
         NEW k \in Jobs, NEW t \in job[k].targets, t.file.of = job[i].id
  PROVE  k = i
<1>1. job[k].id = job[i].id
  BY DEF OwnFiles, OwnTargets, Lone
<1> QED
  BY <1>1, NoneIsNoDownload DEF Alone, Lone, Downloads

\* A download that was not raced for has one job at most.
LEMMA SoloKept ==
  ASSUME RescanTypeOK, Targeted, Alone, RescanNext, NEW i \in Jobs, NEW k \in Jobs,
         job'[i].id = job'[k].id, job'[i].id # None, job'[i].id \notin raced'
  PROVE  i = k
<1>1. job'[i].id \notin raced
  BY HistoryGrows DEF Grown
<1>2. ASSUME NEW j \in Jobs, NEW e \in Downloads, Started(j, e) PROVE i = k
  <2>1. \A m \in Jobs : job'[m].id = job[m].id \/ (m = j /\ job'[m].id = e)
    BY <1>2 DEF Becomes, Started
  <2>2. \A m \in Jobs : job[m].id = e => e \in raced'
    BY <1>2 DEF Started, Holders
  <2> QED
    BY <1>1, <2>1, <2>2 DEF Alone
<1>3. ASSUME NEW j \in Jobs, Collected(j) PROVE i = k
  <2>1. \A m \in Jobs : job'[m].id = job[m].id \/ job'[m].id = None
    BY <1>3 DEF Becomes, Collected
  <2> QED
    BY <1>1, <2>1 DEF Alone
<1>4. ASSUME NEW j \in Jobs, NEW t \in job[j].todo, Scanned(j, t) PROVE i = k
  <2>1. \A m \in Jobs : job'[m].id = job[m].id \/ job'[m].id = None
    BY <1>4 DEF Becomes, Scanned
  <2> QED
    BY <1>1, <2>1 DEF Alone
<1>5. ASSUME NEW j \in Jobs, Summarised(j) PROVE i = k
  <2>1. \A m \in Jobs : job'[m].id = job[m].id \/ job'[m].id = None
    BY <1>5 DEF Becomes, Summarised
  <2> QED
    BY <1>1, <2>1 DEF Alone
<1>6. ASSUME NEW j \in Jobs, NEW t \in job[j].todo, MovedOne(j, t) PROVE i = k
  <2>1. \A m \in Jobs : job'[m].id = job[m].id \/ job'[m].id = None
    BY <1>6 DEF Becomes, MovedOne
  <2> QED
    BY <1>1, <2>1 DEF Alone
<1>7. ASSUME NEW j \in Jobs, NEW t \in job[j].targets, Noted(j, t) PROVE i = k
  <2>1. \A m \in Jobs : job'[m].id = job[m].id \/ job'[m].id = None
    BY <1>7 DEF Becomes, Noted, Passes
  <2> QED
    BY <1>1, <2>1 DEF Alone
<1>8. ASSUME NEW j \in Jobs, Settles(j) PROVE i = k
  <2>1. \A m \in Jobs : job'[m].id = job[m].id \/ job'[m].id = None
    BY <1>8 DEF Becomes, Settles, Ended, Passes
  <2> QED
    BY <1>1, <2>1 DEF Alone
<1>9. ASSUME NEW c \in Downloads, NEW r \in Roots, Removed(r, c) PROVE i = k
  <2>1. \A m \in Jobs : job'[m].id = job[m].id \/ job'[m].id = None
    BY <1>9 DEF Becomes, Removed
  <2> QED
    BY <1>1, <2>1 DEF Alone
<1> QED
  BY <1>2, <1>3, <1>4, <1>5, <1>6, <1>7, <1>8, <1>9, RescanMoves

\* How a job goes on scanning.
LEMMA ScanningStep ==
  ASSUME RescanTypeOK, Targeted, RescanNext, NEW i \in Jobs, job'[i].pc = "scan", ~Collected(i)
  PROVE  /\ job[i].pc = "scan" /\ job'[i].id = job[i].id
         /\ job'[i].todo = job[i].todo \/ \E u \in job[i].todo :
              Scanned(i, u) /\ job'[i].todo = job[i].todo \ {u}
<1> DEFINE Goal == /\ job[i].pc = "scan" /\ job'[i].id = job[i].id
                   /\ job'[i].todo = job[i].todo \/ \E u \in job[i].todo :
                        Scanned(i, u) /\ job'[i].todo = job[i].todo \ {u}
<1> SUFFICES Goal
  OBVIOUS
<1>1. ASSUME NEW j \in Jobs, NEW e \in Downloads, Started(j, e) PROVE Goal
  BY <1>1 DEF Becomes, Started
<1>2. ASSUME NEW j \in Jobs, Collected(j) PROVE Goal
  <2>1. i # j
    BY <1>2
  <2> QED
    BY <1>2, <2>1 DEF Becomes, Collected
<1>3. ASSUME NEW j \in Jobs, NEW t \in job[j].todo, Scanned(j, t) PROVE Goal
  <2>1. i = j \/ job'[i] = job[i]
    BY <1>3 DEF Becomes, Scanned
  <2>2. job[j].pc = "scan" /\ job'[j].id = job[j].id /\ job'[j].todo = job[j].todo \ {t}
    BY <1>3 DEF Becomes, Scanned
  <2> QED
    BY <1>3, <2>1, <2>2
<1>4. ASSUME NEW j \in Jobs, Summarised(j) PROVE Goal
  BY <1>4 DEF Becomes, Summarised
<1>5. ASSUME NEW j \in Jobs, NEW t \in job[j].todo, MovedOne(j, t) PROVE Goal
  BY <1>5 DEF Becomes, MovedOne
<1>6. ASSUME NEW j \in Jobs, NEW t \in job[j].targets, Noted(j, t) PROVE Goal
  BY <1>6 DEF Becomes, Noted, Passes
<1>7. ASSUME NEW j \in Jobs, Settles(j) PROVE Goal
  BY <1>7 DEF Becomes, Settles, Ended, Passes
<1>8. ASSUME NEW c \in Downloads, NEW r \in Roots, Removed(r, c) PROVE Goal
  BY <1>8 DEF Becomes, Removed
<1> QED
  BY <1>1, <1>2, <1>3, <1>4, <1>5, <1>6, <1>7, <1>8, RescanMoves

\* How a job comes to act on a verdict, and goes on.
LEMMA ActingStep ==
  ASSUME RescanTypeOK, Targeted, RescanNext, NEW i \in Jobs, job'[i].pc \in Done, ~Summarised(i)
  PROVE  job[i].pc \in Done /\ job'[i].id = job[i].id /\ job'[i].result = job[i].result
<1> DEFINE Goal == job[i].pc \in Done /\ job'[i].id = job[i].id /\ job'[i].result = job[i].result
<1> SUFFICES Goal
  OBVIOUS
<1>1. ASSUME NEW j \in Jobs, NEW e \in Downloads, Started(j, e) PROVE Goal
  BY <1>1 DEF Becomes, Started, Done
<1>2. ASSUME NEW j \in Jobs, Collected(j) PROVE Goal
  BY <1>2 DEF Becomes, Collected, Done
<1>3. ASSUME NEW j \in Jobs, NEW t \in job[j].todo, Scanned(j, t) PROVE Goal
  BY <1>3 DEF Becomes, Scanned, Done
<1>4. ASSUME NEW j \in Jobs, Summarised(j) PROVE Goal
  <2>1. i # j
    BY <1>4
  <2> QED
    BY <1>4, <2>1 DEF Becomes, Summarised
<1>5. ASSUME NEW j \in Jobs, NEW t \in job[j].todo, MovedOne(j, t) PROVE Goal
  BY <1>5 DEF Becomes, MovedOne, Done
<1>6. ASSUME NEW j \in Jobs, NEW t \in job[j].targets, Noted(j, t) PROVE Goal
  BY <1>6 DEF Becomes, Noted, Passes, Done
<1>7. ASSUME NEW j \in Jobs, Settles(j) PROVE Goal
  BY <1>7 DEF Becomes, Settles, Ended, Passes, Done
<1>8. ASSUME NEW c \in Downloads, NEW r \in Roots, Removed(r, c) PROVE Goal
  BY <1>8 DEF Removed
<1> QED
  BY <1>1, <1>2, <1>3, <1>4, <1>5, <1>6, <1>7, <1>8, RescanMoves

\* A lone scan finds its files where they were, and its verdict is the record's.
LEMMA AloneKept ==
  ASSUME RescanTypeOK, Targeted, OwnFiles, Recorded, Alone, RescanNext, NEW i \in Jobs
  PROVE  AloneAt(i)'
<1>1. ASSUME job'[i].pc = "scan", Lone(job[i].id)', NEW t \in job'[i].todo
      PROVE  place'[t.file] = t.root
  <2>1. CASE Collected(i)
    <3>1. job'[i].todo = Found(job[i].id) /\ place' = place
      BY <1>1, <2>1 DEF Collected, Becomes
    <3> QED
      BY <1>1, <3>1, FoundIs
  <2>2. CASE ~Collected(i)
    <3>1. /\ job[i].pc = "scan" /\ job'[i].id = job[i].id
          /\ job'[i].todo = job[i].todo \/ \E u \in job[i].todo :
               Scanned(i, u) /\ job'[i].todo = job[i].todo \ {u}
      BY <1>1, <2>2, ScanningStep
    <3>2. t \in job[i].todo /\ t \in job[i].targets /\ t \in Targets /\ t.file \in Files
      BY <1>1, <3>1, TodoIsTyped, TargetFacts DEF Targeted, JobTargets
    <3>3. job[i].id \in Downloads /\ Lone(job[i].id) /\ job[i].id \notin raced'
      BY <1>1, <3>1, HistoryGrows, IdsAreDownloads DEF Lone, Grown
    <3>4. place[t.file] = t.root
      BY <3>1, <3>2, <3>3 DEF Alone, AloneAt
    <3>5. t.file.of = job[i].id
      BY <3>2, <3>3 DEF OwnFiles, OwnTargets, Lone
    <3>6. ASSUME NEW k \in Jobs, NEW u \in job[k].todo, u.file = t.file,
                 Scanned(k, u) \/ MovedOne(k, u)
          PROVE  FALSE
      <4>1. k = i
        BY <3>3, <3>5, <3>6, OneJob DEF Targeted, JobTargets
      <4>2. u = t
        BY <3>2, <3>6, <4>1 DEF Targeted, JobTargets
      <4>3. Scanned(i, t)
        BY <3>1, <3>6, <4>1, <4>2 DEF MovedOne
      <4>4. job'[i].todo = job[i].todo \ {t}
        BY <4>3 DEF Scanned, Becomes
      <4> QED
        BY <1>1, <4>4
    <3>7. ASSUME NEW c \in Downloads, NEW r \in Roots, Removed(r, c), t.file.of = c PROVE FALSE
      <4>1. i \in Holders(c)
        BY <3>5, <3>7 DEF Holders
      <4> QED
        BY <3>3, <3>5, <3>7, <4>1 DEF Removed
    <3> QED
      BY <3>2, <3>4, <3>6, <3>7, PlaceBy
  <2> QED
    BY <2>1, <2>2
<1>2. ASSUME job'[i].pc \in Done, Lone(job[i].id)'
      PROVE  HasThreat(job[i].id)' <=> job'[i].result = "threats_found"
  <2>1. Summarised(i) =>
          job'[i].id = job[i].id /\ job'[i].result = Summary(job[i].id) /\ UNCHANGED scans
    BY DEF Summarised, Becomes
  <2>2. PICK d \in Downloads : d = job'[i].id /\ d = job[i].id
    BY <1>2, <2>1, ActingStep, IdsAreDownloads DEF Summarised, Done
  <2>3. Lone(d)
    BY <1>2, <2>2, HistoryGrows DEF Lone, Grown
  <2>4. CASE Summarised(i)
    BY <2>1, <2>2, <2>4, SummaryIs DEF HasThreat
  <2>5. CASE ~Summarised(i)
    <3>1. job[i].pc \in Done /\ job'[i].result = job[i].result
      BY <1>2, <2>5, ActingStep
    <3>2. ASSUME NEW k \in Jobs, NEW t \in job[k].todo, Scanned(k, t), Rewrites(k, t)
          PROVE  job[k].id # d
      BY <2>2, <2>3, <3>1, <3>2, KeyFacts DEF Scanned, Alone, Lone, Done
    <3>3. \A f \in Files : scans'[d][f] = scans[d][f]
      BY <3>2, ScansBy DEF Rewrites
    <3> QED
      BY <2>2, <2>3, <3>1, <3>3 DEF HasThreat, Alone, AloneAt
  <2> QED
    BY <2>4, <2>5
<1> QED
  BY <1>1, <1>2 DEF AloneAt

\* A threat once recorded stays so.
LEMMA ThreatStays ==
  ASSUME RescanTypeOK, Targeted, OwnFiles, Recorded, Alone, RescanNext, NEW d \in Downloads,
         Lone(d), HasThreat(d)
  PROVE  HasThreat(d)'
<1>1. PICK f \in Files : scans[d][f] = "threat"
  BY DEF HasThreat
<1>2. scans'[d][f] = "threat"
  <2>1. SUFFICES ASSUME scans'[d][f] # scans[d][f] PROVE FALSE
    BY <1>1
  <2>2. PICK j \in Jobs : \E t \in job[j].todo : Scanned(j, t) /\ Rewrites(j, t)
    BY <2>1, ScansBy
  <2>3. PICK t \in job[j].todo : Scanned(j, t) /\ Rewrites(j, t)
    BY <2>2
  <2>4. t.file = f /\ job[j].id = d /\ t.root \in Kept
    BY <2>1, <2>3 DEF Rewrites
  <2>5. place[f] = t.root
    BY <2>3, <2>4 DEF Alone, AloneAt, Scanned
  <2>6. f.of = d
    BY <2>3, <2>4 DEF OwnFiles, OwnTargets, Lone, Targeted, JobTargets
  <2> QED
    BY <1>1, <2>4, <2>5, <2>6, FileFacts DEF Recorded, TrueRecords, Lone
<1> QED
  BY <1>2 DEF HasThreat

\* A file goes to quarantine with a record of the threat.
LEMMA QuarantineTold ==
  ASSUME RescanTypeOK, Targeted, OwnFiles, Recorded, Alone, ThreatKept, RescanNext,
         NEW d \in Downloads, Lone(d),
         NEW f \in FilesOf(d), place'[f] = "quarantine"
  PROVE  HasThreat(d)'
<1>1. f \in Files /\ f.of = d
  BY FileFacts
<1>2. CASE place[f] = "quarantine"
  BY <1>1, <1>2, ThreatStays DEF ThreatKept, Item
<1>3. ASSUME NEW j \in Jobs, NEW t \in job[j].todo, t.file = f, Scanned(j, t),
             place[f] # "quarantine"
      PROVE  HasThreat(d)'
  <2>1. job[j].id = d
    BY <1>1, <1>3 DEF OwnFiles, OwnTargets, Lone, Targeted, JobTargets
  <2>2. t.file \in Files /\ job[j].id \in Downloads
    BY <1>1, <1>3 DEF Scanned
  <2>3. scans'[d][f] = "threat"
    BY <1>3, <2>1, <2>2, TypeFacts DEF Scanned
  <2> QED
    BY <1>1, <2>3 DEF HasThreat
<1>4. ASSUME NEW j \in Jobs, NEW t \in job[j].todo, t.file = f, MovedOne(j, t),
             place[f] # "quarantine"
      PROVE  HasThreat(d)'
  <2>1. job[j].id = d /\ job[j].pc = "move"
    BY <1>1, <1>4 DEF OwnFiles, OwnTargets, Lone, Targeted, JobTargets, MovedOne
  <2>2. place'[f] = Destination(job[j].result)
    BY <1>1, <1>4, TypeFacts DEF MovedOne
  <2>3. job[j].result = "threats_found"
    BY <2>2 DEF Destination
  <2>4. HasThreat(d)
    BY <2>1, <2>3 DEF Alone, AloneAt, Done
  <2> QED
    BY <2>4, ThreatStays
<1> QED
  BY <1>1, <1>2, <1>3, <1>4, PlaceBy

\* A job that will tell of the threat does so, if there is a row.
LEMMA AtThreatStays ==
  ASSUME RescanTypeOK, Targeted, Recorded, Alone, RescanNext, NEW d \in Downloads, HasThreat(d),
         AtThreat(d)
  PROVE  \/ AtThreat(d)' \/ ~record'[d].here
         \/ \E j \in Jobs : Written(j) /\ job[j].id = d /\ job[j].result = "threats_found"
<1> DEFINE Goal ==
             \/ AtThreat(d)' \/ ~record'[d].here
             \/ \E j \in Jobs : Written(j) /\ job[j].id = d /\ job[j].result = "threats_found"
<1> SUFFICES Goal
  OBVIOUS
<1>1. PICK i \in Jobs :
        /\ job[i].id = d
        /\ \/ job[i].pc = "scan"
           \/ job[i].pc \in {"move", "get", "set"} /\ job[i].result = "threats_found"
  BY DEF AtThreat
<1>2. CASE job'[i].pc = job[i].pc /\ job'[i].id = job[i].id /\ job'[i].result = job[i].result
  BY <1>1, <1>2 DEF AtThreat
<1>3. ASSUME NEW j \in Jobs, NEW e \in Downloads, Started(j, e) PROVE Goal
  BY <1>1, <1>2, <1>3, KeyFacts DEF Becomes, Started
<1>4. ASSUME NEW j \in Jobs, Collected(j) PROVE Goal
  BY <1>1, <1>2, <1>4 DEF Becomes, Collected
<1>5. ASSUME NEW j \in Jobs, NEW t \in job[j].todo, Scanned(j, t) PROVE Goal
  BY <1>1, <1>2, <1>5 DEF Becomes, Scanned
<1>6. ASSUME NEW j \in Jobs, Summarised(j) PROVE Goal
  <2>1. CASE j # i
    BY <1>2, <1>6, <2>1 DEF Becomes, Summarised
  <2>2. CASE j = i
    <3>1. job'[i].id = d /\ job'[i].pc = "move" /\ job'[i].result = Summary(d)
      BY <1>6, <1>1, <2>2 DEF Becomes, Summarised
    <3> QED
      BY <3>1, SummaryIs DEF AtThreat
  <2> QED
    BY <2>1, <2>2
<1>7. ASSUME NEW j \in Jobs, NEW t \in job[j].todo, MovedOne(j, t) PROVE Goal
  BY <1>1, <1>2, <1>7 DEF Becomes, MovedOne
<1>8. ASSUME NEW j \in Jobs, NEW t \in job[j].targets, Noted(j, t) PROVE Goal
  <2>1. CASE j # i
    BY <1>2, <1>8, <2>1 DEF Becomes, Noted, Passes
  <2>2. CASE j = i
    BY <1>1, <1>8, <2>2 DEF Becomes, Noted, Passes, AtThreat
  <2> QED
    BY <2>1, <2>2
<1>9. ASSUME NEW j \in Jobs, Finishes(j) PROVE Goal
  <2>1. CASE j # i
    <3>1. job'[i] = job[i]
      BY <1>9, <2>1 DEF Finishes, Looked, Written, SeededOne, Unmarked, Passes, Ended, Becomes
    <3> QED
      BY <1>2, <3>1
  <2>2. CASE j = i /\ Looked(i)
    BY <1>1, <2>2 DEF Looked, Passes, Becomes, AtThreat
  <2>3. CASE j = i /\ ~Looked(i)
    BY <1>1, <1>9, <2>3 DEF Finishes, Written, SeededOne, Unmarked
  <2> QED
    BY <2>1, <2>2, <2>3
<1>10. ASSUME NEW c \in Downloads, NEW r \in Roots, Removed(r, c) PROVE Goal
  BY <1>2, <1>10 DEF Removed
<1> QED
  BY <1>3, <1>4, <1>5, <1>6, <1>7, <1>8, <1>9, <1>10, RescanDetail

\* The row of a file in quarantine tells of it, or is about to.
LEMMA ThreatStillKept ==
  ASSUME RescanTypeOK, Targeted, OwnFiles, Recorded, Copied, Faithful, Alone, ThreatKept,
         RescanNext
  PROVE  ThreatKept'
<1> SUFFICES ASSUME NEW d \in Downloads, Lone(d)'
             PROVE  /\ Item("quarantine", d)' # {} => HasThreat(d)'
                    /\ record'[d].here /\ HasThreat(d)' =>
                         record'[d].result = "threats_found" \/ AtThreat(d)'
  BY DEF ThreatKept
<1>1. Lone(d)
  BY HistoryGrows DEF Lone, Grown
<1>2. Item("quarantine", d)' # {} => HasThreat(d)'
  BY <1>1, QuarantineTold DEF Item
<1>3. ASSUME record'[d].here, HasThreat(d)', ~HasThreat(d) PROVE AtThreat(d)'
  <2>1. PICK f \in Files : scans'[d][f] # scans[d][f]
    BY <1>3 DEF HasThreat
  <2>2. PICK j \in Jobs : \E t \in job[j].todo : Scanned(j, t) /\ Rewrites(j, t)
    BY <2>1, ScansBy
  <2>3. job'[j].pc = "scan" /\ job'[j].id = d
    BY <2>1, <2>2 DEF Scanned, Rewrites, Becomes
  <2> QED
    BY <2>3 DEF AtThreat
<1>4. ASSUME record'[d].here, HasThreat(d)
      PROVE  record'[d].result = "threats_found" \/ AtThreat(d)'
  <2>1. ASSUME NEW j \in Jobs, Written(j) \/ Unmarked(j), job[j].id = d
        PROVE  record'[d].result = "threats_found"
    <3>1. job[j].result = "threats_found"
      BY <1>1, <1>4, <2>1 DEF Alone, AloneAt, Done, Written, Unmarked
    <3>2. ours[j].result = job[j].result
      BY <1>1, <2>1 DEF Copied, Faithful, FaithfulAt, Lone, Written, Unmarked
    <3> QED
      BY <2>1, <3>1, <3>2 DEF Written, Unmarked, WritesOurs
  <2>2. CASE record'[d] = record[d]
    <3>1. record[d].result = "threats_found" \/ AtThreat(d)
      BY <1>1, <1>4, <2>2 DEF ThreatKept
    <3> QED
      BY <1>4, <2>1, <2>2, <3>1, AtThreatStays
  <2> QED
    BY <1>4, <2>1, <2>2, RowBy
<1> QED
  BY <1>2, <1>3, <1>4

-----------------------------------------------------------------------------
(* The invariant                                                           *)

RescanInv ==
  /\ RescanTypeOK /\ Targeted /\ OwnFiles /\ Recorded /\ Covered
  /\ StuckTold /\ Verdicts /\ Swept /\ Threatened /\ Moved /\ Reported
  /\ Copied /\ Faithful /\ SeedsEnd /\ Alone /\ ThreatKept

\* At first every download is whole, and the row and the report say where.
Whole(at) ==
  /\ \A f \in Files : place[f] = at[f.of]
  /\ \A d \in Downloads : record[d].result = "clean" <=> at[d] = "clean"
  /\ \A d \in Downloads : record[d].result # "threats_found"
  /\ seeded = {d \in Downloads : at[d] = "clean"}
  /\ \A r \in Roots, k \in Folders : report[r][k] = IF at[k] = r THEN k ELSE None
  /\ \A r \in Roots :
       report[r]["top"] = None \/ (report[r]["top"] \in Singles /\ at[report[r]["top"]] = r)
  /\ \A d \in Singles : at[d] \in Roots => report[at[d]]["top"] \in Singles

\* The initial states, in these terms.
LEMMA InitIsWhole ==
  ASSUME RescanInit
  PROVE  /\ RescanTypeOK
         /\ \E at \in [Downloads -> {"clean", "scan"}] : Whole(at)
         /\ \A j \in Jobs : /\ job[j].pc = "idle" /\ job[j].id = None /\ job[j].targets = {}
                            /\ job[j].todo = {} /\ job[j].moved = {} /\ job[j].result = "none"
         /\ \A d \in Downloads, f \in Files : scans[d][f] = "none"
         /\ stuck = {}
<1>1. /\ job = [j \in Jobs |-> Idle] /\ scans = [d \in Downloads |-> [f \in Files |-> "none"]]
      /\ strayed = {} /\ raced = {} /\ stuck = {} /\ loaded \in {{}, Folders}
      /\ ours = [j \in Jobs |-> NoRow]
      /\ nature \in [Files -> {"clean", "threat", "unscanned"}]
  BY DEF RescanInit
<1>2. PICK at \in [Downloads -> {"clean", "scan"}] :
       /\ place = [f \in Files |-> at[f.of]]
       /\ record = [d \in Downloads |->
                      [here |-> TRUE, seeding |-> TRUE,
                       result |-> IF at[d] = "clean" THEN "clean" ELSE "unscanned"]]
       /\ seeded = {d \in Downloads : at[d] = "clean"}
       /\ report \in [Roots -> [Keys -> Downloads \union {None}]]
       /\ \A r \in Roots :
            /\ \A k \in Folders : report[r][k] = IF at[k] = r THEN k ELSE None
            /\ report[r]["top"] \in
                 LET here == {d \in Singles : at[d] = r} IN IF here = {} THEN {None} ELSE here
  BY DEF RescanInit
<1>3. \A r \in Roots : \/ report[r]["top"] = None /\ \A d \in Singles : at[d] # r
                       \/ report[r]["top"] \in Singles /\ at[report[r]["top"]] = r
  BY <1>2
<1>4. Whole(at)
  BY <1>2, <1>3 DEF Whole
<1>5. \A j \in Jobs : /\ job[j].pc = "idle" /\ job[j].id = None /\ job[j].targets = {}
                      /\ job[j].todo = {} /\ job[j].moved = {} /\ job[j].result = "none"
  BY <1>1 DEF Idle
<1>6. place \in [Files -> Roots \union {"gone"}]
  BY <1>2, FileFacts DEF Roots
<1>7. record \in [Downloads -> Row]
  BY <1>2 DEF Row, Results
<1>8. job \in [Jobs -> JobType] /\ ours \in [Jobs -> Row]
  BY <1>1 DEF JobType, Idle, Results, NoRow, Row
<1>9. scans \in [Downloads -> [Files -> {"none", "clean", "threat", "unscanned"}]]
  BY <1>1
<1>10. RescanTypeOK
  BY <1>1, <1>2, <1>5, <1>6, <1>7, <1>8, <1>9 DEF RescanTypeOK, JobType, Running
<1> QED
  BY <1>1, <1>4, <1>5, <1>10

\* The invariant holds at first, is kept by stuttering and by every step.
LEMMA StartsWhole == RescanInit => RescanInv
<1> SUFFICES ASSUME RescanInit PROVE RescanInv
  OBVIOUS
<1>1. RescanTypeOK
  BY InitIsWhole
<1>2. PICK at \in [Downloads -> {"clean", "scan"}] : Whole(at)
  BY InitIsWhole
<1>3. \A j \in Jobs : /\ job[j].pc = "idle" /\ job[j].id = None /\ job[j].targets = {}
                      /\ job[j].todo = {} /\ job[j].moved = {} /\ job[j].result = "none"
  BY InitIsWhole
<1>4. \A d \in Downloads, f \in Files : scans[d][f] = "none"
  BY InitIsWhole
<1>5. \A d \in Downloads : \A f \in FilesOf(d) : f \in Files /\ place[f] = at[d]
  BY <1>2, FileFacts DEF Whole
<1>6. Targeted
  BY <1>3 DEF Targeted, JobTargets, Cleaning
<1>7. OwnReports
  <2>1. ASSUME NEW r \in Roots, NEW k \in Keys, NEW d \in Downloads, report[r][k] = d
        PROVE  k = Key(d)
    <3>1. CASE k \in Folders
      BY <1>2, <2>1, <3>1, KeyFacts DEF Whole
    <3>2. CASE k = "top"
      BY <1>2, <2>1, <3>2, KeyFacts DEF Whole
    <3> QED
      BY <3>1, <3>2 DEF Keys
  <2> QED
    BY <1>2, <2>1 DEF OwnReports, Whole
<1>8. OwnFiles
  BY <1>3, <1>7 DEF OwnFiles, OwnTargets
<1>9. Recorded
  BY <1>3, <1>4 DEF Recorded, TrueRecords, JobScans
<1>10. Covered /\ Verdicts /\ Swept
  BY <1>3 DEF Covered, JobCovers, Verdicts, Swept, Cleaning, Sweeping
<1>11. Threatened
  BY <1>2, <1>3 DEF Threatened, Says, Telling, Whole
<1>12. Moved
  <2>1. SUFFICES ASSUME NEW d \in Downloads, SaysClean(d) PROVE at[d] = "clean"
    BY <1>5 DEF Moved
  <2>2. \A r \in Roots, k \in Keys : report[r][k] = d => at[d] = r
    <3>1. SUFFICES ASSUME NEW r \in Roots, NEW k \in Keys, report[r][k] = d PROVE at[d] = r
      OBVIOUS
    <3>2. CASE k \in Folders
      BY <1>2, <3>1, <3>2, KeyFacts DEF Whole
    <3>3. CASE k = "top"
      BY <1>2, <3>1, <3>3, KeyFacts DEF Whole
    <3> QED
      BY <3>2, <3>3 DEF Keys
  <2>3. report["clean"][Key(d)] = d => at[d] = "clean"
    BY <2>2, KeyFacts DEF Roots
  <2> QED
    BY <1>2, <1>3, <2>1, <2>3 DEF SaysClean, Says, Telling, Cleaning, Whole
<1>13. Reported
  <2>1. SUFFICES ASSUME NEW d \in Downloads, NEW r \in Kept, Item(r, d) # {} PROVE Findable(d, r)
    BY DEF Reported, Findable
  <2>2. at[d] = r /\ r \in Roots
    BY <1>5, <2>1 DEF Item, Kept, Roots
  <2>3. CASE d \in Folders
    BY <1>2, <2>2, <2>3, KeyFacts DEF Whole, Findable
  <2>4. CASE d \in Singles
    <3>1. report[r]["top"] \in Singles
      BY <1>2, <2>2, <2>4 DEF Whole
    <3> QED
      BY <2>4, <3>1, KeyFacts DEF Findable, Downloads
  <2> QED
    BY <2>3, <2>4 DEF Downloads
<1>14. SeedsEnd
  BY <1>2 DEF SeedsEnd, Unclean, Whole
<1>15. Alone
  BY <1>3 DEF Alone, AloneAt, Done
<1>16. ThreatKept
  BY <1>2, <1>4, <1>5 DEF ThreatKept, HasThreat, Item
<1>17. StuckTold /\ Copied /\ Faithful
  BY <1>3, InitIsWhole DEF StuckTold, Copied, Faithful, FaithfulAt
<1> QED
  BY <1>1, <1>6, <1>8, <1>9, <1>10, <1>11, <1>12, <1>13, <1>14, <1>15, <1>16, <1>17 DEF RescanInv

LEMMA RescanStutters == RescanInv /\ UNCHANGED rescan => RescanInv'
<1> SUFFICES ASSUME RescanInv, UNCHANGED rescan PROVE RescanInv'
  OBVIOUS
<1>1. /\ UNCHANGED <<place, report, record, seeded, scans, loaded, nature, job, strayed, raced>>
      /\ UNCHANGED <<ours, stuck>>
  BY DEF rescan, disk, records, world, history, errors
<1>2. RescanTypeOK'
  BY <1>1 DEF RescanInv, RescanTypeOK, Running
<1>3. Targeted' /\ OwnFiles'
  BY <1>1 DEF RescanInv, Targeted, JobTargets, Cleaning, OwnFiles, OwnTargets, OwnReports
<1>4. Recorded'
  BY <1>1 DEF RescanInv, Recorded, TrueRecords, JobScans
<1>5. \A d : /\ Cleared(d)' <=> Cleared(d)
             /\ HasThreat(d)' <=> HasThreat(d)
             /\ BadRecorded(d)' <=> BadRecorded(d)
  BY <1>1 DEF Cleared, HasThreat, BadRecorded
<1>6. \A f : BeingMoved(f)' <=> BeingMoved(f)
  BY <1>1 DEF BeingMoved, Cleaning
<1>7. \A r, d : Item(r, d)' = Item(r, d)
  BY <1>1 DEF Item
<1>16. \A d, v : Says(d, v)' <=> Says(d, v)
  BY <1>1 DEF Says, Telling
<1>17. StuckTold' /\ Copied' /\ Faithful'
  BY <1>1, <1>5 DEF RescanInv, StuckTold, Copied, Faithful, FaithfulAt
<1>8. Covered'
  BY <1>1, <1>5, <1>6 DEF RescanInv, Covered, JobCovers
<1>9. Verdicts' /\ Swept'
  BY <1>1, <1>5 DEF RescanInv, Verdicts, Swept, Cleaning, Sweeping
<1>10. Threatened'
  BY <1>1, <1>16 DEF RescanInv, Threatened
<1>11. Moved'
  BY <1>1, <1>6, <1>16 DEF RescanInv, Moved, SaysClean, Cleaning
<1>12. Reported'
  BY <1>1, <1>7 DEF RescanInv, Reported, Cleaning
<1>13. SeedsEnd'
  BY <1>1 DEF RescanInv, SeedsEnd, Unclean, Ends
<1>14. Alone'
  BY <1>1, <1>5 DEF RescanInv, Alone, AloneAt, Lone
<1>15. ThreatKept'
  BY <1>1, <1>5, <1>7 DEF RescanInv, ThreatKept, Lone, AtThreat
<1> QED
  BY <1>2, <1>3, <1>4, <1>8, <1>9, <1>10, <1>11, <1>12, <1>13, <1>14, <1>15, <1>17 DEF RescanInv

LEMMA RescanSteps == RescanInv /\ RescanNext => RescanInv'
<1> SUFFICES ASSUME RescanInv, RescanNext PROVE RescanInv'
  OBVIOUS
<1>1. /\ RescanTypeOK /\ Targeted /\ OwnFiles /\ Recorded /\ Covered
      /\ StuckTold /\ Verdicts /\ Swept /\ Threatened /\ Moved /\ Reported
      /\ Copied /\ Faithful /\ SeedsEnd /\ Alone /\ ThreatKept
  BY DEF RescanInv
<1>2. RescanTypeOK' /\ Targeted' /\ OwnFiles'
  BY <1>1, RescanTypesKept, TargetedKept, OwnKept
<1>3. Recorded'
  BY <1>1, TrueRecordsKept, RecordedKept DEF Recorded
<1>4. Covered' /\ StuckTold' /\ Verdicts' /\ Swept'
  BY <1>1, CoveredKept, StuckToldKept, VerdictsKept, SweptKept
<1>5. Threatened' /\ Moved' /\ Reported'
  BY <1>1, ThreatenedKept, MovedKept, ReportedKept
<1>6. Copied' /\ Faithful' /\ SeedsEnd'
  BY <1>1, CopiedKept, FaithfulKept, SeedsEndKept
<1>7. Alone'
  BY <1>1, SoloKept, AloneKept DEF Alone
<1>8. ThreatKept'
  BY <1>1, ThreatStillKept
<1> QED
  BY <1>2, <1>3, <1>4, <1>5, <1>6, <1>7, <1>8 DEF RescanInv

LEMMA RescanInvHolds == RescanSpec => []RescanInv
<1>1. RescanInv /\ [RescanNext]_rescan => RescanInv'
  BY RescanSteps, RescanStutters
<1> QED
  BY StartsWhole, <1>1, PTL DEF RescanSpec

\* Where re-scans, rows, reports and seeds may be, for any number of
\* downloads and of scans under way (rescanTorrent).
THEOREM RescanTypeCorrect == RescanSpec => []RescanTypeOK
<1>1. RescanInv => RescanTypeOK
  BY DEF RescanInv
<1> QED
  BY <1>1, RescanInvHolds, PTL

\* Row and folders agree once no scan of a download is under way, but for what
\* could not be moved, and so do the seeds unless two scans or a deletion met (the
\* moves, the row and the seeding at the end of rescanTorrent).
THEOREM TheVerdictIsDone == RescanSpec => []VerdictIsDone
<1>1. RescanInv => VerdictIsDone
  <2>1. SUFFICES ASSUME RescanInv, NEW d \in Downloads, Settled(d)
                 PROVE  /\ record[d].result = "threats_found" => Item("clean", d) \subseteq stuck
                        /\ record[d].result = "clean" => Item("scan", d) \subseteq stuck
                        /\ d \in seeded /\ d \notin raced => record[d].result = "clean"
    BY DEF VerdictIsDone
  <2>2. record[d].here /\ d \notin strayed /\ \A j \in Jobs : job[j].id # d
    BY <2>1 DEF Settled, Holders
  <2>3. record[d].result = "threats_found" => Item("clean", d) \subseteq stuck
    BY <2>1, <2>2 DEF RescanInv, Threatened, Says, Item, Kept
  <2>4. \A f \in FilesOf(d) : ~BeingMoved(f)
    BY <2>2, FileFacts DEF BeingMoved
  <2>5. record[d].result = "clean" => Item("scan", d) \subseteq stuck
    BY <2>1, <2>2, <2>4 DEF RescanInv, Moved, SaysClean, Says, Item
  <2>6. d \in seeded /\ d \notin raced => record[d].result = "clean"
    BY <2>1, <2>2 DEF RescanInv, SeedsEnd, Unclean, Ends
  <2> QED
    BY <2>3, <2>5, <2>6
<1> QED
  BY <1>1, RescanInvHolds, PTL

\* A row tells of a threat in quarantine, unless two scans or a deletion met
\* (scanPath and ScanSummary).
THEOREM TheThreatIsRecorded == RescanSpec => []ThreatIsRecorded
<1>1. RescanInv => ThreatIsRecorded
  BY DEF RescanInv, ThreatIsRecorded, ThreatKept, Lone, AtThreat, Settled, Holders
<1> QED
  BY <1>1, RescanInvHolds, PTL

\* What lies in a delivery folder can be found again (writeScanReport and
\* the pruning of moveRescanFiles, against diskRescanFiles).
THEOREM DeliveredStaysFindable == RescanSpec => []StaysFindable
<1>1. RescanInv => StaysFindable
  BY DEF RescanInv, StaysFindable, Reported, Settled, Holders, Kept
<1> QED
  BY <1>1, RescanInvHolds, PTL
=============================================================================
