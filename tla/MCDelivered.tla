----------------------------- MODULE MCDelivered -----------------------------
(***************************************************************************)
(* What becomes of delivered downloads, in one instance for TLC: their     *)
(* seeding, and their re-scans.  Each module has what it needs of the      *)
(* other's state (Seeding the verdict a re-scan writes, Rescan the seeds   *)
(* it ends), so a session has one of them as its subject, and the other    *)
(* stays as it is.                                                         *)
(***************************************************************************)
EXTENDS Seeding, Rescan, TLC

VARIABLE subject

vars == <<subject, seeding, rescan>>

\* What is not the subject starts in one state only.
Init ==
  /\ subject \in {"seeding", "rescan"}
  /\ SeedsInit /\ RescanInit
  /\ subject # "seeding" => ~enabled
  /\ subject # "rescan" =>
       /\ loaded = {} /\ seeded = {}
       /\ \A f \in DOMAIN nature : nature[f] = "clean"

Seeding   == subject = "seeding" /\ UNCHANGED <<subject, rescan>>
Rescanned == subject = "rescan" /\ UNCHANGED <<subject, seeding>>

Next ==
  \/ Seeding /\ SeedsNext
  \/ Rescanned /\ RescanNext

Spec == Init /\ [][Next]_vars

\* No call tells one torrent, or one caller, from another.
Interchangeable == Permutations(Torrents) \union Permutations(Actors)

\* Once calls have crossed nothing is claimed of the seeds any more, nor of the
\* downloads once files of each have been taken for another's; both for good.
Judged == ~crossed /\ strayed # Downloads

=============================================================================
