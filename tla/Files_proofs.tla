---------------------------- MODULE Files_proofs ----------------------------
(***************************************************************************)
(* What becomes of the files of a download: which are fetched and handed   *)
(* over (Selection), and what is said of each (ScanVerdict).               *)
(*                                                                         *)
(* Selection.  The user's choice is held in the source record, in the      *)
(* hands of whoever carries it out, in the priorities of the handle and in *)
(* the store's row, and these are written one after the other, by          *)
(* different goroutines.  As long as no two choices met, the invariant     *)
(* says that each of them has the last choice or has it on the way         *)
(* (AsAsked): a goroutine between applying and saving answers for the row  *)
(* (AppliedInTheEnd), and the priorities are right up to the file it has   *)
(* come to (SoFarAsAsked).  So when all is quiet they agree, and a pass,   *)
(* which meets nobody, prunes and delivers by the choice                   *)
(* (CompleteAsAsked).  A torrent without a choice has a hold on it that    *)
(* pauses and resumes keep (RecordAsAsked), so nothing is wanted of it     *)
(* (NothingYet).  What two choices that meet leave behind is not said, but *)
(* the next choice that meets nobody puts everything right (ChooseKeeps).  *)
(*                                                                         *)
(* ScanVerdict.  The verdict on a file fails closed but for two failures   *)
(* of the sandbox (FailsOpen), and follows the evidence, whatever the      *)
(* engines, the reputation service and the sandbox come back with.         *)
(***************************************************************************)
EXTENDS Selection, ScanVerdict, TLAPS

\* Where an actor can be.
ActorSteps == {"idle", "look", "wait", "read", "apply", "mark", "notify"}
Choice == SUBSET Files
\* A choice is on its way with a; files are being set by a.
Carrying(a) == actor[a].pc \in {"look", "apply", "mark", "notify"}
Setting(a)  == actor[a].pc \in {"apply", "mark"}

ActorType == [pc : ActorSteps, on : 0..MaxGen, files : Choice, next : 1..(NFiles + 1)]
EntryType == [pc : {"idle", "register", "onAdd"}, files : Choice, wait : BOOLEAN]

SelectionTyped ==
  /\ reg \in {"absent", "live", "parked", "delivered"}
  /\ gen \in 0..MaxGen /\ info \subseteq 1..gen
  /\ src \in [files : Choice, wait : BOOLEAN] /\ applied \in BOOLEAN
  /\ want \subseteq Files /\ disk \in [Files -> {"none", "scrap", "whole"}]
  /\ row \in Choice \union {None} /\ asked \in Choice \union {None}
  /\ delivered \in Choice \union {None}
  /\ actor \in [Actors -> ActorType]
  /\ entry \in EntryType
  /\ pass \in {"idle", "prune", "deliver"} /\ mixed \in BOOLEAN

\* What can be under way where the torrent is.
Phases ==
  /\ entry.pc = "register" => reg # "live" /\ gen < MaxGen
  /\ entry.pc = "onAdd" => reg \in {"live", "delivered"} /\ gen > 0
  /\ reg = "live" => gen > 0
  /\ reg # "live" => want = {}
  /\ reg = "parked" \/ (reg = "live" /\ entry.pc = "idle") => row # None

\* Every actor is where its kind can be, and looks at a handle it can know.
InTurn ==
  /\ \A a \in Actors : actor[a].pc \notin {"apply", "mark", "notify"} => actor[a].next = 1
  /\ \A a \in Actors : actor[a].pc = "apply" => actor[a].next <= NFiles
  /\ \A a \in Actors : actor[a].pc \in {"read", "apply", "mark", "notify"} => actor[a].on \in info
  /\ \A c \in Choosers : actor[c].pc \notin {"wait", "read"}
  /\ \A g \in 1..MaxGen :
       /\ actor[g].pc # "look"
       /\ actor[g].pc # "idle" => actor[g].on = g /\ g <= gen
  /\ entry.pc = "onAdd" => actor[gen].pc = "idle"

\* Until a selection is applied only somebody setting priorities has set any.
OpenUntilApplied ==
  want # {} /\ ~applied => \E a \in Actors : Setting(a) /\ actor[a].on = gen

\* As long as no two choices met, all that holds a choice holds the last one:
\* the entry of an add, the record, whatever is being carried out, the
\* priorities set so far, and what a completion pass goes by.  Without a
\* choice there is nothing yet.
EntryAsAsked ==
  entry.pc = "register" =>
    IF asked = None THEN entry.files = {} /\ entry.wait
    ELSE entry.files = asked /\ (asked = {} => ~entry.wait)
RecordAsAsked ==
  reg \in {"live", "parked"} =>
    IF asked = None THEN Held /\ ~applied
    ELSE src.files = asked /\ ~Held
NothingYet == asked = None => want = {} /\ pass = "idle" /\ \A f \in Files : disk[f] = "none"
CarriedAsAsked ==
  reg \in {"live", "parked"} =>
    \A a \in Actors : Carrying(a) => asked # None /\ actor[a].files = asked /\ actor[a].on = gen
\* Nothing is applied before the metadata of the handle is known.
KnownOnceApplied ==
  /\ reg = "live" /\ applied => gen \in info
  /\ entry.pc = "onAdd" => ~applied /\ \A a \in Actors : ~Carrying(a)
\* An applied choice is in force and saved, or somebody is at it.
AppliedInTheEnd ==
  reg = "live" /\ applied =>
    (want = Sel(asked) /\ row = asked) \/ \E a \in Actors : Carrying(a)
SoFarAsAsked ==
  reg = "live" => \A a \in Actors :
    /\ actor[a].pc = "apply" =>
         \A f \in Files : f < actor[a].next => (f \in want <=> f \in Sel(asked))
    /\ actor[a].pc \in {"mark", "notify"} => want = Sel(asked)
CompleteAsAsked ==
  /\ pass # "idle" => asked # None /\ want \subseteq Sel(asked)
  /\ pass = "prune" => /\ reg = "live" /\ gen \in info
                       /\ \A f \in Sel(asked) : disk[f] = "whole"
  /\ pass = "deliver" => \A f \in Files : disk[f] = IF f \in Sel(asked) THEN "whole" ELSE "none"
DeliveredAsAsked == delivered # None => asked # None /\ delivered = Sel(asked)

Agreed ==
  /\ EntryAsAsked /\ RecordAsAsked /\ NothingYet /\ CarriedAsAsked
  /\ KnownOnceApplied /\ AppliedInTheEnd /\ SoFarAsAsked
  /\ CompleteAsAsked /\ DeliveredAsAsked

\* That is, unless two choices met.
AsAsked == ~mixed => Agreed

SelectionInv == SelectionTyped /\ Phases /\ InTurn /\ OpenUntilApplied /\ AsAsked

-----------------------------------------------------------------------------
(* Facts about the constants, and what an actor does in a step              *)

\* Files, choices and the records of an actor and an entry at rest.
LEMMA Basics ==
  /\ NFiles \in Nat \ {0} /\ MaxGen \in Nat /\ Files = 1..NFiles
  /\ Actors = Choosers \union 1..MaxGen /\ \A c \in Choosers : c \notin 1..MaxGen
  /\ None \notin Choice /\ {} \in Choice /\ Offers \subseteq Choice
  /\ \A x \in Choice : Sel(x) \in Choice /\ Sel(x) # {}
  /\ Sel({}) = Files /\ \A x \in Choice : x # {} => Sel(x) = x
  /\ Rest \in ActorType /\ NoEntry \in EntryType
<1>1. NFiles \in Nat \ {0} /\ MaxGen \in Nat /\ Files = 1..NFiles /\ Choice = SUBSET (1..NFiles)
  BY SelectionAssumption DEF Files, Choice
<1>2. Actors = Choosers \union 1..MaxGen /\ \A c \in Choosers : c \notin 1..MaxGen
  BY SelectionAssumption DEF Actors
<1>3. None \notin Choice /\ {} \in Choice /\ Offers \subseteq Choice
  BY <1>1, SelectionAssumption
<1>4. Sel({}) = Files /\ \A x \in Choice : x # {} => Sel(x) = x
  BY DEF Sel
<1>5. 1 \in Files /\ Files \in Choice
  BY <1>1
<1>6. \A x \in Choice : Sel(x) \in Choice /\ Sel(x) # {}
  BY <1>4, <1>5
<1>7. 0 \in 0..MaxGen /\ 1 \in 1..(NFiles + 1)
  BY <1>1
<1>8. Rest \in ActorType /\ NoEntry \in EntryType
  BY <1>3, <1>7 DEF Rest, NoEntry, ActorType, EntryType, ActorSteps
<1> QED
  BY <1>1, <1>2, <1>3, <1>4, <1>6, <1>8

\* What the actors do in a step: a alone does something.
Does(a, step, handle, files, next) ==
  /\ actor' \in [Actors -> ActorType]
  /\ actor'[a].pc = step /\ actor'[a].on = handle /\ actor'[a].files = files
  /\ actor'[a].next = next
  /\ \A b \in Actors : b # a => actor'[b] = actor[b]

\* An actor that is given a record has its fields, and the others keep theirs.
LEMMA Assigned ==
  ASSUME SelectionTyped, NEW a \in Actors, NEW v \in ActorType, actor' = [actor EXCEPT ![a] = v]
  PROVE  Does(a, v.pc, v.on, v.files, v.next)
BY DEF SelectionTyped, Does

\* The same of an actor that is done.
LEMMA Rests ==
  ASSUME SelectionTyped, NEW a \in Actors, actor' = [actor EXCEPT ![a] = Rest]
  PROVE  Does(a, "idle", 0, {}, 1)
<1>1. Rest.pc = "idle" /\ Rest.on = 0 /\ Rest.files = {} /\ Rest.next = 1
  BY DEF Rest
<1>2. Rest \in ActorType
  BY Basics
<1> QED
  BY <1>1, <1>2, Assigned

\* The goroutine of a new handle begins to wait.
LEMMA OnAddDoes ==
  ASSUME SelectionTyped, Phases, OnAdd
  PROVE  gen \in 1..MaxGen /\ Does(gen, "wait", gen, {}, 1)
<1>1. gen \in 1..MaxGen /\ gen \in 0..MaxGen /\ gen \in Actors
  <2>1. gen \in 0..MaxGen /\ gen > 0
    BY DEF OnAdd, Phases, SelectionTyped
  <2>2. MaxGen \in Nat /\ Actors = Choosers \union 1..MaxGen
    BY Basics
  <2> QED
    BY <2>1, <2>2
<1> DEFINE v == [Rest EXCEPT !.pc = "wait", !.on = gen]
<1>2. v \in ActorType /\ v.pc = "wait" /\ v.on = gen /\ v.files = {} /\ v.next = 1
  <2>1. Rest \in ActorType
    BY Basics
  <2>2. Rest.files = {} /\ Rest.next = 1
    BY DEF Rest
  <2> QED
    BY <1>1, <2>1, <2>2 DEF ActorType, ActorSteps
<1>3. actor' = [actor EXCEPT ![gen] = v]
  BY DEF OnAdd
<1> HIDE DEF v
<1> QED
  BY <1>1, <1>2, <1>3, Assigned

\* A choice for a live torrent is on its way.
LEMMA ChooseDoes ==
  ASSUME SelectionTyped, NEW c \in Choosers, NEW choose \in Offers, Choose(c, choose)
  PROVE  IF reg = "parked" THEN actor' = actor ELSE Does(c, "look", gen, choose, 1)
<1> DEFINE v == [pc |-> "look", on |-> gen, files |-> choose, next |-> 1]
<1>1. v \in ActorType /\ v.pc = "look" /\ v.on = gen /\ v.files = choose /\ v.next = 1
  <2>1. 1 \in 1..(NFiles + 1) /\ choose \in Choice /\ gen \in 0..MaxGen
    BY Basics DEF SelectionTyped
  <2> QED
    BY <2>1 DEF ActorType, ActorSteps
<1>2. actor' = IF reg = "parked" THEN actor ELSE [actor EXCEPT ![c] = v]
  BY DEF Choose
<1>3. c \in Actors
  BY Basics
<1> HIDE DEF v
<1> QED
  BY <1>1, <1>2, <1>3, Assigned

\* A choice is carried out only on known metadata.
LEMMA LookDoes ==
  ASSUME SelectionTyped, NEW a \in Actors, Look(a)
  PROVE  IF actor[a].on \in info THEN Does(a, "apply", actor[a].on, actor[a].files, actor[a].next)
         ELSE Does(a, "idle", 0, {}, 1)
<1> DEFINE v == [actor[a] EXCEPT !.pc = "apply"]
<1>1. actor[a] \in ActorType
  BY DEF SelectionTyped
<1>2. /\ v \in ActorType /\ v.pc = "apply" /\ v.on = actor[a].on /\ v.files = actor[a].files
      /\ v.next = actor[a].next
  BY <1>1 DEF ActorType, ActorSteps
<1>3. actor' = [actor EXCEPT ![a] = IF actor[a].on \in info THEN v ELSE Rest]
  BY DEF Look, SelectionTyped
<1> HIDE DEF v
<1> QED
  BY <1>2, <1>3, Assigned, Rests

\* With the metadata the goroutine goes on to read the record.
LEMMA GotInfoDoes ==
  ASSUME SelectionTyped, NEW a \in 1..MaxGen, GotInfo(a)
  PROVE  IF reg = "live" THEN Does(a, "read", actor[a].on, actor[a].files, actor[a].next)
         ELSE Does(a, "idle", 0, {}, 1)
<1> DEFINE v == [actor[a] EXCEPT !.pc = "read"]
<1>1. a \in Actors /\ actor[a] \in ActorType
  BY Basics DEF SelectionTyped
<1>2. /\ v \in ActorType /\ v.pc = "read" /\ v.on = actor[a].on /\ v.files = actor[a].files
      /\ v.next = actor[a].next
  BY <1>1 DEF ActorType, ActorSteps
<1>3. actor' = [actor EXCEPT ![a] = IF reg = "live" THEN v ELSE Rest]
  BY <1>1 DEF GotInfo, SelectionTyped
<1> HIDE DEF v
<1> QED
  BY <1>1, <1>2, <1>3, Assigned, Rests

\* It carries out what the record says, unless that is done or held.
LEMMA ApplySelectionDoes ==
  ASSUME SelectionTyped, NEW a \in 1..MaxGen, ApplySelection(a)
  PROVE  IF applied \/ Held THEN Does(a, "idle", 0, {}, 1)
         ELSE Does(a, "apply", actor[a].on, src.files, actor[a].next)
<1> DEFINE v == [[actor[a] EXCEPT !.pc = "apply"] EXCEPT !.files = src.files]
<1>1. a \in Actors /\ actor[a] \in ActorType /\ src.files \in Choice
  BY Basics DEF SelectionTyped
<1>2. /\ v \in ActorType /\ v.pc = "apply" /\ v.on = actor[a].on /\ v.files = src.files
      /\ v.next = actor[a].next
  BY <1>1 DEF ActorType, ActorSteps
<1>3. actor' = [actor EXCEPT ![a] = IF applied \/ Held THEN Rest ELSE v]
  BY <1>1 DEF ApplySelection, SelectionTyped
<1> HIDE DEF v
<1> QED
  BY <1>1, <1>2, <1>3, Assigned, Rests

\* One file further, and to the mark after the last.
LEMMA ApplyDoes ==
  ASSUME SelectionTyped, InTurn, NEW a \in Actors, Apply(a)
  PROVE  Does(a, IF actor[a].next = NFiles THEN "mark" ELSE "apply", actor[a].on, actor[a].files,
              actor[a].next + 1)
<1> DEFINE v == [[actor[a] EXCEPT !.next = actor[a].next + 1]
                   EXCEPT !.pc = IF actor[a].next = NFiles THEN "mark" ELSE actor[a].pc]
<1>1. actor[a] \in ActorType /\ actor[a].pc = "apply" /\ actor[a].next \in 1..NFiles
  BY Basics DEF SelectionTyped, InTurn, Apply, ActorType
<1>2. actor[a].next + 1 \in 1..(NFiles + 1)
  BY <1>1, Basics
<1>3. /\ v \in ActorType /\ v.pc = (IF actor[a].next = NFiles THEN "mark" ELSE "apply")
      /\ v.on = actor[a].on /\ v.files = actor[a].files /\ v.next = actor[a].next + 1
  BY <1>1, <1>2 DEF ActorType, ActorSteps
<1>4. actor' = [actor EXCEPT ![a] = v]
  BY DEF Apply, SelectionTyped
<1> HIDE DEF v
<1> QED
  BY <1>3, <1>4, Assigned

\* The mark, and on to the row.
LEMMA MarkDoes ==
  ASSUME SelectionTyped, NEW a \in Actors, Mark(a)
  PROVE  Does(a, "notify", actor[a].on, actor[a].files, actor[a].next)
<1> DEFINE v == [actor[a] EXCEPT !.pc = "notify"]
<1>1. actor[a] \in ActorType
  BY DEF SelectionTyped
<1>2. /\ v \in ActorType /\ v.pc = "notify" /\ v.on = actor[a].on /\ v.files = actor[a].files
      /\ v.next = actor[a].next
  BY <1>1 DEF ActorType, ActorSteps
<1>3. actor' = [actor EXCEPT ![a] = v]
  BY DEF Mark, SelectionTyped
<1> HIDE DEF v
<1> QED
  BY <1>2, <1>3, Assigned

\* A step that leaves its actor where its kind can be keeps all in turn.
LEMMA InTurnStays ==
  ASSUME SelectionInv, NEW a \in Actors, NEW step, NEW handle, NEW files, NEW next,
         Does(a, step, handle, files, next), gen' = gen, info' = info, entry' = entry,
         step \notin {"apply", "mark", "notify"} => next = 1,
         step = "apply" => next <= NFiles,
         step \in {"read", "apply", "mark", "notify"} => handle \in info,
         a \in Choosers => step \notin {"wait", "read"},
         a \in 1..MaxGen => step # "look" /\ (step # "idle" => handle = a /\ a <= gen),
         entry.pc = "onAdd" => step = "idle" \/ a # gen
  PROVE  InTurn'
<1>1. \A b \in Actors : actor'[b].pc \notin {"apply", "mark", "notify"} => actor'[b].next = 1
  BY DEF SelectionInv, InTurn, Does
<1>2. \A b \in Actors : actor'[b].pc = "apply" => actor'[b].next <= NFiles
  BY DEF SelectionInv, InTurn, Does
<1>3. \A b \in Actors :
        actor'[b].pc \in {"read", "apply", "mark", "notify"} => actor'[b].on \in info'
  BY DEF SelectionInv, InTurn, Does
<1>4. \A c \in Choosers : actor'[c].pc \notin {"wait", "read"}
  BY Basics DEF SelectionInv, InTurn, Does
<1>5. \A g \in 1..MaxGen : /\ actor'[g].pc # "look"
                           /\ actor'[g].pc # "idle" => actor'[g].on = g /\ g <= gen'
  BY Basics DEF SelectionInv, InTurn, Does
<1>6. entry'.pc = "onAdd" => actor'[gen'].pc = "idle"
  <2>1. entry.pc = "onAdd" => gen \in Actors
    BY Basics DEF SelectionInv, Phases, SelectionTyped
  <2> QED
    BY <2>1 DEF SelectionInv, InTurn, Does
<1> QED
  BY <1>1, <1>2, <1>3, <1>4, <1>5, <1>6 DEF InTurn

-----------------------------------------------------------------------------
(* Every operation keeps the invariant                                     *)

\* An add begins with nothing on disk of a torrent that waits for a choice.
LEMMA AddKeeps ==
  ASSUME SelectionInv, NEW choose \in Offers, NEW hold \in BOOLEAN, Add(choose, hold)
  PROVE  SelectionInv'
<1>1. /\ entry.pc = "idle" /\ reg \in {"absent", "delivered"} /\ gen < MaxGen
      /\ entry' = [pc |-> "register", files |-> choose, wait |-> hold]
      /\ asked' = IF choose = {} /\ hold THEN None ELSE choose
      /\ mixed' = (pass # "idle" \/ (asked' = None /\ \E f \in Files : disk[f] # "none"))
      /\ delivered' = None
      /\ UNCHANGED <<reg, gen, info, want, disk, src, applied, row, actor, pass>>
  BY DEF Add, Adding, torrent, choice
<1>2. SelectionTyped'
  BY <1>1, Basics DEF SelectionInv, SelectionTyped, EntryType
<1>3. Phases'
  BY <1>1 DEF SelectionInv, SelectionTyped, Phases
<1>4. InTurn'
  BY <1>1 DEF SelectionInv, InTurn
<1>5. OpenUntilApplied'
  BY <1>1 DEF SelectionInv, OpenUntilApplied, Setting
<1>6. ASSUME ~mixed'
      PROVE  Agreed'
  <2>1. EntryAsAsked'
    BY <1>1, Basics DEF EntryAsAsked
  <2>2. RecordAsAsked'
    BY <1>1, <1>6 DEF RecordAsAsked, Held
  <2>3. NothingYet'
    BY <1>1, <1>6, Basics DEF SelectionInv, Phases, NothingYet
  <2>4. CarriedAsAsked'
    BY <1>1, <1>6 DEF CarriedAsAsked, Carrying
  <2>5. KnownOnceApplied'
    BY <1>1, <1>6 DEF KnownOnceApplied, Carrying
  <2>6. AppliedInTheEnd'
    BY <1>1, <1>6 DEF AppliedInTheEnd, Carrying
  <2>7. SoFarAsAsked'
    BY <1>1, <1>6 DEF SoFarAsAsked
  <2>8. CompleteAsAsked'
    BY <1>1, <1>6 DEF CompleteAsAsked
  <2>9. DeliveredAsAsked'
    BY <1>1, <1>6 DEF DeliveredAsAsked
  <2> QED
    BY <2>1, <2>2, <2>3, <2>4, <2>5, <2>6, <2>7, <2>8, <2>9 DEF Agreed
<1> QED
  BY <1>2, <1>3, <1>4, <1>5, <1>6 DEF SelectionInv, AsAsked

\* What a resume registers is the choice, or the hold, that the record kept.
LEMMA ResumeKeeps ==
  ASSUME SelectionInv, Resume
  PROVE  SelectionInv'
<1>1. /\ entry.pc = "idle" /\ reg = "parked" /\ gen < MaxGen
      /\ entry' = [pc |-> "register", files |-> src.files, wait |-> src.wait]
      /\ UNCHANGED <<reg, gen, info, want, disk, src, applied, row, actor, pass, delivered,
                     asked, mixed>>
  BY DEF Resume, ResumeEntry, torrent, choice, history
<1>2. SelectionTyped'
  BY <1>1, Basics DEF SelectionInv, SelectionTyped, EntryType
<1>3. Phases'
  BY <1>1 DEF SelectionInv, SelectionTyped, Phases
<1>4. InTurn'
  BY <1>1 DEF SelectionInv, InTurn
<1>5. OpenUntilApplied'
  BY <1>1 DEF SelectionInv, OpenUntilApplied, Setting
<1>6. ASSUME ~mixed'
      PROVE  Agreed'
  <2>1. EntryAsAsked /\ RecordAsAsked /\ NothingYet /\ CarriedAsAsked /\ KnownOnceApplied
        /\ AppliedInTheEnd /\ SoFarAsAsked /\ CompleteAsAsked /\ DeliveredAsAsked
    BY <1>1, <1>6 DEF SelectionInv, AsAsked, Agreed
  <2>2. EntryAsAsked'
    BY <1>1, <2>1, Basics DEF EntryAsAsked, RecordAsAsked, Held
  <2>3. RecordAsAsked'
    BY <1>1, <1>6, <2>1 DEF RecordAsAsked, Held
  <2>4. NothingYet'
    BY <1>1, <1>6, <2>1 DEF NothingYet
  <2>5. CarriedAsAsked'
    BY <1>1, <2>1 DEF CarriedAsAsked, Carrying
  <2>6. KnownOnceApplied'
    BY <1>1, <1>6, <2>1 DEF KnownOnceApplied, Carrying
  <2>7. AppliedInTheEnd'
    BY <1>1, <1>6, <2>1 DEF AppliedInTheEnd, Carrying
  <2>8. SoFarAsAsked'
    BY <1>1, <1>6, <2>1 DEF SoFarAsAsked
  <2>9. CompleteAsAsked'
    BY <1>1, <1>6, <2>1 DEF CompleteAsAsked
  <2>10. DeliveredAsAsked'
    BY <1>1, <1>6, <2>1 DEF DeliveredAsAsked
  <2> QED
    BY <2>2, <2>3, <2>4, <2>5, <2>6, <2>7, <2>8, <2>9, <2>10 DEF Agreed
<1> QED
  BY <1>2, <1>3, <1>4, <1>5, <1>6 DEF SelectionInv, AsAsked

\* A registration that meets nobody starts a record that says what was asked.
LEMMA RegisterKeeps ==
  ASSUME SelectionInv, Register
  PROVE  SelectionInv'
<1>1. /\ entry.pc = "register"
      /\ reg' = "live" /\ gen' = gen + 1 /\ want' = {} /\ applied' = FALSE
      /\ src' = [files |-> entry.files, wait |-> entry.wait]
      /\ entry' = [pc |-> "onAdd", files |-> entry.files, wait |-> entry.wait]
      /\ mixed' = (mixed \/ pass # "idle" \/ \E a \in Actors : Busy(a)) /\ delivered' = None
      /\ UNCHANGED <<info, disk, row, actor, pass, asked>>
  BY DEF SelectionInv, SelectionTyped, EntryType, Register
<1>2. SelectionTyped'
  <2>1. gen + 1 \in 0..MaxGen /\ 1..gen \subseteq 1..(gen + 1)
    BY <1>1, Basics DEF SelectionInv, SelectionTyped, Phases
  <2>2. entry \in EntryType /\ src' \in [files : Choice, wait : BOOLEAN] /\ entry' \in EntryType
    BY <1>1 DEF SelectionInv, SelectionTyped, EntryType
  <2> QED
    BY <1>1, <2>1, <2>2, Basics DEF SelectionInv, SelectionTyped
<1>3. Phases'
  BY <1>1 DEF SelectionInv, SelectionTyped, Phases
<1>4. InTurn'
  BY <1>1, Basics DEF SelectionInv, SelectionTyped, Phases, InTurn
<1>5. OpenUntilApplied'
  BY <1>1 DEF SelectionInv, OpenUntilApplied, Setting
<1>6. ASSUME ~mixed'
      PROVE  Agreed'
  <2>1. EntryAsAsked /\ RecordAsAsked /\ NothingYet /\ CarriedAsAsked /\ KnownOnceApplied
        /\ AppliedInTheEnd /\ SoFarAsAsked /\ CompleteAsAsked /\ DeliveredAsAsked
    BY <1>1, <1>6 DEF SelectionInv, AsAsked, Agreed
  <2>2. EntryAsAsked'
    BY <1>1, <1>6, <2>1 DEF EntryAsAsked
  <2>3. RecordAsAsked'
    BY <1>1, <2>1 DEF EntryAsAsked, RecordAsAsked, Held
  <2>4. NothingYet'
    BY <1>1, <1>6, <2>1 DEF NothingYet
  <2>5. CarriedAsAsked'
    BY <1>1, <1>6 DEF CarriedAsAsked, Carrying, Busy
  <2>6. KnownOnceApplied'
    BY <1>1, <1>6 DEF KnownOnceApplied, Carrying, Busy
  <2>7. AppliedInTheEnd'
    BY <1>1, <1>6, <2>1 DEF AppliedInTheEnd, Carrying
  <2>8. SoFarAsAsked'
    BY <1>1, <1>6 DEF SoFarAsAsked, Busy
  <2>9. CompleteAsAsked'
    BY <1>1, <1>6 DEF CompleteAsAsked
  <2>10. DeliveredAsAsked'
    BY <1>1, <1>6, <2>1 DEF DeliveredAsAsked
  <2> QED
    BY <2>2, <2>3, <2>4, <2>5, <2>6, <2>7, <2>8, <2>9, <2>10 DEF Agreed
<1> QED
  BY <1>2, <1>3, <1>4, <1>5, <1>6 DEF SelectionInv, AsAsked

\* Nothing is applied yet when the row begins anew.
LEMMA OnAddKeeps ==
  ASSUME SelectionInv, OnAdd
  PROVE  SelectionInv'
<1>1. /\ entry.pc = "onAdd" /\ row' = {} /\ entry' = NoEntry /\ NoEntry.pc = "idle"
      /\ gen \in 1..MaxGen /\ gen \in Actors /\ Does(gen, "wait", gen, {}, 1)
      /\ mixed' = (mixed \/ \E a \in Choosers : Busy(a))
      /\ UNCHANGED <<reg, gen, info, want, disk, src, applied, pass, delivered, asked>>
  BY OnAddDoes, Basics DEF SelectionInv, OnAdd, NoEntry, torrent
<1>2. SelectionTyped'
  BY <1>1, Basics DEF SelectionInv, SelectionTyped, Does
<1>3. Phases'
  BY <1>1, Basics DEF SelectionInv, SelectionTyped, Phases
<1>4. InTurn'
  BY <1>1, Basics DEF SelectionInv, InTurn, Does
<1>5. OpenUntilApplied'
  BY <1>1 DEF SelectionInv, InTurn, OpenUntilApplied, Setting, Does
<1>6. ASSUME ~mixed'
      PROVE  Agreed'
  <2>1. EntryAsAsked /\ RecordAsAsked /\ NothingYet /\ CarriedAsAsked /\ KnownOnceApplied
        /\ AppliedInTheEnd /\ SoFarAsAsked /\ CompleteAsAsked /\ DeliveredAsAsked
    BY <1>1, <1>6 DEF SelectionInv, AsAsked, Agreed
  <2>2. EntryAsAsked'
    BY <1>1, <1>6, <2>1 DEF EntryAsAsked
  <2>3. RecordAsAsked'
    BY <1>1, <1>6, <2>1 DEF RecordAsAsked, Held
  <2>4. NothingYet'
    BY <1>1, <1>6, <2>1 DEF NothingYet
  <2>5. CarriedAsAsked'
    BY <1>1, <2>1 DEF CarriedAsAsked, Carrying, Does
  <2>6. KnownOnceApplied'
    BY <1>1, <2>1 DEF KnownOnceApplied
  <2>7. AppliedInTheEnd'
    BY <1>1, <2>1 DEF KnownOnceApplied, AppliedInTheEnd
  <2>8. SoFarAsAsked'
    BY <1>1, <2>1 DEF SoFarAsAsked, Does
  <2>9. CompleteAsAsked'
    BY <1>1, <1>6, <2>1 DEF CompleteAsAsked
  <2>10. DeliveredAsAsked'
    BY <1>1, <2>1 DEF DeliveredAsAsked
  <2> QED
    BY <2>2, <2>3, <2>4, <2>5, <2>6, <2>7, <2>8, <2>9, <2>10 DEF Agreed
<1> QED
  BY <1>2, <1>3, <1>4, <1>5, <1>6 DEF SelectionInv, AsAsked

\* Metadata only adds to what is known.
LEMMA MetadataKeeps ==
  ASSUME SelectionInv, Metadata
  PROVE  SelectionInv'
<1>1. /\ reg = "live" /\ gen \notin info /\ info' = info \union {gen}
      /\ UNCHANGED <<reg, gen, want, disk, src, applied, row, actor, entry, pass, delivered,
                     asked, mixed>>
  BY DEF Metadata, choice, work, history
<1>2. SelectionTyped'
  <2>1. gen \in 1..gen
    BY <1>1, Basics DEF SelectionInv, SelectionTyped, Phases
  <2> QED
    BY <1>1, <2>1, Basics DEF SelectionInv, SelectionTyped
<1>3. Phases'
  BY <1>1 DEF SelectionInv, SelectionTyped, Phases
<1>4. InTurn'
  BY <1>1 DEF SelectionInv, InTurn
<1>5. OpenUntilApplied'
  BY <1>1 DEF SelectionInv, OpenUntilApplied, Setting
<1>6. ASSUME ~mixed'
      PROVE  Agreed'
  <2>1. EntryAsAsked /\ RecordAsAsked /\ NothingYet /\ CarriedAsAsked /\ KnownOnceApplied
        /\ AppliedInTheEnd /\ SoFarAsAsked /\ CompleteAsAsked /\ DeliveredAsAsked
    BY <1>1, <1>6 DEF SelectionInv, AsAsked, Agreed
  <2>2. EntryAsAsked'
    BY <1>1, <1>6, <2>1 DEF EntryAsAsked
  <2>3. RecordAsAsked'
    BY <1>1, <1>6, <2>1 DEF RecordAsAsked, Held
  <2>4. NothingYet'
    BY <1>1, <1>6, <2>1 DEF NothingYet
  <2>5. CarriedAsAsked'
    BY <1>1, <1>6, <2>1 DEF CarriedAsAsked, Carrying
  <2>6. KnownOnceApplied'
    BY <1>1, <1>6, <2>1 DEF KnownOnceApplied, Carrying
  <2>7. AppliedInTheEnd'
    BY <1>1, <1>6, <2>1 DEF AppliedInTheEnd, Carrying
  <2>8. SoFarAsAsked'
    BY <1>1, <1>6, <2>1 DEF SoFarAsAsked
  <2>9. CompleteAsAsked'
    BY <1>1, <1>6, <2>1 DEF CompleteAsAsked
  <2>10. DeliveredAsAsked'
    BY <1>1, <1>6, <2>1 DEF DeliveredAsAsked
  <2> QED
    BY <2>2, <2>3, <2>4, <2>5, <2>6, <2>7, <2>8, <2>9, <2>10 DEF Agreed
<1> QED
  BY <1>2, <1>3, <1>4, <1>5, <1>6 DEF SelectionInv, AsAsked

\* A pause drops the priorities and keeps the record.
LEMMA PauseKeeps ==
  ASSUME SelectionInv, Pause
  PROVE  SelectionInv'
<1>1. /\ reg = "live" /\ entry.pc = "idle" /\ reg' = "parked" /\ want' = {}
      /\ mixed' = (mixed \/ pass = "prune")
      /\ UNCHANGED <<gen, info, disk, src, applied, row, actor, entry, pass, delivered, asked>>
  BY DEF Pause, choice, work
<1>2. SelectionTyped'
  BY <1>1, Basics DEF SelectionInv, SelectionTyped
<1>3. Phases'
  BY <1>1 DEF SelectionInv, SelectionTyped, Phases
<1>4. InTurn'
  BY <1>1 DEF SelectionInv, InTurn
<1>5. OpenUntilApplied'
  BY <1>1 DEF SelectionInv, OpenUntilApplied, Setting
<1>6. ASSUME ~mixed'
      PROVE  Agreed'
  <2>1. EntryAsAsked /\ RecordAsAsked /\ NothingYet /\ CarriedAsAsked /\ KnownOnceApplied
        /\ AppliedInTheEnd /\ SoFarAsAsked /\ CompleteAsAsked /\ DeliveredAsAsked
    BY <1>1, <1>6 DEF SelectionInv, AsAsked, Agreed
  <2>2. EntryAsAsked'
    BY <1>1, <1>6, <2>1 DEF EntryAsAsked
  <2>3. RecordAsAsked'
    BY <1>1, <1>6, <2>1 DEF RecordAsAsked, Held
  <2>4. NothingYet'
    BY <1>1, <1>6, <2>1 DEF NothingYet
  <2>5. CarriedAsAsked'
    BY <1>1, <1>6, <2>1 DEF CarriedAsAsked, Carrying
  <2>6. KnownOnceApplied'
    BY <1>1, <1>6, <2>1 DEF KnownOnceApplied, Carrying
  <2>7. AppliedInTheEnd'
    BY <1>1, <1>6, <2>1 DEF AppliedInTheEnd, Carrying
  <2>8. SoFarAsAsked'
    BY <1>1, <1>6, <2>1 DEF SoFarAsAsked
  <2>9. CompleteAsAsked'
    BY <1>1, <1>6, <2>1 DEF CompleteAsAsked
  <2>10. DeliveredAsAsked'
    BY <1>1, <1>6, <2>1 DEF DeliveredAsAsked
  <2> QED
    BY <2>2, <2>3, <2>4, <2>5, <2>6, <2>7, <2>8, <2>9, <2>10 DEF Agreed
<1> QED
  BY <1>2, <1>3, <1>4, <1>5, <1>6 DEF SelectionInv, AsAsked

\* A cancelled torrent leaves nothing.
LEMMA CancelKeeps ==
  ASSUME SelectionInv, Cancel
  PROVE  SelectionInv'
<1>1. /\ reg \in {"live", "parked"} /\ entry.pc = "idle" /\ reg' = "absent"
      /\ want' = {} /\ row' = None /\ disk' = [f \in Files |-> "none"]
      /\ mixed' = (mixed \/ pass # "idle")
      /\ UNCHANGED <<gen, info, src, applied, actor, entry, pass, delivered, asked>>
  BY DEF Cancel, work
<1>2. SelectionTyped'
  BY <1>1, Basics DEF SelectionInv, SelectionTyped
<1>3. Phases'
  BY <1>1 DEF SelectionInv, SelectionTyped, Phases
<1>4. InTurn'
  BY <1>1 DEF SelectionInv, InTurn
<1>5. OpenUntilApplied'
  BY <1>1 DEF SelectionInv, OpenUntilApplied, Setting
<1>6. ASSUME ~mixed'
      PROVE  Agreed'
  <2>1. EntryAsAsked /\ RecordAsAsked /\ NothingYet /\ CarriedAsAsked /\ KnownOnceApplied
        /\ AppliedInTheEnd /\ SoFarAsAsked /\ CompleteAsAsked /\ DeliveredAsAsked
    BY <1>1, <1>6 DEF SelectionInv, AsAsked, Agreed
  <2>2. EntryAsAsked'
    BY <1>1, <1>6, <2>1 DEF EntryAsAsked
  <2>3. RecordAsAsked'
    BY <1>1, <1>6, <2>1 DEF RecordAsAsked, Held
  <2>4. NothingYet'
    BY <1>1, <1>6, <2>1 DEF NothingYet
  <2>5. CarriedAsAsked'
    BY <1>1, <1>6, <2>1 DEF CarriedAsAsked, Carrying
  <2>6. KnownOnceApplied'
    BY <1>1, <1>6, <2>1 DEF KnownOnceApplied, Carrying
  <2>7. AppliedInTheEnd'
    BY <1>1, <1>6, <2>1 DEF AppliedInTheEnd, Carrying
  <2>8. SoFarAsAsked'
    BY <1>1, <1>6, <2>1 DEF SoFarAsAsked
  <2>9. CompleteAsAsked'
    BY <1>1, <1>6, <2>1 DEF CompleteAsAsked
  <2>10. DeliveredAsAsked'
    BY <1>1, <1>6, <2>1 DEF DeliveredAsAsked
  <2> QED
    BY <2>2, <2>3, <2>4, <2>5, <2>6, <2>7, <2>8, <2>9, <2>10 DEF Agreed
<1> QED
  BY <1>2, <1>3, <1>4, <1>5, <1>6 DEF SelectionInv, AsAsked

\* Only what is wanted becomes whole, and what a pass judged stays.
LEMMA FetchKeeps ==
  ASSUME SelectionInv, NEW f \in Files, Fetch(f)
  PROVE  SelectionInv'
<1>1. /\ reg = "live" /\ gen \in info /\ f \in want /\ disk[f] # "whole" /\ disk'[f] = "whole"
      /\ disk' \in [Files -> {"none", "scrap", "whole"}]
      /\ \A g \in Files : disk[g] # "none" /\ g # f => disk'[g] = disk[g]
      /\ UNCHANGED <<reg, gen, info, want, src, applied, row, actor, entry, pass, delivered,
                     asked, mixed>>
  <2>1. PICK scraps \in SUBSET {g \in Files \ want : disk[g] = "none"} :
         disk' = [g \in Files |-> IF g = f THEN "whole"
                                  ELSE IF g \in scraps THEN "scrap" ELSE disk[g]]
    BY DEF Fetch
  <2> QED
    BY <2>1 DEF Fetch, SelectionInv, SelectionTyped, choice, work, history
<1>2. SelectionTyped'
  BY <1>1, Basics DEF SelectionInv, SelectionTyped
<1>3. Phases'
  BY <1>1 DEF SelectionInv, SelectionTyped, Phases
<1>4. InTurn'
  BY <1>1 DEF SelectionInv, InTurn
<1>5. OpenUntilApplied'
  BY <1>1 DEF SelectionInv, OpenUntilApplied, Setting
<1>6. ASSUME ~mixed'
      PROVE  Agreed'
  <2>1. EntryAsAsked /\ RecordAsAsked /\ NothingYet /\ CarriedAsAsked /\ KnownOnceApplied
        /\ AppliedInTheEnd /\ SoFarAsAsked /\ CompleteAsAsked /\ DeliveredAsAsked
    BY <1>1, <1>6 DEF SelectionInv, AsAsked, Agreed
  <2>2. EntryAsAsked'
    BY <1>1, <1>6, <2>1 DEF EntryAsAsked
  <2>3. RecordAsAsked'
    BY <1>1, <1>6, <2>1 DEF RecordAsAsked, Held
  <2>4. NothingYet'
    BY <1>1, <1>6, <2>1 DEF NothingYet
  <2>5. CarriedAsAsked'
    BY <1>1, <1>6, <2>1 DEF CarriedAsAsked, Carrying
  <2>6. KnownOnceApplied'
    BY <1>1, <1>6, <2>1 DEF KnownOnceApplied, Carrying
  <2>7. AppliedInTheEnd'
    BY <1>1, <1>6, <2>1 DEF AppliedInTheEnd, Carrying
  <2>8. SoFarAsAsked'
    BY <1>1, <1>6, <2>1 DEF SoFarAsAsked
  <2>9. CompleteAsAsked'
    BY <1>1, <2>1, Basics DEF SelectionInv, SelectionTyped, CompleteAsAsked
  <2>10. DeliveredAsAsked'
    BY <1>1, <1>6, <2>1 DEF DeliveredAsAsked
  <2> QED
    BY <2>2, <2>3, <2>4, <2>5, <2>6, <2>7, <2>8, <2>9, <2>10 DEF Agreed
<1> QED
  BY <1>2, <1>3, <1>4, <1>5, <1>6 DEF SelectionInv, AsAsked

\* A pass that meets nobody finds the chosen files whole.
LEMMA CompleteKeeps ==
  ASSUME SelectionInv, Complete
  PROVE  SelectionInv'
<1>1. /\ reg = "live" /\ gen \in info /\ entry.pc = "idle" /\ pass = "idle" /\ IsComplete
      /\ pass' = "prune"
      /\ mixed' = (mixed \/ \E a \in Actors : Busy(a))
      /\ UNCHANGED <<reg, gen, info, want, disk, src, applied, row, actor, entry, delivered,
                     asked>>
  BY DEF Complete, torrent, choice
<1>2. SelectionTyped'
  BY <1>1, Basics DEF SelectionInv, SelectionTyped
<1>3. Phases'
  BY <1>1 DEF SelectionInv, SelectionTyped, Phases
<1>4. InTurn'
  BY <1>1 DEF SelectionInv, InTurn
<1>5. OpenUntilApplied'
  BY <1>1 DEF SelectionInv, OpenUntilApplied, Setting
<1>6. ASSUME ~mixed'
      PROVE  Agreed'
  <2>1. EntryAsAsked /\ RecordAsAsked /\ NothingYet /\ CarriedAsAsked /\ KnownOnceApplied
        /\ AppliedInTheEnd /\ SoFarAsAsked /\ CompleteAsAsked /\ DeliveredAsAsked
    BY <1>1, <1>6 DEF SelectionInv, AsAsked, Agreed
  <2>2. EntryAsAsked'
    BY <1>1, <1>6, <2>1 DEF EntryAsAsked
  <2>3. RecordAsAsked'
    BY <1>1, <1>6, <2>1 DEF RecordAsAsked, Held
  <2>4. NothingYet'
    BY <1>1, <2>1, Basics DEF NothingYet, RecordAsAsked, Held, IsComplete, WholeTorrent
  <2>5. CarriedAsAsked'
    BY <1>1, <1>6, <2>1 DEF CarriedAsAsked, Carrying
  <2>6. KnownOnceApplied'
    BY <1>1, <1>6, <2>1 DEF KnownOnceApplied, Carrying
  <2>7. AppliedInTheEnd'
    BY <1>1, <1>6, <2>1 DEF AppliedInTheEnd, Carrying
  <2>8. SoFarAsAsked'
    BY <1>1, <1>6, <2>1 DEF SoFarAsAsked
  <2>9. CompleteAsAsked'
    <3>1. \A a \in Actors : ~Carrying(a) /\ ~Setting(a)
      BY <1>1, <1>6 DEF Busy, Carrying, Setting
    <3>2. asked # None
      BY <1>1, <2>1, Basics DEF NothingYet, RecordAsAsked, Held, IsComplete, WholeTorrent
    <3>3. asked \in Choice /\ src.files = asked
      BY <1>1, <2>1, <3>2 DEF RecordAsAsked, SelectionInv, SelectionTyped
    <3>4. want \subseteq Sel(asked)
      BY <1>1, <2>1, <3>1 DEF AppliedInTheEnd, SelectionInv, OpenUntilApplied
    <3>5. \A f \in Sel(asked) : disk[f] = "whole"
      BY <1>1, <3>3, Basics DEF IsComplete, WholeTorrent, Choice
    <3> QED
      BY <1>1, <3>2, <3>4, <3>5 DEF CompleteAsAsked
  <2>10. DeliveredAsAsked'
    BY <1>1, <1>6, <2>1 DEF DeliveredAsAsked
  <2> QED
    BY <2>2, <2>3, <2>4, <2>5, <2>6, <2>7, <2>8, <2>9, <2>10 DEF Agreed
<1> QED
  BY <1>2, <1>3, <1>4, <1>5, <1>6 DEF SelectionInv, AsAsked

\* What pruning leaves is the choice.
LEMMA PruneKeeps ==
  ASSUME SelectionInv, Prune
  PROVE  SelectionInv'
<1>1. /\ pass = "prune" /\ pass' = "deliver"
      /\ disk' = IF reg = "live" /\ gen \in info /\ src.files # {}
                  THEN [f \in Files |-> IF f \in src.files THEN disk[f] ELSE "none"]
                  ELSE disk
      /\ UNCHANGED <<reg, gen, info, want, src, applied, row, actor, entry, delivered, asked,
                     mixed>>
  BY DEF Prune, Pruned, choice, history
<1>2. SelectionTyped'
  BY <1>1, Basics DEF SelectionInv, SelectionTyped
<1>3. Phases'
  BY <1>1 DEF SelectionInv, SelectionTyped, Phases
<1>4. InTurn'
  BY <1>1 DEF SelectionInv, InTurn
<1>5. OpenUntilApplied'
  BY <1>1 DEF SelectionInv, OpenUntilApplied, Setting
<1>6. ASSUME ~mixed'
      PROVE  Agreed'
  <2>1. EntryAsAsked /\ RecordAsAsked /\ NothingYet /\ CarriedAsAsked /\ KnownOnceApplied
        /\ AppliedInTheEnd /\ SoFarAsAsked /\ CompleteAsAsked /\ DeliveredAsAsked
    BY <1>1, <1>6 DEF SelectionInv, AsAsked, Agreed
  <2>2. EntryAsAsked'
    BY <1>1, <1>6, <2>1 DEF EntryAsAsked
  <2>3. RecordAsAsked'
    BY <1>1, <1>6, <2>1 DEF RecordAsAsked, Held
  <2>4. NothingYet'
    BY <1>1, <2>1 DEF NothingYet
  <2>5. CarriedAsAsked'
    BY <1>1, <1>6, <2>1 DEF CarriedAsAsked, Carrying
  <2>6. KnownOnceApplied'
    BY <1>1, <1>6, <2>1 DEF KnownOnceApplied, Carrying
  <2>7. AppliedInTheEnd'
    BY <1>1, <1>6, <2>1 DEF AppliedInTheEnd, Carrying
  <2>8. SoFarAsAsked'
    BY <1>1, <1>6, <2>1 DEF SoFarAsAsked
  <2>9. CompleteAsAsked'
    <3>1. asked \in Choice /\ src.files = asked /\ asked # None
      BY <1>1, <2>1 DEF CompleteAsAsked, RecordAsAsked, SelectionInv, SelectionTyped, Phases
    <3>2. Sel(asked) = IF asked = {} THEN Files ELSE asked
      BY DEF Sel
    <3> QED
      BY <1>1, <2>1, <3>1, <3>2 DEF CompleteAsAsked
  <2>10. DeliveredAsAsked'
    BY <1>1, <1>6, <2>1 DEF DeliveredAsAsked
  <2> QED
    BY <2>2, <2>3, <2>4, <2>5, <2>6, <2>7, <2>8, <2>9, <2>10 DEF Agreed
<1> QED
  BY <1>2, <1>3, <1>4, <1>5, <1>6 DEF SelectionInv, AsAsked

\* What is delivered is what pruning left.
LEMMA DeliverKeeps ==
  ASSUME SelectionInv, Deliver
  PROVE  SelectionInv'
<1>1. /\ pass = "deliver" /\ pass' = "idle" /\ want' = {}
      /\ reg' = IF reg = "live" THEN "delivered" ELSE reg
      /\ delivered' = {f \in Files : disk[f] # "none"}
      /\ disk' = [f \in Files |-> "none"]
      /\ UNCHANGED <<gen, info, src, applied, row, actor, entry, asked, mixed>>
  BY DEF Deliver, choice, history
<1>2. SelectionTyped'
  BY <1>1, Basics DEF SelectionInv, SelectionTyped, Choice
<1>3. Phases'
  BY <1>1 DEF SelectionInv, Phases
<1>4. InTurn'
  BY <1>1 DEF SelectionInv, InTurn
<1>5. OpenUntilApplied'
  BY <1>1 DEF SelectionInv, OpenUntilApplied, Setting
<1>6. ASSUME ~mixed'
      PROVE  Agreed'
  <2>1. EntryAsAsked /\ RecordAsAsked /\ NothingYet /\ CarriedAsAsked /\ KnownOnceApplied
        /\ AppliedInTheEnd /\ SoFarAsAsked /\ CompleteAsAsked /\ DeliveredAsAsked
    BY <1>1, <1>6 DEF SelectionInv, AsAsked, Agreed
  <2>2. EntryAsAsked'
    BY <1>1, <1>6, <2>1 DEF EntryAsAsked
  <2>3. RecordAsAsked'
    BY <1>1, <1>6, <2>1 DEF RecordAsAsked, Held
  <2>4. NothingYet'
    BY <1>1, <1>6, <2>1 DEF NothingYet
  <2>5. CarriedAsAsked'
    BY <1>1, <1>6, <2>1 DEF CarriedAsAsked, Carrying
  <2>6. KnownOnceApplied'
    BY <1>1, <1>6, <2>1 DEF KnownOnceApplied, Carrying
  <2>7. AppliedInTheEnd'
    BY <1>1, <1>6, <2>1 DEF AppliedInTheEnd, Carrying
  <2>8. SoFarAsAsked'
    BY <1>1, <1>6, <2>1 DEF SoFarAsAsked
  <2>9. CompleteAsAsked'
    BY <1>1, <1>6, <2>1 DEF CompleteAsAsked
  <2>10. DeliveredAsAsked'
    <3>1. asked \in Choice /\ asked # None
      BY <1>1, <2>1 DEF CompleteAsAsked, SelectionInv, SelectionTyped
    <3> QED
      BY <1>1, <2>1, <3>1, Basics DEF CompleteAsAsked, DeliveredAsAsked, Choice
  <2> QED
    BY <2>2, <2>3, <2>4, <2>5, <2>6, <2>7, <2>8, <2>9, <2>10 DEF Agreed
<1> QED
  BY <1>2, <1>3, <1>4, <1>5, <1>6 DEF SelectionInv, AsAsked

\* The row restores the last choice, unless it had not got there.
LEMMA RestartKeeps ==
  ASSUME SelectionInv, Restart
  PROVE  SelectionInv'
<1>1. /\ reg \in {"live", "parked"} /\ pass = "idle" /\ gen < MaxGen
      /\ reg' = "absent" /\ want' = {} /\ applied' = FALSE
      /\ src' = [files |-> {}, wait |-> FALSE] /\ actor' = [a \in Actors |-> Rest]
      /\ entry' = IF row = None THEN NoEntry
                  ELSE [pc |-> "register", files |-> row, wait |-> FALSE]
      /\ mixed' = (mixed \/ asked = None \/ row # asked)
      /\ Rest.pc = "idle" /\ NoEntry.pc = "idle" /\ Rest.next = 1
      /\ UNCHANGED <<gen, info, disk, row, pass, delivered, asked>>
  BY DEF Restart, RestoreEntry, Adding, Rest, NoEntry
<1>2. SelectionTyped'
  BY <1>1, Basics DEF SelectionInv, SelectionTyped, EntryType
<1>3. Phases'
  BY <1>1 DEF SelectionInv, SelectionTyped, Phases
<1>4. InTurn'
  BY <1>1, Basics DEF SelectionInv, InTurn
<1>5. OpenUntilApplied'
  BY <1>1 DEF SelectionInv, OpenUntilApplied, Setting
<1>6. ASSUME ~mixed'
      PROVE  Agreed'
  <2>1. EntryAsAsked /\ RecordAsAsked /\ NothingYet /\ CarriedAsAsked /\ KnownOnceApplied
        /\ AppliedInTheEnd /\ SoFarAsAsked /\ CompleteAsAsked /\ DeliveredAsAsked
    BY <1>1, <1>6 DEF SelectionInv, AsAsked, Agreed
  <2>2. EntryAsAsked'
    BY <1>1, <1>6 DEF EntryAsAsked
  <2>3. RecordAsAsked'
    BY <1>1, <1>6, <2>1 DEF RecordAsAsked, Held
  <2>4. NothingYet'
    BY <1>1, <1>6, <2>1 DEF NothingYet
  <2>5. CarriedAsAsked'
    BY <1>1, <1>6, <2>1 DEF CarriedAsAsked, Carrying
  <2>6. KnownOnceApplied'
    BY <1>1 DEF KnownOnceApplied
  <2>7. AppliedInTheEnd'
    BY <1>1, <1>6, <2>1 DEF AppliedInTheEnd, Carrying
  <2>8. SoFarAsAsked'
    BY <1>1, <1>6, <2>1 DEF SoFarAsAsked
  <2>9. CompleteAsAsked'
    BY <1>1, <1>6, <2>1 DEF CompleteAsAsked
  <2>10. DeliveredAsAsked'
    BY <1>1, <1>6, <2>1 DEF DeliveredAsAsked
  <2> QED
    BY <2>2, <2>3, <2>4, <2>5, <2>6, <2>7, <2>8, <2>9, <2>10 DEF Agreed
<1> QED
  BY <1>2, <1>3, <1>4, <1>5, <1>6 DEF SelectionInv, AsAsked

\* A choice that waits for metadata was not applied by anybody.
LEMMA LookKeeps ==
  ASSUME SelectionInv, NEW a \in Choosers, Look(a)
  PROVE  SelectionInv'
<1>1. /\ a \in Actors /\ actor[a].pc = "look"
      /\ IF actor[a].on \in info
         THEN Does(a, "apply", actor[a].on, actor[a].files, actor[a].next)
         ELSE Does(a, "idle", 0, {}, 1)
      /\ UNCHANGED <<reg, gen, info, want, disk, src, applied, row, entry, pass, delivered,
                     asked, mixed>>
  BY LookDoes, Basics DEF SelectionInv, Look, torrent, choice, history
<1>2. SelectionTyped'
  BY <1>1, Basics DEF SelectionInv, SelectionTyped, Does
<1>3. Phases'
  BY <1>1 DEF SelectionInv, SelectionTyped, Phases
<1>4. InTurn'
  <2>1. /\ entry.pc = "onAdd" => a # gen
        /\ a \notin 1..MaxGen /\ actor[a].next = 1 /\ 1 <= NFiles
    BY <1>1, Basics DEF SelectionInv, InTurn
  <2>2. CASE actor[a].on \in info
    BY <1>1, <2>1, <2>2, InTurnStays
  <2>3. CASE actor[a].on \notin info
    BY <1>1, <2>1, <2>3, InTurnStays
  <2> QED
    BY <2>2, <2>3
<1>5. OpenUntilApplied'
  BY <1>1 DEF SelectionInv, OpenUntilApplied, Setting, Does
<1>6. ASSUME ~mixed'
      PROVE  Agreed'
  <2>1. EntryAsAsked /\ RecordAsAsked /\ NothingYet /\ CarriedAsAsked /\ KnownOnceApplied
        /\ AppliedInTheEnd /\ SoFarAsAsked /\ CompleteAsAsked /\ DeliveredAsAsked
    BY <1>1, <1>6 DEF SelectionInv, AsAsked, Agreed
  <2>2. EntryAsAsked'
    BY <1>1, <1>6, <2>1 DEF EntryAsAsked
  <2>3. RecordAsAsked'
    BY <1>1, <1>6, <2>1 DEF RecordAsAsked, Held
  <2>4. NothingYet'
    BY <1>1, <1>6, <2>1 DEF NothingYet
  <2>5. CarriedAsAsked'
    BY <1>1, <1>6, <2>1 DEF CarriedAsAsked, Carrying, Does
  <2>6. KnownOnceApplied'
    BY <1>1, <1>6, <2>1 DEF KnownOnceApplied, Carrying, Does
  <2>7. AppliedInTheEnd'
    BY <1>1, <1>6, <2>1 DEF CarriedAsAsked, KnownOnceApplied, AppliedInTheEnd, Carrying, Does
  <2>8. SoFarAsAsked'
    BY <1>1, <2>1, Basics DEF SelectionInv, InTurn, SoFarAsAsked, Does
  <2>9. CompleteAsAsked'
    BY <1>1, <1>6, <2>1 DEF CompleteAsAsked
  <2>10. DeliveredAsAsked'
    BY <1>1, <1>6, <2>1 DEF DeliveredAsAsked
  <2> QED
    BY <2>2, <2>3, <2>4, <2>5, <2>6, <2>7, <2>8, <2>9, <2>10 DEF Agreed
<1> QED
  BY <1>2, <1>3, <1>4, <1>5, <1>6 DEF SelectionInv, AsAsked

\* A goroutine whose torrent was dropped holds no choice.
LEMMA GiveUpKeeps ==
  ASSUME SelectionInv, NEW g \in 1..MaxGen, GiveUp(g)
  PROVE  SelectionInv'
<1>1. /\ g \in Actors /\ actor[g].pc = "wait" /\ Does(g, "idle", 0, {}, 1)
      /\ UNCHANGED <<reg, gen, info, want, disk, src, applied, row, entry, pass, delivered,
                     asked, mixed>>
  BY Rests, Basics DEF SelectionInv, GiveUp, torrent, choice, history
<1>2. SelectionTyped'
  BY <1>1, Basics DEF SelectionInv, SelectionTyped, Does
<1>3. Phases'
  BY <1>1 DEF SelectionInv, SelectionTyped, Phases
<1>4. InTurn'
  BY <1>1, InTurnStays, Basics DEF SelectionInv, SelectionTyped, InTurn
<1>5. OpenUntilApplied'
  BY <1>1 DEF SelectionInv, OpenUntilApplied, Setting, Does
<1>6. ASSUME ~mixed'
      PROVE  Agreed'
  <2>1. EntryAsAsked /\ RecordAsAsked /\ NothingYet /\ CarriedAsAsked /\ KnownOnceApplied
        /\ AppliedInTheEnd /\ SoFarAsAsked /\ CompleteAsAsked /\ DeliveredAsAsked
    BY <1>1, <1>6 DEF SelectionInv, AsAsked, Agreed
  <2>2. EntryAsAsked'
    BY <1>1, <1>6, <2>1 DEF EntryAsAsked
  <2>3. RecordAsAsked'
    BY <1>1, <1>6, <2>1 DEF RecordAsAsked, Held
  <2>4. NothingYet'
    BY <1>1, <1>6, <2>1 DEF NothingYet
  <2>5. CarriedAsAsked'
    BY <1>1, <1>6, <2>1 DEF CarriedAsAsked, Carrying, Does
  <2>6. KnownOnceApplied'
    BY <1>1, <1>6, <2>1 DEF KnownOnceApplied, Carrying, Does
  <2>7. AppliedInTheEnd'
    BY <1>1, <1>6, <2>1 DEF AppliedInTheEnd, Carrying, Does
  <2>8. SoFarAsAsked'
    BY <1>1, <1>6, <2>1 DEF SoFarAsAsked, Does
  <2>9. CompleteAsAsked'
    BY <1>1, <1>6, <2>1 DEF CompleteAsAsked
  <2>10. DeliveredAsAsked'
    BY <1>1, <1>6, <2>1 DEF DeliveredAsAsked
  <2> QED
    BY <2>2, <2>3, <2>4, <2>5, <2>6, <2>7, <2>8, <2>9, <2>10 DEF Agreed
<1> QED
  BY <1>2, <1>3, <1>4, <1>5, <1>6 DEF SelectionInv, AsAsked

\* A goroutine that has the metadata holds no choice yet.
LEMMA GotInfoKeeps ==
  ASSUME SelectionInv, NEW g \in 1..MaxGen, GotInfo(g)
  PROVE  SelectionInv'
<1>1. /\ g \in Actors /\ actor[g].pc = "wait" /\ g \in info
      /\ IF reg = "live" THEN Does(g, "read", actor[g].on, actor[g].files, actor[g].next)
         ELSE Does(g, "idle", 0, {}, 1)
      /\ UNCHANGED <<reg, gen, info, want, disk, src, applied, row, entry, pass, delivered,
                     asked, mixed>>
  BY GotInfoDoes, Basics DEF SelectionInv, GotInfo, torrent, choice, history
<1>2. SelectionTyped'
  BY <1>1, Basics DEF SelectionInv, SelectionTyped, Does
<1>3. Phases'
  BY <1>1 DEF SelectionInv, SelectionTyped, Phases
<1>4. InTurn'
  <2>1. /\ actor[g].on = g /\ g <= gen /\ g \notin Choosers
        /\ actor[g].next = 1 /\ (entry.pc = "onAdd" => g # gen)
    BY <1>1, Basics DEF SelectionInv, InTurn
  <2>2. CASE reg = "live"
    BY <1>1, <2>1, <2>2, InTurnStays
  <2>3. CASE reg # "live"
    BY <1>1, <2>1, <2>3, InTurnStays
  <2> QED
    BY <2>2, <2>3
<1>5. OpenUntilApplied'
  BY <1>1 DEF SelectionInv, OpenUntilApplied, Setting, Does
<1>6. ASSUME ~mixed'
      PROVE  Agreed'
  <2>1. EntryAsAsked /\ RecordAsAsked /\ NothingYet /\ CarriedAsAsked /\ KnownOnceApplied
        /\ AppliedInTheEnd /\ SoFarAsAsked /\ CompleteAsAsked /\ DeliveredAsAsked
    BY <1>1, <1>6 DEF SelectionInv, AsAsked, Agreed
  <2>2. EntryAsAsked'
    BY <1>1, <1>6, <2>1 DEF EntryAsAsked
  <2>3. RecordAsAsked'
    BY <1>1, <1>6, <2>1 DEF RecordAsAsked, Held
  <2>4. NothingYet'
    BY <1>1, <1>6, <2>1 DEF NothingYet
  <2>5. CarriedAsAsked'
    BY <1>1, <1>6, <2>1 DEF CarriedAsAsked, Carrying, Does
  <2>6. KnownOnceApplied'
    BY <1>1, <1>6, <2>1 DEF KnownOnceApplied, Carrying, Does
  <2>7. AppliedInTheEnd'
    BY <1>1, <1>6, <2>1 DEF AppliedInTheEnd, Carrying, Does
  <2>8. SoFarAsAsked'
    BY <1>1, <1>6, <2>1 DEF SoFarAsAsked, Does
  <2>9. CompleteAsAsked'
    BY <1>1, <1>6, <2>1 DEF CompleteAsAsked
  <2>10. DeliveredAsAsked'
    BY <1>1, <1>6, <2>1 DEF DeliveredAsAsked
  <2> QED
    BY <2>2, <2>3, <2>4, <2>5, <2>6, <2>7, <2>8, <2>9, <2>10 DEF Agreed
<1> QED
  BY <1>2, <1>3, <1>4, <1>5, <1>6 DEF SelectionInv, AsAsked

\* The goroutine takes up the last choice, for the live handle.
LEMMA ApplySelectionKeeps ==
  ASSUME SelectionInv, NEW g \in 1..MaxGen, ApplySelection(g)
  PROVE  SelectionInv'
<1>1. /\ g \in Actors /\ actor[g].pc = "read"
      /\ IF applied \/ Held THEN Does(g, "idle", 0, {}, 1) /\ mixed' = mixed
         ELSE /\ Does(g, "apply", actor[g].on, src.files, actor[g].next)
              /\ mixed' = (mixed \/ Clash(g, src.files) \/ Dropped(g))
      /\ UNCHANGED <<reg, gen, info, want, disk, src, applied, row, entry, pass, delivered,
                     asked>>
  BY ApplySelectionDoes, Basics DEF SelectionInv, ApplySelection, torrent, choice
<1>2. SelectionTyped'
  BY <1>1, Basics DEF SelectionInv, SelectionTyped, Does
<1>3. Phases'
  BY <1>1 DEF SelectionInv, SelectionTyped, Phases
<1>4. InTurn'
  <2>1. /\ actor[g].on = g /\ g <= gen /\ g \notin Choosers /\ actor[g].on \in info
        /\ actor[g].next = 1 /\ 1 <= NFiles /\ (entry.pc = "onAdd" => g # gen)
    BY <1>1, Basics DEF SelectionInv, InTurn
  <2>2. CASE applied \/ Held
    BY <1>1, <2>1, <2>2, InTurnStays
  <2>3. CASE ~(applied \/ Held)
    BY <1>1, <2>1, <2>3, InTurnStays
  <2> QED
    BY <2>2, <2>3
<1>5. OpenUntilApplied'
  BY <1>1 DEF SelectionInv, OpenUntilApplied, Setting, Does
<1>6. ASSUME ~mixed'
      PROVE  Agreed'
  <2>1. EntryAsAsked /\ RecordAsAsked /\ NothingYet /\ CarriedAsAsked /\ KnownOnceApplied
        /\ AppliedInTheEnd /\ SoFarAsAsked /\ CompleteAsAsked /\ DeliveredAsAsked
    BY <1>1, <1>6 DEF SelectionInv, AsAsked, Agreed
  <2>2. EntryAsAsked'
    BY <1>1, <1>6, <2>1 DEF EntryAsAsked
  <2>3. RecordAsAsked'
    BY <1>1, <1>6, <2>1 DEF RecordAsAsked, Held
  <2>4. NothingYet'
    BY <1>1, <1>6, <2>1 DEF NothingYet
  <2>5. CarriedAsAsked'
    <3>1. CASE applied \/ Held
      BY <1>1, <2>1, <3>1 DEF CarriedAsAsked, Carrying, Does
    <3>2. CASE ~(applied \/ Held)
      <4>1. reg = "live" /\ actor[g].on = gen
        BY <1>1, <1>6, <3>2 DEF SelectionInv, InTurn, Dropped
      <4>2. asked # None /\ src.files = asked
        BY <2>1, <3>2, <4>1 DEF RecordAsAsked
      <4> QED
        BY <1>1, <2>1, <3>2, <4>1, <4>2 DEF CarriedAsAsked, Carrying, Does
    <3> QED
      BY <3>1, <3>2
  <2>6. KnownOnceApplied'
    BY <1>1, <1>6, <2>1 DEF SelectionInv, InTurn, KnownOnceApplied, Carrying, Dropped, Does
  <2>7. AppliedInTheEnd'
    BY <1>1, <1>6, <2>1 DEF AppliedInTheEnd, Carrying, Does
  <2>8. SoFarAsAsked'
    <3>1. actor[g].next = 1 /\ \A f \in Files : ~(f < 1)
      BY <1>1, Basics DEF SelectionInv, InTurn
    <3> QED
      BY <1>1, <2>1, <3>1 DEF SoFarAsAsked, Does
  <2>9. CompleteAsAsked'
    BY <1>1, <1>6, <2>1 DEF CompleteAsAsked
  <2>10. DeliveredAsAsked'
    BY <1>1, <1>6, <2>1 DEF DeliveredAsAsked
  <2> QED
    BY <2>2, <2>3, <2>4, <2>5, <2>6, <2>7, <2>8, <2>9, <2>10 DEF Agreed
<1> QED
  BY <1>2, <1>3, <1>4, <1>5, <1>6 DEF SelectionInv, AsAsked

\* One file more is as the choice says.
LEMMA ApplyKeeps ==
  ASSUME SelectionInv, NEW a \in Actors, Apply(a)
  PROVE  SelectionInv'
<1>1. /\ actor[a].pc = "apply" /\ actor[a].next \in 1..NFiles
      /\ want' = IF Dropped(actor[a].on) THEN want ELSE Wanted(actor[a].next, actor[a].files)
      /\ Does(a, IF actor[a].next = NFiles THEN "mark" ELSE "apply", actor[a].on, actor[a].files,
              actor[a].next + 1)
      /\ UNCHANGED <<reg, gen, info, disk, src, applied, row, entry, pass, delivered, asked,
                     mixed>>
  <2>1. actor[a].next \in 1..NFiles
    BY Basics DEF SelectionInv, SelectionTyped, InTurn, ActorType, Apply
  <2> QED
    BY <2>1, ApplyDoes DEF SelectionInv, Apply, choice, history
<1>2. SelectionTyped'
  BY <1>1, Basics DEF SelectionInv, SelectionTyped, Does, Wanted
<1>3. Phases'
  BY <1>1 DEF SelectionInv, Phases, Dropped
<1>4. InTurn'
  <2>1. /\ actor[a].on \in info /\ (entry.pc = "onAdd" => a # gen)
        /\ a \in 1..MaxGen => actor[a].on = a /\ a <= gen
        /\ actor[a].next # NFiles => actor[a].next + 1 <= NFiles
    BY <1>1, Basics DEF SelectionInv, InTurn
  <2>2. CASE actor[a].next = NFiles
    BY <1>1, <2>1, <2>2, InTurnStays
  <2>3. CASE actor[a].next # NFiles
    BY <1>1, <2>1, <2>3, InTurnStays
  <2> QED
    BY <2>2, <2>3
<1>5. OpenUntilApplied'
  BY <1>1 DEF SelectionInv, OpenUntilApplied, Setting, Does, Dropped
<1>6. ASSUME ~mixed'
      PROVE  Agreed'
  <2>1. EntryAsAsked /\ RecordAsAsked /\ NothingYet /\ CarriedAsAsked /\ KnownOnceApplied
        /\ AppliedInTheEnd /\ SoFarAsAsked /\ CompleteAsAsked /\ DeliveredAsAsked
    BY <1>1, <1>6 DEF SelectionInv, AsAsked, Agreed
  <2>2. EntryAsAsked'
    BY <1>1, <1>6, <2>1 DEF EntryAsAsked
  <2>3. RecordAsAsked'
    BY <1>1, <1>6, <2>1 DEF RecordAsAsked, Held
  <2>4. NothingYet'
    BY <1>1, <1>6, <2>1 DEF SelectionInv, Phases, NothingYet, CarriedAsAsked, Carrying, Dropped
  <2>5. CarriedAsAsked'
    BY <1>1, <1>6, <2>1 DEF CarriedAsAsked, Carrying, Does
  <2>6. KnownOnceApplied'
    BY <1>1, <1>6, <2>1 DEF KnownOnceApplied, Carrying, Does
  <2>7. AppliedInTheEnd'
    <3>1. Carrying(a)'
      BY <1>1 DEF Carrying, Does
    <3> QED
      BY <3>1 DEF AppliedInTheEnd
  <2>8. SoFarAsAsked'
    <3> SUFFICES ASSUME reg = "live"
                 PROVE  SoFarAsAsked'
      BY <1>1 DEF SoFarAsAsked
    <3> DEFINE n == actor[a].next
    <3>1. n \in Files /\ ~Dropped(actor[a].on) /\ actor[a].files = asked
      BY <1>1, <2>1, Basics DEF CarriedAsAsked, Carrying, Dropped
    <3>2. /\ n \in want' <=> n \in Sel(asked)
          /\ \A f \in Files : f # n => (f \in want' <=> f \in want)
      BY <1>1, <3>1 DEF Wanted
    <3>3. \A f \in Files : f < n => (f \in want <=> f \in Sel(asked))
      BY <1>1, <2>1 DEF SoFarAsAsked
    <3>4. \A f \in Files : f < n + 1 => (f \in want' <=> f \in Sel(asked))
      BY <3>1, <3>2, <3>3, Basics
    <3>5. want' \subseteq Files /\ Sel(asked) \subseteq Files
      BY <1>1, <2>1, Basics DEF SelectionInv, SelectionTyped, Wanted, CarriedAsAsked, Carrying,
         Choice
    <3>6. n = NFiles => want' = Sel(asked)
      <4>1. n = NFiles => \A f \in Files : f < n + 1
        BY Basics
      <4> QED
        BY <3>4, <3>5, <4>1
    <3>7. ASSUME NEW b \in Actors, b # a
          PROVE  /\ actor'[b].pc = "apply" => \A f \in Files :
                      f < actor'[b].next => (f \in want' <=> f \in Sel(asked))
                 /\ actor'[b].pc \in {"mark", "notify"} => want' = Sel(asked)
      <4>1. actor'[b] = actor[b]
        BY <1>1, <3>7 DEF Does
      <4>2. /\ actor[b].pc = "apply" => \A f \in Files :
                 f < actor[b].next => (f \in want <=> f \in Sel(asked))
            /\ actor[b].pc \in {"mark", "notify"} => want = Sel(asked)
        BY <2>1 DEF SoFarAsAsked
      <4> QED
        BY <3>2, <3>5, <4>1, <4>2
    <3>8. /\ actor'[a].pc = "apply" => \A f \in Files :
               f < actor'[a].next => (f \in want' <=> f \in Sel(asked))
          /\ actor'[a].pc \in {"mark", "notify"} => want' = Sel(asked)
      BY <1>1, <3>4, <3>6 DEF Does
    <3>9. asked' = asked
      BY <1>1
    <3> QED
      BY <3>7, <3>8, <3>9 DEF SoFarAsAsked
  <2>9. CompleteAsAsked'
    <3>1. want \subseteq Sel(asked) => want' \subseteq Sel(asked)
      <4>1. CASE Dropped(actor[a].on)
        BY <1>1, <4>1
      <4>2. CASE ~Dropped(actor[a].on)
        BY <1>1, <2>1, <4>2 DEF Dropped, CarriedAsAsked, Carrying, Wanted
      <4> QED
        BY <4>1, <4>2
    <3>2. UNCHANGED <<pass, asked, reg, gen, info, disk>>
      BY <1>1
    <3> QED
      BY <2>1, <3>1, <3>2 DEF CompleteAsAsked
  <2>10. DeliveredAsAsked'
    BY <1>1, <1>6, <2>1 DEF DeliveredAsAsked
  <2> QED
    BY <2>2, <2>3, <2>4, <2>5, <2>6, <2>7, <2>8, <2>9, <2>10 DEF Agreed
<1> QED
  BY <1>2, <1>3, <1>4, <1>5, <1>6 DEF SelectionInv, AsAsked

\* What is marked as applied has been set in full.
LEMMA MarkKeeps ==
  ASSUME SelectionInv, NEW a \in Actors, Mark(a)
  PROVE  SelectionInv'
<1>1. /\ actor[a].pc = "mark" /\ applied' = TRUE
      /\ src' = [files |-> actor[a].files, wait |-> FALSE]
      /\ Does(a, "notify", actor[a].on, actor[a].files, actor[a].next)
      /\ UNCHANGED <<reg, gen, info, want, disk, row, entry, pass, delivered, asked, mixed>>
  BY MarkDoes DEF SelectionInv, Mark, torrent, history
<1>2. SelectionTyped'
  <2>1. actor[a].files \in Choice
    BY DEF SelectionInv, SelectionTyped, ActorType
  <2> QED
    BY <1>1, <2>1, Basics DEF SelectionInv, SelectionTyped, Does
<1>3. Phases'
  BY <1>1 DEF SelectionInv, SelectionTyped, Phases
<1>4. InTurn'
  BY <1>1, InTurnStays, Basics DEF SelectionInv, SelectionTyped, InTurn
<1>5. OpenUntilApplied'
  BY <1>1 DEF OpenUntilApplied
<1>6. ASSUME ~mixed'
      PROVE  Agreed'
  <2>1. EntryAsAsked /\ RecordAsAsked /\ NothingYet /\ CarriedAsAsked /\ KnownOnceApplied
        /\ AppliedInTheEnd /\ SoFarAsAsked /\ CompleteAsAsked /\ DeliveredAsAsked
    BY <1>1, <1>6 DEF SelectionInv, AsAsked, Agreed
  <2>2. EntryAsAsked'
    BY <1>1, <1>6, <2>1 DEF EntryAsAsked
  <2>3. RecordAsAsked'
    BY <1>1, <2>1 DEF RecordAsAsked, Held, CarriedAsAsked, Carrying
  <2>4. NothingYet'
    BY <1>1, <1>6, <2>1 DEF NothingYet
  <2>5. CarriedAsAsked'
    BY <1>1, <1>6, <2>1 DEF CarriedAsAsked, Carrying, Does
  <2>6. KnownOnceApplied'
    BY <1>1, <2>1 DEF SelectionInv, InTurn, CarriedAsAsked, KnownOnceApplied, Carrying, Does
  <2>7. AppliedInTheEnd'
    BY <1>1, <1>6, <2>1 DEF AppliedInTheEnd, Carrying, Does
  <2>8. SoFarAsAsked'
    BY <1>1, <1>6, <2>1 DEF SoFarAsAsked, Does
  <2>9. CompleteAsAsked'
    BY <1>1, <1>6, <2>1 DEF CompleteAsAsked
  <2>10. DeliveredAsAsked'
    BY <1>1, <1>6, <2>1 DEF DeliveredAsAsked
  <2> QED
    BY <2>2, <2>3, <2>4, <2>5, <2>6, <2>7, <2>8, <2>9, <2>10 DEF Agreed
<1> QED
  BY <1>2, <1>3, <1>4, <1>5, <1>6 DEF SelectionInv, AsAsked

\* The row has the choice when the last one at it is done.
LEMMA NotifyKeeps ==
  ASSUME SelectionInv, NEW a \in Actors, Notify(a)
  PROVE  SelectionInv'
<1>1. /\ actor[a].pc = "notify" /\ row' = IF row = None THEN None ELSE actor[a].files
      /\ Does(a, "idle", 0, {}, 1)
      /\ UNCHANGED <<reg, gen, info, want, disk, src, applied, entry, pass, delivered, asked,
                     mixed>>
  BY Rests DEF SelectionInv, Notify, Saved, torrent, history
<1>2. SelectionTyped'
  <2>1. actor[a].files \in Choice
    BY DEF SelectionInv, SelectionTyped, ActorType
  <2> QED
    BY <1>1, <2>1, Basics DEF SelectionInv, SelectionTyped, Does
<1>3. Phases'
  <2>1. actor[a].files \in Choice
    BY DEF SelectionInv, SelectionTyped, ActorType
  <2> QED
    BY <1>1, <2>1, Basics DEF SelectionInv, SelectionTyped, Phases
<1>4. InTurn'
  BY <1>1, InTurnStays, Basics DEF SelectionInv, SelectionTyped, InTurn
<1>5. OpenUntilApplied'
  BY <1>1 DEF SelectionInv, OpenUntilApplied, Setting, Does
<1>6. ASSUME ~mixed'
      PROVE  Agreed'
  <2>1. EntryAsAsked /\ RecordAsAsked /\ NothingYet /\ CarriedAsAsked /\ KnownOnceApplied
        /\ AppliedInTheEnd /\ SoFarAsAsked /\ CompleteAsAsked /\ DeliveredAsAsked
    BY <1>1, <1>6 DEF SelectionInv, AsAsked, Agreed
  <2>2. EntryAsAsked'
    BY <1>1, <1>6, <2>1 DEF EntryAsAsked
  <2>3. RecordAsAsked'
    BY <1>1, <1>6, <2>1 DEF RecordAsAsked, Held
  <2>4. NothingYet'
    BY <1>1, <1>6, <2>1 DEF NothingYet
  <2>5. CarriedAsAsked'
    BY <1>1, <1>6, <2>1 DEF CarriedAsAsked, Carrying, Does
  <2>6. KnownOnceApplied'
    BY <1>1, <1>6, <2>1 DEF KnownOnceApplied, Carrying, Does
  <2>7. AppliedInTheEnd'
    <3> SUFFICES ASSUME reg = "live", applied
                 PROVE  want = Sel(asked) /\ row' = asked
      BY <1>1 DEF AppliedInTheEnd
    <3>1. Carrying(a) /\ actor[a].files = asked /\ want = Sel(asked)
      BY <1>1, <2>1 DEF CarriedAsAsked, SoFarAsAsked, Carrying
    <3>2. row # None
      BY <2>1, <3>1 DEF KnownOnceApplied, SelectionInv, SelectionTyped, EntryType, Phases
    <3> QED
      BY <1>1, <3>1, <3>2
  <2>8. SoFarAsAsked'
    BY <1>1, <1>6, <2>1 DEF SoFarAsAsked, Does
  <2>9. CompleteAsAsked'
    BY <1>1, <1>6, <2>1 DEF CompleteAsAsked
  <2>10. DeliveredAsAsked'
    BY <1>1, <1>6, <2>1 DEF DeliveredAsAsked
  <2> QED
    BY <2>2, <2>3, <2>4, <2>5, <2>6, <2>7, <2>8, <2>9, <2>10 DEF Agreed
<1> QED
  BY <1>2, <1>3, <1>4, <1>5, <1>6 DEF SelectionInv, AsAsked

\* A new choice replaces the one before, or meets it and is counted as mixed.
LEMMA ChooseKeeps ==
  ASSUME SelectionInv, NEW c \in Choosers, NEW choose \in Offers, Choose(c, choose)
  PROVE  SelectionInv'
<1>1. /\ c \in Actors /\ choose \in Choice /\ actor[c].pc = "idle" /\ reg \in {"live", "parked"}
      /\ src' = [files |-> choose, wait |-> FALSE] /\ asked' = choose
      /\ mixed' = IF Quiet /\ ~AppliedEarly THEN FALSE
               ELSE \/ mixed \/ AppliedEarly \/ Clash(c, choose)
                    \/ entry.pc # "idle" \/ pass # "idle"
      /\ IF reg = "parked" THEN actor' = actor ELSE Does(c, "look", gen, choose, 1)
      /\ delivered' = None
      /\ UNCHANGED <<reg, gen, info, want, disk, applied, row, entry, pass>>
  BY ChooseDoes, Basics DEF SelectionInv, Choose, torrent
<1>2. SelectionTyped'
  BY <1>1, Basics DEF SelectionInv, SelectionTyped, Does
<1>3. Phases'
  BY <1>1 DEF SelectionInv, SelectionTyped, Phases
<1>4. InTurn'
  <2>1. CASE reg = "parked"
    BY <1>1, <2>1 DEF SelectionInv, InTurn
  <2>2. CASE reg # "parked"
    <3>1. entry.pc = "onAdd" => c # gen
      BY Basics DEF SelectionInv, SelectionTyped, Phases
    <3> QED
      BY <1>1, <2>2, <3>1, InTurnStays, Basics
  <2> QED
    BY <2>1, <2>2
<1>5. OpenUntilApplied'
  BY <1>1 DEF SelectionInv, OpenUntilApplied, Setting, Does
<1>6. ASSUME ~mixed'
      PROVE  Agreed'
  <2>1. /\ entry.pc = "idle" /\ pass = "idle" /\ asked' # None
        /\ reg = "live" /\ applied => gen \in info
        /\ \A a \in Actors : a # c =>
             ~Busy(a) \/ (actor[a].files = choose /\ ~mixed)
    BY <1>1, <1>6, Basics DEF Quiet, AppliedEarly, Clash
  <2>2. reg \in {"live", "parked"} => \A a \in Actors :
           Carrying(a) => actor[a].files = choose /\ actor[a].on = gen /\ asked = choose
    BY <1>1, <2>1 DEF SelectionInv, AsAsked, Agreed, CarriedAsAsked, Carrying, Busy
  <2>3. EntryAsAsked'
    BY <1>1, <2>1 DEF EntryAsAsked
  <2>4. RecordAsAsked'
    BY <1>1, <2>1 DEF RecordAsAsked, Held
  <2>5. NothingYet'
    BY <1>1, <2>1 DEF NothingYet
  <2>6. CarriedAsAsked'
    BY <1>1, <2>1, <2>2 DEF CarriedAsAsked, Carrying, Does
  <2>7. KnownOnceApplied'
    BY <1>1, <2>1 DEF KnownOnceApplied
  <2>8. AppliedInTheEnd'
    BY <1>1 DEF AppliedInTheEnd, Carrying, Does
  <2>9. SoFarAsAsked'
    BY <1>1, <2>1, <2>2 DEF SelectionInv, AsAsked, Agreed, SoFarAsAsked, Carrying, Busy, Does
  <2>10. CompleteAsAsked'
    BY <1>1, <2>1 DEF CompleteAsAsked
  <2>11. DeliveredAsAsked'
    BY <1>1 DEF DeliveredAsAsked
  <2> QED
    BY <2>3, <2>4, <2>5, <2>6, <2>7, <2>8, <2>9, <2>10, <2>11 DEF Agreed
<1> QED
  BY <1>2, <1>3, <1>4, <1>5, <1>6 DEF SelectionInv, AsAsked

\* It holds at the start, and every step keeps it.
LEMMA SelectionStarts ==
  SelectionInit => SelectionInv
<1> SUFFICES ASSUME SelectionInit
             PROVE  SelectionInv
  OBVIOUS
<1>1. Rest.pc = "idle" /\ Rest.next = 1 /\ NoEntry.pc = "idle"
  BY DEF Rest, NoEntry
<1>2. \A a \in Actors : actor[a].pc = "idle" /\ actor[a].next = 1
  BY <1>1 DEF SelectionInit
<1>3. SelectionTyped
  <2>1. actor \in [Actors -> ActorType] /\ entry \in EntryType
    BY Basics DEF SelectionInit
  <2>2. src \in [files : Choice, wait : BOOLEAN] /\ 0 \in 0..MaxGen
    BY Basics DEF SelectionInit
  <2>3. disk \in [Files -> {"none", "scrap", "whole"}]
    BY DEF SelectionInit
  <2> QED
    BY <2>1, <2>2, <2>3 DEF SelectionInit, SelectionTyped
<1>4. Phases /\ OpenUntilApplied
  BY <1>1 DEF SelectionInit, Phases, OpenUntilApplied
<1>5. InTurn
  BY <1>1, <1>2, Basics DEF SelectionInit, InTurn
<1>6. EntryAsAsked /\ RecordAsAsked /\ NothingYet /\ CarriedAsAsked
  BY <1>1 DEF SelectionInit, EntryAsAsked, RecordAsAsked, NothingYet, CarriedAsAsked
<1>7. KnownOnceApplied /\ AppliedInTheEnd /\ SoFarAsAsked /\ CompleteAsAsked /\ DeliveredAsAsked
  BY <1>1 DEF SelectionInit, KnownOnceApplied, AppliedInTheEnd, SoFarAsAsked, CompleteAsAsked,
              DeliveredAsAsked
<1> QED
  BY <1>3, <1>4, <1>5, <1>6, <1>7 DEF SelectionInv, AsAsked, Agreed

\* Every step is one of these operations, or changes nothing.
LEMMA SelectionStays ==
  SelectionInv /\ [SelectionNext]_selection => SelectionInv'
<1> SUFFICES ASSUME SelectionInv, [SelectionNext]_selection
             PROVE  SelectionInv'
  OBVIOUS
<1>1. ASSUME NEW choose \in Offers, NEW hold \in BOOLEAN, Add(choose, hold)
      PROVE  SelectionInv'
  BY <1>1, AddKeeps
<1>2. ASSUME NEW c \in Choosers, NEW choose \in Offers, Choose(c, choose)
      PROVE  SelectionInv'
  BY <1>2, ChooseKeeps
<1>3. Resume \/ Pause \/ Cancel \/ Restart => SelectionInv'
  BY ResumeKeeps, PauseKeeps, CancelKeeps, RestartKeeps
<1>4. Register \/ OnAdd \/ Metadata \/ Complete \/ Prune \/ Deliver => SelectionInv'
  BY RegisterKeeps, OnAddKeeps, MetadataKeeps, CompleteKeeps, PruneKeeps, DeliverKeeps
<1>5. ASSUME NEW a \in Actors, ActorStep(a)
      PROVE  SelectionInv'
  <2>1. a \in Choosers /\ Look(a) => SelectionInv'
    BY LookKeeps
  <2>2. a \in 1..MaxGen /\ (GiveUp(a) \/ GotInfo(a) \/ ApplySelection(a)) => SelectionInv'
    BY GiveUpKeeps, GotInfoKeeps, ApplySelectionKeeps
  <2>3. Apply(a) \/ Mark(a) \/ Notify(a) => SelectionInv'
    BY ApplyKeeps, MarkKeeps, NotifyKeeps
  <2> QED
    BY <1>5, <2>1, <2>2, <2>3 DEF ActorStep
<1>6. ASSUME NEW f \in Files, Fetch(f)
      PROVE  SelectionInv'
  BY <1>6, FetchKeeps
<1>7. ASSUME UNCHANGED selection
      PROVE  SelectionInv'
  <2>1. /\ UNCHANGED <<reg, gen, info, want, disk, src, applied, row, actor>>
        /\ UNCHANGED <<entry, pass, delivered, asked, mixed>>
    BY <1>7 DEF selection, torrent, choice, work, history
  <2>2. SelectionTyped' /\ Phases' /\ InTurn' /\ OpenUntilApplied'
    BY <2>1 DEF SelectionInv, SelectionTyped, Phases, InTurn, OpenUntilApplied, Setting
  <2>3. AsAsked'
    BY <2>1 DEF SelectionInv, AsAsked, Agreed, EntryAsAsked, RecordAsAsked, NothingYet,
       CarriedAsAsked, KnownOnceApplied, AppliedInTheEnd, SoFarAsAsked, CompleteAsAsked,
       DeliveredAsAsked, Carrying, Held
  <2> QED
    BY <2>2, <2>3 DEF SelectionInv
<1> QED
  BY <1>1, <1>2, <1>3, <1>4, <1>5, <1>6, <1>7 DEF SelectionNext, Progress

\* The invariant holds, whatever the files, the choices and the requests.
THEOREM SelectionInvariant == SelectionSpec => []SelectionInv
BY SelectionStarts, SelectionStays, PTL DEF SelectionSpec

\* The variables keep their types.
THEOREM SelectionTypeCorrect == SelectionSpec => []SelectionTyped
BY SelectionInvariant, PTL DEF SelectionInv

\* A choice that was carried out is the last one, in all places that hold it.
THEOREM TheChoiceStands == SelectionSpec => []ChoiceStands
<1>1. SelectionInv => ChoiceStands
  <2> SUFFICES ASSUME SelectionInv, Quiet, reg = "live", applied, ~mixed
               PROVE  asked # None /\ src.files = asked /\ want = Sel(asked) /\ row = asked
    BY DEF ChoiceStands
  <2>1. \A a \in Actors : ~Carrying(a)
    BY DEF Quiet, Busy, Carrying
  <2> QED
    BY <2>1 DEF SelectionInv, AsAsked, Agreed, RecordAsAsked, AppliedInTheEnd
<1> QED
  BY <1>1, SelectionInvariant, PTL

\* Nothing of a torrent that waits for a choice is fetched or delivered.
THEOREM NothingFetchedOnHold == SelectionSpec => []HeldFetchesNothing
<1>1. SelectionInv => HeldFetchesNothing
  BY DEF SelectionInv, AsAsked, Agreed, NothingYet, HeldFetchesNothing
<1> QED
  BY <1>1, SelectionInvariant, PTL

\* What is handed over is what was chosen.
THEOREM WhatWasChosenIsDelivered == SelectionSpec => []DeliversChosen
<1>1. SelectionInv => DeliversChosen
  BY DEF SelectionInv, AsAsked, Agreed, DeliveredAsAsked, DeliversChosen
<1> QED
  BY <1>1, SelectionInvariant, PTL

-----------------------------------------------------------------------------
(* The verdict on a file: the invariant                                    *)

Scanning  == {"stat", "clamav", "rules", "unpack", "yara", "combine"}
Observing == {"sandbox", "trace", "judge", "cleanup"}

\* What is settled by the time the engines have got to a step.
EnginesSettled ==
  /\ pc \in {"stat", "clamav"} => clam = "none"
  /\ pc \in {"stat", "clamav", "rules", "unpack", "yara"} => yara = "none"
  /\ pc \in {"stat", "clamav", "rules", "unpack"} => targets = {} /\ failed = {}
  /\ yara = "clean" => targets = {} /\ failed = {}

\* What ScanFileStep returns says what the engines found.
CombinedIsFaithful ==
  /\ combined = "none" <=> pc \in Scanning
  /\ combined = "clean" => clam = "clean" /\ yara = "clean"
  /\ combined = "threat" <=> combined # "none" /\ "threat" \in {clam, yara}

\* What lets a file get as far as the sandbox, and what the sandbox reports.
LayersInOrder ==
  /\ pc \in Scanning \union {"decide", "lookup"} => lookup = "none" /\ run = "none"
  /\ pc = "lookup" => combined \in {"error", "clean"}
  /\ pc \in {"type"} \union Observing =>
       /\ combined = "clean" /\ cfg.sandbox
       /\ lookup # "known"
       /\ cfg.reputation = "closed" => lookup = "unknown"
  /\ pc \in {"type", "sandbox"} => run = "none"
  /\ pc \in {"trace", "judge", "cleanup"} => run # "none"
  /\ pc = "judge" => run \in {"finished", "no_log"}
  /\ run = "none" \/ pc = "trace" => seen = Nothing
  /\ pc = "done" <=> verdict # "none"

\* What is reported goes by the score, and only a run that was not refused is harmless.
ReportFollowsScore ==
  pc = "cleanup" =>
    /\ report # "none"
    /\ report = "threat" <=> Score(seen) >= 2
    /\ report = "clean" => Score(seen) < 2 /\ run \in {"finished", "no_log"}

VerdictInv ==
  /\ VerdictTyped
  /\ EnginesSettled
  /\ CombinedIsFaithful
  /\ LayersInOrder
  /\ ReportFollowsScore
  /\ CleanIsFullyChecked
  /\ ThreatIffEvidence

-----------------------------------------------------------------------------
(* What a trace scores                                                     *)

\* An empty trace is harmless, and any trace scores a natural number.
LEMMA ScoreNothing == Score(Nothing) < 2 /\ ~(Score(Nothing) >= 2)
BY DEF Score, Nothing, Points

\* The trace of a run that did nothing is one.
LEMMA NothingIsTrace == Nothing \in Traces
BY VerdictAssumption DEF Nothing, Traces

\* Every score is a number.
LEMMA ScoreType == ASSUME NEW t \in Traces PROVE Score(t) \in Nat
<1>1. \A b \in BOOLEAN, n \in Nat : Points(b, n) \in Nat
  BY DEF Points
<1>2. /\ t.shellWrites \in BOOLEAN /\ t.writesOutsideTmp \in BOOLEAN
      /\ t.chmod \in BOOLEAN /\ t.chown \in BOOLEAN /\ t.mount \in BOOLEAN
      /\ t.nNet \in Nat /\ t.nExecs \in Nat
  BY VerdictAssumption DEF Traces
<1>3. /\ (t.nNet > 0) \in BOOLEAN /\ (t.nNet > 3) \in BOOLEAN
      /\ (t.nExecs > 1) \in BOOLEAN /\ (t.nExecs > 5) \in BOOLEAN
  BY <1>2
<1>4. /\ Points(t.shellWrites, 3) \in Nat /\ Points(t.writesOutsideTmp, 2) \in Nat
      /\ Points(t.chmod, 1) \in Nat /\ Points(t.chown, 2) \in Nat
      /\ Points(t.mount, 3) \in Nat
      /\ Points(t.nNet > 0, 1) \in Nat /\ Points(t.nNet > 3, 1) \in Nat
      /\ Points(t.nExecs > 1, 1) \in Nat /\ Points(t.nExecs > 5, 1) \in Nat
  BY <1>1, <1>2, <1>3
<1> QED
  BY <1>4 DEF Score

\* The sandbox calls clean exactly what scores less than two.
LEMMA VerdictFollowsScore ==
  ASSUME NEW t \in Traces
  PROVE  /\ behaviorVerdict(Score(t)) = "clean" <=> Score(t) < 2
         /\ Score(t) >= 2 <=> ~(Score(t) < 2)
<1>1. Score(t) \in Nat
  BY ScoreType
<1>2. Score(t) >= 2 <=> ~(Score(t) < 2)
  BY <1>1
<1>3. behaviorVerdict(Score(t)) = "clean" <=> Score(t) < 2
  BY <1>1 DEF behaviorVerdict
<1> QED
  BY <1>2, <1>3

-----------------------------------------------------------------------------
(* The invariant                                                           *)

\* Nothing is settled when a scan begins.
LEMMA VerdictStarts == VerdictInit => VerdictInv
<1> SUFFICES ASSUME VerdictInit PROVE VerdictInv
  OBVIOUS
<1>1. VerdictTyped
  BY NothingIsTrace DEF VerdictInit, VerdictTyped, Engine, Steps
<1> QED
  BY <1>1 DEF VerdictInit, VerdictInv, EnginesSettled, CombinedIsFaithful, LayersInOrder,
              ReportFollowsScore, CleanIsFullyChecked, ThreatIffEvidence, Scanning, Observing

\* Every step of a scan keeps the types.
LEMMA VerdictTypesKept == VerdictTyped /\ [VerdictNext]_verdictVars => VerdictTyped'
<1> SUFFICES ASSUME VerdictTyped, [VerdictNext]_verdictVars PROVE VerdictTyped'
  OBVIOUS
<1> USE DEF VerdictTyped, Steps, Unbounded, engines, sandbox, layers
<1>1. CASE Stat
  BY <1>1 DEF Stat
<1>2. CASE Expires
  BY <1>2 DEF Expires
<1>3. CASE Clam
  <2>1. clam' \in Engine
    BY <1>3 DEF Clam, Engine
  <2>2. pc' = "rules"
    BY <1>3 DEF Clam
  <2>3. UNCHANGED <<cfg, file, expired, yara, targets, failed, combined, layers>>
    BY <1>3 DEF Clam
  <2> QED
    BY <2>1, <2>2, <2>3
<1>4. CASE RuleSet
  <2>1. yara' \in Engine /\ pc' \in Steps
    BY <1>4 DEF RuleSet, Engine
  <2>2. UNCHANGED <<cfg, file, expired, clam, targets, failed, combined, layers>>
    BY <1>4 DEF RuleSet
  <2> HIDE DEF Steps, Engine
  <2> QED
    BY <2>1, <2>2
<1>5. CASE Unpack
  <2>1. targets' \subseteq {"file", "tree"}
    BY <1>5 DEF Unpack
  <2>2. pc' = "yara"
    BY <1>5 DEF Unpack
  <2>3. UNCHANGED <<cfg, file, expired, clam, yara, failed, combined, layers>>
    BY <1>5 DEF Unpack
  <2> QED
    BY <2>1, <2>2, <2>3
<1>6. CASE YaraMatches
  <2>1. yara' \in Engine /\ pc' \in Steps
    BY <1>6 DEF YaraMatches, Engine
  <2>2. targets' = {} /\ UNCHANGED <<cfg, file, expired, clam, failed, combined, layers>>
    BY <1>6 DEF YaraMatches
  <2> HIDE DEF Steps, Engine
  <2> QED
    BY <2>1, <2>2
<1>7. CASE YaraReads
  BY <1>7 DEF YaraReads, NextTarget
<1>8. CASE YaraDone
  <2>1. YaraOutcome \in Engine
    BY DEF YaraOutcome, Engine
  <2> QED
    BY <1>8, <2>1 DEF YaraDone
<1>9. CASE Combine
  <2>1. Combined \in {"threat", "clean", "error"}
    BY DEF Combined
  <2> QED
    BY <1>9, <2>1 DEF Combine
<1>10. CASE Decide
  BY <1>10 DEF Decide, Records
<1>11. CASE Lookup
  <2>1. AfterLookup(lookup') \in {"threat", "unscanned", "none", "clean"}
    BY DEF AfterLookup
  <2>2. lookup' \in {"none", "known", "unknown", "failed"}
    BY <1>11 DEF Lookup
  <2>3. /\ pc' \in {"type", "done"}
        /\ verdict' \in {"none", "unscanned", "threat", "clean"}
    BY <1>11, <2>1 DEF Lookup, Records
  <2>4. UNCHANGED <<cfg, file, expired, engines, combined, executable, sandbox>>
    BY <1>11 DEF Lookup
  <2> QED
    BY <2>2, <2>3, <2>4
<1>12. CASE IsExecutable
  BY <1>12 DEF IsExecutable, Records
<1>13. CASE SandboxRuns
  BY <1>13 DEF SandboxRuns, Records
<1>14. CASE ReadTrace
  <2>1. seen' \in Traces
    BY <1>14, NothingIsTrace DEF ReadTrace
  <2>2. /\ pc' \in {"judge", "cleanup"} /\ report' \in {report, "unscanned"}
        /\ UNCHANGED <<cfg, file, expired, engines, combined, lookup, executable, run, verdict>>
    BY <1>14 DEF ReadTrace
  <2> QED
    BY <2>1, <2>2
<1>15. CASE Judge
  BY <1>15 DEF Judge
<1>16. CASE CleanUp
  BY <1>16 DEF CleanUp, Records
<1>17. CASE UNCHANGED verdictVars
  <2> HIDE DEF Steps, Unbounded, engines, sandbox, layers
  <2>1. UNCHANGED <<cfg, file, pc, expired, clam, yara, targets, failed>>
    BY <1>17 DEF verdictVars
  <2>2. UNCHANGED <<combined, lookup, executable, run, seen, report, verdict>>
    BY <1>17 DEF verdictVars
  <2> QED
    BY <2>1, <2>2
<1> QED
  BY <1>1, <1>2, <1>3, <1>4, <1>5, <1>6, <1>7, <1>8, <1>9, <1>10, <1>11, <1>12, <1>13,
     <1>14, <1>15, <1>16, <1>17 DEF VerdictNext, EngineStep, OwnStep

\* The parts that are not types, named together for the step lemma below.
Layered ==
  /\ EnginesSettled /\ CombinedIsFaithful /\ LayersInOrder /\ ReportFollowsScore
  /\ CleanIsFullyChecked /\ ThreatIffEvidence

\* And what each layer may rely on of the ones before it.
LEMMA LayersKept == VerdictInv /\ [VerdictNext]_verdictVars => Layered'
<1> SUFFICES ASSUME VerdictInv, [VerdictNext]_verdictVars PROVE Layered'
  OBVIOUS
<1>1. VerdictTyped'
  BY VerdictTypesKept DEF VerdictInv
<1> USE DEF VerdictInv, VerdictTyped, Layered, EnginesSettled, CombinedIsFaithful, LayersInOrder,
            ReportFollowsScore, CleanIsFullyChecked, ThreatIffEvidence, Evidence, FailsOpen,
            Scanning, Observing, engines, sandbox, layers
<1>2. CASE Stat
  BY <1>2 DEF Stat
<1>3. CASE Expires
  BY <1>3 DEF Expires
<1>4. CASE Clam
  BY <1>4 DEF Clam
<1>5. CASE RuleSet
  BY <1>5 DEF RuleSet
<1>6. CASE Unpack
  BY <1>6 DEF Unpack
<1>7. CASE YaraMatches
  BY <1>7 DEF YaraMatches
<1>8. CASE YaraReads
  BY <1>8 DEF YaraReads
<1>9. CASE YaraDone
  BY <1>9 DEF YaraDone, YaraOutcome
<1>10. CASE Combine
  BY <1>10 DEF Combine, Combined
<1>11. CASE Decide
  BY <1>11 DEF Decide, Records
<1>12. CASE Lookup
  BY <1>12 DEF Lookup, Records, AfterLookup
<1>13. CASE IsExecutable
  BY <1>13, ScoreNothing DEF IsExecutable, Records
<1>14. CASE SandboxRuns
  BY <1>14, ScoreNothing DEF SandboxRuns, Records
<1>15. CASE ReadTrace
  <2>1. CASE run = "finished" /\ pc' = "judge" /\ UNCHANGED report
    BY <1>15, <2>1 DEF ReadTrace
  <2>2. CASE run = "no_log" /\ pc' = "judge" /\ seen' = Nothing /\ UNCHANGED report
    BY <1>15, <2>2 DEF ReadTrace
  <2>3. CASE UNCHANGED seen /\ report' = "unscanned" /\ pc' = "cleanup"
    <3>1. seen' = Nothing /\ ~(Score(seen') >= 2)
      BY <1>15, <2>3, ScoreNothing DEF ReadTrace
    <3> QED
      BY <1>15, <2>3, <3>1 DEF ReadTrace
  <2> QED
    BY <1>15, <2>1, <2>2, <2>3 DEF ReadTrace
<1>16. CASE Judge
  <2>1. /\ behaviorVerdict(Score(seen)) = "clean" <=> Score(seen) < 2
        /\ Score(seen) >= 2 <=> ~(Score(seen) < 2)
    BY VerdictFollowsScore
  <2>2. /\ pc' = "cleanup" /\ report' \in {"clean", "threat"}
        /\ report' = "clean" <=> Score(seen) < 2
        /\ report' = "threat" <=> Score(seen) >= 2
        /\ seen' = seen /\ run' = run
    BY <1>16, <2>1 DEF Judge
  <2> QED
    BY <1>16, <2>1, <2>2 DEF Judge
<1>17. CASE CleanUp
  <2>1. pc' = "done" /\ verdict' = report /\ report # "none" /\ seen' = seen /\ run' = run
    BY <1>17 DEF CleanUp, Records
  <2> QED
    BY <1>17, <2>1 DEF CleanUp
<1>18. CASE UNCHANGED verdictVars
  <2> HIDE DEF VerdictTyped, engines, sandbox, layers
  <2>1. UNCHANGED <<cfg, file, pc, expired, clam, yara, targets, failed>>
    BY <1>18 DEF verdictVars
  <2>2. UNCHANGED <<combined, lookup, executable, run, seen, report, verdict>>
    BY <1>18 DEF verdictVars
  <2> QED
    BY <2>1, <2>2
<1> QED
  BY <1>2, <1>3, <1>4, <1>5, <1>6, <1>7, <1>8, <1>9, <1>10, <1>11, <1>12, <1>13, <1>14,
     <1>15, <1>16, <1>17, <1>18 DEF VerdictNext, EngineStep, OwnStep

\* The invariant holds, whatever the engines and services come back with.
THEOREM VerdictInvariant == VerdictSpec => []VerdictInv
<1>1. VerdictInv /\ [VerdictNext]_verdictVars => VerdictInv'
  BY VerdictTypesKept, LayersKept DEF VerdictInv, Layered
<1> QED
  BY VerdictStarts, <1>1, PTL DEF VerdictSpec

\* The variables keep their types.
THEOREM VerdictTypeCorrect == VerdictSpec => []VerdictTyped
BY VerdictInvariant, PTL DEF VerdictInv

\* The verdict fails closed, but for an executable that file(1) could not tell
\* and a sandbox run without a log.
THEOREM FailsClosed == VerdictSpec => []CleanIsFullyChecked
BY VerdictInvariant, PTL DEF VerdictInv

\* A file is recorded a threat exactly when some layer holds something
\* against it, whatever failed around it.
THEOREM FollowsEvidence == VerdictSpec => []ThreatIffEvidence
BY VerdictInvariant, PTL DEF VerdictInv

=============================================================================
