------------------------ MODULE TorrentManager_proofs ------------------------
(***************************************************************************)
(* What TLAPS proves of TorrentManager, for every set of torrents and of   *)
(* goroutines.  The five safety invariants are inductive together with one *)
(* fact about the goroutines: between joining the client and registering   *)
(* (or dropping) a goroutine has a handle.  The refinement of Gate rests   *)
(* on the same invariant.                                                  *)
(***************************************************************************)
EXTENDS TorrentManager, TLAPS

\* A goroutine that is about to register or to drop has a handle.
HandleInHand ==
  \A p \in Procs : pc[p] \in {"register", "drop"} => handle[p] # "none"

IInv ==
  /\ TypeOK
  /\ HandleInHand
  /\ NothingLiveInPanic
  /\ AttachedAccounted
  /\ WantedKeepsSource
  /\ WantedIsListed

\* Closing handles changes no type and takes no handle away.
LEMMA ClosedForType ==
  ASSUME TypeOK, NEW S
  PROVE  /\ ClosedFor(S) \in [Procs -> Handles]
         /\ \A p \in Procs : ClosedFor(S)[p] = "none" <=> handle[p] = "none"
         /\ \A p \in Procs : at[p] \notin S => ClosedFor(S)[p] = handle[p]
  BY DEF TypeOK, ClosedFor, Handles

LEMMA InitIInv == Init => IInv
<1> SUFFICES ASSUME Init PROVE IInv
  OBVIOUS
<1>1. TypeOK
  BY DEF Init, TypeOK, Handles, Steps, Tasks
<1> QED
  BY <1>1 DEF Init, IInv, HandleInHand, NothingLiveInPanic, Live, AttachedAccounted,
              WantedKeepsSource, WantedIsListed

-----------------------------------------------------------------------------

LEMMA NextTypeOK == TypeOK /\ [Next]_vars => TypeOK'
<1> SUFFICES ASSUME TypeOK, [Next]_vars PROVE TypeOK'
  OBVIOUS
<1> USE DEF TypeOK, Handles, Steps, Tasks
<1>0. \A S : ClosedFor(S) \in [Procs -> Handles]
  BY ClosedForType
<1>1. ASSUME NEW p \in Procs, NEW i \in Ids, Add(p, i) PROVE TypeOK'
  BY <1>1 DEF Add, Join, registry, history
<1>2. ASSUME NEW p \in Procs, NEW i \in Ids, Pause(p, i) PROVE TypeOK'
  BY <1>2, <1>0 DEF Pause, TakeDown, history
<1>3. ASSUME NEW p \in Procs, NEW i \in Ids, Resume(p, i) PROVE TypeOK'
  BY <1>3 DEF Resume, registry, history
<1>4. ASSUME NEW i \in Ids, CancelLive(i) PROVE TypeOK'
  BY <1>4, <1>0 DEF CancelLive, TakeDown
<1>5. ASSUME NEW i \in Ids, CancelParked(i) PROVE TypeOK'
  BY <1>5 DEF CancelParked, local
<1>6. ASSUME NEW i \in Ids, DropCompleted(i) PROVE TypeOK'
  BY <1>6, <1>0 DEF DropCompleted, TakeDown
<1>7. ASSUME NEW p \in Procs, PanicAll(p) PROVE TypeOK'
  BY <1>7, <1>0 DEF PanicAll, Snapshots, Live, history
<1>8. ASSUME NEW p \in Procs, ResumeAll(p) PROVE TypeOK'
  BY <1>8 DEF ResumeAll, history
<1>9. ASSUME NEW p \in Procs, RegisterLive(p) PROVE TypeOK'
  BY <1>9 DEF RegisterLive, RecordSource, AfterRegister
<1>10. ASSUME NEW p \in Procs, RegisterParked(p) PROVE TypeOK'
  BY <1>10 DEF RegisterParked, RecordSource
<1>11. ASSUME NEW p \in Procs, DropParked(p) PROVE TypeOK'
  <2>1. handle' \in [Procs -> Handles]
    BY <1>11, <1>0 DEF DropParked
  <2>2. torrents' \in [Ids -> Handles]
    BY <1>11 DEF DropParked
  <2> QED
    BY <1>11, <2>1, <2>2 DEF DropParked, AfterRegister, history
<1>12. ASSUME NEW p \in Procs, ParkPaused(p) PROVE TypeOK'
  BY <1>12 DEF ParkPaused, history
<1>13. ASSUME NEW p \in Procs, ReAdd(p) PROVE TypeOK'
  BY <1>13 DEF ReAdd, Join, registry, history
<1>14. ASSUME NEW p \in Procs, ReAddFails(p) PROVE TypeOK'
  BY <1>14 DEF ReAddFails, registry, history
<1>15. ASSUME NEW p \in Procs, Unpark(p) PROVE TypeOK'
  BY <1>15 DEF Unpark, history
<1>16. ASSUME NEW p \in Procs, ParkSnapshot(p) PROVE TypeOK'
  BY <1>16 DEF ParkSnapshot, history
<1>17. ASSUME NEW p \in Procs, PanicAllDone(p) PROVE TypeOK'
  BY <1>17 DEF PanicAllDone, registry, history
<1>18. ASSUME NEW p \in Procs, NextSource(p) PROVE TypeOK'
  BY <1>18 DEF NextSource, registry, history
<1>19. ASSUME NEW p \in Procs, ResumeAllDone(p) PROVE TypeOK'
  BY <1>19 DEF ResumeAllDone, registry, history
<1>20. CASE UNCHANGED vars
  BY <1>20 DEF vars
<1> QED
  BY <1>1, <1>2, <1>3, <1>4, <1>5, <1>6, <1>7, <1>8, <1>9, <1>10, <1>11, <1>12,
     <1>13, <1>14, <1>15, <1>16, <1>17, <1>18, <1>19, <1>20 DEF Next, Continue

-----------------------------------------------------------------------------
(* AttachedAccounted: who may stop each torrent the client is connected for *)

\* Taking torrent j down leaves every other attached torrent accounted for.
LEMMA TakeDownAccounted ==
  ASSUME IInv, NEW j \in Ids, TakeDown(j), UNCHANGED clobbered,
         TypeOK',
         \A p \in Procs : pc[p] \in {"register", "drop"}
                            => pc'[p] = pc[p] /\ at'[p] = at[p]
  PROVE  AttachedAccounted'
<1> SUFFICES ASSUME NEW i \in attached' \ clobbered, torrents'[i] # "open"
             PROVE  \E p \in Procs : Holds(p, i)'
  BY DEF AttachedAccounted
<1>1. i \in attached \ clobbered /\ i \in Ids
  BY DEF TakeDown, IInv, TypeOK
<1>2. \A p \in Procs : Holds(p, i) => ClosedFor(IF torrents[j] = "open" THEN {j} ELSE {})[p] = "open"
  <2>1. i = j => torrents[j] # "open"
    BY DEF TakeDown
  <2> QED
    BY <2>1 DEF Holds, ClosedFor
<1>3. torrents[i] # "open"
  BY <1>1 DEF TakeDown, IInv, TypeOK
<1>4. PICK p \in Procs : Holds(p, i)
  BY <1>1, <1>3 DEF IInv, AttachedAccounted
<1>5. Holds(p, i)'
  BY <1>2, <1>4 DEF Holds, TakeDown
<1> QED
  BY <1>5

LEMMA NextAttachedAccounted ==
  ASSUME IInv, [Next]_vars
  PROVE  AttachedAccounted'
<1>0. TypeOK /\ TypeOK' /\ HandleInHand /\ AttachedAccounted
  BY NextTypeOK DEF IInv
<1> USE <1>0
<1> DEFINE Safe(i) == torrents[i] = "open" \/ \E p \in Procs : Holds(p, i)
<1>a. \A i \in attached \ clobbered : Safe(i)
  BY DEF AttachedAccounted
<1>1. ASSUME NEW q \in Procs, NEW j \in Ids, Add(q, j) PROVE AttachedAccounted'
  <2>1. Holds(q, j)'
    BY <1>1 DEF Add, Join, Holds, TypeOK
  <2>2. \A i \in Ids, p \in Procs : Holds(p, i) => Holds(p, i)'
    BY <1>1 DEF Add, Join, Holds, TypeOK
  <2> QED
    BY <1>1, <2>1, <2>2 DEF Add, Join, registry, history, AttachedAccounted, TypeOK
<1>2. ASSUME NEW q \in Procs, NEW j \in Ids, Pause(q, j) PROVE AttachedAccounted'
  <2>1. \A p \in Procs : pc[p] \in {"register", "drop"} => pc'[p] = pc[p] /\ at'[p] = at[p]
    BY <1>2 DEF Pause, TypeOK
  <2> QED
    BY <1>2, <2>1, TakeDownAccounted DEF Pause, history
<1>3. ASSUME NEW q \in Procs, NEW j \in Ids, Resume(q, j) PROVE AttachedAccounted'
  <2>1. \A i \in Ids, p \in Procs : Holds(p, i) => Holds(p, i)'
    BY <1>3 DEF Resume, Holds, TypeOK
  <2> QED
    BY <1>3, <2>1 DEF Resume, registry, history, AttachedAccounted, TypeOK
<1>4. ASSUME NEW j \in Ids, CancelLive(j) PROVE AttachedAccounted'
  BY <1>4, TakeDownAccounted DEF CancelLive
<1>5. ASSUME NEW j \in Ids, CancelParked(j) PROVE AttachedAccounted'
  BY <1>5 DEF CancelParked, local, AttachedAccounted, Holds
<1>6. ASSUME NEW j \in Ids, DropCompleted(j) PROVE AttachedAccounted'
  BY <1>6, TakeDownAccounted DEF DropCompleted
<1>7. ASSUME NEW q \in Procs, PanicAll(q) PROVE AttachedAccounted'
  <2> SUFFICES ASSUME NEW i \in attached' \ clobbered
               PROVE  \E p \in Procs : Holds(p, i)'
    BY <1>7 DEF AttachedAccounted, PanicAll, history
  <2>1. i \in attached \ clobbered /\ torrents[i] # "open"
    BY <1>7 DEF PanicAll, TypeOK
  <2>2. PICK p \in Procs : Holds(p, i)
    BY <2>1 DEF AttachedAccounted
  <2>3. Holds(p, i)'
    BY <1>7, <2>1, <2>2 DEF PanicAll, Holds, ClosedFor, TypeOK
  <2> QED
    BY <2>3
<1>8. ASSUME NEW q \in Procs, ResumeAll(q) PROVE AttachedAccounted'
  <2>1. \A i \in Ids, p \in Procs : Holds(p, i) => Holds(p, i)'
    BY <1>8 DEF ResumeAll, Holds, TypeOK
  <2> QED
    BY <1>8, <2>1 DEF ResumeAll, history, AttachedAccounted, TypeOK
<1>9. ASSUME NEW q \in Procs, RegisterLive(q) PROVE AttachedAccounted'
  <2> SUFFICES ASSUME NEW i \in attached \ clobbered', torrents'[i] # "open"
               PROVE  \E p \in Procs : Holds(p, i)'
    BY <1>9 DEF AttachedAccounted, RegisterLive
  <2>1. i \in attached \ clobbered /\ i \in Ids
    BY <1>9 DEF RegisterLive, TypeOK
  <2>2. i = at[q] => handle[q] = "closed" /\ torrents[i] # "open"
    BY <1>9, <2>1 DEF RegisterLive, HandleInHand, TypeOK, Handles
  <2>3. torrents[i] # "open"
    BY <1>9, <2>1, <2>2 DEF RegisterLive, TypeOK
  <2>4. PICK p \in Procs : Holds(p, i)
    BY <2>1, <2>3 DEF AttachedAccounted
  <2>5. p # q
    BY <2>2, <2>4 DEF Holds
  <2>6. Holds(p, i)'
    BY <1>9, <2>4, <2>5 DEF RegisterLive, Holds, TypeOK
  <2> QED
    BY <2>6
<1>10. ASSUME NEW q \in Procs, RegisterParked(q) PROVE AttachedAccounted'
  <2>1. \A i \in Ids, p \in Procs : Holds(p, i) => Holds(p, i)'
    BY <1>10 DEF RegisterParked, Holds, TypeOK
  <2> QED
    BY <1>10, <2>1 DEF RegisterParked, AttachedAccounted, TypeOK
<1>11. ASSUME NEW q \in Procs, DropParked(q) PROVE AttachedAccounted'
  <2> SUFFICES ASSUME NEW i \in attached' \ clobbered, torrents'[i] # "open"
               PROVE  \E p \in Procs : Holds(p, i)'
    BY <1>11 DEF AttachedAccounted, DropParked, history
  <2>1. i \in attached \ clobbered /\ i \in Ids /\ i \notin Dropped(q)
    BY <1>11 DEF DropParked, TypeOK
  <2>2. torrents[i] # "open"
    BY <1>11, <2>1 DEF DropParked, TypeOK
  <2>3. PICK p \in Procs : Holds(p, i)
    BY <2>1, <2>2 DEF AttachedAccounted
  <2>4. p # q
    BY <2>1, <2>3 DEF Holds, Dropped
  <2>5. handle'[p] = "open"
    BY <1>11, <2>1, <2>3, <2>4 DEF DropParked, Holds, ClosedFor, TypeOK
  <2>6. Holds(p, i)'
    BY <1>11, <2>3, <2>4, <2>5 DEF DropParked, Holds, TypeOK
  <2> QED
    BY <2>6
<1>12. ASSUME NEW q \in Procs, ReAdd(q) PROVE AttachedAccounted'
  <2>1. Holds(q, at[q])'
    BY <1>12 DEF ReAdd, Join, Holds, TypeOK
  <2>2. \A i \in Ids, p \in Procs : Holds(p, i) => Holds(p, i)'
    BY <1>12 DEF ReAdd, Join, Holds, TypeOK
  <2> QED
    BY <1>12, <2>1, <2>2 DEF ReAdd, Join, registry, history, AttachedAccounted, TypeOK
<1>13. ASSUME NEW q \in Procs,
              \/ ParkPaused(q) \/ ReAddFails(q) \/ Unpark(q) \/ ParkSnapshot(q)
              \/ PanicAllDone(q) \/ NextSource(q) \/ ResumeAllDone(q)
       PROVE AttachedAccounted'
  <2>1. UNCHANGED <<attached, torrents, handle, clobbered>>
    BY <1>13 DEF ParkPaused, ReAddFails, Unpark, ParkSnapshot, PanicAllDone, NextSource,
                 ResumeAllDone, registry, history
  <2>2. pc[q] \notin {"register", "drop"}
    BY <1>13 DEF ParkPaused, ReAddFails, Unpark, ParkSnapshot, PanicAllDone, NextSource,
                 ResumeAllDone
  <2>3. \A p \in Procs \ {q} : pc'[p] = pc[p] /\ at'[p] = at[p]
    BY <1>13 DEF ParkPaused, ReAddFails, Unpark, ParkSnapshot, PanicAllDone, NextSource,
                 ResumeAllDone, TypeOK
  <2>4. \A i \in Ids, p \in Procs : Holds(p, i) => Holds(p, i)'
    BY <2>1, <2>2, <2>3 DEF Holds
  <2> QED
    BY <2>1, <2>4 DEF AttachedAccounted, TypeOK
<1>14. CASE UNCHANGED vars
  BY <1>14 DEF vars, AttachedAccounted, Holds
<1> QED
  BY <1>1, <1>2, <1>3, <1>4, <1>5, <1>6, <1>7, <1>8, <1>9, <1>10, <1>11, <1>12,
     <1>13, <1>14 DEF Next, Continue

-----------------------------------------------------------------------------
(* The other parts of the invariant                                        *)

LEMMA NextHandleInHand ==
  ASSUME TypeOK, TypeOK', HandleInHand, [Next]_vars
  PROVE  HandleInHand'
<1> USE DEF HandleInHand
<1>1. ASSUME NEW q \in Procs, NEW j \in Ids, Add(q, j) PROVE HandleInHand'
  BY <1>1 DEF Add, Join, TypeOK
<1>2. ASSUME NEW q \in Procs, NEW j \in Ids, Pause(q, j) PROVE HandleInHand'
  BY <1>2, ClosedForType DEF Pause, TakeDown, TypeOK
<1>3. ASSUME NEW q \in Procs, NEW j \in Ids, Resume(q, j) PROVE HandleInHand'
  BY <1>3 DEF Resume, TypeOK
<1>4. ASSUME NEW j \in Ids, CancelLive(j) \/ DropCompleted(j) PROVE HandleInHand'
  BY <1>4, ClosedForType DEF CancelLive, DropCompleted, TakeDown
<1>5. ASSUME NEW j \in Ids, CancelParked(j) PROVE HandleInHand'
  BY <1>5 DEF CancelParked, local
<1>6. ASSUME NEW q \in Procs, PanicAll(q) PROVE HandleInHand'
  BY <1>6, ClosedForType DEF PanicAll, TypeOK
<1>7. ASSUME NEW q \in Procs, ResumeAll(q) PROVE HandleInHand'
  BY <1>7 DEF ResumeAll, TypeOK
<1>8. ASSUME NEW q \in Procs, RegisterLive(q) PROVE HandleInHand'
  BY <1>8 DEF RegisterLive, AfterRegister, TypeOK
<1>9. ASSUME NEW q \in Procs, RegisterParked(q) PROVE HandleInHand'
  BY <1>9 DEF RegisterParked, TypeOK
<1>10. ASSUME NEW q \in Procs, DropParked(q) PROVE HandleInHand'
  BY <1>10, ClosedForType DEF DropParked, AfterRegister, TypeOK
<1>11. ASSUME NEW q \in Procs, ReAdd(q) PROVE HandleInHand'
  BY <1>11 DEF ReAdd, Join, TypeOK
<1>12. ASSUME NEW q \in Procs,
              \/ ParkPaused(q) \/ ReAddFails(q) \/ Unpark(q) \/ ParkSnapshot(q)
              \/ PanicAllDone(q) \/ NextSource(q) \/ ResumeAllDone(q)
       PROVE HandleInHand'
  BY <1>12 DEF ParkPaused, ReAddFails, Unpark, ParkSnapshot, PanicAllDone, NextSource,
               ResumeAllDone, TypeOK
<1>13. CASE UNCHANGED vars
  BY <1>13 DEF vars
<1> QED
  BY <1>1, <1>2, <1>3, <1>4, <1>5, <1>6, <1>7, <1>8, <1>9, <1>10, <1>11, <1>12, <1>13
     DEF Next, Continue

\* What each step does to the set of live torrents and to the panic flag: the
\* registry's step is a step of the gate, or leaves both alone.
LEMMA GateStep ==
  ASSUME TypeOK, HandleInHand, [Next]_vars
  PROVE  \/ \E i \in Ids : ~panicked /\ Live' = Live \union {i} /\ UNCHANGED panicked
         \/ \E i \in Ids : Live' = Live \ {i} /\ UNCHANGED panicked
         \/ panicked' = TRUE /\ Live' = {}
         \/ panicked' = FALSE /\ UNCHANGED Live
         \/ UNCHANGED <<panicked, Live>>
<1> DEFINE Goal == \/ \E i \in Ids : ~panicked /\ Live' = Live \union {i} /\ UNCHANGED panicked
                   \/ \E i \in Ids : Live' = Live \ {i} /\ UNCHANGED panicked
                   \/ panicked' = TRUE /\ Live' = {}
                   \/ panicked' = FALSE /\ UNCHANGED Live
                   \/ UNCHANGED <<panicked, Live>>
<1>1. ASSUME NEW j \in Ids, TakeDown(j), UNCHANGED panicked PROVE Goal
  <2>1. Live' = Live \ {j}
    BY <1>1 DEF TakeDown, Live, TypeOK
  <2> QED
    BY <1>1, <2>1
<1>2. ASSUME NEW q \in Procs, RegisterLive(q) PROVE Goal
  <2>1. at[q] \in Ids /\ handle[q] # "none"
    BY <1>2 DEF RegisterLive, HandleInHand, TypeOK
  <2>2. Live' = Live \union {at[q]}
    BY <1>2, <2>1 DEF RegisterLive, Live, TypeOK
  <2> QED
    BY <1>2, <2>1, <2>2 DEF RegisterLive, MayGoLive
<1>3. ASSUME NEW q \in Procs, DropParked(q) PROVE Goal
  <2>1. Live' = Live
    BY <1>3 DEF DropParked, Live, TypeOK
  <2> QED
    BY <1>3, <2>1 DEF DropParked
<1>4. ASSUME NEW q \in Procs, PanicAll(q) PROVE Goal
  BY <1>4 DEF PanicAll, Live
<1>5. ASSUME NEW q \in Procs, ResumeAll(q) PROVE Goal
  BY <1>5 DEF ResumeAll, Live
<1>6. ASSUME UNCHANGED <<torrents, panicked>> PROVE Goal
  BY <1>6 DEF Live
<1> HIDE DEF Goal
<1>7. Goal
  BY <1>1, <1>2, <1>3, <1>4, <1>5, <1>6
     DEF Next, Continue, vars, registry, local, Add, Pause, Resume, CancelLive, CancelParked,
         DropCompleted, RegisterParked, ParkPaused, ReAdd, ReAddFails, Unpark, ParkSnapshot,
         PanicAllDone, NextSource, ResumeAllDone
<1> QED
  BY <1>7 DEF Goal

LEMMA NextNothingLiveInPanic ==
  ASSUME TypeOK, HandleInHand, NothingLiveInPanic, [Next]_vars
  PROVE  NothingLiveInPanic'
  BY GateStep DEF NothingLiveInPanic

LEMMA NextWantedKeepsSource ==
  ASSUME WantedKeepsSource, [Next]_vars
  PROVE  WantedKeepsSource'
<1> USE DEF WantedKeepsSource
<1>1. ASSUME NEW q \in Procs, RegisterLive(q) \/ RegisterParked(q) PROVE WantedKeepsSource'
  BY <1>1 DEF RegisterLive, RegisterParked, RecordSource
<1>2. ASSUME NEW j \in Ids, CancelLive(j) \/ CancelParked(j) \/ DropCompleted(j)
      PROVE  WantedKeepsSource'
  BY <1>2 DEF CancelLive, CancelParked, DropCompleted
<1>3. ASSUME UNCHANGED <<sources, wanted>> PROVE WantedKeepsSource'
  BY <1>3
<1> QED
  BY <1>1, <1>2, <1>3
     DEF Next, Continue, vars, registry, history, Add, Pause, Resume, PanicAll, ResumeAll,
         DropParked, ParkPaused, ReAdd, ReAddFails, Unpark, ParkSnapshot, PanicAllDone,
         NextSource, ResumeAllDone

\* A step that parks nothing less and takes nothing down keeps every wanted
\* torrent listed, if it wants nothing more.
LEMMA NextWantedIsListed ==
  ASSUME TypeOK, TypeOK', HandleInHand, WantedIsListed, [Next]_vars
  PROVE  WantedIsListed'
<1> DEFINE Listed(i) == i \in Live \union parked \/ \E p \in Procs : Parks(p, i)
<1>0. \A i \in wanted \ overtaken : i \in Ids /\ Listed(i)
  BY DEF WantedIsListed, TypeOK
<1>1. ASSUME NEW q \in Procs, NEW j \in Ids, Add(q, j) \/ Resume(q, j)
      PROVE  WantedIsListed'
  <2>1. UNCHANGED <<torrents, parked, wanted, overtaken, todo>> /\ pc[q] # "park"
    BY <1>1 DEF Add, Resume, registry, history
  <2>2. \A p \in Procs, i \in Ids : Parks(p, i) => Parks(p, i)'
    BY <1>1, <2>1 DEF Add, Resume, Parks, TypeOK
  <2> QED
    BY <1>0, <2>1, <2>2 DEF WantedIsListed, Live
<1>2. ASSUME NEW q \in Procs, NEW j \in Ids, Pause(q, j) PROVE WantedIsListed'
  <2>1. Parks(q, j)'
    BY <1>2 DEF Pause, Parks, TypeOK
  <2>2. \A p \in Procs, i \in Ids : Parks(p, i) => Parks(p, i)'
    BY <1>2 DEF Pause, Parks, TypeOK
  <2>3. Live \ {j} \subseteq Live' /\ UNCHANGED <<parked, wanted, overtaken>>
    BY <1>2 DEF Pause, TakeDown, Live, history, TypeOK
  <2> QED
    BY <1>0, <2>1, <2>2, <2>3 DEF WantedIsListed
<1>3. ASSUME NEW j \in Ids, CancelLive(j) \/ DropCompleted(j) PROVE WantedIsListed'
  <2>1. \A p \in Procs, i \in Ids : Parks(p, i) => Parks(p, i)'
    BY <1>3 DEF CancelLive, DropCompleted, Parks
  <2>2. /\ Live \ {j} \subseteq Live' /\ parked \ {j} \subseteq parked'
        /\ wanted' = wanted \ {j} /\ UNCHANGED overtaken
    BY <1>3 DEF CancelLive, DropCompleted, TakeDown, Live, TypeOK
  <2> QED
    BY <1>0, <2>1, <2>2 DEF WantedIsListed
<1>4. ASSUME NEW j \in Ids, CancelParked(j) PROVE WantedIsListed'
  BY <1>0, <1>4 DEF CancelParked, local, WantedIsListed, Live, Parks
<1>5. ASSUME NEW q \in Procs, PanicAll(q) PROVE WantedIsListed'
  <2>1. \A i \in Live : Parks(q, i)'
    BY <1>5 DEF PanicAll, Snapshots, Parks, TypeOK
  <2>2. \A p \in Procs, i \in Ids : Parks(p, i) => Parks(p, i)'
    BY <1>5 DEF PanicAll, Parks, TypeOK
  <2> QED
    BY <1>0, <1>5, <2>1, <2>2 DEF PanicAll, history, WantedIsListed
<1>6. ASSUME NEW q \in Procs, ResumeAll(q) PROVE WantedIsListed'
  <2>1. \A p \in Procs, i \in Ids : Parks(p, i) => Parks(p, i)'
    BY <1>6 DEF ResumeAll, Parks, TypeOK
  <2> QED
    BY <1>0, <1>6, <2>1 DEF ResumeAll, history, WantedIsListed, Live
<1>7. ASSUME NEW q \in Procs, RegisterLive(q) PROVE WantedIsListed'
  <2>1. at[q] \in Ids /\ handle[q] # "none"
    BY <1>7 DEF RegisterLive, HandleInHand, TypeOK
  <2>2. Live' = Live \union {at[q]}
    BY <1>7, <2>1 DEF RegisterLive, Live, TypeOK
  <2>3. \A p \in Procs, i \in Ids : Parks(p, i) => Parks(p, i)'
    BY <1>7 DEF RegisterLive, Parks, TypeOK
  <2>4. /\ wanted' \subseteq wanted \union {at[q]}
        /\ overtaken' = overtaken \ {at[q]} /\ UNCHANGED parked
    BY <1>7 DEF RegisterLive
  <2> QED
    BY <1>0, <2>2, <2>3, <2>4 DEF WantedIsListed
<1>8. ASSUME NEW q \in Procs, RegisterParked(q) PROVE WantedIsListed'
  <2>1. \A p \in Procs, i \in Ids : Parks(p, i) => Parks(p, i)'
    BY <1>8 DEF RegisterParked, Parks, TypeOK
  <2>2. /\ wanted' \subseteq wanted \union {at[q]}
        /\ overtaken' = overtaken \ {at[q]}
        /\ parked' = parked \union {at[q]} /\ UNCHANGED torrents
    BY <1>8 DEF RegisterParked
  <2> QED
    BY <1>0, <2>1, <2>2 DEF WantedIsListed, Live
<1>9. ASSUME NEW q \in Procs, DropParked(q) PROVE WantedIsListed'
  <2>1. Live' = Live
    BY <1>9 DEF DropParked, Live, TypeOK
  <2>2. \A p \in Procs, i \in Ids : Parks(p, i) => Parks(p, i)'
    BY <1>9 DEF DropParked, Parks, TypeOK
  <2> QED
    BY <1>0, <1>9, <2>1, <2>2 DEF DropParked, history, WantedIsListed
<1>10. ASSUME NEW q \in Procs, ParkPaused(q) PROVE WantedIsListed'
  <2>1. \A p \in Procs, i \in Ids : Parks(p, i) => Parks(p, i)' \/ i \in parked'
    BY <1>10 DEF ParkPaused, Parks, TypeOK
  <2> QED
    BY <1>0, <1>10, <2>1 DEF ParkPaused, history, WantedIsListed, Live
<1>11. ASSUME NEW q \in Procs, ParkSnapshot(q) PROVE WantedIsListed'
  <2>1. \A p \in Procs, i \in Ids : Parks(p, i) => Parks(p, i)' \/ i \in parked'
    BY <1>11 DEF ParkSnapshot, Parks, TypeOK
  <2>2. parked \subseteq parked' /\ UNCHANGED <<torrents, wanted, overtaken>>
    BY <1>11 DEF ParkSnapshot, history
  <2> QED
    BY <1>0, <2>1, <2>2 DEF WantedIsListed, Live
<1>12. ASSUME NEW q \in Procs, PanicAllDone(q) PROVE WantedIsListed'
  <2>1. \A p \in Procs, i \in Ids : Parks(p, i) => Parks(p, i)'
    BY <1>12 DEF PanicAllDone, Parks, TypeOK
  <2> QED
    BY <1>0, <1>12, <2>1 DEF PanicAllDone, registry, history, WantedIsListed, Live
<1>13. ASSUME NEW q \in Procs, Unpark(q) PROVE WantedIsListed'
  <2>1. \A p \in Procs, i \in Ids : Parks(p, i) => Parks(p, i)'
    BY <1>13 DEF Unpark, Parks, TypeOK
  <2>2. /\ parked' = parked \ {at[q]} /\ UNCHANGED <<torrents, wanted>>
        /\ overtaken \subseteq overtaken'
        /\ at[q] \notin Live => at[q] \in overtaken'
    BY <1>13 DEF Unpark, Live, TypeOK
  <2> QED
    BY <1>0, <2>1, <2>2 DEF WantedIsListed, Live
<1>14. ASSUME NEW q \in Procs, ReAdd(q) \/ ReAddFails(q) \/ NextSource(q) \/ ResumeAllDone(q)
       PROVE  WantedIsListed'
  <2>1. UNCHANGED <<torrents, parked, wanted, overtaken>> /\ pc[q] # "park"
    BY <1>14 DEF ReAdd, ReAddFails, NextSource, ResumeAllDone, registry, history
  <2>2. \A p \in Procs, i \in Ids : Parks(p, i) => Parks(p, i)'
    BY <1>14, <2>1 DEF ReAdd, ReAddFails, NextSource, ResumeAllDone, Parks, TypeOK
  <2> QED
    BY <1>0, <2>1, <2>2 DEF WantedIsListed, Live
<1>15. CASE UNCHANGED vars
  BY <1>0, <1>15 DEF vars, WantedIsListed, Live, Parks
<1> QED
  BY <1>1, <1>2, <1>3, <1>4, <1>5, <1>6, <1>7, <1>8, <1>9, <1>10, <1>11, <1>12, <1>13,
     <1>14, <1>15 DEF Next, Continue

-----------------------------------------------------------------------------
(* The theorems                                                            *)

LEMMA InductiveInvariant == Spec => []IInv
<1>1. IInv /\ [Next]_vars => IInv'
  BY NextTypeOK, NextHandleInHand, NextNothingLiveInPanic, NextAttachedAccounted,
     NextWantedKeepsSource, NextWantedIsListed DEF IInv
<1> QED
  BY InitIInv, <1>1, PTL DEF Spec

\* The maps of the registry and the program counters keep their types.
THEOREM TypeCorrect == Spec => []TypeOK
<1>1. IInv => TypeOK
  BY DEF IInv
<1> QED
  BY <1>1, InductiveInvariant, PTL

\* However many goroutines add, resume, panic and recover at the same time,
\* the registry has no live torrent while panic mode is on.
THEOREM PanicEmptiesRegistry == Spec => []NothingLiveInPanic
<1>1. IInv => NothingLiveInPanic
  BY DEF IInv
<1> QED
  BY <1>1, InductiveInvariant, PTL

\* The client is connected only for torrents that some entry or some add in
\* flight can still drop, overwritten entries aside.
THEOREM EveryConnectionAccounted == Spec => []AttachedAccounted
<1>1. IInv => AttachedAccounted
  BY DEF IInv
<1> QED
  BY <1>1, InductiveInvariant, PTL

\* No operation forgets the source of a torrent the user still wants.
THEOREM WantedNeverForgotten == Spec => []WantedKeepsSource
<1>1. IInv => WantedKeepsSource
  BY DEF IInv
<1> QED
  BY <1>1, InductiveInvariant, PTL

\* No interleaving makes a torrent the user wants fall out of the list, but for
\* a re-add that takes a newer paused row away.
THEOREM WantedNeverVanishes == Spec => []WantedIsListed
<1>1. IInv => WantedIsListed
  BY DEF IInv
<1> QED
  BY <1>1, InductiveInvariant, PTL

\* The registry implements the abstract gate of panic mode.
THEOREM RegistryImplementsGate == Spec => ImplementsGate
<1>1. Init => RegistryGate!Init
  BY DEF Init, Live, RegistryGate!Init
<1>2. IInv /\ [Next]_vars => [RegistryGate!Next]_RegistryGate!vars
  BY GateStep DEF IInv, RegistryGate!Next, RegistryGate!Start, RegistryGate!Stop,
                  RegistryGate!Engage, RegistryGate!Release, RegistryGate!vars
<1> QED
  BY <1>1, <1>2, InductiveInvariant, PTL DEF Spec, ImplementsGate, RegistryGate!Spec

=============================================================================
