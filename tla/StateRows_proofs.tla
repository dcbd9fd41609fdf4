------------------------- MODULE StateRows_proofs ---------------------------
(***************************************************************************)
(* The store under any number of goroutines that save at once, and the row *)
(* that five of them read and write.                                       *)
(*                                                                         *)
(* The store rests on a debt that is always owed by somebody: as long as   *)
(* state.json is behind the table, some goroutine has yet to open, write   *)
(* or rename a file that leads there (Owes).  The debt survives a Save     *)
(* losing its temporary file to another's rename, because the inode it is  *)
(* writing has then become state.json.                                     *)
(*                                                                         *)
(* The row rests on what is still on its way to it (RowInv): the last of   *)
(* the pause and the resume that the event channel holds, else the one the *)
(* event loop is about to write, else the row itself, says what the        *)
(* manager says; and the row of a download the manager has forgotten is    *)
(* gone or says delivered, unless a DELETE over HTTP or a failed restore   *)
(* has left it.  A recovery writes its row while the user goes on, so that *)
(* row has an invariant of its own (InTheRecovery).                        *)
(***************************************************************************)
EXTENDS StateRows, TLAPS

\* w will yet bring state.json up to date.
Owes(w) ==
  \/ pc[w] = "save"
  \/ pc[w] = "open" /\ fd[w] \in {"tmp", "file"}
  \/ pc[w] = "written" /\ fd[w] = "tmp"

\* What is marshalled is the table: nobody changes it under the read lock.
BuffersCurrent == \A w \in Saving : buf[w] = rows

\* A goroutine writes a temporary file only while there is one.
TmpIsThere == \A w \in Writers : fd[w] = "tmp" => tmp.kind # "missing"

\* The temporary file holds nothing but the table while anyone is saving.
TmpCurrent == Saving # {} => tmp \in {Missing, Torn, Whole(rows)}

\* A temporary file cut short is being written.
TornIsOpen ==
  Saving # {} /\ tmp = Torn /\ ~failed =>
    \E w \in Writers : pc[w] = "open" /\ fd[w] = "tmp"

DebtOwed == ~failed => Load = rows \/ \E w \in Writers : Owes(w)

DurableInv ==
  /\ StoreTypeOK
  /\ BuffersCurrent
  /\ TmpIsThere
  /\ TmpCurrent
  /\ TornIsOpen
  /\ DebtOwed

\* Without an overlap there is one Save, and the file it writes is its own.
AloneInv ==
  ~overlapped =>
    /\ \A u, w \in Saving : u = w
    /\ \A w \in Saving : fd[w] = "tmp"
    /\ \A w \in Writers : pc[w] = "written" => tmp.kind = "whole"
    /\ file.kind # "torn"

\* A step of the store keeps the types.
LEMMA StoreTypesStep == StoreTypeOK /\ [StoreNext]_storeVars => StoreTypeOK'
<1> SUFFICES ASSUME StoreTypeOK, [StoreNext]_storeVars PROVE StoreTypeOK'
  OBVIOUS
<1>1. ASSUME NEW w \in Writers, NEW t \in Tables, Set(w, t) PROVE StoreTypeOK'
  BY <1>1 DEF StoreTypeOK, Set
<1>2. ASSUME NEW w \in Writers, Open(w) PROVE StoreTypeOK'
  BY <1>2 DEF StoreTypeOK, Open, Target, Files
<1>3. ASSUME NEW w \in Writers, Write(w) PROVE StoreTypeOK'
  <2>1. Whole(buf[w]) \in Files
    BY DEF StoreTypeOK, Files
  <2> QED BY <1>3, <2>1 DEF StoreTypeOK, Write
<1>4. ASSUME NEW w \in Writers, WriteFails(w) PROVE StoreTypeOK'
  BY <1>4, EmptyTable DEF StoreTypeOK, WriteFails
<1>5. ASSUME NEW w \in Writers, Rename(w) PROVE StoreTypeOK'
  BY <1>5, EmptyTable DEF StoreTypeOK, Rename, Moved, Files
<1>6. ASSUME Restart PROVE StoreTypeOK'
  <2>1. Load \in Tables
    BY EmptyTable DEF StoreTypeOK, Load, Files, Missing, Torn, Whole
  <2> QED BY <1>6, <2>1, EmptyTable DEF StoreTypeOK, Restart
<1>7. CASE UNCHANGED storeVars
  BY <1>7 DEF StoreTypeOK, storeVars
<1> QED BY <1>1, <1>2, <1>3, <1>4, <1>5, <1>6, <1>7 DEF StoreNext, SaveStep

(* The variables of the store keep their types (Set, Delete, Save, Load).  *)
THEOREM StoreTypes == StoreSpec => []StoreTypeOK
<1>1. StoreInit => StoreTypeOK
  BY EmptyTable DEF StoreInit, StoreTypeOK, Files, Missing
<1> QED BY <1>1, StoreTypesStep, PTL DEF StoreSpec

\* At the start the file is the table that was loaded.
LEMMA DurableInit == StoreInit => DurableInv
<1> SUFFICES ASSUME StoreInit PROVE DurableInv
  OBVIOUS
<1>1. StoreTypeOK
  BY EmptyTable DEF StoreInit, StoreTypeOK, Files, Missing
<1>2. Saving = {} /\ Load = rows
  BY DEF StoreInit, Saving, Load, Missing
<1> QED BY <1>1, <1>2 DEF StoreInit, DurableInv, BuffersCurrent, TmpIsThere, TmpCurrent,
                          TornIsOpen, DebtOwed

\* Whoever changes the table owes a Save.
LEMMA SetDurable ==
  ASSUME NEW w \in Writers, NEW t \in Tables, DurableInv, Set(w, t), StoreTypeOK'
  PROVE  DurableInv'
<1> USE DEF DurableInv, StoreTypeOK, Set
<1>1. Saving' = {}
  BY DEF Saving, LockFree
<1>2. Owes(w)'
  BY DEF Owes
<1>3. TmpIsThere'
  BY DEF TmpIsThere
<1> QED BY <1>1, <1>2, <1>3 DEF BuffersCurrent, TmpCurrent, TornIsOpen, DebtOwed

\* A Save that opens the temporary file takes the table as it is.
LEMMA OpenDurable ==
  ASSUME NEW w \in Writers, DurableInv, Open(w), StoreTypeOK'
  PROVE  DurableInv'
<1> USE DEF DurableInv, StoreTypeOK, Open, Target
<1>1. BuffersCurrent'
  BY DEF BuffersCurrent, Saving
<1>2. tmp' = Torn /\ TmpIsThere'
  BY DEF TmpIsThere, Torn
<1>3. pc'[w] = "open" /\ fd'[w] = "tmp"
  OBVIOUS
<1>4. Owes(w)'
  BY <1>3 DEF Owes
<1>5. TmpCurrent'
  <2>1. Torn' = Torn
    BY DEF Torn
  <2> QED BY <1>2, <2>1 DEF TmpCurrent
<1> QED BY <1>1, <1>2, <1>3, <1>4, <1>5 DEF TornIsOpen, DebtOwed

\* What is written is what was marshalled.
LEMMA WriteDurable ==
  ASSUME NEW w \in Writers, DurableInv, Write(w), StoreTypeOK'
  PROVE  DurableInv'
<1> USE DEF DurableInv, StoreTypeOK, Write
<1>1. buf[w] = rows /\ w \in Saving
  BY DEF BuffersCurrent, Saving
<1>2. BuffersCurrent'
  BY DEF BuffersCurrent, Saving
<1>3. TmpIsThere'
  BY DEF TmpIsThere, Whole
<1>4. TmpCurrent'
  BY <1>1 DEF TmpCurrent, Missing, Torn, Whole
<1>5. TornIsOpen'
  BY <1>1 DEF TornIsOpen, Torn, Whole
<1>6. DebtOwed'
  <2> SUFFICES ASSUME ~failed PROVE Load' = rows' \/ \E u \in Writers : Owes(u)'
    BY DEF DebtOwed
  <2>1. CASE fd[w] = "tmp"
    BY <2>1 DEF Owes
  <2>2. CASE fd[w] = "file"
    BY <2>2, <1>1 DEF Load, Whole
  <2>3. CASE fd[w] = "gone"
    <3>1. CASE Load = rows
      BY <3>1, <2>3 DEF Load
    <3>2. CASE \E u \in Writers : Owes(u)
      <4>1. PICK u \in Writers : Owes(u)
        BY <3>2
      <4>2. u # w
        BY <4>1, <2>3 DEF Owes
      <4> QED BY <4>1, <4>2 DEF Owes
    <3> QED BY <3>1, <3>2 DEF DebtOwed
  <2> QED BY <2>1, <2>2, <2>3
<1> QED BY <1>2, <1>3, <1>4, <1>5, <1>6

\* A failure is remembered.
LEMMA WriteFailsDurable ==
  ASSUME NEW w \in Writers, DurableInv, WriteFails(w), StoreTypeOK'
  PROVE  DurableInv'
<1> USE DEF DurableInv, StoreTypeOK, WriteFails
<1>1. Saving' \subseteq Saving /\ w \notin Saving'
  BY DEF Saving
<1>2. BuffersCurrent'
  BY <1>1 DEF BuffersCurrent, Saving
<1>3. TmpIsThere'
  BY DEF TmpIsThere
<1>4. TmpCurrent'
  BY <1>1 DEF TmpCurrent, Missing, Torn, Whole
<1> QED BY <1>2, <1>3, <1>4 DEF TornIsOpen, DebtOwed

\* The renamed file is the table, or somebody still owes a Save.
LEMMA RenameDurable ==
  ASSUME NEW w \in Writers, DurableInv, Rename(w), StoreTypeOK'
  PROVE  DurableInv'
<1> USE DEF DurableInv, StoreTypeOK, Rename
<1>1. Saving' \subseteq Saving /\ w \in Saving
  BY DEF Saving
<1>2. BuffersCurrent'
  BY <1>1 DEF BuffersCurrent, Saving
<1>3. \A u \in Writers : fd'[u] # "tmp"
  BY DEF TmpIsThere, Moved
<1>4. TmpIsThere' /\ TmpCurrent' /\ TornIsOpen'
  <2>1. tmp' = Missing /\ Missing' = Missing /\ Torn' = Torn /\ Missing # Torn
    BY DEF Missing, Torn
  <2> QED BY <2>1, <1>3 DEF TmpIsThere, TmpCurrent, TornIsOpen
<1>5. DebtOwed'
  <2> SUFFICES ASSUME ~failed PROVE Load' = rows' \/ \E u \in Writers : Owes(u)'
    BY DEF DebtOwed
  <2>1. CASE tmp.kind = "missing"
    <3>1. CASE Load = rows
      BY <3>1, <2>1 DEF Load
    <3>2. CASE \E u \in Writers : Owes(u)
      <4>1. PICK u \in Writers : Owes(u)
        BY <3>2
      <4>2. fd[u] # "tmp" /\ u # w
        BY <4>1, <2>1 DEF TmpIsThere, Owes
      <4> QED BY <4>1, <4>2, <2>1 DEF Owes
    <3> QED BY <3>1, <3>2 DEF DebtOwed
  <2>2. CASE tmp = Torn
    <3>1. PICK u \in Writers : pc[u] = "open" /\ fd[u] = "tmp"
      BY <2>2, <1>1 DEF TornIsOpen
    <3>2. tmp.kind # "missing" /\ u # w
      BY <2>2, <3>1 DEF Torn
    <3>3. pc'[u] = "open" /\ fd'[u] = "file"
      BY <3>1, <3>2 DEF Moved
    <3> QED BY <3>3 DEF Owes
  <2>3. CASE tmp = Whole(rows)
    BY <2>3 DEF Load, Whole
  <2> QED BY <2>1, <2>2, <2>3, <1>1 DEF TmpCurrent, Missing
<1> QED BY <1>2, <1>4, <1>5

\* A restart loads what the file holds.
LEMMA RestartDurable == ASSUME DurableInv, Restart, StoreTypeOK' PROVE DurableInv'
<1> USE DEF DurableInv, StoreTypeOK, Restart
<1>1. Saving' = {}
  BY DEF Saving
<1>2. TmpIsThere'
  BY DEF TmpIsThere
<1>3. Load' = rows'
  BY DEF Load
<1> QED BY <1>1, <1>2, <1>3 DEF BuffersCurrent, TmpCurrent, TornIsOpen, DebtOwed

\* The invariant is inductive.
LEMMA DurableStep == DurableInv /\ StoreTypeOK' /\ [StoreNext]_storeVars => DurableInv'
<1> SUFFICES ASSUME DurableInv, StoreTypeOK', [StoreNext]_storeVars PROVE DurableInv'
  OBVIOUS
<1>1. ASSUME UNCHANGED storeVars PROVE DurableInv'
  <2> USE <1>1 DEF storeVars
  <2>1. Saving' = Saving /\ Load' = Load
    BY DEF Saving, Load
  <2>2. \A w \in Writers : Owes(w)' = Owes(w)
    BY DEF Owes
  <2>3. BuffersCurrent' /\ TmpIsThere'
    BY <2>1 DEF DurableInv, BuffersCurrent, TmpIsThere
  <2>4. TmpCurrent'
    BY <2>1 DEF DurableInv, TmpCurrent, Missing, Torn, Whole
  <2>5. TornIsOpen'
    BY <2>1 DEF DurableInv, TornIsOpen, Torn
  <2>6. DebtOwed'
    BY <2>1, <2>2 DEF DurableInv, DebtOwed
  <2> QED BY <2>3, <2>4, <2>5, <2>6 DEF DurableInv
<1> QED BY <1>1, SetDurable, OpenDurable, WriteDurable, WriteFailsDurable, RenameDurable,
           RestartDurable DEF StoreNext, SaveStep

(* Once every Save has returned and none failed, a start of the program    *)
(* would read back the table, however the Saves overlapped (Save of        *)
(* store.go, under its read lock).                                         *)
THEOREM Durability == StoreSpec => []QuietIsDurable
<1>1. DurableInv => QuietIsDurable
  BY DEF DurableInv, DebtOwed, QuietIsDurable, Owes
<1> QED BY <1>1, DurableInit, DurableStep, StoreTypes, PTL DEF StoreSpec

(* A kill leaves state.json complete unless two Saves have overlapped      *)
(* (the write of a temporary file and its rename in Save of store.go).     *)
THEOREM NeverTornAlone == StoreSpec => []WholeOnDisk
<1>1. StoreInit => AloneInv
  BY DEF StoreInit, AloneInv, Saving, Missing
<1>2. AloneInv /\ StoreTypeOK /\ [StoreNext]_storeVars => AloneInv'
  <2> SUFFICES ASSUME AloneInv, StoreTypeOK, [StoreNext]_storeVars, ~overlapped' PROVE AloneInv'
    BY DEF AloneInv
  <2> USE DEF AloneInv, StoreTypeOK, Saving
  <2>1. ASSUME NEW w \in Writers, NEW t \in Tables, Set(w, t) PROVE AloneInv'
    BY <2>1 DEF Set, LockFree
  <2>2. ASSUME NEW w \in Writers, Open(w) PROVE AloneInv'
    BY <2>2 DEF Open, Target
  <2>3. ASSUME NEW w \in Writers, Write(w) PROVE AloneInv'
    BY <2>3 DEF Write, Whole
  <2>4. ASSUME NEW w \in Writers, WriteFails(w) PROVE AloneInv'
    BY <2>4 DEF WriteFails
  <2>5. ASSUME NEW w \in Writers, Rename(w) PROVE AloneInv'
    BY <2>5 DEF Rename, Moved
  <2>6. ASSUME Restart PROVE AloneInv'
    BY <2>6 DEF Restart
  <2>7. CASE UNCHANGED storeVars
    BY <2>7 DEF storeVars
  <2> QED BY <2>1, <2>2, <2>3, <2>4, <2>5, <2>6, <2>7 DEF StoreNext, SaveStep
<1>3. AloneInv => WholeOnDisk
  BY DEF AloneInv, WholeOnDisk
<1> QED BY <1>1, <1>2, <1>3, StoreTypes, PTL DEF StoreSpec

-----------------------------------------------------------------------------
(* The row                                                                 *)

RowsTyped ==
  /\ registered \in {"absent", "live", "parked", "held"}
  /\ sourced \in BOOLEAN /\ panicked \in BOOLEAN
  /\ chosen \in Choices
  /\ applied \in BOOLEAN
  /\ queue \in Seq({"paused", "resumed"})
  /\ job \in [Writers -> {"idle", "choose", "set", "setFiles", "setThenEmit",
                          "setThenDrop", "emit", "drop", "park", "readd"}]
  /\ row \in [Writers -> Row]
  /\ stale \in [Writers -> BOOLEAN]
  /\ boot \in BOOLEAN
  /\ missed \in BOOLEAN /\ crossed \in BOOLEAN /\ broken \in BOOLEAN

\* The rows that are written are rows.
LEMMA RowsAreRows ==
  /\ Absent \in Row /\ Added \in Row /\ Delivered \in Row
  /\ \A r \in Row, f \in Choices : [r EXCEPT !.files = f] \in Row
  /\ \A r \in Row, b \in BOOLEAN : [r EXCEPT !.paused = b] \in Row
BY DEF Row, Absent, Added, Delivered, Choices

\* An event goes to the end of the channel, or is lost.
LEMMA EmitTyped ==
  ASSUME RowsTyped, NEW e \in {"paused", "resumed"}, Emit(e)
  PROVE  queue' \in Seq({"paused", "resumed"}) /\ missed' \in BOOLEAN
<1>1. Append(queue, e) \in Seq({"paused", "resumed"})
  BY DEF RowsTyped
<1>2. (queue' = Append(queue, e) /\ missed' = missed) \/ (missed' = TRUE /\ queue' = queue)
  BY Zenon DEF Emit
<1> QED BY <1>1, <1>2 DEF RowsTyped

\* A step of the program is a step of the store, or leaves it alone.
LEMMA StepOfTheStore == RowsTyped /\ [Next]_vars => [StoreNext]_storeVars
<1> SUFFICES ASSUME RowsTyped, [Next]_vars PROVE [StoreNext]_storeVars
  OBVIOUS
<1>1. ASSUME NEW w \in Writers, SetRow(w) PROVE StoreNext
  <2>1. row[w] \in Tables
    BY StoreOfOneRow DEF RowsTyped
  <2> QED BY <1>1, <2>1 DEF SetRow, StoreNext
<1>2. CASE Saves
  BY <1>2 DEF Saves, StoreNext
<1>3. CASE Start
  BY <1>3 DEF Start, StoreNext
<1>4. CASE Add \/ Pause \/ Resume
  BY <1>4 DEF Add, Pause, Resume
<1>5. CASE EmitResumed \/ Delete \/ Metadata \/ OnEvent
  BY <1>5 DEF EmitResumed, Delete, Metadata, OnEvent
<1>6. CASE Pass \/ DropCompleted \/ RePark
  BY <1>6 DEF Pass, DropCompleted, RePark
<1>7. ASSUME NEW f \in Choices, Choose(f) PROVE UNCHANGED storeVars
  BY <1>7 DEF Choose
<1>8. ASSUME NEW w \in {"ui", "info"}, OnSelect(w) PROVE UNCHANGED storeVars
  BY <1>8 DEF OnSelect
<1>9. CASE UNCHANGED vars
  BY <1>9 DEF vars
<1>10. CASE PauseHeld \/ DeleteOverHTTP \/ PanicAll
  BY <1>10 DEF PauseHeld, DeleteOverHTTP, PanicAll
<1>11. CASE ResumeAll \/ ReAdd \/ ReAddFails
  BY <1>11 DEF ResumeAll, ReAdd, ReAddFails
<1> QED BY <1>1, <1>2, <1>3, <1>4, <1>5, <1>6, <1>7, <1>8, <1>9, <1>10, <1>11 DEF Next

\* The row, the manager's record and the writers keep their types.
LEMMA RowsTypedStep ==
  StoreTypeOK /\ RowsTyped /\ [Next]_vars => RowsTyped'
<1> SUFFICES ASSUME StoreTypeOK, RowsTyped, [Next]_vars PROVE RowsTyped'
  OBVIOUS
<1> USE FiveWriters, RowsAreRows
<1>1. rows \in Row
  BY StoreOfOneRow DEF StoreTypeOK
<1>2. CASE Add
  BY <1>2 DEF Add, Register, AddingElse, Prepare, RowsTyped, Choices
<1>3. CASE Pause
  <2>1. queue' \in Seq({"paused", "resumed"}) /\ missed' \in BOOLEAN
    BY <1>3, EmitTyped DEF Pause
  <2> QED BY <1>3, <2>1 DEF Pause, RowsTyped, handler
<1>4. CASE Resume
  BY <1>4 DEF Resume, Register, AddingElse, Prepare, RowsTyped
<1>5. CASE EmitResumed
  <2>1. queue' \in Seq({"paused", "resumed"}) /\ missed' \in BOOLEAN
    BY <1>5, EmitTyped DEF EmitResumed
  <2> QED BY <1>5, <2>1 DEF EmitResumed, RowsTyped, manager
<1>6. ASSUME NEW f \in Choices, Choose(f) PROVE RowsTyped'
  <2>1. [row["ui"] EXCEPT !.files = f] \in Row
    BY DEF RowsTyped
  <2>2. row' \in [Writers -> Row]
    BY <1>6, <2>1 DEF Choose, RowsTyped
  <2> QED BY <1>6, <2>2 DEF Choose, RowsTyped
<1>7. CASE Delete
  BY <1>7 DEF Delete, Cancel, AddingElse, Prepare, RowsTyped
<1>8. CASE Metadata
  <2>1. [row["info"] EXCEPT !.files = chosen] \in Row
    BY DEF RowsTyped
  <2>2. row' \in [Writers -> Row]
    BY <1>8, <2>1 DEF Metadata, RowsTyped
  <2> QED BY <1>8, <2>2 DEF Metadata, RowsTyped
<1>9. ASSUME NEW w \in {"ui", "info"}, OnSelect(w) PROVE RowsTyped'
  <2>1. row[w].files \in Choices
    BY DEF RowsTyped, Row
  <2>2. [rows EXCEPT !.files = row[w].files] \in Row
    BY <1>1, <2>1
  <2> QED BY <1>9, <2>2 DEF OnSelect, Prepare, RowsTyped, manager
<1>10. CASE OnEvent
  <2>1. PausedBy(Head(queue)) \in BOOLEAN
    BY DEF PausedBy
  <2>2. [rows EXCEPT !.paused = PausedBy(Head(queue))] \in Row
    BY <1>1, <2>1
  <2>3. queue' \in Seq({"paused", "resumed"})
    BY <1>10 DEF OnEvent, RowsTyped
  <2> QED BY <1>10, <2>2, <2>3 DEF OnEvent, Prepare, RowsTyped, manager
<1>11. CASE Pass
  BY <1>11 DEF Pass, Prepare, RowsTyped, manager
<1>12. CASE DropCompleted
  BY <1>12 DEF DropCompleted, RowsTyped
<1>13. ASSUME NEW w \in Writers, SetRow(w) PROVE RowsTyped'
  <2>1. AfterSet(w) \in {"emit", "drop", "park", "idle"}
    BY DEF AfterSet
  <2> QED BY <1>13, <2>1 DEF SetRow, RowsTyped, manager
<1>14. CASE Saves
  BY <1>14 DEF Saves, rowVars, RowsTyped
<1>15. CASE Start
  <2>1. Load \in Row
    BY StoreOfOneRow, EmptyTable DEF StoreTypeOK, Load, Files, Missing, Torn, Whole
  <2>2. Load.files \in Choices /\ Load.paused \in BOOLEAN
    BY <2>1 DEF Row
  <2>3. /\ boot' \in BOOLEAN /\ broken' \in BOOLEAN
        /\ sourced' \in BOOLEAN /\ panicked' \in BOOLEAN
    BY <1>15 DEF Start
  <2>4. registered' \in {"absent", "live", "parked", "held"} /\ queue' \in Seq({"paused", "resumed"})
    BY <1>15 DEF Start
  <2> QED BY <1>15, <2>2, <2>3, <2>4 DEF Start, RowsTyped
<1>16. CASE RePark
  <2>1. queue' \in Seq({"paused", "resumed"}) /\ missed' \in BOOLEAN
    BY <1>16, EmitTyped DEF RePark, RowsTyped
  <2> QED BY <1>16, <2>1 DEF RePark, RowsTyped
<1>17. CASE UNCHANGED vars
  BY <1>17 DEF vars, rowVars, RowsTyped
<1>18. CASE PauseHeld
  BY <1>18 DEF PauseHeld, manager, handler, RowsTyped
<1>19. CASE DeleteOverHTTP
  BY <1>19 DEF DeleteOverHTTP, Cancel, handler, RowsTyped
<1>20. CASE PanicAll
  BY <1>20 DEF PanicAll, handler, RowsTyped
<1>21. CASE ResumeAll
  <2>1. [row["monitor"] EXCEPT !.files = chosen] \in Row
    BY DEF RowsTyped
  <2>2. row' \in [Writers -> Row]
    BY <1>21, <2>1 DEF ResumeAll, RowsTyped
  <2> QED BY <1>21, <2>2 DEF ResumeAll, RowsTyped
<1>22. CASE ReAdd
  <2>1. row["monitor"].files \in Choices
    BY DEF RowsTyped, Row
  <2> QED BY <1>22, <2>1 DEF ReAdd, Register, Prepare, AddingElse, RowsTyped
<1>23. CASE ReAddFails
  BY <1>23 DEF ReAddFails, manager, RowsTyped
<1> QED BY <1>18, <1>19, <1>20, <1>21, <1>22, <1>23, <1>2, <1>3, <1>4, <1>5, <1>6, <1>7, <1>8,
   <1>9, <1>10, <1>11, <1>12, <1>13, <1>14,
           <1>15, <1>16, <1>17 DEF Next

(* The row, the manager's record of the download, the event channel and    *)
(* what each writer is about to Set keep their types, next to the store    *)
(* (the callbacks and the event loop of main.go over store.go).            *)
THEOREM RowsTypeCorrect == Spec => [](StoreTypeOK /\ RowsTyped)
<1>1. Init => StoreTypeOK /\ RowsTyped
  <2> SUFFICES ASSUME Init PROVE StoreTypeOK /\ RowsTyped
    OBVIOUS
  <2>1. StoreTypeOK
    BY EmptyTable DEF Init, StoreInit, StoreTypeOK, Files, Missing
  <2>2. <<>> \in Seq({"paused", "resumed"})
    OBVIOUS
  <2> QED BY <2>1, <2>2, RowsAreRows DEF Init, RowsTyped, Choices
<1> QED BY <1>1, StepOfTheStore, RowsTypedStep, StoreTypesStep, PTL DEF Spec

(* What the program does with the row is what the store promises: every    *)
(* step is a Set, a step of a Save, a restart, or leaves the store alone   *)
(* (the callers of Set and Delete in main.go).                             *)
THEOREM RowsUseTheStore == Spec => StoreSpec
<1>1. Init => StoreInit
  BY DEF Init
<1> QED BY <1>1, RowsTypeCorrect, StepOfTheStore, PTL DEF Spec, StoreSpec

-----------------------------------------------------------------------------
(* What is on its way to the row                                           *)

\* Nothing has been lost and nothing undone.
Clean == ~missed /\ ~crossed

Adding == job["ui"] \in {"set", "setThenEmit"}

\* A recovery has added the download, and is about to write its row.
Readding == job["monitor"] = "set"

\* The manager has the download, and its row has been written.
Known == registered # "absent" /\ ~Adding /\ ~Readding

Parked == registered = "parked"

HasRow     == rows.here
SaysDone   == rows.done
SaysPaused == rows.paused
WillSay    == row["events"].paused

\* The event that was queued last.
Latest == queue[Len(queue)]

\* w is about to Set a row that is still the one it read.
Pending(w) == job[w] \in Setting /\ ~stale[w]

\* What each writer may be about to do.
Roles ==
  /\ job["ui"] \in {"idle", "set", "setThenEmit", "emit", "choose", "setFiles", "park"}
  /\ job["monitor"] \in {"idle", "readd", "set"}
  /\ job["info"] \in {"idle", "choose", "setFiles"}
  /\ job["events"] \in {"idle", "set"}
  /\ job["pass"] \in {"idle", "setThenDrop", "drop"}
  /\ \A w \in Writers \ {"ui", "monitor", "info", "events", "pass"} : job[w] = "idle"

\* The restored download is live until main parks it again.
Booting ==
  /\ boot => job["ui"] \in {"set", "park"} /\ ~Parked
  /\ job["ui"] = "park" => boot

\* What is written for an add, a deletion and a delivery.
InTheUI ==
  /\ job["ui"] = "set" => row["ui"] = IF registered = "absent" THEN Absent ELSE Added
  /\ job["ui"] = "setThenEmit" => registered # "absent" /\ row["ui"] = Added
InThePass == job["pass"] = "setThenDrop" => row["pass"] = Delivered

\* The event loop and the choice of files each change their own field only.
KeepsDelivery(w) == (row[w].here <=> HasRow) /\ (row[w].done <=> SaysDone)
InTheLoop ==
  Pending("events") => KeepsDelivery("events") /\ row["events"].files = rows.files
InTheChoice ==
  \A w \in {"ui", "info"} : job[w] = "setFiles" /\ Pending(w) =>
    KeepsDelivery(w) /\ (row[w].paused <=> SaysPaused)

\* Nothing else happens to a download before its row is written.
JustAdded ==
  Adding /\ registered # "absent" =>
    /\ ~Parked /\ (registered = "live" => ~applied)
    /\ job["pass"] = "idle"
    /\ job["ui"] = "set" => queue = <<>>

Emitting == job["ui"] = "emit" => ~Parked

\* The row a recovery is about to write is not out of date.
ReaddingInTime ==
  /\ job["pass"] # "drop"
  /\ registered = "absent" => wish = "left"
  /\ registered # "absent" /\ job["ui"] # "emit" /\ queue # <<>> => (Latest = "paused" <=> Parked)
  /\ queue = <<>> /\ job["events"] = "idle" => ~Parked
  /\ registered = "live" /\ applied =>
       \E w \in {"ui", "info"} : job[w] \in {"choose", "setFiles"}

\* A recovery is alone in adding, unless it overtakes or is overtaken.
InTheRecovery ==
  Readding => row["monitor"] = Added /\ ~Adding /\ (Pending("monitor") => ReaddingInTime)

\* What the manager has can be added again, and what a panic holds will be.
Sourced == registered # "absent" => sourced
Holding ==
  wish = "run" /\ registered = "held" => panicked \/ job["monitor"] = "readd"

GivenUp == wish \in {"left", "lost"}

\* There is a row for what the manager has, and it says delivered only when
\* the pass is about to drop it; one that is left without it is history, or
\* has been left behind.
Recorded ==
  /\ Known => HasRow /\ (SaysDone => job["pass"] = "drop")
  /\ registered = "live" /\ job["pass"] = "drop" => SaysDone
  /\ registered = "absent" /\ job["ui"] # "set" => GivenUp \/ ~HasRow \/ SaysDone

\* The last word on the pause is the manager's.
Announced ==
  Known /\ job["ui"] # "emit" =>
    /\ queue # <<>> => (Latest = "paused" <=> Parked)
    /\ queue = <<>> /\ Pending("events") => (WillSay <=> Parked)
    /\ queue = <<>> /\ job["events"] = "idle" => (SaysPaused <=> Parked)

\* The choice is in the row, or on its way there.
Followed ==
  Known /\ registered = "live" /\ applied =>
    \/ \E w \in {"ui", "info"} : job[w] \in {"choose", "setFiles"}
    \/ job["pass"] = "drop"
    \/ rows.files = chosen

\* What the manager has is what the user asked for.
Wished ==
  ~broken /\ ~GivenUp =>
    wish = IF registered = "absent" THEN "none"
           ELSE IF boot \/ Parked THEN "park" ELSE "run"

InHand == InTheUI /\ InThePass /\ InTheLoop /\ InTheChoice

RowInv ==
  /\ Roles
  /\ Booting
  /\ Sourced /\ Holding
  /\ Clean => /\ InHand /\ JustAdded /\ Emitting /\ InTheRecovery
              /\ Recorded /\ Announced /\ Followed /\ Wished

-----------------------------------------------------------------------------
(* What a step does to each part                                           *)

\* An event that is not lost is the latest.
LEMMA EmitKept ==
  ASSUME RowsTyped, NEW e \in {"paused", "resumed"}, Emit(e), Clean'
  PROVE  ~missed /\ queue' # <<>> /\ Latest' = e
<1>1. queue' = Append(queue, e) /\ missed' = missed
  BY Zenon DEF Emit, Clean
<1>2. Append(queue, e) # <<>> /\ Append(queue, e)[Len(Append(queue, e))] = e
  BY DEF RowsTyped
<1> QED BY <1>1, <1>2 DEF Clean, Latest

\* Taking an event off the channel leaves the latest there, or takes it.
LEMMA LatestStays ==
  ASSUME RowsTyped, queue # <<>>, queue' = Tail(queue)
  PROVE  /\ queue' = <<>> => Head(queue) = Latest
         /\ queue' # <<>> => Latest' = Latest
<1>1. Len(queue') = Len(queue) - 1 /\ Len(queue) \in Nat /\ Len(queue) # 0
  BY DEF RowsTyped
<1>2. CASE queue' = <<>>
  BY <1>1, <1>2 DEF Latest
<1>3. CASE queue' # <<>>
  <2>1. Len(queue') \in 1 .. Len(queue')
    BY <1>1, <1>3 DEF RowsTyped
  <2>2. queue'[Len(queue')] = queue[Len(queue') + 1]
    BY <2>1 DEF RowsTyped
  <2> QED BY <1>1, <1>3, <2>2 DEF Latest
<1> QED BY <1>2, <1>3

\* What an excuse was, it remains.
LEMMA CleanBefore == ASSUME RowsTyped, [Next]_vars, Clean' PROVE Clean
<1> USE DEF Clean
<1>1. CASE Add
  BY <1>1 DEF Add, Register
<1>2. CASE Resume
  BY <1>2 DEF Resume, Register
<1>3. CASE Pause
  BY <1>3, EmitKept DEF Pause
<1>4. CASE EmitResumed
  BY <1>4, EmitKept DEF EmitResumed
<1>5. CASE RePark
  BY <1>5, EmitKept DEF RePark
<1>6. CASE Delete
  BY <1>6 DEF Delete
<1>7. CASE Metadata
  BY <1>7 DEF Metadata
<1>8. CASE OnEvent
  BY <1>8 DEF OnEvent
<1>9. CASE Pass
  BY <1>9 DEF Pass
<1>10. CASE DropCompleted
  BY <1>10 DEF DropCompleted
<1>11. CASE Start
  BY <1>11 DEF Start
<1>12. CASE Saves
  BY <1>12 DEF Saves, rowVars
<1>13. ASSUME NEW w \in Writers, SetRow(w) PROVE Clean
  BY <1>13 DEF SetRow
<1>14. ASSUME NEW f \in Choices, Choose(f) PROVE Clean
  BY <1>14 DEF Choose
<1>15. ASSUME NEW w \in {"ui", "info"}, OnSelect(w) PROVE Clean
  BY <1>15 DEF OnSelect
<1>16. CASE UNCHANGED vars
  BY <1>16 DEF vars, rowVars
<1>17. ASSUME PauseHeld PROVE Clean
  BY <1>17 DEF PauseHeld, manager, handler, Free, Clean
<1>18. ASSUME DeleteOverHTTP PROVE Clean
  BY <1>18 DEF DeleteOverHTTP, Cancel, handler, Free, Clean
<1>19. ASSUME PanicAll PROVE Clean
  BY <1>19 DEF PanicAll, handler, Clean
<1>20. ASSUME ResumeAll PROVE Clean
  BY <1>20 DEF ResumeAll, Free, Clean
<1>21. ASSUME ReAdd PROVE Clean
  BY <1>21 DEF ReAdd, Register, Prepare, AddingElse, Clean
<1>22. ASSUME ReAddFails PROVE Clean
  BY <1>22 DEF ReAddFails, manager, Clean
<1> QED BY <1>1, <1>2, <1>3, <1>4, <1>5, <1>6, <1>7, <1>8, <1>9, <1>10, <1>11, <1>12, <1>13,
   <1>14, <1>15, <1>16, <1>17, <1>18, <1>19, <1>20, <1>21, <1>22 DEF Next

\* A writer's own steps apart, a step leaves it alone or writes the row
\* under its hands.
Leaves(w) == /\ job'[w] = job[w] /\ row'[w] = row[w] /\ stale'[w] = stale[w]
             /\ rows' = rows
Overtakes(w) == /\ job'[w] = job[w] /\ row'[w] = row[w]
                /\ job[w] \in Setting => stale'[w]

Own(w) ==
  \/ SetRow(w) \/ Start
  \/ w = "ui" /\ (Add \/ Resume \/ EmitResumed \/ Delete \/ RePark)
  \/ w = "ui" /\ \E f \in Choices : Choose(f)
  \/ w \in {"ui", "info"} /\ OnSelect(w)
  \/ w = "monitor" /\ (ResumeAll \/ ReAdd \/ ReAddFails)
  \/ w = "info" /\ Metadata
  \/ w = "events" /\ OnEvent
  \/ w = "pass" /\ (Pass \/ DropCompleted)

\* What a step means to one writer.
LEMMA OwnStep ==
  ASSUME RowsTyped, [Next]_vars, NEW w \in Writers
  PROVE  Own(w) \/ Leaves(w) \/ Overtakes(w)
<1> USE FiveWriters DEF RowsTyped, Leaves
<1>1. CASE Pause \/ UNCHANGED vars
  BY <1>1 DEF Pause, vars, rowVars, storeVars, handler
<1>2. CASE Add \/ Resume
  BY <1>2 DEF Add, Resume, Register, Prepare, storeVars, Own
<1>3. CASE EmitResumed \/ Delete
  BY <1>3 DEF EmitResumed, Delete, Prepare, storeVars, Own
<1>4. CASE RePark \/ Metadata
  BY <1>4 DEF RePark, Metadata, storeVars, Own
<1>5. CASE OnEvent \/ Pass
  BY <1>5 DEF OnEvent, Pass, Prepare, storeVars, Own
<1>6. CASE DropCompleted \/ Start
  BY <1>6 DEF DropCompleted, storeVars, Own
<1>7. ASSUME NEW f \in Choices, Choose(f) PROVE Own(w) \/ Leaves(w)
  BY <1>7 DEF Choose, storeVars, Own
<1>8. ASSUME NEW u \in {"ui", "info"}, OnSelect(u) PROVE Own(w) \/ Leaves(w)
  BY <1>8 DEF OnSelect, Prepare, storeVars, Own
<1>9. ASSUME NEW u \in Writers, SetRow(u) PROVE Own(w) \/ Overtakes(w)
  BY <1>9 DEF SetRow, Own, Overtakes
<1>10. CASE Saves
  <2>1. rows' = rows
    BY <1>10 DEF Saves, SaveStep, Open, Write, WriteFails, Rename
  <2> QED BY <1>10, <2>1 DEF Saves, rowVars
<1>11. CASE PauseHeld \/ DeleteOverHTTP \/ PanicAll
  BY <1>11 DEF PauseHeld, DeleteOverHTTP, PanicAll, handler, storeVars
<1>12. CASE ResumeAll \/ ReAdd \/ ReAddFails
  BY <1>12 DEF ResumeAll, ReAdd, ReAddFails, Register, Prepare, storeVars, Own
<1> QED BY <1>1, <1>2, <1>3, <1>4, <1>5, <1>6, <1>7, <1>8, <1>9, <1>10, <1>11, <1>12 DEF Next

\* Every writer keeps to its own part.
LEMMA RolesStep ==
  ASSUME RowsTyped, Roles, [Next]_vars
  PROVE  Roles'
<1> USE FiveWriters DEF RowsTyped
<1>1. ASSUME Add PROVE Roles'
  BY <1>1 DEF Add, Register, AddingElse, Prepare, Free, Roles
<1>2. ASSUME Pause PROVE Roles'
  BY <1>2 DEF Pause, handler, Free, Roles
<1>3. ASSUME Resume PROVE Roles'
  BY <1>3 DEF Resume, Register, AddingElse, Prepare, Free, Roles
<1>4. ASSUME EmitResumed PROVE Roles'
  BY <1>4 DEF EmitResumed, manager, Roles
<1>5. ASSUME NEW f \in Choices, Choose(f) PROVE Roles'
  BY <1>5 DEF Choose, Free, Roles
<1>6. ASSUME Delete PROVE Roles'
  BY <1>6 DEF Delete, Cancel, AddingElse, Prepare, Free, Roles
<1>7. ASSUME Metadata PROVE Roles'
  BY <1>7 DEF Metadata, Free, Roles
<1>8. ASSUME NEW w \in {"ui", "info"}, OnSelect(w) PROVE Roles'
  BY <1>8 DEF OnSelect, Prepare, manager, Roles
<1>9. ASSUME OnEvent PROVE Roles'
  BY <1>9 DEF OnEvent, Prepare, manager, Free, Roles
<1>10. ASSUME Pass PROVE Roles'
  BY <1>10 DEF Pass, Prepare, manager, Free, Roles
<1>11. ASSUME DropCompleted PROVE Roles'
  BY <1>11 DEF DropCompleted, Roles
<1>12. ASSUME NEW w \in Writers, SetRow(w) PROVE Roles'
  BY <1>12 DEF SetRow, manager, AfterSet, Roles
<1>13. ASSUME Saves PROVE Roles'
  BY <1>13 DEF Saves, rowVars, Roles
<1>14. ASSUME Start PROVE Roles'
  BY <1>14 DEF Start, Roles
<1>15. ASSUME RePark PROVE Roles'
  BY <1>15 DEF RePark, Roles
<1>16. ASSUME UNCHANGED vars PROVE Roles'
  BY <1>16 DEF vars, rowVars, Roles
<1>17. ASSUME PauseHeld PROVE Roles'
  BY <1>17 DEF PauseHeld, manager, handler, Free, Roles
<1>18. ASSUME DeleteOverHTTP PROVE Roles'
  BY <1>18 DEF DeleteOverHTTP, Cancel, handler, Free, Roles
<1>19. ASSUME PanicAll PROVE Roles'
  BY <1>19 DEF PanicAll, handler, Roles
<1>20. ASSUME ResumeAll PROVE Roles'
  BY <1>20 DEF ResumeAll, Free, Roles
<1>21. ASSUME ReAdd PROVE Roles'
  BY <1>21 DEF ReAdd, Register, Prepare, AddingElse, Roles
<1>22. ASSUME ReAddFails PROVE Roles'
  BY <1>22 DEF ReAddFails, manager, Roles
<1> QED BY <1>1, <1>2, <1>3, <1>4, <1>5, <1>6, <1>7, <1>8, <1>9, <1>10, <1>11, <1>12, <1>13,
   <1>14, <1>15, <1>16, <1>17, <1>18, <1>19, <1>20, <1>21, <1>22 DEF Next

\* While main restores a download, nobody parks it.
LEMMA BootingStep ==
  ASSUME RowsTyped, Roles, Booting, [Next]_vars
  PROVE  Booting'
<1> USE FiveWriters DEF RowsTyped
<1>1. ASSUME Add PROVE Booting'
  BY <1>1 DEF Add, Register, AddingElse, Prepare, Free, Booting, Parked
<1>2. ASSUME Pause PROVE Booting'
  BY <1>2 DEF Pause, handler, Free, Booting, Parked
<1>3. ASSUME Resume PROVE Booting'
  BY <1>3 DEF Resume, Register, AddingElse, Prepare, Free, Booting, Parked
<1>4. ASSUME EmitResumed PROVE Booting'
  BY <1>4 DEF EmitResumed, manager, Booting, Parked
<1>5. ASSUME NEW f \in Choices, Choose(f) PROVE Booting'
  BY <1>5 DEF Choose, Free, Booting, Parked
<1>6. ASSUME Delete PROVE Booting'
  BY <1>6 DEF Delete, Cancel, AddingElse, Prepare, Free, Booting, Parked
<1>7. ASSUME Metadata PROVE Booting'
  BY <1>7 DEF Metadata, Free, Booting, Parked
<1>8. ASSUME NEW w \in {"ui", "info"}, OnSelect(w) PROVE Booting'
  BY <1>8 DEF OnSelect, Prepare, manager, Booting, Parked
<1>9. ASSUME OnEvent PROVE Booting'
  BY <1>9 DEF OnEvent, Prepare, manager, Free, Booting, Parked
<1>10. ASSUME Pass PROVE Booting'
  BY <1>10 DEF Pass, Prepare, manager, Free, Booting, Parked
<1>11. ASSUME DropCompleted PROVE Booting'
  BY <1>11 DEF DropCompleted, Booting, Parked
<1>12. ASSUME NEW w \in Writers, SetRow(w) PROVE Booting'
  BY <1>12 DEF SetRow, manager, AfterSet, Booting, Parked
<1>13. ASSUME Saves PROVE Booting'
  BY <1>13 DEF Saves, rowVars, Booting, Parked
<1>14. ASSUME Start PROVE Booting'
  BY <1>14 DEF Start, Booting, Parked
<1>15. ASSUME RePark PROVE Booting'
  BY <1>15 DEF RePark, Booting, Parked
<1>16. ASSUME UNCHANGED vars PROVE Booting'
  BY <1>16 DEF vars, rowVars, Booting, Parked
<1>17. ASSUME PauseHeld PROVE Booting'
  BY <1>17 DEF PauseHeld, manager, handler, Free, Booting, Parked
<1>18. ASSUME DeleteOverHTTP PROVE Booting'
  BY <1>18 DEF DeleteOverHTTP, Cancel, handler, Free, Booting, Parked
<1>19. ASSUME PanicAll PROVE Booting'
  BY <1>19 DEF PanicAll, handler, Booting, Parked
<1>20. ASSUME ResumeAll PROVE Booting'
  BY <1>20 DEF ResumeAll, Free, Booting, Parked
<1>21. ASSUME ReAdd PROVE Booting'
  BY <1>21 DEF ReAdd, Register, Prepare, AddingElse, Booting, Parked
<1>22. ASSUME ReAddFails PROVE Booting'
  BY <1>22 DEF ReAddFails, manager, Booting, Parked
<1> QED BY <1>1, <1>2, <1>3, <1>4, <1>5, <1>6, <1>7, <1>8, <1>9, <1>10, <1>11, <1>12, <1>13,
   <1>14, <1>15, <1>16, <1>17, <1>18, <1>19, <1>20, <1>21, <1>22 DEF Next

\* What the manager has, it has the source of.
LEMMA SourcedStep ==
  ASSUME RowsTyped, Sourced, [Next]_vars
  PROVE  Sourced'
<1> USE FiveWriters DEF RowsTyped
<1>1. ASSUME Add PROVE Sourced'
  BY <1>1 DEF Add, Register, Prepare, Sourced
<1>2. ASSUME Pause PROVE Sourced'
  BY <1>2 DEF Pause, handler, Sourced
<1>3. ASSUME PauseHeld PROVE Sourced'
  BY <1>3 DEF PauseHeld, manager, handler, Sourced
<1>4. ASSUME Resume PROVE Sourced'
  BY <1>4 DEF Resume, Register, Prepare, Sourced
<1>5. ASSUME EmitResumed PROVE Sourced'
  BY <1>5 DEF EmitResumed, manager, Sourced
<1>6. ASSUME NEW f \in Choices, Choose(f) PROVE Sourced'
  BY <1>6 DEF Choose, Sourced
<1>7. ASSUME Delete PROVE Sourced'
  BY <1>7 DEF Delete, Cancel, Prepare, Sourced
<1>8. ASSUME DeleteOverHTTP PROVE Sourced'
  BY <1>8 DEF DeleteOverHTTP, Cancel, handler, Sourced
<1>9. ASSUME PanicAll PROVE Sourced'
  BY <1>9 DEF PanicAll, handler, Sourced
<1>10. ASSUME ResumeAll PROVE Sourced'
  BY <1>10 DEF ResumeAll, Free, Sourced
<1>11. ASSUME ReAdd PROVE Sourced'
  BY <1>11 DEF ReAdd, Register, Prepare, Sourced
<1>12. ASSUME ReAddFails PROVE Sourced'
  BY <1>12 DEF ReAddFails, manager, Sourced
<1>13. ASSUME Metadata PROVE Sourced'
  BY <1>13 DEF Metadata, Sourced
<1>14. ASSUME NEW w \in {"ui", "info"}, OnSelect(w) PROVE Sourced'
  BY <1>14 DEF OnSelect, Prepare, manager, Sourced
<1>15. ASSUME OnEvent PROVE Sourced'
  BY <1>15 DEF OnEvent, Prepare, manager, Sourced
<1>16. ASSUME Pass PROVE Sourced'
  BY <1>16 DEF Pass, Prepare, manager, Sourced
<1>17. ASSUME DropCompleted PROVE Sourced'
  BY <1>17 DEF DropCompleted, Sourced
<1>18. ASSUME NEW w \in Writers, SetRow(w) PROVE Sourced'
  BY <1>18 DEF SetRow, manager, Sourced
<1>19. ASSUME Saves PROVE Sourced'
  BY <1>19 DEF Saves, rowVars, Sourced
<1>20. ASSUME Start PROVE Sourced'
  BY <1>20 DEF Start, Sourced
<1>21. ASSUME RePark PROVE Sourced'
  BY <1>21 DEF RePark, Sourced
<1>22. ASSUME UNCHANGED vars PROVE Sourced'
  BY <1>22 DEF vars, rowVars, Sourced
<1> QED BY <1>1, <1>2, <1>3, <1>4, <1>5, <1>6, <1>7, <1>8, <1>9, <1>10, <1>11, <1>12, <1>13,
   <1>14, <1>15, <1>16, <1>17, <1>18, <1>19, <1>20, <1>21, <1>22 DEF Next

\* A download that is to run is held for the length of a panic.
LEMMA HoldingStep ==
  ASSUME RowsTyped, Roles, Sourced, Holding, [Next]_vars
  PROVE  Holding'
<1> USE FiveWriters DEF RowsTyped
<1>1. ASSUME Add PROVE Holding'
  BY <1>1 DEF Add, Register, Prepare, Holding
<1>2. ASSUME Pause PROVE Holding'
  BY <1>2 DEF Pause, handler, Holding
<1>3. ASSUME PauseHeld PROVE Holding'
  BY <1>3 DEF PauseHeld, manager, handler, Holding
<1>4. ASSUME Resume PROVE Holding'
  BY <1>4 DEF Resume, Register, Prepare, Holding
<1>5. ASSUME EmitResumed PROVE Holding'
  BY <1>5 DEF EmitResumed, manager, Holding
<1>6. ASSUME NEW f \in Choices, Choose(f) PROVE Holding'
  BY <1>6 DEF Choose, Holding
<1>7. ASSUME Delete PROVE Holding'
  BY <1>7 DEF Delete, Cancel, Prepare, Holding
<1>8. ASSUME DeleteOverHTTP PROVE Holding'
  BY <1>8 DEF DeleteOverHTTP, Cancel, handler, Holding
<1>9. ASSUME PanicAll PROVE Holding'
  BY <1>9 DEF PanicAll, handler, Holding
<1>10. ASSUME ResumeAll PROVE Holding'
  BY <1>10 DEF ResumeAll, Free, Holding, Sourced
<1>11. ASSUME ReAdd PROVE Holding'
  BY <1>11 DEF ReAdd, Register, Prepare, Holding
<1>12. ASSUME ReAddFails PROVE Holding'
  BY <1>12 DEF ReAddFails, manager, Holding
<1>13. ASSUME Metadata PROVE Holding'
  BY <1>13 DEF Metadata, Holding
<1>14. ASSUME NEW w \in {"ui", "info"}, OnSelect(w) PROVE Holding'
  BY <1>14 DEF OnSelect, Prepare, manager, Holding
<1>15. ASSUME OnEvent PROVE Holding'
  BY <1>15 DEF OnEvent, Prepare, manager, Holding
<1>16. ASSUME Pass PROVE Holding'
  BY <1>16 DEF Pass, Prepare, manager, Holding
<1>17. ASSUME DropCompleted PROVE Holding'
  BY <1>17 DEF DropCompleted, Holding
<1>18. ASSUME NEW w \in Writers, SetRow(w) PROVE Holding'
  <2>1. w = "monitor" => job[w] # "readd"
    BY <1>18 DEF SetRow, Setting
  <2> QED BY <1>18, <2>1 DEF SetRow, manager, Holding
<1>19. ASSUME Saves PROVE Holding'
  BY <1>19 DEF Saves, rowVars, Holding
<1>20. ASSUME Start PROVE Holding'
  BY <1>20 DEF Start, Holding
<1>21. ASSUME RePark PROVE Holding'
  BY <1>21 DEF RePark, Holding
<1>22. ASSUME UNCHANGED vars PROVE Holding'
  BY <1>22 DEF vars, rowVars, Holding
<1> QED BY <1>1, <1>2, <1>3, <1>4, <1>5, <1>6, <1>7, <1>8, <1>9, <1>10, <1>11, <1>12, <1>13,
   <1>14, <1>15, <1>16, <1>17, <1>18, <1>19, <1>20, <1>21, <1>22 DEF Next

\* What a Set that crosses nothing makes of the row.
SameDelivery == (HasRow' <=> HasRow) /\ (SaysDone' <=> SaysDone)
NewRow    == HasRow' /\ ~SaysDone' /\ ~SaysPaused'
Delivery  == HasRow' /\ SaysDone' /\ ~SaysPaused'
EventRow  == SameDelivery /\ rows'.files = rows.files /\ (SaysPaused' <=> WillSay)
ChoiceRow == SameDelivery /\ rows'.files = chosen /\ (SaysPaused' <=> SaysPaused)

\* A Set that crosses nothing writes one of these.
LEMMA Written ==
  ASSUME RowsTyped, Roles, InHand, InTheRecovery, NEW w \in Writers, SetRow(w), Clean'
  PROVE  \/ w = "monitor" /\ Readding /\ Pending("monitor") /\ NewRow
         \/ w = "ui" /\ Adding /\ registered # "absent" /\ NewRow
         \/ w = "ui" /\ job["ui"] = "set" /\ registered = "absent" /\ ~HasRow'
         \/ w = "pass" /\ job["pass"] = "setThenDrop" /\ registered = "live" /\ Delivery
         \/ w = "events" /\ Pending("events") /\ EventRow
         \/ w \in {"ui", "info"} /\ job[w] = "setFiles" /\ ChoiceRow
<1> USE FiveWriters DEF RowsTyped
<1>1. rows' = row[w] /\ job[w] \in Setting
  BY DEF SetRow, Set
<1>2. ~Crosses(w)
  BY DEF SetRow, Clean
<1>3. CASE w = "ui" /\ job["ui"] # "setFiles"
  <2>1. job["ui"] \in {"set", "setThenEmit"}
    BY <1>1, <1>3 DEF Setting, Roles
  <2>2. CASE registered = "absent"
    <3>1. job["ui"] = "set" /\ rows' = Absent
      BY <1>1, <1>3, <2>1, <2>2 DEF InHand, InTheUI
    <3> QED BY <1>3, <2>2, <3>1 DEF HasRow, Absent
  <2>3. CASE registered # "absent"
    <3>1. rows' = Added
      BY <1>1, <1>3, <2>1, <2>3 DEF InHand, InTheUI
    <3>2. NewRow
      BY <3>1 DEF NewRow, HasRow, SaysDone, SaysPaused, Added, Absent
    <3> QED BY <1>3, <2>1, <2>3, <3>2 DEF Adding
  <2> QED BY <2>2, <2>3
<1>4. CASE w = "pass"
  <2>1. job["pass"] = "setThenDrop" /\ registered = "live"
    BY <1>1, <1>2, <1>4 DEF Setting, Roles, Crosses
  <2>2. rows' = Delivered
    BY <1>1, <1>4, <2>1 DEF InHand, InThePass
  <2>3. Delivery
    BY <2>2 DEF Delivery, HasRow, SaysDone, SaysPaused, Delivered, Added, Absent
  <2> QED BY <1>4, <2>1, <2>3
<1>5. CASE w = "events"
  <2>1. Pending("events")
    BY <1>1, <1>2, <1>5 DEF Pending, Crosses
  <2>2. KeepsDelivery("events") /\ row["events"].files = rows.files
    BY <2>1 DEF InHand, InTheLoop
  <2>3. EventRow
    BY <1>1, <1>5, <2>2 DEF EventRow, SameDelivery, KeepsDelivery, HasRow, SaysDone, SaysPaused,
       WillSay
  <2> QED BY <1>5, <2>1, <2>3
<1>6. CASE w \in {"ui", "info"} /\ job[w] = "setFiles"
  <2>1. Pending(w) /\ row[w].files = chosen
    BY <1>1, <1>2, <1>6 DEF Pending, Crosses
  <2>2. KeepsDelivery(w) /\ (row[w].paused <=> SaysPaused)
    BY <1>6, <2>1 DEF InHand, InTheChoice
  <2>3. ChoiceRow
    BY <1>1, <2>1, <2>2 DEF ChoiceRow, SameDelivery, KeepsDelivery, HasRow, SaysDone, SaysPaused
  <2> QED BY <1>6, <2>3
<1>7. CASE w = "monitor"
  <2>1. Readding /\ Pending("monitor")
    BY <1>1, <1>2, <1>7 DEF Roles, Setting, Readding, Pending, Crosses
  <2>2. rows' = Added
    BY <1>1, <1>7, <2>1 DEF InTheRecovery
  <2>3. NewRow
    BY <2>2 DEF NewRow, HasRow, SaysDone, SaysPaused, Added, Absent
  <2> QED BY <1>7, <2>1, <2>3
<1>8. /\ w \in {"ui", "monitor", "info", "events", "pass"}
      /\ w = "info" => job[w] = "setFiles"
  BY <1>1 DEF Roles, Setting
<1> QED BY <1>3, <1>4, <1>5, <1>6, <1>7, <1>8

\* The row changes by a Set or by a restart.
LEMMA RowKept ==
  ASSUME [Next]_vars, \A w \in Writers : ~SetRow(w), ~Start
  PROVE  /\ rows' = rows
         /\ (HasRow' <=> HasRow) /\ (SaysDone' <=> SaysDone) /\ (SaysPaused' <=> SaysPaused)
<1>1. rows' = rows
  <2>1. CASE Saves
    BY <2>1 DEF Saves, SaveStep, Open, Write, WriteFails, Rename
  <2>2. CASE ~Saves /\ ~UNCHANGED vars
    <3>1. CASE Add \/ Pause \/ Resume \/ EmitResumed \/ Delete
      BY <3>1 DEF Add, Pause, Resume, EmitResumed, Delete, storeVars
    <3>2. CASE Metadata \/ OnEvent \/ Pass \/ DropCompleted \/ RePark
      BY <3>2 DEF Metadata, OnEvent, Pass, DropCompleted, RePark, storeVars
    <3>3. CASE \/ \E f \in Choices : Choose(f)
               \/ \E w \in {"ui", "info"} : OnSelect(w)
      BY <3>3 DEF Choose, OnSelect, storeVars
    <3>4. CASE PauseHeld \/ DeleteOverHTTP \/ PanicAll \/ ResumeAll \/ ReAdd \/ ReAddFails
      BY <3>4 DEF PauseHeld, DeleteOverHTTP, PanicAll, ResumeAll, ReAdd, ReAddFails, storeVars
    <3> QED BY <2>2, <3>1, <3>2, <3>3, <3>4 DEF Next
  <2>3. CASE UNCHANGED vars
    BY <2>3 DEF vars, storeVars
  <2> QED BY <2>1, <2>2, <2>3
<1> QED BY <1>1 DEF HasRow, SaysDone, SaysPaused

\* What the user's side is about to write fits the manager.
LEMMA InTheUIStep ==
  ASSUME RowsTyped, Roles, InTheUI, JustAdded, [Next]_vars, Clean'
  PROVE  InTheUI'
<1> USE FiveWriters DEF RowsTyped
<1>1. ASSUME Add PROVE InTheUI'
  BY <1>1 DEF Add, Register, AddingElse, Prepare, Free, InTheUI, JustAdded, Adding, Clean
<1>2. ASSUME Pause PROVE InTheUI'
  BY <1>2 DEF Pause, handler, Free, InTheUI, JustAdded, Adding, Clean
<1>3. ASSUME Resume PROVE InTheUI'
  BY <1>3 DEF Resume, Register, AddingElse, Prepare, Free, InTheUI, JustAdded, Adding, Clean
<1>4. ASSUME EmitResumed PROVE InTheUI'
  BY <1>4 DEF EmitResumed, manager, InTheUI, JustAdded, Adding, Clean
<1>5. ASSUME NEW f \in Choices, Choose(f) PROVE InTheUI'
  BY <1>5 DEF Choose, Free, InTheUI, JustAdded, Adding, Clean
<1>6. ASSUME Delete PROVE InTheUI'
  BY <1>6 DEF Delete, Cancel, AddingElse, Prepare, Free, InTheUI, JustAdded, Adding, Clean
<1>7. ASSUME Metadata PROVE InTheUI'
  BY <1>7 DEF Metadata, Free, InTheUI, JustAdded, Adding, Clean
<1>8. ASSUME NEW w \in {"ui", "info"}, OnSelect(w) PROVE InTheUI'
  BY <1>8 DEF OnSelect, Prepare, manager, InTheUI
<1>9. ASSUME OnEvent PROVE InTheUI'
  BY <1>9 DEF OnEvent, Prepare, manager, Free, InTheUI, JustAdded, Adding, Clean
<1>10. ASSUME Pass PROVE InTheUI'
  BY <1>10 DEF Pass, Prepare, manager, Free, InTheUI, JustAdded, Adding, Clean
<1>11. ASSUME DropCompleted PROVE InTheUI'
  BY <1>11 DEF DropCompleted, InTheUI, JustAdded, Adding, Clean
<1>12. ASSUME NEW w \in Writers, SetRow(w) PROVE InTheUI'
  BY <1>12 DEF SetRow, manager, AfterSet, InTheUI, JustAdded, Adding, Clean
<1>13. ASSUME Saves PROVE InTheUI'
  BY <1>13 DEF Saves, rowVars, InTheUI, JustAdded, Adding, Clean
<1>14. ASSUME Start PROVE InTheUI'
  BY <1>14 DEF Start, InTheUI, JustAdded, Adding, Clean
<1>15. ASSUME RePark PROVE InTheUI'
  BY <1>15 DEF RePark, InTheUI, JustAdded, Adding, Clean
<1>16. ASSUME UNCHANGED vars PROVE InTheUI'
  BY <1>16 DEF vars, rowVars, InTheUI, JustAdded, Adding, Clean
<1>17. ASSUME PauseHeld PROVE InTheUI'
  BY <1>17 DEF PauseHeld, manager, handler, Free, InTheUI, JustAdded, Adding, Clean
<1>18. ASSUME DeleteOverHTTP PROVE InTheUI'
  BY <1>18 DEF DeleteOverHTTP, Cancel, handler, Free, InTheUI, JustAdded, Adding, Clean
<1>19. ASSUME PanicAll PROVE InTheUI'
  BY <1>19 DEF PanicAll, handler, InTheUI, JustAdded, Adding, Clean
<1>20. ASSUME ResumeAll PROVE InTheUI'
  BY <1>20 DEF ResumeAll, Free, InTheUI, JustAdded, Adding, Clean
<1>21. ASSUME ReAdd PROVE InTheUI'
  BY <1>21 DEF ReAdd, Register, Prepare, AddingElse, InTheUI, JustAdded, Adding, Clean
<1>22. ASSUME ReAddFails PROVE InTheUI'
  BY <1>22 DEF ReAddFails, manager, InTheUI, JustAdded, Adding, Clean
<1> QED BY <1>1, <1>2, <1>3, <1>4, <1>5, <1>6, <1>7, <1>8, <1>9, <1>10, <1>11, <1>12, <1>13,
   <1>14, <1>15, <1>16, <1>17, <1>18, <1>19, <1>20, <1>21, <1>22 DEF Next

\* What a pass is about to write says delivered.
LEMMA InThePassStep ==
  ASSUME RowsTyped, InThePass, [Next]_vars
  PROVE  InThePass'
<1> USE FiveWriters DEF RowsTyped, InThePass
<1>1. CASE Leaves("pass") \/ Overtakes("pass")
  BY <1>1 DEF Leaves, Overtakes
<1>2. CASE SetRow("pass")
  BY <1>2 DEF SetRow, AfterSet
<1>3. CASE Start
  BY <1>3 DEF Start
<1>4. CASE Pass
  BY <1>4 DEF Pass, Prepare
<1>5. CASE DropCompleted
  BY <1>5 DEF DropCompleted
<1> QED BY <1>1, <1>2, <1>3, <1>4, <1>5, OwnStep DEF Own

\* What the event loop is about to write changes the pause alone.
LEMMA InTheLoopStep ==
  ASSUME RowsTyped, StoreTypeOK, InTheLoop, [Next]_vars
  PROVE  InTheLoop'
<1> USE FiveWriters DEF RowsTyped
<1>1. CASE Leaves("events")
  <2>1. (Pending("events")' <=> Pending("events")) /\ rows' = rows /\ row'["events"] = row["events"]
    BY <1>1 DEF Leaves, Pending
  <2>2. KeepsDelivery("events")' <=> KeepsDelivery("events")
    BY <2>1 DEF KeepsDelivery, HasRow, SaysDone
  <2> QED BY <2>1, <2>2 DEF InTheLoop
<1>2. CASE Overtakes("events")
  BY <1>2 DEF Overtakes, InTheLoop, Pending
<1>3. CASE SetRow("events")
  BY <1>3 DEF SetRow, AfterSet, InTheLoop, Pending, Setting
<1>4. CASE Start
  <2>1. job'["events"] = "idle"
    BY <1>4 DEF Start
  <2> QED BY <2>1 DEF InTheLoop, Pending, Setting
<1>5. CASE OnEvent
  <2>1. rows' = rows /\ rows \in Row
    BY <1>5, StoreOfOneRow DEF OnEvent, storeVars, StoreTypeOK
  <2>2. row'["events"] = [rows EXCEPT !.paused = PausedBy(Head(queue))]
    BY <1>5 DEF OnEvent, Prepare
  <2>3. /\ row'["events"].here = rows.here /\ row'["events"].done = rows.done
        /\ row'["events"].files = rows.files
    BY <2>1, <2>2 DEF Row
  <2> QED BY <2>1, <2>3 DEF InTheLoop, KeepsDelivery, HasRow, SaysDone
<1> QED BY <1>1, <1>2, <1>3, <1>4, <1>5, OwnStep DEF Own

\* What is about to record a choice changes the files alone.
LEMMA InTheChoiceStep ==
  ASSUME RowsTyped, StoreTypeOK, InTheChoice, [Next]_vars
  PROVE  InTheChoice'
<1> USE FiveWriters DEF RowsTyped
<1> SUFFICES ASSUME NEW w \in {"ui", "info"}, job'[w] = "setFiles", Pending(w)'
             PROVE  KeepsDelivery(w)' /\ (row'[w].paused <=> SaysPaused')
  BY DEF InTheChoice
<1>1. CASE Leaves(w)
  <2>1. Pending(w) /\ job[w] = "setFiles" /\ rows' = rows /\ row'[w] = row[w]
    BY <1>1 DEF Leaves, Pending
  <2>2. KeepsDelivery(w) /\ (row[w].paused <=> SaysPaused)
    BY <2>1 DEF InTheChoice
  <2> QED BY <2>1, <2>2 DEF KeepsDelivery, HasRow, SaysDone, SaysPaused
<1>2. CASE Overtakes(w)
  BY <1>2 DEF Overtakes, Pending, Setting
<1>3. ~SetRow(w)
  BY DEF SetRow, AfterSet
<1>4. ~Start
  BY DEF Start
<1>5. ASSUME w = "ui" PROVE ~Add /\ ~Resume
  BY <1>5 DEF Add, Resume
<1>6. ASSUME w = "ui" PROVE ~EmitResumed /\ ~Delete
  BY <1>6 DEF EmitResumed, Delete
<1>7. ~(w = "ui" /\ RePark) /\ ~(w = "info" /\ Metadata)
  BY DEF RePark, Metadata
<1>8. ASSUME NEW f \in Choices, Choose(f), w = "ui" PROVE FALSE
  BY <1>8 DEF Choose, Free
<1>9. CASE OnSelect(w)
  <2>1. rows' = rows /\ rows \in Row
    BY <1>9, StoreOfOneRow DEF OnSelect, storeVars, StoreTypeOK
  <2>2. row'[w] = [rows EXCEPT !.files = row[w].files]
    BY <1>9 DEF OnSelect, Prepare
  <2>3. /\ row'[w].here = rows.here /\ row'[w].done = rows.done
        /\ row'[w].paused = rows.paused
    BY <2>1, <2>2 DEF Row
  <2> QED BY <2>1, <2>3 DEF KeepsDelivery, HasRow, SaysDone, SaysPaused
<1> QED BY <1>1, <1>2, <1>3, <1>4, <1>5, <1>6, <1>7, <1>8, <1>9, OwnStep DEF Own

\* Before the row of an added download is written, nothing else happens to it.
LEMMA JustAddedStep ==
  ASSUME RowsTyped, Roles, JustAdded, [Next]_vars, Clean'
  PROVE  JustAdded'
<1> USE FiveWriters DEF RowsTyped
<1>1. ASSUME Add PROVE JustAdded'
  BY <1>1 DEF Add, Register, AddingElse, Prepare, Free, Roles, JustAdded, Adding, Parked, Clean
<1>2. ASSUME Pause PROVE JustAdded'
  BY <1>2 DEF Pause, handler, Free, Roles, JustAdded, Adding, Parked, Clean
<1>3. ASSUME Resume PROVE JustAdded'
  BY <1>3 DEF Resume, Register, AddingElse, Prepare, Free, Roles, JustAdded, Adding, Parked, Clean
<1>4. ASSUME EmitResumed PROVE JustAdded'
  BY <1>4 DEF EmitResumed, manager, Roles, JustAdded, Adding, Parked, Clean
<1>5. ASSUME NEW f \in Choices, Choose(f) PROVE JustAdded'
  BY <1>5 DEF Choose, Free, Roles, JustAdded, Adding, Parked, Clean
<1>6. ASSUME Delete PROVE JustAdded'
  BY <1>6 DEF Delete, Cancel, AddingElse, Prepare, Free, Roles, JustAdded, Adding, Parked, Clean
<1>7. ASSUME Metadata PROVE JustAdded'
  BY <1>7 DEF Metadata, Free, Roles, JustAdded, Adding, Parked, Clean
<1>8. ASSUME NEW w \in {"ui", "info"}, OnSelect(w) PROVE JustAdded'
  BY <1>8 DEF OnSelect, Prepare, manager, Roles, JustAdded, Adding, Parked, Clean
<1>9. ASSUME OnEvent PROVE JustAdded'
  BY <1>9 DEF OnEvent, Prepare, manager, Free, Roles, JustAdded, Adding, Parked, Clean
<1>10. ASSUME Pass PROVE JustAdded'
  BY <1>10 DEF Pass, Prepare, manager, Free, Roles, JustAdded, Adding, Parked, Clean
<1>11. ASSUME DropCompleted PROVE JustAdded'
  BY <1>11 DEF DropCompleted, Roles, JustAdded, Adding, Parked, Clean
<1>12. ASSUME NEW w \in Writers, SetRow(w) PROVE JustAdded'
  BY <1>12 DEF SetRow, manager, AfterSet, Roles, JustAdded, Adding, Parked, Clean
<1>13. ASSUME Saves PROVE JustAdded'
  BY <1>13 DEF Saves, rowVars, Roles, JustAdded, Adding, Parked, Clean
<1>14. ASSUME Start PROVE JustAdded'
  BY <1>14 DEF Start, Roles, JustAdded, Adding, Parked, Clean
<1>15. ASSUME RePark PROVE JustAdded'
  BY <1>15 DEF RePark, Roles, JustAdded, Adding, Parked, Clean
<1>16. ASSUME UNCHANGED vars PROVE JustAdded'
  BY <1>16 DEF vars, rowVars, Roles, JustAdded, Adding, Parked, Clean
<1>17. ASSUME PauseHeld PROVE JustAdded'
  BY <1>17 DEF PauseHeld, manager, handler, Free, Roles, JustAdded, Adding, Parked, Clean
<1>18. ASSUME DeleteOverHTTP PROVE JustAdded'
  BY <1>18 DEF DeleteOverHTTP, Cancel, handler, Free, Roles, JustAdded, Adding, Parked, Clean
<1>19. ASSUME PanicAll PROVE JustAdded'
  BY <1>19 DEF PanicAll, handler, Roles, JustAdded, Adding, Parked, Clean
<1>20. ASSUME ResumeAll PROVE JustAdded'
  BY <1>20 DEF ResumeAll, Free, Roles, JustAdded, Adding, Parked, Clean
<1>21. ASSUME ReAdd PROVE JustAdded'
  BY <1>21 DEF ReAdd, Register, Prepare, AddingElse, Roles, JustAdded, Adding, Parked, Clean
<1>22. ASSUME ReAddFails PROVE JustAdded'
  BY <1>22 DEF ReAddFails, manager, Roles, JustAdded, Adding, Parked, Clean
<1> QED BY <1>1, <1>2, <1>3, <1>4, <1>5, <1>6, <1>7, <1>8, <1>9, <1>10, <1>11, <1>12, <1>13,
   <1>14, <1>15, <1>16, <1>17, <1>18, <1>19, <1>20, <1>21, <1>22 DEF Next

\* A resumed download stays so until that is announced.
LEMMA EmittingStep ==
  ASSUME RowsTyped, Roles, Emitting, JustAdded, [Next]_vars, Clean'
  PROVE  Emitting'
<1> USE FiveWriters DEF RowsTyped
<1>1. ASSUME Add PROVE Emitting'
  BY <1>1 DEF Add, Register, AddingElse, Prepare, Free, Emitting, Parked, Adding
<1>2. ASSUME Pause PROVE Emitting'
  BY <1>2 DEF Pause, handler, Free, Emitting, Parked, Adding
<1>3. ASSUME Resume PROVE Emitting'
  BY <1>3 DEF Resume, Register, AddingElse, Prepare, Free, Emitting, Parked, Adding
<1>4. ASSUME EmitResumed PROVE Emitting'
  BY <1>4 DEF EmitResumed, manager, Emitting, Parked, Adding
<1>5. ASSUME NEW f \in Choices, Choose(f) PROVE Emitting'
  BY <1>5 DEF Choose, Free, Emitting, Parked, Adding
<1>6. ASSUME Delete PROVE Emitting'
  BY <1>6 DEF Delete, Cancel, AddingElse, Prepare, Free, Emitting, Parked, Adding
<1>7. ASSUME Metadata PROVE Emitting'
  BY <1>7 DEF Metadata, Free, Emitting, Parked, Adding
<1>8. ASSUME NEW w \in {"ui", "info"}, OnSelect(w) PROVE Emitting'
  BY <1>8 DEF OnSelect, Prepare, manager, Emitting, Parked, Adding
<1>9. ASSUME OnEvent PROVE Emitting'
  BY <1>9 DEF OnEvent, Prepare, manager, Free, Emitting, Parked, Adding
<1>10. ASSUME Pass PROVE Emitting'
  BY <1>10 DEF Pass, Prepare, manager, Free, Emitting, Parked, Adding
<1>11. ASSUME DropCompleted PROVE Emitting'
  BY <1>11 DEF DropCompleted, Emitting, Parked, Adding
<1>12. ASSUME NEW w \in Writers, SetRow(w) PROVE Emitting'
  <2>1. registered' = registered
    BY <1>12 DEF SetRow, manager
  <2>2. CASE w = "ui" /\ job["ui"] = "setThenEmit"
    BY <2>1, <2>2 DEF JustAdded, Adding, Emitting, Parked
  <2>3. CASE w = "ui" /\ job["ui"] # "setThenEmit"
    <3>1. job'["ui"] # "emit"
      BY <1>12, <2>3 DEF SetRow, AfterSet, Roles, Setting
    <3> QED BY <3>1 DEF Emitting
  <2>4. CASE w # "ui"
    <3>1. job'["ui"] = job["ui"]
      BY <1>12, <2>4 DEF SetRow
    <3> QED BY <2>1, <3>1 DEF Emitting, Parked
  <2> QED BY <2>2, <2>3, <2>4
<1>13. ASSUME Saves PROVE Emitting'
  BY <1>13 DEF Saves, rowVars, Emitting, Parked, Adding
<1>14. ASSUME Start PROVE Emitting'
  BY <1>14 DEF Start, Emitting, Parked, Adding
<1>15. ASSUME RePark PROVE Emitting'
  BY <1>15 DEF RePark, Emitting, Parked, Adding
<1>16. ASSUME UNCHANGED vars PROVE Emitting'
  BY <1>16 DEF vars, rowVars, Emitting, Parked, Adding
<1>17. ASSUME PauseHeld PROVE Emitting'
  BY <1>17 DEF PauseHeld, manager, handler, Free, Emitting, Parked, Adding
<1>18. ASSUME DeleteOverHTTP PROVE Emitting'
  BY <1>18 DEF DeleteOverHTTP, Cancel, handler, Free, Emitting, Parked, Adding
<1>19. ASSUME PanicAll PROVE Emitting'
  BY <1>19 DEF PanicAll, handler, Emitting, Parked, Adding
<1>20. ASSUME ResumeAll PROVE Emitting'
  BY <1>20 DEF ResumeAll, Free, Emitting, Parked, Adding
<1>21. ASSUME ReAdd PROVE Emitting'
  BY <1>21 DEF ReAdd, Register, Prepare, AddingElse, Emitting, Parked, Adding
<1>22. ASSUME ReAddFails PROVE Emitting'
  BY <1>22 DEF ReAddFails, manager, Emitting, Parked, Adding
<1> QED BY <1>1, <1>2, <1>3, <1>4, <1>5, <1>6, <1>7, <1>8, <1>9, <1>10, <1>11, <1>12, <1>13,
   <1>14, <1>15, <1>16, <1>17, <1>18, <1>19, <1>20, <1>21, <1>22 DEF Next

\* What a recovery is about to write stays in time, or is found out.
LEMMA InTheRecoveryStep ==
  ASSUME RowsTyped, Roles, Emitting, InTheRecovery, [Next]_vars, Clean'
  PROVE  InTheRecovery'
<1> USE FiveWriters DEF RowsTyped
<1>1. ASSUME Add PROVE InTheRecovery'
  <2>1. ~Readding
    BY <1>1 DEF Add, Register, AddingElse, Readding, Clean
  <2>2. ~Readding'
    BY <1>1, <2>1 DEF Add, Readding
  <2> QED BY <2>2 DEF InTheRecovery
<1>2. ASSUME Pause PROVE InTheRecovery'
  <2>1. queue' # <<>> /\ Latest' = "paused" /\ registered' = "parked"
    BY <1>2, EmitKept DEF Pause
  <2>2. /\ job'["monitor"] = job["monitor"] /\ row'["monitor"] = row["monitor"]
        /\ (Adding' <=> Adding) /\ job'["pass"] = job["pass"]
        /\ (Pending("monitor")' <=> Pending("monitor"))
    BY <1>2 DEF Pause, handler, Adding, Pending
  <2>3. Parked'
    BY <2>1 DEF Parked
  <2> QED BY <2>1, <2>2, <2>3 DEF InTheRecovery, ReaddingInTime, Readding
<1>3. ASSUME PauseHeld PROVE InTheRecovery'
  BY <1>3 DEF PauseHeld, manager, handler, InTheRecovery, ReaddingInTime, Readding, Adding,
     Parked, Pending, Latest
<1>4. ASSUME Resume PROVE InTheRecovery'
  <2>1. ~Readding
    BY <1>4 DEF Resume, Register, AddingElse, Readding, Clean
  <2>2. ~Readding'
    BY <1>4, <2>1 DEF Resume, Readding
  <2> QED BY <2>2 DEF InTheRecovery
<1>5. ASSUME EmitResumed PROVE InTheRecovery'
  <2>1. queue' # <<>> /\ Latest' = "resumed"
    BY <1>5, EmitKept DEF EmitResumed
  <2>2. /\ job'["monitor"] = job["monitor"] /\ row'["monitor"] = row["monitor"]
        /\ ~Adding' /\ job'["pass"] = job["pass"] /\ job'["info"] = job["info"]
        /\ (Pending("monitor")' <=> Pending("monitor")) /\ job["ui"] = "emit"
    BY <1>5 DEF EmitResumed, Adding, Pending
  <2>3. /\ ~Parked' /\ registered' = registered /\ wish' = wish
        /\ (registered' = "live" /\ applied' => registered = "live" /\ applied)
    BY <1>5, <2>2 DEF EmitResumed, Emitting, Parked, manager
  <2> QED BY <2>1, <2>2, <2>3 DEF InTheRecovery, ReaddingInTime, Readding
<1>6. ASSUME NEW f \in Choices, Choose(f) PROVE InTheRecovery'
  <2>1. /\ registered # "absent" /\ registered' = registered /\ queue' = queue /\ stale' = stale
        /\ job["ui"] = "idle" /\ job'["ui"] \in {"idle", "choose"}
        /\ \A u \in Writers : u # "ui" => job'[u] = job[u]
        /\ row'["monitor"] = row["monitor"]
    BY <1>6 DEF Choose, Free
  <2>2. registered = "live" => job'["ui"] = "choose"
    BY <1>6 DEF Choose
  <2> QED BY <2>1, <2>2 DEF InTheRecovery, ReaddingInTime, Readding, Adding, Parked, Pending,
     Latest
<1>7. ASSUME Delete PROVE InTheRecovery'
  <2>1. ~Readding
    BY <1>7 DEF Delete, AddingElse, Readding, Clean
  <2>2. ~Readding'
    BY <1>7, <2>1 DEF Delete, Readding
  <2> QED BY <2>2 DEF InTheRecovery
<1>8. ASSUME DeleteOverHTTP PROVE InTheRecovery'
  BY <1>8 DEF DeleteOverHTTP, Cancel, handler, InTheRecovery, ReaddingInTime, Readding, Adding,
     Parked, Pending, Latest
<1>9. ASSUME PanicAll PROVE InTheRecovery'
  BY <1>9 DEF PanicAll, handler, InTheRecovery, ReaddingInTime, Readding, Adding, Parked,
     Pending, Latest
<1>10. ASSUME ResumeAll PROVE InTheRecovery'
  <2>1. ~Readding'
    BY <1>10 DEF ResumeAll, Free, Readding
  <2> QED BY <2>1 DEF InTheRecovery
<1>11. ASSUME ReAdd PROVE InTheRecovery'
  <2>1. row'["monitor"] = Added /\ job'["ui"] = job["ui"] /\ job'["pass"] = job["pass"]
    BY <1>11 DEF ReAdd, Register, Prepare
  <2>2. ~Adding' /\ job["pass"] = "idle" /\ queue = <<>> /\ queue' = queue
    BY <1>11, <2>1 DEF ReAdd, Register, AddingElse, Clean, Adding
  <2>3. /\ registered' \in {"live", "held"}
        /\ registered' = "live" => ~applied'
    BY <1>11 DEF ReAdd, Register
  <2>4. ReaddingInTime'
    BY <2>1, <2>2, <2>3 DEF ReaddingInTime, Parked
  <2> QED BY <2>1, <2>2, <2>4 DEF InTheRecovery
<1>12. ASSUME ReAddFails PROVE InTheRecovery'
  <2>1. ~Readding'
    BY <1>12 DEF ReAddFails, Readding
  <2> QED BY <2>1 DEF InTheRecovery
<1>13. ASSUME Metadata PROVE InTheRecovery'
  <2>1. ~Readding'
    BY <1>13 DEF Metadata, Readding
  <2> QED BY <2>1 DEF InTheRecovery
<1>14. ASSUME NEW w \in {"ui", "info"}, OnSelect(w) PROVE InTheRecovery'
  <2>1. rows.here /\ job' = [job EXCEPT ![w] = "setFiles"]
    BY <1>14 DEF OnSelect, Clean
  <2>2. /\ row'["monitor"] = row["monitor"] /\ stale'["monitor"] = stale["monitor"]
        /\ registered' = registered /\ applied' = applied /\ queue' = queue /\ wish' = wish
        /\ job[w] = "choose"
    BY <1>14 DEF OnSelect, Prepare, manager
  <2> QED BY <2>1, <2>2 DEF InTheRecovery, ReaddingInTime, Readding, Adding, Parked, Pending,
     Latest
<1>15. ASSUME OnEvent PROVE InTheRecovery'
  <2>1. /\ row'["monitor"] = row["monitor"] /\ stale'["monitor"] = stale["monitor"]
        /\ registered' = registered /\ applied' = applied /\ queue' = Tail(queue) /\ wish' = wish
        /\ queue # <<>>
    BY <1>15 DEF OnEvent, Prepare, manager
  <2>2. \A u \in Writers : u # "events" => job'[u] = job[u]
    BY <1>15 DEF OnEvent
  <2>3. queue' # <<>> => Latest' = Latest
    BY <2>1, LatestStays
  <2>4. job'["events"] = "idle" => registered = "absent"
    BY <1>15 DEF OnEvent, Clean
  <2> HIDE DEF RowsTyped
  <2> QED BY <2>1, <2>2, <2>3, <2>4 DEF InTheRecovery, ReaddingInTime, Readding, Adding, Parked,
     Pending
<1>16. ASSUME Pass PROVE InTheRecovery'
  BY <1>16 DEF Pass, Prepare, manager, InTheRecovery, ReaddingInTime, Readding, Adding, Parked,
     Pending, Latest
<1>17. ASSUME DropCompleted PROVE InTheRecovery'
  <2>1. /\ job["pass"] = "drop" /\ job'["ui"] = job["ui"] /\ job'["monitor"] = job["monitor"]
        /\ row' = row /\ stale' = stale
    BY <1>17 DEF DropCompleted
  <2> QED BY <2>1 DEF InTheRecovery, ReaddingInTime, Readding, Adding, Pending
<1>18. ASSUME NEW w \in Writers, SetRow(w) PROVE InTheRecovery'
  <2>1. CASE w = "monitor"
    <3>1. ~Readding'
      BY <1>18, <2>1 DEF SetRow, AfterSet, Readding
    <3> QED BY <3>1 DEF InTheRecovery
  <2>2. CASE w # "monitor"
    <3>1. job'["monitor"] = job["monitor"] /\ row'["monitor"] = row["monitor"]
      BY <1>18, <2>2 DEF SetRow
    <3>2. Readding => ~Pending("monitor")'
      BY <1>18, <2>2, <3>1 DEF SetRow, Readding, Pending, Setting
    <3>3. Adding' => Adding
      BY <1>18 DEF SetRow, AfterSet, Adding
    <3> QED BY <3>1, <3>2, <3>3 DEF InTheRecovery, Readding
  <2> QED BY <2>1, <2>2
<1>19. ASSUME Saves PROVE InTheRecovery'
  BY <1>19 DEF Saves, rowVars, InTheRecovery, ReaddingInTime, Readding, Adding, Parked, Pending,
     Latest
<1>20. ASSUME Start PROVE InTheRecovery'
  <2>1. ~Readding'
    BY <1>20 DEF Start, Readding
  <2> QED BY <2>1 DEF InTheRecovery
<1>21. ASSUME RePark PROVE InTheRecovery'
  <2>1. CASE registered = "live"
    <3>1. queue' # <<>> /\ Latest' = "paused" /\ registered' = "parked"
      BY <1>21, <2>1, EmitKept DEF RePark
    <3>2. /\ job'["monitor"] = job["monitor"] /\ row'["monitor"] = row["monitor"]
          /\ (Adding' <=> Adding) /\ job'["pass"] = job["pass"]
          /\ (Pending("monitor")' <=> Pending("monitor"))
      BY <1>21 DEF RePark, Adding, Pending
    <3>3. Parked'
      BY <3>1 DEF Parked
    <3> QED BY <3>1, <3>2, <3>3 DEF InTheRecovery, ReaddingInTime, Readding
  <2>2. CASE registered # "live"
    <3>1. /\ registered' = registered /\ queue' = queue /\ applied' = applied
          /\ (registered = "absent" => wish' = wish)
          /\ \A u \in Writers : u # "ui" => job'[u] = job[u]
          /\ row' = row /\ stale' = stale /\ job["ui"] = "park" /\ job'["ui"] = "idle"
      BY <1>21, <2>2 DEF RePark
    <3>2. \/ job["info"] \in {"choose", "setFiles"} <=> job'["info"] \in {"choose", "setFiles"}
      BY <3>1
    <3> QED BY <2>2, <3>1, <3>2 DEF InTheRecovery, ReaddingInTime, Readding, Adding, Parked,
       Pending, Latest
  <2> QED BY <2>1, <2>2
<1>22. ASSUME UNCHANGED vars PROVE InTheRecovery'
  BY <1>22 DEF vars, rowVars, InTheRecovery, ReaddingInTime, Readding, Adding, Parked, Pending,
     Latest
<1> QED BY <1>1, <1>2, <1>3, <1>4, <1>5, <1>6, <1>7, <1>8, <1>9, <1>10, <1>11, <1>12, <1>13,
   <1>14, <1>15, <1>16, <1>17, <1>18, <1>19, <1>20, <1>21, <1>22 DEF Next

\* What the manager has is in the row, what it has forgotten is not.
LEMMA RecordedStep ==
  ASSUME RowsTyped, StoreTypeOK, Roles, InHand, InTheRecovery, JustAdded, Emitting,
         Recorded, [Next]_vars, Clean'
  PROVE  Recorded'
<1> USE FiveWriters DEF RowsTyped
<1>1. ASSUME NEW w \in Writers, SetRow(w) PROVE Recorded'
  <2>1. /\ registered' = registered /\ wish' = wish
        /\ \A u \in Writers : u # w => job'[u] = job[u]
    BY <1>1 DEF SetRow, manager
  <2>2. /\ job'[w] \in {"idle", "park", "emit", "drop"}
        /\ job'[w] = "drop" <=> job[w] = "setThenDrop"
    BY <1>1 DEF SetRow, AfterSet, Setting
  <2>3. CASE w = "ui" /\ Adding /\ registered # "absent" /\ NewRow
    BY <2>1, <2>2, <2>3 DEF Recorded, Known, Readding, NewRow, JustAdded
  <2>4. CASE w = "ui" /\ job["ui"] = "set" /\ registered = "absent" /\ ~HasRow'
    BY <2>1, <2>2, <2>4 DEF Recorded, Known, Readding
  <2>5. CASE w = "pass" /\ job["pass"] = "setThenDrop" /\ registered = "live" /\ Delivery
    BY <2>1, <2>2, <2>5 DEF Recorded, Known, Readding, Delivery
  <2>6. CASE w = "events" /\ Pending("events") /\ EventRow
    BY <2>1, <2>2, <2>6 DEF Recorded, Known, Readding, EventRow, SameDelivery, Adding, GivenUp
  <2>7. CASE w \in {"ui", "info"} /\ job[w] = "setFiles" /\ ChoiceRow
    BY <2>1, <2>2, <2>7 DEF Recorded, Known, Readding, ChoiceRow, SameDelivery, Adding, GivenUp
  <2>8. CASE w = "monitor" /\ Readding /\ Pending("monitor") /\ NewRow
    <3>1. ReaddingInTime
      BY <2>8 DEF InTheRecovery
    <3>2. wish' = wish /\ job'["pass"] = job["pass"]
      BY <1>1, <2>8 DEF SetRow
    <3> QED BY <2>1, <2>8, <3>1, <3>2 DEF Recorded, Known, NewRow, ReaddingInTime, GivenUp
  <2> QED BY <1>1, <2>3, <2>4, <2>5, <2>6, <2>7, <2>8, Written
<1>2. CASE Start
  <2>1. rows' = Load /\ job'["pass"] = "idle"
    BY <1>2 DEF Start, Restart
  <2>2. CASE sourced'
    <3>1. registered' # "absent" /\ job'["ui"] = "set"
      BY <1>2, <2>2 DEF Start
    <3> QED BY <2>1, <3>1 DEF Recorded, Known, Adding, Readding
  <2>3. CASE ~sourced'
    <3>1. registered' = "absent" /\ job'["ui"] = "idle"
      BY <1>2, <2>3 DEF Start
    <3>2. CASE AddsUndelivered
      <4>1. wish' = "lost"
        BY <1>2, <2>3, <3>2 DEF Start
      <4> QED BY <2>1, <3>1, <4>1 DEF Recorded, Known, GivenUp
    <3>3. CASE ~AddsUndelivered
      <4>1. ~HasRow' \/ SaysDone'
        BY <2>1, <3>3 DEF AddsUndelivered, HasRow, SaysDone
      <4> QED BY <2>1, <3>1, <4>1 DEF Recorded, Known
    <3> QED BY <3>2, <3>3
  <2> QED BY <2>2, <2>3
<1>3. CASE ~Start /\ \A w \in Writers : ~SetRow(w)
  <2>1. /\ rows' = rows
        /\ (HasRow' <=> HasRow) /\ (SaysDone' <=> SaysDone) /\ (SaysPaused' <=> SaysPaused)
    BY <1>3, RowKept
  <2>2. ASSUME Add PROVE Recorded'
    <3>1. Adding' /\ registered' # "absent"
      BY <2>2 DEF Add, Register, Adding
    <3>2. job'["pass"] = "idle"
      BY <2>2 DEF Add, Register, Clean
    <3> QED BY <3>1, <3>2 DEF Recorded, Known
  <2>3. ASSUME Pause PROVE Recorded'
    BY <2>1, <2>3 DEF Pause, handler, Free, Roles, Recorded, Known, Adding, Readding, JustAdded,
       Clean, GivenUp
  <2>4. ASSUME Resume PROVE Recorded'
    <3>1. Adding' /\ registered' # "absent"
      BY <2>4 DEF Resume, Register, Adding
    <3>2. job'["pass"] = "idle"
      BY <2>4 DEF Resume, Register, Clean
    <3> QED BY <3>1, <3>2 DEF Recorded, Known
  <2>5. ASSUME EmitResumed PROVE Recorded'
    BY <2>1, <2>5 DEF EmitResumed, manager, Roles, Recorded, Known, Adding, Readding, JustAdded,
       Clean, GivenUp
  <2>6. ASSUME NEW f \in Choices, Choose(f) PROVE Recorded'
    BY <2>1, <2>6 DEF Choose, Free, Roles, Recorded, Known, Adding, Readding, JustAdded, Clean,
       GivenUp
  <2>7. ASSUME Delete PROVE Recorded'
    BY <2>1, <2>7 DEF Delete, Cancel, AddingElse, Prepare, Free, Roles, Recorded, Known, Adding,
       Readding, JustAdded, Clean, GivenUp
  <2>8. ASSUME Metadata PROVE Recorded'
    BY <2>1, <2>8 DEF Metadata, Free, Roles, Recorded, Known, Adding, Readding, JustAdded, Clean,
       GivenUp
  <2>9. ASSUME NEW w \in {"ui", "info"}, OnSelect(w) PROVE Recorded'
    BY <2>1, <2>9 DEF OnSelect, Prepare, manager, Roles, Recorded, Known, Adding, Readding,
       JustAdded, Clean, GivenUp
  <2>10. ASSUME OnEvent PROVE Recorded'
    BY <2>1, <2>10 DEF OnEvent, Prepare, manager, Free, Roles, Recorded, Known, Adding, Readding,
       JustAdded, Clean, GivenUp
  <2>11. ASSUME Pass PROVE Recorded'
    BY <2>1, <2>11 DEF Pass, Prepare, manager, Free, Roles, Recorded, Known, Adding, Readding,
       JustAdded, Clean, GivenUp
  <2>12. ASSUME DropCompleted PROVE Recorded'
    BY <2>1, <2>12 DEF DropCompleted, Roles, Recorded, Known, Adding, Readding, JustAdded, Clean,
       GivenUp
  <2>13. ASSUME Saves PROVE Recorded'
    BY <2>1, <2>13 DEF Saves, rowVars, Roles, Recorded, Known, Adding, Readding, JustAdded,
       Clean, GivenUp
  <2>14. ASSUME RePark PROVE Recorded'
    BY <2>1, <2>14 DEF RePark, Roles, Recorded, Known, Adding, Readding, JustAdded, Clean, GivenUp
  <2>15. ASSUME UNCHANGED vars PROVE Recorded'
    BY <2>1, <2>15 DEF vars, rowVars, Roles, Recorded, Known, Adding, Readding, JustAdded, Clean,
       GivenUp
  <2>16. ASSUME PauseHeld PROVE Recorded'
    BY <2>1, <2>16 DEF PauseHeld, manager, handler, Free, Roles, Recorded, Known, Adding,
       Readding, JustAdded, Clean, GivenUp
  <2>17. ASSUME DeleteOverHTTP PROVE Recorded'
    BY <2>1, <2>17 DEF DeleteOverHTTP, Cancel, handler, Free, Roles, Recorded, Known, Adding,
       Readding, JustAdded, Clean, GivenUp
  <2>18. ASSUME PanicAll PROVE Recorded'
    BY <2>1, <2>18 DEF PanicAll, handler, Roles, Recorded, Known, Adding, Readding, JustAdded,
       Clean, GivenUp
  <2>19. ASSUME ResumeAll PROVE Recorded'
    BY <2>1, <2>19 DEF ResumeAll, Free, Roles, Recorded, Known, Adding, Readding, JustAdded,
       Clean, GivenUp
  <2>20. ASSUME ReAdd PROVE Recorded'
    <3>1. Readding' /\ registered' # "absent"
      BY <2>20 DEF ReAdd, Register, Readding
    <3>2. job'["pass"] = "idle"
      BY <2>20 DEF ReAdd, Register, Clean
    <3> QED BY <3>1, <3>2 DEF Recorded, Known
  <2>21. ASSUME ReAddFails PROVE Recorded'
    BY <2>1, <2>21 DEF ReAddFails, manager, Roles, Recorded, Known, Adding, Readding, JustAdded,
       Clean, GivenUp
  <2> QED BY <1>3, <2>2, <2>3, <2>4, <2>5, <2>6, <2>7, <2>8, <2>9, <2>10, <2>11, <2>12, <2>13,
     <2>14, <2>15, <2>16, <2>17, <2>18, <2>19, <2>20, <2>21 DEF Next
<1> QED BY <1>1, <1>2, <1>3

\* The last word on the pause stays the manager's.
LEMMA AnnouncedStep ==
  ASSUME RowsTyped, StoreTypeOK, Roles, InHand, InTheRecovery, JustAdded, Emitting,
         Recorded, Announced, [Next]_vars, Clean'
  PROVE  Announced'
<1> USE FiveWriters DEF RowsTyped
<1>1. ASSUME NEW w \in Writers, SetRow(w) PROVE Announced'
  <2>1. /\ registered' = registered /\ (Parked' <=> Parked) /\ queue' = queue /\ Latest' = Latest
        /\ \A u \in Writers : u # w => job'[u] = job[u]
    BY <1>1 DEF SetRow, manager, Parked, Latest
  <2>2. job'[w] \in {"idle", "park", "emit", "drop"}
    BY <1>1 DEF SetRow, AfterSet
  <2>3. ~Pending("events")'
    BY <1>1, <2>2 DEF SetRow, Pending, Setting
  <2>4. CASE w = "ui" /\ Adding /\ registered # "absent" /\ NewRow
    <3>1. ~Parked /\ (job["ui"] = "set" => queue = <<>>)
      BY <2>4 DEF JustAdded, Parked
    <3>2. job["ui"] = "setThenEmit" => job'["ui"] = "emit"
      BY <1>1, <2>4 DEF SetRow, AfterSet
    <3> QED BY <2>1, <2>3, <2>4, <3>1, <3>2 DEF Announced, Adding, NewRow
  <2>5. CASE w = "ui" /\ job["ui"] = "set" /\ registered = "absent" /\ ~HasRow'
    BY <2>1, <2>5 DEF Announced, Known, Readding
  <2>6. CASE w = "pass" /\ job["pass"] = "setThenDrop" /\ registered = "live" /\ Delivery
    BY <2>1, <2>3, <2>6 DEF Announced, Known, Adding, Readding, Delivery, Parked
  <2>7. CASE w = "events" /\ Pending("events") /\ EventRow
    BY <2>1, <2>3, <2>7 DEF Announced, Known, Adding, Readding, EventRow
  <2>8. CASE w \in {"ui", "info"} /\ job[w] = "setFiles" /\ ChoiceRow
    <3>1. (Known' => Known) /\ (job'["ui"] # "emit" => job["ui"] # "emit")
      <4>1. CASE w = "ui"
        BY <2>1, <2>8, <4>1 DEF Known, Adding, Readding
      <4>2. CASE w = "info"
        BY <2>1, <4>2 DEF Known, Adding, Readding
      <4> QED BY <2>8, <4>1, <4>2
    <3>2. job'["events"] = job["events"]
      BY <2>1, <2>8
    <3> QED BY <2>1, <2>3, <2>8, <3>1, <3>2 DEF Announced, ChoiceRow
  <2>9. CASE w = "monitor" /\ Readding /\ Pending("monitor") /\ NewRow
    <3>1. ReaddingInTime
      BY <2>9 DEF InTheRecovery
    <3>2. job'["ui"] = job["ui"] /\ job'["events"] = job["events"]
      BY <2>1, <2>9
    <3> QED BY <2>1, <2>3, <2>9, <3>1, <3>2 DEF Announced, Known, NewRow, ReaddingInTime
  <2> QED BY <1>1, <2>4, <2>5, <2>6, <2>7, <2>8, <2>9, Written
<1>2. CASE Start
  <2>1. registered' = "absent" \/ job'["ui"] = "set"
    BY <1>2 DEF Start
  <2> QED BY <2>1 DEF Announced, Known, Adding, Readding
<1>3. CASE ~Start /\ \A w \in Writers : ~SetRow(w)
  <2>1. /\ rows' = rows
        /\ (HasRow' <=> HasRow) /\ (SaysDone' <=> SaysDone) /\ (SaysPaused' <=> SaysPaused)
    BY <1>3, RowKept
  <2>2. ASSUME Add PROVE Announced'
    BY <2>1, <2>2 DEF Add, Register, AddingElse, Prepare, Free, Roles, Announced, Known, Adding,
       Readding, JustAdded,
       Clean, Parked, Latest, Pending, WillSay
  <2>3. ASSUME Pause PROVE Announced'
    <3>1. queue' # <<>> /\ Latest' = "paused"
      BY <2>3, EmitKept DEF Pause
    <3>2. Parked'
      BY <2>3 DEF Pause, Parked
    <3> QED BY <3>1, <3>2 DEF Announced
  <2>4. ASSUME Resume PROVE Announced'
    BY <2>1, <2>4 DEF Resume, Register, AddingElse, Prepare, Free, Roles, Announced, Known,
       Adding, Readding,
       JustAdded, Clean, Parked, Latest, Pending, WillSay
  <2>5. ASSUME EmitResumed PROVE Announced'
    <3>1. queue' # <<>> /\ Latest' = "resumed"
      BY <2>5, EmitKept DEF EmitResumed
    <3>2. ~Parked'
      BY <2>5 DEF EmitResumed, Parked, Emitting, manager
    <3> QED BY <3>1, <3>2 DEF Announced
  <2>6. ASSUME NEW f \in Choices, Choose(f) PROVE Announced'
    BY <2>1, <2>6 DEF Choose, Free, Roles, Announced, Known, Adding, Readding, JustAdded, Clean,
       Parked,
       Latest, Pending, WillSay
  <2>7. ASSUME Delete PROVE Announced'
    BY <2>1, <2>7 DEF Delete, Cancel, AddingElse, Prepare, Free, Roles, Announced, Known, Adding,
       Readding, JustAdded, Clean,
       Parked, Latest, Pending, WillSay
  <2>8. ASSUME Metadata PROVE Announced'
    BY <2>1, <2>8 DEF Metadata, Free, Roles, Announced, Known, Adding, Readding, JustAdded,
       Clean, Parked,
       Latest, Pending, WillSay
  <2>9. ASSUME NEW w \in {"ui", "info"}, OnSelect(w) PROVE Announced'
    BY <2>1, <2>9 DEF OnSelect, Prepare, manager, Roles, Announced, Known, Adding, Readding,
       JustAdded,
       Clean, Parked, Latest, Pending, WillSay
  <2>10. ASSUME OnEvent PROVE Announced'
    <3>1. /\ queue # <<>> /\ queue' = Tail(queue) /\ (Parked' <=> Parked)
          /\ job'["ui"] = job["ui"] /\ (Known' <=> Known)
      BY <2>10 DEF OnEvent, manager, Parked, Known, Adding, Readding
    <3>2. CASE ~HasRow
      BY <2>10, <3>2 DEF OnEvent, HasRow, Clean, manager, Announced, Known, Readding
    <3>3. CASE HasRow
      <4>1. /\ job'["events"] = "set"
            /\ row'["events"] = [rows EXCEPT !.paused = PausedBy(Head(queue))]
        BY <2>10, <3>3 DEF OnEvent, Prepare, HasRow
      <4>2. WillSay' <=> Head(queue) = "paused"
        <5>1. rows \in Row
          BY StoreOfOneRow DEF StoreTypeOK
        <5>2. row'["events"].paused = PausedBy(Head(queue))
          BY <4>1, <5>1 DEF Row
        <5> QED BY <5>2 DEF WillSay, PausedBy
      <4>3. (queue' = <<>> => Head(queue) = Latest) /\ (queue' # <<>> => Latest' = Latest)
        BY <3>1, LatestStays
      <4> HIDE DEF RowsTyped
      <4> QED BY <3>1, <4>1, <4>2, <4>3 DEF Announced
    <3> QED BY <3>2, <3>3
  <2>11. ASSUME Pass PROVE Announced'
    BY <2>1, <2>11 DEF Pass, Prepare, manager, Free, Roles, Announced, Known, Adding, Readding,
       JustAdded,
       Clean, Parked, Latest, Pending, WillSay
  <2>12. ASSUME DropCompleted PROVE Announced'
    BY <2>1, <2>12 DEF DropCompleted, Roles, Announced, Known, Adding, Readding, JustAdded,
       Clean, Parked,
       Latest, Pending, WillSay
  <2>13. ASSUME Saves PROVE Announced'
    BY <2>1, <2>13 DEF Saves, rowVars, Roles, Announced, Known, Adding, Readding, JustAdded,
       Clean, Parked,
       Latest, Pending, WillSay
  <2>14. ASSUME RePark PROVE Announced'
    <3>1. CASE registered = "live"
      <4>1. queue' # <<>> /\ Latest' = "paused"
        BY <2>14, <3>1, EmitKept DEF RePark
      <4>2. Parked'
        BY <2>14, <3>1 DEF RePark, Parked
      <4> QED BY <4>1, <4>2 DEF Announced
    <3>2. CASE registered # "live"
      <4>1. /\ (Parked' <=> Parked) /\ queue' = queue /\ Latest' = Latest
            /\ (Known' => Known) /\ job["ui"] # "emit"
        BY <2>14, <3>2 DEF RePark, Parked, Latest, Known, Adding, Readding
      <4>2. /\ (Pending("events")' <=> Pending("events")) /\ (WillSay' <=> WillSay)
            /\ job'["events"] = job["events"]
        BY <2>14 DEF RePark, Pending, WillSay
      <4> QED BY <2>1, <4>1, <4>2 DEF Announced
    <3> QED BY <3>1, <3>2
  <2>15. ASSUME UNCHANGED vars PROVE Announced'
    BY <2>1, <2>15 DEF vars, rowVars, Roles, Announced, Known, Adding, Readding, JustAdded,
       Clean, Parked,
       Latest, Pending, WillSay
  <2>16. ASSUME PauseHeld PROVE Announced'
    BY <2>1, <2>16 DEF PauseHeld, manager, handler, Free, Roles, Announced, Known, Adding,
       Readding, JustAdded, Clean, Parked, Latest, Pending, WillSay
  <2>17. ASSUME DeleteOverHTTP PROVE Announced'
    BY <2>1, <2>17 DEF DeleteOverHTTP, Cancel, handler, Free, Roles, Announced, Known, Adding,
       Readding, JustAdded, Clean, Parked, Latest, Pending, WillSay
  <2>18. ASSUME PanicAll PROVE Announced'
    BY <2>1, <2>18 DEF PanicAll, handler, Roles, Announced, Known, Adding, Readding, JustAdded,
       Clean, Parked, Latest, Pending, WillSay
  <2>19. ASSUME ResumeAll PROVE Announced'
    BY <2>1, <2>19 DEF ResumeAll, Free, Roles, Announced, Known, Adding, Readding, JustAdded,
       Clean, Parked, Latest, Pending, WillSay
  <2>20. ASSUME ReAdd PROVE Announced'
    BY <2>1, <2>20 DEF ReAdd, Register, Prepare, AddingElse, Roles, Announced, Known, Adding,
       Readding, JustAdded, Clean, Parked, Latest, Pending, WillSay
  <2>21. ASSUME ReAddFails PROVE Announced'
    BY <2>1, <2>21 DEF ReAddFails, manager, Roles, Announced, Known, Adding, Readding, JustAdded,
       Clean, Parked, Latest, Pending, WillSay
  <2> QED BY <1>3, <2>2, <2>3, <2>4, <2>5, <2>6, <2>7, <2>8, <2>9, <2>10, <2>11, <2>12, <2>13,
     <2>14, <2>15, <2>16, <2>17, <2>18, <2>19, <2>20, <2>21 DEF Next
<1> QED BY <1>1, <1>2, <1>3

\* The choice stays in the row, or on its way there.
LEMMA FollowedStep ==
  ASSUME RowsTyped, Roles, InHand, InTheRecovery, JustAdded, Followed,
         [Next]_vars, Clean'
  PROVE  Followed'
<1> USE FiveWriters DEF RowsTyped
<1>1. ASSUME NEW w \in Writers, SetRow(w) PROVE Followed'
  <2>1. /\ registered' = registered /\ applied' = applied /\ chosen' = chosen
        /\ \A u \in Writers : u # w => job'[u] = job[u]
    BY <1>1 DEF SetRow, manager
  <2>2. CASE w = "ui" /\ Adding /\ registered # "absent" /\ NewRow
    BY <2>1, <2>2 DEF Followed, JustAdded
  <2>3. CASE w = "ui" /\ job["ui"] = "set" /\ registered = "absent" /\ ~HasRow'
    BY <2>1, <2>3 DEF Followed, Known, Readding
  <2>4. CASE w = "pass" /\ job["pass"] = "setThenDrop" /\ registered = "live" /\ Delivery
    BY <1>1, <2>4 DEF SetRow, AfterSet, Followed
  <2>5. CASE w = "events" /\ Pending("events") /\ EventRow
    BY <2>1, <2>5 DEF Followed, Known, Adding, Readding, EventRow
  <2>6. CASE w \in {"ui", "info"} /\ job[w] = "setFiles" /\ ChoiceRow
    BY <2>1, <2>6 DEF Followed, ChoiceRow
  <2>7. CASE w = "monitor" /\ Readding /\ Pending("monitor") /\ NewRow
    <3>1. ReaddingInTime
      BY <2>7 DEF InTheRecovery
    <3> QED BY <2>1, <2>7, <3>1 DEF Followed, ReaddingInTime
  <2> QED BY <1>1, <2>2, <2>3, <2>4, <2>5, <2>6, <2>7, Written
<1>2. CASE Start
  <2>1. applied' = FALSE
    BY <1>2 DEF Start
  <2> QED BY <2>1 DEF Followed
<1>3. CASE ~Start /\ \A w \in Writers : ~SetRow(w)
  <2>1. /\ rows' = rows
        /\ (HasRow' <=> HasRow) /\ (SaysDone' <=> SaysDone) /\ (SaysPaused' <=> SaysPaused)
    BY <1>3, RowKept
  <2>2. ASSUME Add PROVE Followed'
    BY <2>1, <2>2 DEF Add, Register, AddingElse, Prepare, Free, Roles, Followed, Known, Adding,
       Readding, Clean
  <2>3. ASSUME Pause PROVE Followed'
    BY <2>1, <2>3 DEF Pause, handler, Free, Roles, Followed, Known, Adding, Readding, Clean
  <2>4. ASSUME Resume PROVE Followed'
    BY <2>1, <2>4 DEF Resume, Register, AddingElse, Prepare, Free, Roles, Followed, Known,
       Adding, Readding, Clean
  <2>5. ASSUME EmitResumed PROVE Followed'
    BY <2>1, <2>5 DEF EmitResumed, manager, Roles, Followed, Known, Adding, Readding, Clean
  <2>6. ASSUME NEW f \in Choices, Choose(f) PROVE Followed'
    BY <2>1, <2>6 DEF Choose, Free, Roles, Followed, Known, Adding, Readding, Clean
  <2>7. ASSUME Delete PROVE Followed'
    BY <2>1, <2>7 DEF Delete, Cancel, AddingElse, Prepare, Free, Roles, Followed, Known, Adding,
       Readding, Clean
  <2>8. ASSUME Metadata PROVE Followed'
    BY <2>1, <2>8 DEF Metadata, Free, Roles, Followed, Known, Adding, Readding, Clean
  <2>9. ASSUME NEW w \in {"ui", "info"}, OnSelect(w) PROVE Followed'
    <3>1. rows.here
      BY <2>9 DEF OnSelect, Clean
    <3>2. job'[w] = "setFiles"
      BY <2>9, <3>1 DEF OnSelect
    <3> QED BY <3>2 DEF Followed
  <2>10. ASSUME OnEvent PROVE Followed'
    BY <2>1, <2>10 DEF OnEvent, Prepare, manager, Free, Roles, Followed, Known, Adding, Readding,
       Clean
  <2>11. ASSUME Pass PROVE Followed'
    BY <2>1, <2>11 DEF Pass, Prepare, manager, Free, Roles, Followed, Known, Adding, Readding,
       Clean
  <2>12. ASSUME DropCompleted PROVE Followed'
    BY <2>1, <2>12 DEF DropCompleted, Roles, Followed, Known, Adding, Readding, Clean
  <2>13. ASSUME Saves PROVE Followed'
    BY <2>1, <2>13 DEF Saves, rowVars, Roles, Followed, Known, Adding, Readding, Clean
  <2>14. ASSUME RePark PROVE Followed'
    BY <2>1, <2>14 DEF RePark, Roles, Followed, Known, Adding, Readding, Clean
  <2>15. ASSUME UNCHANGED vars PROVE Followed'
    BY <2>1, <2>15 DEF vars, rowVars, Roles, Followed, Known, Adding, Readding, Clean
  <2>16. ASSUME PauseHeld PROVE Followed'
    BY <2>1, <2>16 DEF PauseHeld, manager, handler, Free, Roles, Followed, Known, Adding,
       Readding, Clean
  <2>17. ASSUME DeleteOverHTTP PROVE Followed'
    BY <2>1, <2>17 DEF DeleteOverHTTP, Cancel, handler, Free, Roles, Followed, Known, Adding,
       Readding, Clean
  <2>18. ASSUME PanicAll PROVE Followed'
    BY <2>1, <2>18 DEF PanicAll, handler, Roles, Followed, Known, Adding, Readding, Clean
  <2>19. ASSUME ResumeAll PROVE Followed'
    BY <2>1, <2>19 DEF ResumeAll, Free, Roles, Followed, Known, Adding, Readding, Clean
  <2>20. ASSUME ReAdd PROVE Followed'
    BY <2>1, <2>20 DEF ReAdd, Register, Prepare, AddingElse, Roles, Followed, Known, Adding,
       Readding, Clean
  <2>21. ASSUME ReAddFails PROVE Followed'
    BY <2>1, <2>21 DEF ReAddFails, manager, Roles, Followed, Known, Adding, Readding, Clean
  <2> QED BY <1>3, <2>2, <2>3, <2>4, <2>5, <2>6, <2>7, <2>8, <2>9, <2>10, <2>11, <2>12, <2>13,
     <2>14, <2>15, <2>16, <2>17, <2>18, <2>19, <2>20, <2>21 DEF Next
<1> QED BY <1>1, <1>2, <1>3

\* When all is quiet the row is the manager's record.
LEMMA QuietRow ==
  ASSUME RowsTyped, Recorded, Announced, Followed, Quiet
  PROVE  /\ registered = "absent" => GivenUp \/ ~HasRow \/ SaysDone
         /\ registered # "absent" => HasRow /\ ~SaysDone /\ (SaysPaused <=> Parked)
         /\ registered = "live" /\ applied => rows.files = chosen
<1> USE FiveWriters
<1>1. /\ queue = <<>> /\ job["ui"] = "idle" /\ job["info"] = "idle" /\ job["events"] = "idle"
      /\ job["pass"] = "idle" /\ job["monitor"] = "idle"
  BY DEF Quiet, Free
<1>2. registered # "absent" => Known
  BY <1>1 DEF Known, Adding, Readding
<1>3. registered = "absent" => GivenUp \/ ~HasRow \/ SaysDone
  BY <1>1 DEF Recorded
<1>4. registered # "absent" => HasRow /\ ~SaysDone
  BY <1>1, <1>2 DEF Recorded
<1>5. registered # "absent" => (SaysPaused <=> Parked)
  BY <1>1, <1>2 DEF Announced
<1>6. registered = "live" /\ applied => rows.files = chosen
  BY <1>1, <1>2 DEF Followed
<1> QED BY <1>3, <1>4, <1>5, <1>6

\* A start finds what the user asked for, and so does every other step.
LEMMA WishedStep ==
  ASSUME RowsTyped, Roles, Booting, Recorded, Announced, Followed, Wished,
         QuietIsDurable, [Next]_vars, Clean'
  PROVE  Wished'
<1> USE FiveWriters DEF RowsTyped
<1>1. ASSUME Add PROVE Wished'
  BY <1>1 DEF Add, Register, AddingElse, Prepare, Free, Roles, Booting, Wished, Parked, Clean,
     GivenUp
<1>2. ASSUME Pause PROVE Wished'
  BY <1>2 DEF Pause, handler, Free, Roles, Booting, Wished, Parked, Clean, GivenUp
<1>3. ASSUME Resume PROVE Wished'
  BY <1>3 DEF Resume, Register, AddingElse, Prepare, Free, Roles, Booting, Wished, Parked, Clean,
     GivenUp
<1>4. ASSUME EmitResumed PROVE Wished'
  BY <1>4 DEF EmitResumed, manager, Roles, Booting, Wished, Parked, Clean, GivenUp
<1>5. ASSUME NEW f \in Choices, Choose(f) PROVE Wished'
  BY <1>5 DEF Choose, Free, Roles, Booting, Wished, Parked, Clean, GivenUp
<1>6. ASSUME Delete PROVE Wished'
  BY <1>6 DEF Delete, Cancel, AddingElse, Prepare, Free, Roles, Booting, Wished, Parked, Clean,
     GivenUp
<1>7. ASSUME Metadata PROVE Wished'
  BY <1>7 DEF Metadata, Free, Roles, Booting, Wished, Parked, Clean, GivenUp
<1>8. ASSUME NEW w \in {"ui", "info"}, OnSelect(w) PROVE Wished'
  BY <1>8 DEF OnSelect, Prepare, manager, Roles, Booting, Wished, Parked, Clean, GivenUp
<1>9. ASSUME OnEvent PROVE Wished'
  BY <1>9 DEF OnEvent, Prepare, manager, Free, Roles, Booting, Wished, Parked, Clean, GivenUp
<1>10. ASSUME Pass PROVE Wished'
  BY <1>10 DEF Pass, Prepare, manager, Free, Roles, Booting, Wished, Parked, Clean, GivenUp
<1>11. ASSUME DropCompleted PROVE Wished'
  BY <1>11 DEF DropCompleted, Roles, Booting, Wished, Parked, Clean, GivenUp
<1>12. ASSUME NEW w \in Writers, SetRow(w) PROVE Wished'
  BY <1>12 DEF SetRow, manager, AfterSet, Roles, Booting, Wished, Parked, Clean, GivenUp
<1>13. ASSUME Saves PROVE Wished'
  BY <1>13 DEF Saves, rowVars, Roles, Booting, Wished, Parked, Clean, GivenUp
<1>14. ASSUME Start PROVE Wished'
  <2> SUFFICES ASSUME ~broken', ~GivenUp'
               PROVE  wish' = IF registered' = "absent" THEN "none"
                              ELSE IF boot' \/ Parked' THEN "park" ELSE "run"
    BY DEF Wished
  <2>1. ~broken /\ Quiet /\ ~failed
    BY <1>14 DEF Start
  <2>2. Load = rows
    BY <2>1 DEF Quiet, Free, QuietIsDurable
  <2>3. wish' = wish /\ (sourced' <=> AddsUndelivered) /\ ~GivenUp
    BY <1>14 DEF Start, GivenUp
  <2>4. /\ registered = "absent" => ~HasRow \/ SaysDone
        /\ registered # "absent" => HasRow /\ ~SaysDone /\ (SaysPaused <=> Parked)
    BY <2>1, <2>3, QuietRow
  <2>5. AddsUndelivered <=> HasRow /\ ~SaysDone
    BY <2>2 DEF AddsUndelivered, HasRow, SaysDone
  <2>6. /\ registered' = "absent" <=> ~sourced'
        /\ ~Parked'
        /\ boot' <=> sourced' /\ SaysPaused
    BY <1>14, <2>2 DEF Start, SaysPaused, Parked
  <2>7. wish = IF registered = "absent" THEN "none" ELSE IF boot \/ Parked THEN "park" ELSE "run"
    BY <2>1, <2>3 DEF Wished
  <2>8. ~boot
    BY <2>1 DEF Quiet
  <2> HIDE DEF RowsTyped
  <2>9. CASE registered = "absent"
    BY <2>3, <2>4, <2>5, <2>6, <2>7, <2>9
  <2>10. CASE registered # "absent"
    <3>1. registered' # "absent" /\ (boot' <=> Parked)
      BY <2>3, <2>4, <2>5, <2>6, <2>10
    <3> QED BY <2>3, <2>6, <2>7, <2>8, <2>10, <3>1
  <2> QED BY <2>9, <2>10
<1>15. ASSUME RePark PROVE Wished'
  <2>1. (broken' <=> broken) /\ ~boot' /\ boot
    BY <1>15 DEF RePark, Booting
  <2>2. CASE registered = "live"
    <3>1. Parked' /\ registered' # "absent" /\ wish' = wish
      BY <1>15, <2>2 DEF RePark, Parked
    <3> QED BY <2>1, <2>2, <3>1 DEF Wished, GivenUp
  <2>3. CASE registered = "held"
    BY <1>15, <2>3 DEF RePark, Wished, GivenUp
  <2>4. CASE registered \notin {"live", "held"}
    <3>1. registered' = registered /\ wish' = wish /\ ~Parked
      BY <1>15, <2>1, <2>4 DEF RePark, Booting
    <3>2. registered = "absent"
      BY <2>4, <3>1 DEF Parked
    <3> QED BY <2>1, <3>1, <3>2 DEF Wished, GivenUp
  <2> QED BY <2>2, <2>3, <2>4
<1>16. ASSUME UNCHANGED vars PROVE Wished'
  BY <1>16 DEF vars, rowVars, Roles, Booting, Wished, Parked, Clean, GivenUp
<1>17. ASSUME PauseHeld PROVE Wished'
  BY <1>17 DEF PauseHeld, manager, handler, Free, Roles, Booting, Wished, Parked, Clean, GivenUp
<1>18. ASSUME DeleteOverHTTP PROVE Wished'
  BY <1>18 DEF DeleteOverHTTP, Cancel, handler, Free, Roles, Booting, Wished, Parked, Clean,
     GivenUp
<1>19. ASSUME PanicAll PROVE Wished'
  BY <1>19 DEF PanicAll, handler, Roles, Booting, Wished, Parked, Clean, GivenUp
<1>20. ASSUME ResumeAll PROVE Wished'
  BY <1>20 DEF ResumeAll, Free, Roles, Booting, Wished, Parked, Clean, GivenUp
<1>21. ASSUME ReAdd PROVE Wished'
  BY <1>21 DEF ReAdd, Register, Prepare, AddingElse, Roles, Booting, Wished, Parked, Clean,
     GivenUp
<1>22. ASSUME ReAddFails PROVE Wished'
  BY <1>22 DEF ReAddFails, manager, Roles, Booting, Wished, Parked, Clean, GivenUp
<1> QED BY <1>1, <1>2, <1>3, <1>4, <1>5, <1>6, <1>7, <1>8, <1>9, <1>10, <1>11, <1>12, <1>13,
   <1>14, <1>15, <1>16, <1>17, <1>18, <1>19, <1>20, <1>21, <1>22 DEF Next

\* At the start there is no row, and nothing that could write one.
LEMMA RowInvInit == Init => RowInv
<1> SUFFICES ASSUME Init PROVE RowInv
  OBVIOUS
<1> USE FiveWriters
<1>1. (\A w \in Writers : job[w] = "idle") /\ registered = "absent" /\ ~boot /\ wish = "none"
  BY DEF Init
<1>2. ~HasRow
  BY StoreOfOneRow DEF Init, StoreInit, HasRow, Absent
<1>3. Roles /\ Booting /\ Sourced /\ Holding
  BY <1>1 DEF Roles, Booting, Sourced, Holding
<1>4. InHand /\ JustAdded /\ Emitting /\ InTheRecovery
  BY <1>1 DEF InHand, InTheUI, InThePass, InTheLoop, InTheChoice, Pending, Setting, JustAdded,
              Adding, Emitting, InTheRecovery, Readding
<1>5. Recorded /\ Announced /\ Followed /\ Wished
  BY <1>1, <1>2 DEF Recorded, Announced, Followed, Wished, Known
<1> QED BY <1>3, <1>4, <1>5 DEF RowInv

\* The invariant is inductive, given that what is quiet is durable.
LEMMA RowInvStep ==
  StoreTypeOK /\ RowsTyped /\ QuietIsDurable /\ RowInv /\ [Next]_vars => RowInv'
<1> SUFFICES ASSUME StoreTypeOK, RowsTyped, QuietIsDurable, RowInv, [Next]_vars
             PROVE  RowInv'
  OBVIOUS
<1>1. Roles' /\ Booting' /\ Sourced' /\ Holding'
  BY RolesStep, BootingStep, SourcedStep, HoldingStep DEF RowInv
<1>2. ASSUME Clean'
      PROVE  /\ InHand' /\ JustAdded' /\ Emitting' /\ InTheRecovery'
             /\ Recorded' /\ Announced' /\ Followed' /\ Wished'
  <2>1. /\ Roles /\ Booting
        /\ InHand /\ JustAdded /\ Emitting /\ InTheRecovery
        /\ Recorded /\ Announced /\ Followed /\ Wished
    BY <1>2, CleanBefore DEF RowInv
  <2>2. InHand'
    BY <1>2, <2>1, InTheUIStep, InThePassStep, InTheLoopStep, InTheChoiceStep DEF InHand
  <2>3. JustAdded' /\ Emitting' /\ InTheRecovery'
    BY <1>2, <2>1, JustAddedStep, EmittingStep, InTheRecoveryStep
  <2>4. Recorded'
    BY <1>2, <2>1, RecordedStep
  <2>5. Announced'
    BY <1>2, <2>1, AnnouncedStep
  <2>6. Followed'
    BY <1>2, <2>1, FollowedStep
  <2>7. Wished'
    BY <1>2, <2>1, WishedStep
  <2> QED BY <2>2, <2>3, <2>4, <2>5, <2>6, <2>7
<1> QED BY <1>1, <1>2 DEF RowInv

\* The table on disk, under the five writers.
LEMMA QuietRowsAreDurable == Spec => []QuietIsDurable
BY RowsUseTheStore, Durability, PTL

\* The invariant of the row holds throughout.
LEMMA RowInvAlways == Spec => []RowInv
BY RowInvInit, RowInvStep, RowsTypeCorrect, QuietRowsAreDurable, PTL DEF Spec

(* Once everything under way has ended, the row of a download the manager  *)
(* has is there, does not say delivered, says paused exactly when the user *)
(* has paused it (a panic that holds it is not written down), and holds    *)
(* the choice that was applied, for any number of requests, restarts,      *)
(* panics and places in the event channel (the onAdd and onSelect          *)
(* callbacks, the event loop and the end of completeTorrent in main.go).   *)
THEOREM TheRowFollows == Spec => []RowFollowsManager
<1>1. StoreTypeOK /\ RowsTyped /\ RowInv => RowFollowsManager
  <2> SUFFICES ASSUME StoreTypeOK, RowsTyped, RowInv, Quiet, ~Excused,
                      registered # "absent"
               PROVE  /\ rows.here /\ ~rows.done
                      /\ rows.paused = (registered = "parked")
                      /\ registered = "live" /\ applied => rows.files = chosen
    BY DEF RowFollowsManager
  <2>1. Recorded /\ Announced /\ Followed
    BY DEF RowInv, Clean, Excused
  <2>2. /\ HasRow /\ ~SaysDone /\ (SaysPaused <=> Parked)
        /\ registered = "live" /\ applied => rows.files = chosen
    BY <2>1, QuietRow
  <2>3. rows.paused \in BOOLEAN
    BY StoreOfOneRow DEF StoreTypeOK, Row
  <2>4. rows.paused = (registered = "parked")
    BY <2>2, <2>3 DEF SaysPaused, Parked
  <2> QED BY <2>2, <2>4 DEF HasRow, SaysDone
<1> QED BY <1>1, RowInvAlways, RowsTypeCorrect, PTL

(* A pause asked for survives restarts, a download left running survives   *)
(* panics and restarts, and one deleted or delivered stays away, as long   *)
(* as each restart found the program at rest and its last Save had         *)
(* succeeded, and until the code gives the wish up in one of the ways that *)
(* WishSurvives names (the restore of main.go, PanicAll and ResumeAll).    *)
THEOREM TheWishSurvives == Spec => []WishSurvives
<1>1. RowsTyped /\ RowInv => WishSurvives
  <2> SUFFICES ASSUME RowsTyped, RowInv, Quiet, ~Excused, ~broken
               PROVE  CASE wish = "park" -> registered = "parked"
                        [] wish = "run"  -> \/ registered = "live"
                                            \/ registered = "held" /\ panicked
                        [] wish = "none" -> registered = "absent"
                        [] OTHER -> TRUE
    BY DEF WishSurvives
  <2>1. Wished /\ Holding /\ ~boot /\ job["monitor"] = "idle"
    BY FiveWriters DEF RowInv, Clean, Excused, Quiet, Free
  <2>2. CASE GivenUp
    BY <2>2 DEF GivenUp
  <2>3. CASE ~GivenUp
    <3>1. wish = IF registered = "absent" THEN "none" ELSE IF Parked THEN "park" ELSE "run"
      BY <2>1, <2>3 DEF Wished
    <3>2. wish = "run" /\ registered = "held" => panicked
      BY <2>1 DEF Holding
    <3> QED BY <3>1, <3>2 DEF Parked, RowsTyped
  <2> QED BY <2>2, <2>3
<1> QED BY <1>1, RowInvAlways, RowsTypeCorrect, PTL

=============================================================================
