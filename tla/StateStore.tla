----------------------------- MODULE StateStore -----------------------------
(***************************************************************************)
(* The state store of internal/state/store.go: a table of rows behind a    *)
(* read-write lock, saved as a whole to state.json after every change.     *)
(* Set and Delete change the table under the write lock, release it, and   *)
(* then Save, which holds only the READ lock: several Saves may run side   *)
(* by side, and they all write the one temporary file.                     *)
(*                                                                         *)
(* A file is the inode a name leads to.  A Save keeps the inode it opened, *)
(* so once another Save has renamed that inode into place, its writes land *)
(* in state.json itself, and once state.json has been replaced again they  *)
(* land nowhere.                                                           *)
(***************************************************************************)
EXTENDS Naturals, FiniteSets

CONSTANTS
  Writers,  \* goroutines that change the store
  Tables,   \* what the store may hold
  NoRows    \* the empty table

ASSUME EmptyTable == NoRows \in Tables

VARIABLES
  rows,        \* s.States
  file,        \* state.json
  tmp,         \* state.json.tmp
  pc,          \* per writer, its place in Save
  buf,         \* per writer, the table it marshalled
  fd,          \* per writer, where the file it writes is by now
  overlapped,  \* history: a Save began while another was writing
  failed       \* history: a Save could not write, since the last start

storeVars == <<rows, file, tmp, pc, buf, fd, overlapped, failed>>

Missing   == [kind |-> "missing", rows |-> NoRows]
Torn      == [kind |-> "torn", rows |-> NoRows]
Whole(t)  == [kind |-> "whole", rows |-> t]
Files     == {Missing, Torn} \union {Whole(t) : t \in Tables}

\* Writers inside Save, that is, holders of the read lock.
Saving == {w \in Writers : pc[w] \in {"open", "written"}}

StoreTypeOK ==
  /\ rows \in Tables
  /\ file \in Files
  /\ tmp \in Files
  /\ pc \in [Writers -> {"idle", "save", "open", "written"}]
  /\ buf \in [Writers -> Tables]
  /\ fd \in [Writers -> {"tmp", "file", "gone"}]
  /\ overlapped \in BOOLEAN
  /\ failed \in BOOLEAN

StoreInit ==
  /\ rows = NoRows
  /\ file = Missing
  /\ tmp = Missing
  /\ pc = [w \in Writers |-> "idle"]
  /\ buf = [w \in Writers |-> NoRows]
  /\ fd = [w \in Writers |-> "gone"]
  /\ overlapped = FALSE
  /\ failed = FALSE

-----------------------------------------------------------------------------

\* s.mu.Lock() waits for every holder of the read lock.
AnyTime == TRUE
LockFree == Saving = {}

\* Set and Delete, up to the call of Save.
Set(w, t) ==
  /\ pc[w] = "idle"
  /\ LockFree
  /\ rows' = t
  /\ pc' = [pc EXCEPT ![w] = "save"]
  /\ UNCHANGED <<file, tmp, buf, fd, overlapped, failed>>

\* The name Save opens, truncating the file it leads to.
InPlace == "file"
Target == "tmp"

\* Save: the read lock, the marshalling, and the O_TRUNC of os.WriteFile.
Open(w) ==
  /\ pc[w] = "save"
  /\ buf' = [buf EXCEPT ![w] = rows]
  /\ fd' = [fd EXCEPT ![w] = Target]
  /\ tmp' = IF Target = "tmp" THEN Torn ELSE tmp
  /\ file' = IF Target = "file" THEN Torn ELSE file
  /\ overlapped' = (overlapped \/ Saving # {})
  /\ pc' = [pc EXCEPT ![w] = "open"]
  /\ UNCHANGED <<rows, failed>>

Write(w) ==
  /\ pc[w] = "open"
  /\ tmp' = IF fd[w] = "tmp" THEN Whole(buf[w]) ELSE tmp
  /\ file' = IF fd[w] = "file" THEN Whole(buf[w]) ELSE file
  /\ pc' = [pc EXCEPT ![w] = "written"]
  /\ UNCHANGED <<rows, buf, fd, overlapped, failed>>

\* The device is full: Save returns the error with the file cut short.
WriteFails(w) ==
  /\ pc[w] = "open"
  /\ failed' = TRUE
  /\ pc' = [pc EXCEPT ![w] = "idle"]
  /\ buf' = [buf EXCEPT ![w] = NoRows]
  /\ fd' = [fd EXCEPT ![w] = "gone"]
  /\ UNCHANGED <<rows, file, tmp, overlapped>>

\* Where the inodes are once tmp has been renamed over file.
Moved == [u \in Writers |-> IF fd[u] = "tmp" THEN "file" ELSE "gone"]

\* os.Rename, and the end of the read lock.  A Save that finds the
\* temporary file gone returns that error, which its callers ignore or log.
Rename(w) ==
  /\ pc[w] = "written"
  /\ file' = IF tmp.kind = "missing" THEN file ELSE tmp
  /\ fd' = [(IF tmp.kind = "missing" THEN fd ELSE Moved) EXCEPT ![w] = "gone"]
  /\ tmp' = Missing
  /\ pc' = [pc EXCEPT ![w] = "idle"]
  /\ buf' = [buf EXCEPT ![w] = NoRows]
  /\ UNCHANGED <<rows, overlapped, failed>>

\* NewStore: a file that does not parse leaves the table empty.
Load == IF file.kind = "whole" THEN file.rows ELSE NoRows

\* The process is killed and started again; what it wrote stays.
Restart ==
  /\ rows' = Load
  /\ pc' = [w \in Writers |-> "idle"]
  /\ buf' = [w \in Writers |-> NoRows]
  /\ fd' = [w \in Writers |-> "gone"]
  /\ failed' = FALSE
  /\ UNCHANGED <<file, tmp, overlapped>>

SaveStep(w) == Open(w) \/ Write(w) \/ WriteFails(w) \/ Rename(w)

StoreNext ==
  \/ \E w \in Writers : SaveStep(w) \/ \E t \in Tables : Set(w, t)
  \/ Restart

StoreSpec == StoreInit /\ [][StoreNext]_storeVars

-----------------------------------------------------------------------------

(* Once every Save has returned, and unless one of them could not write,   *)
(* a start of the program would read back exactly the table: no Save that  *)
(* loses the race for the temporary file takes another's rows with it      *)
(* (Set, Delete and Save of store.go).                                     *)
QuietIsDurable ==
  (\A w \in Writers : pc[w] = "idle") /\ ~failed => Load = rows

(* A kill at any moment leaves a complete state.json behind, unless two    *)
(* Saves overlapped: the second truncates the file that the first renames  *)
(* into place (the os.WriteFile and os.Rename of Save).                    *)
WholeOnDisk == file.kind = "torn" => overlapped

=============================================================================
