-------------------------- MODULE Interface_proofs --------------------------
(***************************************************************************)
(* The user's side of the program, for any number of refreshes, re-scans,  *)
(* looking commands and goroutines of the server: the screen never         *)
(* freezes, one re-scan at a time goes through either door, what a restart *)
(* would read is what is set, and the server serves when the setting says  *)
(* so.                                                                     *)
(*                                                                         *)
(* Of the doors: the web page's half is inductive by itself.  The history  *)
(* page's half is not: a scan may be on the way from the channel to the    *)
(* screen, and a command that looks for another one would clear it too     *)
(* early.  What is inductive (InSight) is that, unless an error of         *)
(* something else came in between, every command that is awake looks for   *)
(* the one scan on the screen, there is no second such command, and when   *)
(* it has found an outcome no scan is running any more.                    *)
(*                                                                         *)
(* Of the file: while a setting is being saved it differs from Config in   *)
(* that one setting, or is empty, and what the saver is about to write is  *)
(* all of Config (SaverCarries), as long as there is one saver.            *)
(*                                                                         *)
(* Of the server: what its goroutines are, whoever started them            *)
(* (OneClaim, ServerKnown, CloserWaits), and, unless something other than  *)
(* a toggle decided what serves, that they are as the setting has it or    *)
(* the popup is about to make them so (FollowsToggle).                     *)
(***************************************************************************)
EXTENDS MCInterface, FiniteSetTheorems, TLAPS

-----------------------------------------------------------------------------
(* The screen                                                              *)

\* What a refresh brings, and what the screen shows of it.
Lists == [listed : SUBSET Torrents, asks : SUBSET Torrents]
Refreshers == [pc : {"off", "due", "carries", "adding"}, of : Torrents \union {None},
               list : Lists]

\* As much of the types as the argument needs.
ScreenTyped ==
  /\ shown \in Lists
  /\ poll \in [Polls -> Refreshers]
  /\ load \in [tick : {"early", "mid", "late", "done"}, on : BOOLEAN]

\* The messages of a refresh that is alive will ask for the next.
Alive(c) == poll[c].pc \in {"due", "carries"}

\* A step that ends no refresh, and neither closes the picker nor ends loading.
NoneEnds ==
  /\ \A c \in Polls : Alive(c) => Alive(c)'
  /\ picking' = picking /\ load' = load

\* What is put into the place of a refresh, and what it brings.
LEMMA RefreshTypes ==
  /\ UI!Off \in Refreshers /\ UI!Due \in Refreshers /\ UI!Nothing \in Lists /\ UI!List \in Lists
  /\ \A t \in Torrents \union {None} : UI!Adding(t) \in Refreshers
  /\ [pc |-> "carries", of |-> None, list |-> UI!List] \in Refreshers
BY DEF UI!Off, UI!Due, UI!Adding, UI!Nothing, UI!List, Refreshers, Lists

\* What is shown and what refreshes bring are sets of torrents at all times.
LEMMA ScreenTypedKept == ASSUME ScreenTyped, [UI!Next]_(UI!vars) PROVE ScreenTyped'
<1> USE RefreshTypes DEF ScreenTyped
<1>1. ASSUME NEW c \in Polls, UI!Fetches(c) PROVE poll' \in [Polls -> Refreshers]
  BY <1>1 DEF UI!Fetches
<1>2. ASSUME NEW c \in Polls, NEW t \in Torrents \union {None}, UI!Adds(c, t)
      PROVE  poll' \in [Polls -> Refreshers]
  BY <1>2 DEF UI!Adds
<1>3. CASE \E t \in Torrents : UI!Metadata(t) \/ UI!Elsewhere(t)
  BY <1>3 DEF UI!Metadata, UI!Elsewhere, UI!screen
<1>4. ASSUME NEW c \in Polls, UI!LoadTick(c) PROVE ScreenTyped'
  BY <1>1, <1>4 DEF UI!LoadTick
<1>5. ASSUME NEW c \in Polls, UI!Poll(c) PROVE ScreenTyped'
  BY <1>5 DEF UI!Poll, UI!screen
<1>6. ASSUME NEW c \in Polls, UI!DataMsg(c) PROVE ScreenTyped'
  <2>1. shown' \in Lists
    BY <1>6 DEF UI!DataMsg, Refreshers
  <2>2. \A loading : UI!Again(loading) \in Refreshers
    BY DEF UI!Again
  <2>3. poll' \in [Polls -> Refreshers]
    BY <1>6, <2>2 DEF UI!DataMsg
  <2>4. load' \in [tick : {"early", "mid", "late", "done"}, on : BOOLEAN]
    BY <1>6 DEF UI!DataMsg
  <2> QED BY <2>1, <2>3, <2>4
<1>7. ASSUME NEW c \in Polls, UI!AddReturns(c) PROVE ScreenTyped'
  BY <1>7 DEF UI!AddReturns, UI!screen
<1>8. ASSUME NEW c \in Polls, UI!RescanMsg(c) PROVE ScreenTyped'
  BY <1>1, <1>8 DEF UI!RescanMsg, UI!screen
<1>9. CASE UI!KeyInput \/ UI!KeySettings \/ UI!KeyClosesPrompt \/ UI!KeySubmitsURL \/ UI!KeyTurnsPage
  BY <1>9 DEF UI!KeyInput, UI!KeySettings, UI!KeyClosesPrompt, UI!KeySubmitsURL, UI!KeyTurnsPage
<1>10. ASSUME NEW c \in Polls, UI!KeyEndsReferrer(c) PROVE ScreenTyped'
  BY <1>2, <1>10 DEF UI!KeyEndsReferrer
<1>11. ASSUME NEW c \in Polls, UI!KeyPicks(c) \/ UI!KeyPanics(c) \/ UI!KeySeeds(c) PROVE ScreenTyped'
  BY <1>1, <1>11 DEF UI!KeyPicks, UI!KeyPanics, UI!KeySeeds, UI!AndRefreshes, UI!screen
<1>12. ASSUME NEW c \in Polls, NEW t \in Torrents, UI!KeySubmits(c, t) PROVE ScreenTyped'
  BY <1>2, <1>12 DEF UI!KeySubmits
<1>13. ASSUME NEW t \in Torrents, UI!KeyReopens(t) PROVE ScreenTyped'
  BY <1>13 DEF UI!KeyReopens
<1>14. ASSUME NEW c \in Polls, NEW t \in Torrents, UI!KeyPauses(c, t) PROVE ScreenTyped'
  BY <1>1, <1>14 DEF UI!KeyPauses, UI!screen
<1>15. ASSUME NEW c \in Polls, NEW t \in Torrents, UI!KeyRemoves(c, t) PROVE ScreenTyped'
  <2>1. CASE UNCHANGED <<tor, shown, poll>>
    BY <1>15, <2>1 DEF UI!KeyRemoves
  <2>2. CASE ~UNCHANGED <<tor, shown, poll>>
    <3>1. UI!Fetches(c) /\ shown' = [listed |-> shown.listed \ {t}, asks |-> shown.asks \ {t}]
      BY <1>15, <2>2 DEF UI!KeyRemoves
    <3> QED BY <1>1, <1>15, <3>1 DEF UI!KeyRemoves, Lists
  <2> QED BY <2>1, <2>2
<1>16. CASE UNCHANGED UI!vars
  BY <1>16 DEF UI!vars, UI!screen
<1> QED
  BY <1>3, <1>4, <1>5, <1>6, <1>7, <1>8, <1>9, <1>10, <1>11, <1>12, <1>13, <1>14, <1>15, <1>16
  DEF UI!Next, UI!Key, UI!Message

\* A refresh that a key or a message asks for is alive, and ends no other.
LEMMA FetchedIsAlive ==
  ASSUME ScreenTyped, NEW c \in Polls, UI!Fetches(c)
  PROVE  Alive(c)' /\ \A d \in Polls : Alive(d) => Alive(d)'
BY DEF UI!Fetches, UI!Due, ScreenTyped, Alive

\* Whoever takes the place of a refresh that is over ends none.
LEMMA AddingEndsNone ==
  ASSUME ScreenTyped, NEW c \in Polls, NEW t, UI!Adds(c, t)
  PROVE  \A d \in Polls : Alive(d) => Alive(d)'
BY DEF UI!Adds, UI!Adding, ScreenTyped, Alive

\* Once loading is over there is a refresh that asks for the next, or the picker.
LEMMA RefreshesKept ==
  ASSUME ScreenTyped, UI!ScreenRefreshes, [UI!Next]_(UI!vars)
  PROVE  UI!ScreenRefreshes'
<1>1. ASSUME NoneEnds PROVE UI!ScreenRefreshes'
  BY <1>1 DEF NoneEnds, Alive, UI!ScreenRefreshes
<1>2. ASSUME NEW c \in Polls, Alive(c)' PROVE UI!ScreenRefreshes'
  BY <1>2 DEF Alive, UI!ScreenRefreshes
<1>3. CASE \E t \in Torrents : UI!Metadata(t) \/ UI!Elsewhere(t)
  BY <1>1, <1>3 DEF UI!Metadata, UI!Elsewhere, UI!screen, NoneEnds, Alive
<1>4. ASSUME NEW c \in Polls, UI!LoadTick(c) PROVE UI!ScreenRefreshes'
  <2>1. CASE UI!Fetches(c)
    BY <1>2, <2>1, FetchedIsAlive
  <2>2. CASE ~UI!Fetches(c)
    BY <1>4, <2>2 DEF UI!LoadTick, UI!ScreenRefreshes, ScreenTyped
  <2> QED BY <2>1, <2>2
<1>5. ASSUME NEW c \in Polls, UI!Poll(c) PROVE UI!ScreenRefreshes'
  BY <1>1, <1>5 DEF UI!Poll, UI!screen, ScreenTyped, NoneEnds, Alive
<1>6. ASSUME NEW c \in Polls, UI!DataMsg(c) PROVE UI!ScreenRefreshes'
  <2>1. CASE UI!MayPick /\ shown'.asks # {}
    <3>1. picking' \in Torrents
      BY <1>6, <2>1 DEF UI!DataMsg, ScreenTyped, Refreshers, Lists
    <3> QED BY <3>1, NoTorrentIsNone DEF UI!ScreenRefreshes
  <2>2. CASE ~(UI!MayPick /\ shown'.asks # {}) /\ ~load'.on
    <3>1. poll'[c] = UI!Due
      BY <1>6, <2>2 DEF UI!DataMsg, UI!Again, ScreenTyped
    <3> QED BY <1>2, <3>1 DEF UI!Due, Alive
  <2>3. CASE load'.on
    BY <2>3 DEF UI!ScreenRefreshes
  <2> QED BY <2>1, <2>2, <2>3
<1>7. ASSUME NEW c \in Polls, UI!AddReturns(c) PROVE UI!ScreenRefreshes'
  BY <1>1, <1>7 DEF UI!AddReturns, UI!screen, ScreenTyped, NoneEnds, Alive
<1>8. ASSUME NEW c \in Polls, UI!RescanMsg(c) PROVE UI!ScreenRefreshes'
  BY <1>2, <1>8, FetchedIsAlive DEF UI!RescanMsg
<1>9. CASE UI!KeyInput \/ UI!KeySettings \/ UI!KeyClosesPrompt \/ UI!KeySubmitsURL \/ UI!KeyTurnsPage
  BY <1>1, <1>9 DEF UI!KeyInput, UI!KeySettings, UI!KeyClosesPrompt, UI!KeySubmitsURL,
                    UI!KeyTurnsPage, NoneEnds, Alive
<1>10. ASSUME NEW c \in Polls, UI!KeyEndsReferrer(c) PROVE UI!ScreenRefreshes'
  BY <1>1, <1>10, AddingEndsNone DEF UI!KeyEndsReferrer, NoneEnds
<1>11. ASSUME NEW c \in Polls, UI!KeyPicks(c) \/ UI!KeyPanics(c) \/ UI!KeySeeds(c)
       PROVE  UI!ScreenRefreshes'
  BY <1>2, <1>11, FetchedIsAlive DEF UI!KeyPicks, UI!KeyPanics, UI!KeySeeds, UI!AndRefreshes
<1>12. ASSUME NEW c \in Polls, NEW t \in Torrents, UI!KeySubmits(c, t) PROVE UI!ScreenRefreshes'
  BY <1>1, <1>12, AddingEndsNone DEF UI!KeySubmits, NoneEnds
<1>13. ASSUME NEW t \in Torrents, UI!KeyReopens(t) PROVE UI!ScreenRefreshes'
  BY <1>13, NoTorrentIsNone DEF UI!KeyReopens, UI!ScreenRefreshes, ScreenTyped, Lists
<1>14. ASSUME NEW c \in Polls, NEW t \in Torrents, UI!KeyPauses(c, t) PROVE UI!ScreenRefreshes'
  BY <1>2, <1>14, FetchedIsAlive DEF UI!KeyPauses
<1>15. ASSUME NEW c \in Polls, NEW t \in Torrents, UI!KeyRemoves(c, t) PROVE UI!ScreenRefreshes'
  <2>1. CASE UI!Fetches(c)
    BY <1>2, <2>1, FetchedIsAlive
  <2>2. CASE ~UI!Fetches(c)
    BY <1>1, <1>15, <2>2 DEF UI!KeyRemoves, NoneEnds, Alive
  <2> QED BY <2>1, <2>2
<1>16. CASE UNCHANGED UI!vars
  BY <1>1, <1>16 DEF UI!vars, UI!screen, NoneEnds, Alive
<1> QED
  BY <1>3, <1>4, <1>5, <1>6, <1>7, <1>8, <1>9, <1>10, <1>11, <1>12, <1>13, <1>14, <1>15, <1>16
  DEF UI!Next, UI!Key, UI!Message

(* The screen never freezes: every key and message that ends a refresh or  *)
(* closes the picker leaves another refresh behind.                        *)
THEOREM ScreenNeverFreezes == UI!Spec => []ScreenRefreshes
<1>1. UI!Init => ScreenTyped /\ UI!ScreenRefreshes
  <2> SUFFICES ASSUME UI!Init PROVE ScreenTyped /\ UI!ScreenRefreshes
    OBVIOUS
  <2>1. \A t \in Torrents : UI!Adding(t) \in Refreshers
    BY RefreshTypes
  <2>2. poll \in [Polls -> Refreshers]
    BY <2>1, RefreshTypes DEF UI!Init
  <2> QED BY <2>2, RefreshTypes DEF UI!Init, ScreenTyped, UI!ScreenRefreshes
<1>2. ScreenTyped /\ UI!ScreenRefreshes /\ [UI!Next]_(UI!vars) => (ScreenTyped /\ UI!ScreenRefreshes)'
  BY ScreenTypedKept, RefreshesKept
<1>3. UI!ScreenRefreshes => ScreenRefreshes
  BY DEF ScreenRefreshes
<1> QED BY <1>1, <1>2, <1>3, PTL DEF UI!Spec

-----------------------------------------------------------------------------
(* The doors to a re-scan                                                  *)

Outcomes == {"none", "runs", "done", "failed"}

DoorsTypeOK ==
  /\ scan \in [Scans -> Outcomes]
  /\ onScreen \in Scans \union {NoScan}
  /\ pump \in [Pumps -> [pc : {"off", "looks", "done", "failed"}, on : Scans \union {NoScan}]]
  /\ \A p \in Pumps : pump[p].pc # "off" => pump[p].on \in Scans
  /\ mislaid \in BOOLEAN

\* The gate of the web page.
GateInv ==
  /\ webScans \in {0, 1}
  /\ gate = "running" <=> webScans = 1

Awake(p) == pump[p] # Asleep

InSight ==
  ~mislaid =>
    /\ \A s \in Running : onScreen = s
    /\ \A p \in Pumps : Awake(p) => onScreen # NoScan /\ pump[p].on = onScreen
    /\ \A p, q \in Pumps : Awake(p) /\ Awake(q) => p = q
    /\ \A p \in Pumps : pump[p].pc \in {"done", "failed"} => Running = {}

DoorsInv == DoorsTypeOK /\ GateInv /\ InSight

\* Nothing is scanned at the start.
LEMMA StartsInSight == DoorsInit => DoorsInv
<1> SUFFICES ASSUME DoorsInit PROVE DoorsInv
  OBVIOUS
<1>1. DoorsTypeOK
  BY DEF DoorsInit, DoorsTypeOK, Outcomes, Asleep
<1>2. GateInv
  BY DEF DoorsInit, GateInv
<1>3. Running = {} /\ \A p \in Pumps : ~Awake(p)
  BY DEF DoorsInit, Running, Awake
<1>4. \A p \in Pumps : pump[p].pc \notin {"done", "failed"}
  BY DEF DoorsInit, Asleep
<1> QED
  BY <1>1, <1>2, <1>3, <1>4 DEF DoorsInv, InSight

(* The channels, the screen and the commands keep their types.             *)
LEMMA TypesKept == DoorsTypeOK /\ [DoorsNext]_doors => DoorsTypeOK'
<1> SUFFICES ASSUME DoorsTypeOK, [DoorsNext]_doors PROVE DoorsTypeOK'
  OBVIOUS
<1> USE DEF DoorsTypeOK, Outcomes, Asleep
<1>1. ASSUME NEW s \in Scans, NEW p \in Pumps, RescanHistorySel(s, p) PROVE DoorsTypeOK'
  BY <1>1 DEF RescanHistorySel, Running
<1>2. ASSUME NEW s \in Scans, ScanEnds(s) PROVE DoorsTypeOK'
  BY <1>2 DEF ScanEnds
<1>3. ASSUME NEW p \in Pumps, Finds(p) PROVE DoorsTypeOK'
  BY <1>3 DEF Finds
<1>4. ASSUME NEW p \in Pumps, ScanTick(p) PROVE DoorsTypeOK'
  BY <1>4 DEF ScanTick
<1>5. ASSUME NEW p \in Pumps, Reports(p) PROVE DoorsTypeOK'
  BY <1>5 DEF Reports, Cleared
<1>6. CASE OtherError
  BY <1>6 DEF OtherError
<1>7. CASE PostRescan \/ WebScanEnds \/ GetRescan \/ UNCHANGED doors
  BY <1>7 DEF PostRescan, WebScanEnds, GetRescan, doors, tui
<1> QED
  BY <1>1, <1>2, <1>3, <1>4, <1>5, <1>6, <1>7 DEF DoorsNext

(* Only the requests of the web page and their goroutine touch its gate.   *)
LEMMA GateKept == GateInv /\ [DoorsNext]_doors => GateInv'
<1> SUFFICES ASSUME GateInv, [DoorsNext]_doors PROVE GateInv'
  OBVIOUS
<1> USE DEF GateInv
<1>1. CASE PostRescan
  BY <1>1 DEF PostRescan
<1>2. CASE WebScanEnds
  BY <1>2 DEF WebScanEnds
<1>3. CASE GetRescan
  BY <1>3 DEF GetRescan, AfterGet
<1>4. CASE UNCHANGED web
  BY <1>4 DEF web
<1> QED
  BY <1>1, <1>2, <1>3, <1>4 DEF DoorsNext, RescanHistorySel, ScanEnds, Finds, ScanTick, Reports,
     OtherError, doors, web

(* Unless an error came in between, what runs is what the screen shows.    *)
LEMMA InSightKept ==
  ASSUME DoorsTypeOK, InSight, [DoorsNext]_doors
  PROVE  InSight'
<1> USE NoScanIsNone DEF DoorsTypeOK, InSight, Outcomes, Asleep, Awake, Running
<1>1. ASSUME NEW s \in Scans, NEW p \in Pumps, RescanHistorySel(s, p), ~mislaid' PROVE InSight'
  <2>1. Running = {} /\ \A q \in Pumps : ~Awake(q)
    BY <1>1 DEF RescanHistorySel
  <2>2. Running' = {s} /\ onScreen' = s
    BY <1>1, <2>1 DEF RescanHistorySel
  <2>3. \A q \in Pumps : Awake(q)' => q = p /\ pump'[q].on = s
    BY <1>1, <2>1 DEF RescanHistorySel
  <2>4. \A q \in Pumps : pump'[q].pc \notin {"done", "failed"}
    BY <1>1, <2>1 DEF RescanHistorySel
  <2> QED
    BY <2>2, <2>3, <2>4
<1>2. ASSUME NEW s \in Scans, ScanEnds(s) PROVE InSight'
  BY <1>2 DEF ScanEnds
<1>3. ASSUME NEW p \in Pumps, Finds(p) PROVE InSight'
  <2> SUFFICES ASSUME ~mislaid PROVE InSight'
    BY <1>3 DEF Finds
  <2>1. Awake(p) /\ pump[p].on = onScreen /\ pump[p].on \in Scans
    BY <1>3 DEF Finds
  <2>2. Running = {} /\ Running' = {}
    BY <1>3, <2>1 DEF Finds
  <2>3. \A q \in Pumps : Awake(q)' => Awake(q) /\ pump'[q].on = pump[q].on
    BY <1>3, <2>1 DEF Finds
  <2> QED
    BY <1>3, <2>2, <2>3 DEF Finds
<1>4. ASSUME NEW p \in Pumps, ScanTick(p) PROVE InSight'
  BY <1>4 DEF ScanTick
<1>5. ASSUME NEW p \in Pumps, Reports(p) PROVE InSight'
  <2> SUFFICES ASSUME ~mislaid PROVE InSight'
    BY <1>5 DEF Reports
  <2>1. Running = {} /\ \A q \in Pumps : Awake(q) => q = p
    BY <1>5 DEF Reports
  <2>2. Running' = {} /\ \A q \in Pumps : ~Awake(q)'
    BY <1>5, <2>1 DEF Reports
  <2> QED
    BY <2>2
<1>6. CASE OtherError
  BY <1>6 DEF OtherError
<1>7. CASE PostRescan \/ WebScanEnds \/ GetRescan \/ UNCHANGED doors
  BY <1>7 DEF PostRescan, WebScanEnds, GetRescan, doors, tui
<1> QED
  BY <1>1, <1>2, <1>3, <1>4, <1>5, <1>6, <1>7 DEF DoorsNext

(* A request of the web page never starts a second scan and its answer     *)
(* tells when one runs, and the history page's keys start no second one    *)
(* either, unless an error of something else took the first off the screen *)
(* (handleWebHistoryByID of web.go; rescanHistorySel, scanTick and Update  *)
(* of tui.go).                                                             *)
THEOREM OneScan == DoorsSpec => []OneScanPerDoor
<1>1. DoorsInv /\ [DoorsNext]_doors => DoorsInv'
  BY TypesKept, GateKept, InSightKept DEF DoorsInv
<1>2. DoorsInv => OneScanPerDoor
  <2> SUFFICES ASSUME DoorsInv PROVE OneScanPerDoor
    OBVIOUS
  <2>1. webScans <= 1 /\ (gate = "running" <=> webScans > 0)
    BY DEF DoorsInv, GateInv
  <2>2. ASSUME ~mislaid PROVE Cardinality(Running) <= 1
    <3>1. Running \subseteq {onScreen}
      BY <2>2 DEF DoorsInv, InSight
    <3>2. IsFiniteSet({onScreen}) /\ Cardinality({onScreen}) = 1
      BY FS_Singleton
    <3> QED
      BY <3>1, <3>2, FS_Subset, FS_CardinalityType
  <2> QED
    BY <2>1, <2>2 DEF OneScanPerDoor
<1> QED
  BY <1>1, <1>2, StartsInSight, PTL DEF DoorsSpec

-----------------------------------------------------------------------------
(* The settings and the server                                             *)

Data  == [Keys -> BOOLEAN \union {None}]
Saver == [pc : {"idle", "read", "truncate", "write", "apply"}, key : Keys \union {None},
          value : BOOLEAN \union {None}, data : Data]

SettingsTyped ==
  /\ cfg \in [Keys -> BOOLEAN]
  /\ file \in Data
  /\ saver \in [Callers -> Saver]
  /\ \A c \in Callers : saver[c].pc # "idle" => saver[c].key \in Keys /\ saver[c].value \in BOOLEAN
  /\ \A c \in Callers : saver[c].pc = "idle" => saver[c].key = None
  /\ \A c \in Callers : saver[c].pc = "apply" => saver[c].key = "web_serve"
  /\ overlapped \in BOOLEAN /\ failed \in BOOLEAN

ServerTyped ==
  /\ run \in [Runs -> {"off", "spawned", "binds", "serves", "unwinds"}]
  /\ running \in BOOLEAN
  /\ srv \in Runs \union {None}
  /\ closer \in Runs \union {None, "looks"}
  /\ strayed \in BOOLEAN

-----------------------------------------------------------------------------
(* The file                                                                *)

ReadsBack(data) == \A k \in ReadBack : Loaded(data)[k] = cfg[k]

OneSaver == \A c, d \in Callers : Saving(c) /\ Saving(d) => c = d

SaverCarries ==
  \A c \in Callers :
    /\ saver[c].pc = "read" =>
         /\ cfg[saver[c].key] = saver[c].value
         /\ \A k \in ReadBack \ {saver[c].key} : Loaded(file)[k] = cfg[k]
    /\ saver[c].pc \in {"truncate", "write"} => ReadsBack(saver[c].data)

FileInv == ~overlapped /\ ~failed => OneSaver /\ SaverCarries /\ FileFollowsSettings

\* What is read back has a value for every setting.
LEMMA LoadedTyped ==
  ASSUME NEW data \in Data
  PROVE  Loaded(data) \in [Keys -> BOOLEAN]
BY DEF Data, Loaded, Default, ReadBack

\* A caller that saves nothing is well typed.
LEMMA StillTyped == Still \in Saver
BY DEF Still, Saver, Data, Unset

\* The program starts with what the file says.
LEMMA StartsSettled == SettingsInit => SettingsTyped /\ FileInv
<1> SUFFICES ASSUME SettingsInit PROVE SettingsTyped /\ FileInv
  OBVIOUS
<1>1. file \in Data /\ cfg = Loaded(file) /\ saver = [c \in Callers |-> Still]
      /\ overlapped = FALSE /\ failed = FALSE
  BY DEF SettingsInit, Data
<1>2. \A c \in Callers : saver[c] = Still /\ saver[c].pc = "idle" /\ saver[c].key = None
  BY <1>1 DEF Still
<1>3. SettingsTyped
  BY <1>1, <1>2, LoadedTyped, StillTyped DEF SettingsTyped
<1>4. FileInv
  BY <1>1, <1>2 DEF FileInv, OneSaver, SaverCarries, FileFollowsSettings, Saving
<1> QED
  BY <1>3, <1>4

\* Settings, file and savers keep their types.
LEMMA SettingsTypedKept == SettingsTyped /\ [SettingsNext]_configuration => SettingsTyped'
<1> SUFFICES ASSUME SettingsTyped, [SettingsNext]_configuration PROVE SettingsTyped'
  OBVIOUS
<1> USE DEF settings, server, history
<1>1. ASSUME NEW c \in Callers, NEW k \in Keys, CycleSettingByKey(c, k) PROVE SettingsTyped'
  <2>1. [pc |-> "read", key |-> k, value |-> ~cfg[k], data |-> Unset] \in Saver
    BY DEF SettingsTyped, Saver, Data, Unset
  <2> QED
    BY <1>1, <2>1 DEF SettingsTyped, CycleSettingByKey
<1>2. ASSUME NEW c \in Callers, ReadFile(c) PROVE SettingsTyped'
  <2>1. Upserted(file, saver[c].key, saver[c].value) \in Data
    BY <1>2 DEF SettingsTyped, Data, Upserted, ReadFile
  <2>2. /\ saver' = [saver EXCEPT ![c] = [@ EXCEPT !.pc = "truncate",
                        !.data = Upserted(file, saver[c].key, saver[c].value)]]
        /\ saver[c].pc = "read" /\ UNCHANGED <<cfg, file, overlapped, failed>>
    BY <1>2 DEF ReadFile
  <2>3. saver[c] \in Saver
    BY DEF SettingsTyped
  <2>4. [saver[c] EXCEPT !.pc = "truncate",
             !.data = Upserted(file, saver[c].key, saver[c].value)] \in Saver
    BY <2>1, <2>3 DEF Saver
  <2>5. saver' \in [Callers -> Saver]
    BY <2>2, <2>4 DEF SettingsTyped
  <2>6. \A d \in Callers : /\ saver'[d].key = saver[d].key /\ saver'[d].value = saver[d].value
                           /\ saver'[d].pc = IF d = c THEN "truncate" ELSE saver[d].pc
    BY <2>2, <2>3 DEF SettingsTyped, Saver
  <2> QED
    BY <2>2, <2>5, <2>6 DEF SettingsTyped
<1>3. ASSUME NEW c \in Callers, Truncate(c) PROVE SettingsTyped'
  BY <1>3 DEF SettingsTyped, Saver, Data, Unset, Truncate
\* What the end of a save leaves behind.
<1>s. ASSUME NEW c \in Callers, saver[c].pc \in {"read", "truncate", "write"}, saver' = Saved(c)
      PROVE  /\ saver' \in [Callers -> Saver]
             /\ \A d \in Callers : saver'[d].pc # "idle" => saver'[d].key \in Keys /\ saver'[d].value \in BOOLEAN
             /\ \A d \in Callers : saver'[d].pc = "idle" => saver'[d].key = None
             /\ \A d \in Callers : saver'[d].pc = "apply" => saver'[d].key = "web_serve"
  <2>1. saver \in [Callers -> Saver] /\ saver[c].key \in Keys
    BY <1>s DEF SettingsTyped
  <2>2. CASE Applies(c)
    BY <1>s, <2>1, <2>2 DEF SettingsTyped, Saver, Saved, Applies
  <2>3. CASE ~Applies(c)
    BY <1>s, <2>1, <2>3, StillTyped DEF SettingsTyped, Saved, Still
  <2> QED
    BY <2>2, <2>3
<1>4. ASSUME NEW c \in Callers, Write(c) PROVE SettingsTyped'
  <2>1. saver[c].data \in Data
    BY DEF SettingsTyped, Saver
  <2> QED
    BY <1>4, <1>s, <2>1 DEF SettingsTyped, Write
<1>f. ASSUME NEW c \in Callers, Fails(c) PROVE SettingsTyped'
  <2>1. saver[c].data \in Data
    BY DEF SettingsTyped, Saver
  <2>2. file' \in Data
    BY <1>f, <2>1 DEF Fails, SettingsTyped, Data
  <2>3. saver[c].pc \in {"read", "truncate", "write"} /\ saver' = Saved(c)
    BY <1>f DEF Fails
  <2> QED
    BY <1>f, <1>s, <2>2, <2>3 DEF SettingsTyped, Fails
<1>5. CASE Apply
  BY <1>5, StillTyped DEF SettingsTyped, Apply, Still
<1>6. CASE Restart
  <2>1. \A c \in Callers : saver'[c] = Still
    BY <1>6 DEF Restart
  <2> QED
    BY <1>6, <2>1, StillTyped, LoadedTyped DEF SettingsTyped, Restart, Still
<1>7. CASE \/ Close \/ Closed \/ (\E r \in Runs : Claim(r) \/ Bind(r) \/ Unwind(r)) \/ UNCHANGED configuration
  BY <1>7 DEF SettingsTyped, Close, Closed, Claim, Bind, Unwind, configuration
<1> QED
  BY <1>1, <1>2, <1>3, <1>4, <1>f, <1>5, <1>6, <1>7 DEF SettingsNext

\* Savers that do not overlap, or fail, leave the file as the settings have it.
LEMMA FileKept ==
  ASSUME SettingsTyped, FileInv, [SettingsNext]_configuration
  PROVE  FileInv'
<1> SUFFICES ASSUME ~overlapped', ~failed' PROVE (OneSaver /\ SaverCarries /\ FileFollowsSettings)'
  BY DEF FileInv
<1> USE DEF settings, server, history
<1>1. ASSUME NEW c \in Callers, NEW k \in Keys, CycleSettingByKey(c, k)
      PROVE (OneSaver /\ SaverCarries /\ FileFollowsSettings)'
  <2>1. ~overlapped /\ ~failed /\ \A d \in Callers : ~Saving(d)
    BY <1>1 DEF CycleSettingByKey
  <2>2. ReadsBack(file)
    BY <2>1 DEF FileInv, FileFollowsSettings, ReadsBack
  <2>3. /\ saver'[c].pc = "read" /\ saver'[c].key = k /\ saver'[c].value = ~cfg[k]
        /\ \A d \in Callers \ {c} : saver'[d] = saver[d]
        /\ cfg'[k] = ~cfg[k] /\ \A j \in Keys \ {k} : cfg'[j] = cfg[j]
        /\ file' = file
    BY <1>1 DEF CycleSettingByKey, SettingsTyped
  <2>4. OneSaver' /\ FileFollowsSettings'
    BY <2>1, <2>3 DEF OneSaver, FileFollowsSettings, Saving
  <2>5. Loaded(file') = Loaded(file)
    BY <2>3
  <2>6. SaverCarries'
    BY <2>1, <2>2, <2>3, <2>5 DEF SaverCarries, Saving, ReadsBack, ReadBack
  <2> QED
    BY <2>4, <2>6
\* The steps of a saver, which is the only one.
<1>2. ASSUME NEW c \in Callers, Saving(c), ~overlapped, ~failed PROVE \A d \in Callers \ {c} : ~Saving(d)
  BY <1>2 DEF FileInv, OneSaver
<1>3. ASSUME NEW c \in Callers, ReadFile(c)
      PROVE (OneSaver /\ SaverCarries /\ FileFollowsSettings)'
  <2>1. /\ ~overlapped /\ ~failed /\ Saving(c) /\ UNCHANGED <<cfg, file>> /\ saver[c].pc = "read"
        /\ saver'[c].pc = "truncate"
        /\ saver'[c].data = Upserted(file, saver[c].key, saver[c].value)
        /\ \A d \in Callers \ {c} : saver'[d] = saver[d] /\ ~Saving(d)
    BY <1>2, <1>3 DEF ReadFile, Saving, SettingsTyped, Saver
  <2>2. ReadsBack(saver'[c].data)
    BY <2>1, ModelValues DEF SaverCarries, FileInv, SettingsTyped, Loaded, Upserted, Data,
         ReadsBack, ReadBack
  <2> QED
    BY <2>1, <2>2 DEF OneSaver, SaverCarries, FileFollowsSettings, Saving, ReadsBack
<1>4. ASSUME NEW c \in Callers, Truncate(c)
      PROVE (OneSaver /\ SaverCarries /\ FileFollowsSettings)'
  <2>1. /\ ~overlapped /\ ~failed /\ Saving(c) /\ UNCHANGED cfg /\ saver[c].pc = "truncate"
        /\ saver'[c].pc = "write" /\ saver'[c].data = saver[c].data
        /\ \A d \in Callers \ {c} : saver'[d] = saver[d] /\ ~Saving(d)
    BY <1>2, <1>4 DEF Truncate, Saving, SettingsTyped, Saver
  <2>2. ReadsBack(saver'[c].data)
    BY <2>1 DEF SaverCarries, FileInv, ReadsBack
  <2> QED
    BY <2>1, <2>2 DEF OneSaver, SaverCarries, FileFollowsSettings, Saving, ReadsBack
<1>5. ASSUME NEW c \in Callers, Write(c)
      PROVE (OneSaver /\ SaverCarries /\ FileFollowsSettings)'
  <2>1. /\ ~overlapped /\ ~failed /\ Saving(c) /\ UNCHANGED cfg /\ saver[c].pc = "write"
        /\ file' = saver[c].data
        /\ saver'[c].pc \in {"apply", "idle"}
        /\ \A d \in Callers \ {c} : saver'[d] = saver[d] /\ ~Saving(d)
    BY <1>2, <1>5 DEF Write, Saved, Saving, SettingsTyped, Saver, Still
  <2>2. ReadsBack(file')
    BY <2>1 DEF SaverCarries, FileInv, ReadsBack
  <2>3. \A d \in Callers : ~Saving(d)'
    BY <2>1 DEF Saving
  <2> QED
    BY <2>1, <2>2, <2>3 DEF OneSaver, SaverCarries, FileFollowsSettings, Saving, ReadsBack
<1>f. ASSUME NEW c \in Callers, Fails(c) PROVE FALSE
  BY <1>f DEF Fails
<1>6. CASE Restart
  <2>1. Loaded(file') = cfg' /\ \A c \in Callers : saver'[c].pc = "idle"
    BY <1>6 DEF Restart, Still
  <2> QED
    BY <2>1 DEF OneSaver, SaverCarries, FileFollowsSettings, Saving, ReadsBack
<1>7. ASSUME UNCHANGED <<cfg, file, overlapped, failed>>,
             \A d \in Callers : saver'[d] = saver[d] \/ (~Saving(d) /\ saver'[d].pc = "idle")
      PROVE (OneSaver /\ SaverCarries /\ FileFollowsSettings)'
  <2>1. \A d \in Callers : Saving(d)' <=> Saving(d)
    BY <1>7 DEF Saving
  <2> QED
    BY <1>7, <2>1 DEF FileInv, OneSaver, SaverCarries, FileFollowsSettings, Saving, ReadsBack
<1>8. CASE Apply
  BY <1>7, <1>8 DEF Apply, Saving, Still, SettingsTyped
<1>9. CASE \/ Close \/ Closed \/ (\E r \in Runs : Claim(r) \/ Bind(r) \/ Unwind(r)) \/ UNCHANGED configuration
  BY <1>7, <1>9 DEF Close, Closed, Claim, Bind, Unwind, configuration
<1> QED
  BY <1>1, <1>3, <1>4, <1>5, <1>f, <1>6, <1>8, <1>9 DEF SettingsNext

(* Once nobody is saving, a restart would read what is set: saving one     *)
(* setting loses no other, unless two were saved at once or a save failed  *)
(* (saveSetting and saveConfigSetting of settings.go, loadConfigFile of    *)
(* main.go, which reads nothing of widget_enabled).                        *)
THEOREM FileIsConfig == SettingsSpec => []FileFollowsSettings
<1>1. SettingsTyped /\ FileInv /\ [SettingsNext]_configuration => (SettingsTyped /\ FileInv)'
  BY SettingsTypedKept, FileKept
<1>2. FileInv => FileFollowsSettings
  BY DEF FileInv, FileFollowsSettings
<1> QED
  BY <1>1, <1>2, StartsSettled, PTL DEF SettingsSpec

-----------------------------------------------------------------------------
(* The server                                                              *)

Claimed(r) == run[r] \in {"binds", "serves", "unwinds"}

OneClaim ==
  /\ \A r \in Runs : Claimed(r) => running
  /\ \A q, r \in Runs : Claimed(q) /\ Claimed(r) => q = r
  /\ running => \E r \in Runs : Claimed(r)

ServerKnown ==
  /\ \A r \in Runs : run[r] = "serves" => srv = r
  /\ srv \in Runs => run[srv] \in {"serves", "unwinds"}

\* Whoever closes is waited for, and what it closed does not come back.
CloserWaits ==
  /\ closer # None => saver["popup"].pc = "idle"
  /\ closer \in Runs => run[closer] \in {"unwinds", "off"}

ServerInv == ServerTyped /\ OneClaim /\ ServerKnown /\ CloserWaits

Pending == saver["popup"].pc # "idle" /\ saver["popup"].key = "web_serve"
On      == cfg["web_serve"]
Up(r)   == run[r] \in {"spawned", "binds", "serves"}

FollowsToggle ==
  ~strayed =>
    /\ Pending => On = saver["popup"].value
    /\ ~Pending /\ closer = None /\ On => \E r \in Runs : Up(r)
    /\ ~Pending /\ closer = None /\ ~On => \A r \in Runs : run[r] = "off"
    /\ closer = "looks" => ~On
    /\ closer \in Runs => ~On /\ \A r \in Runs \ {closer} : run[r] = "off"
    /\ \A r \in Runs : run[r] = "unwinds" => closer = r

\* One goroutine is spawned when the setting is on, and none otherwise.
LEMMA StartedRuns ==
  ASSUME NEW conf, NEW rs \in Started(conf)
  PROVE  /\ rs \in [Runs -> {"off", "spawned"}]
         /\ conf["web_serve"] => \E r \in Runs : rs[r] = "spawned"
         /\ ~conf["web_serve"] => \A r \in Runs : rs[r] = "off"
<1>1. PICK f \in SUBSET Runs : /\ Cardinality(f) = IF conf["web_serve"] THEN 1 ELSE 0
                              /\ rs = [r \in Runs |-> IF r \in f THEN "spawned" ELSE "off"]
  BY DEF Started
<1>2. IsFiniteSet(f)
  BY FS_Subset, ModelValues
<1>3. f = {} <=> Cardinality(f) = 0
  BY <1>2, FS_EmptySet
<1> QED
  BY <1>1, <1>3

\* The state in which the program starts.
LEMMA StartIsServerInv ==
  ASSUME closer = None, running = FALSE, srv = None, strayed = FALSE,
         \A c \in Callers : saver[c].pc = "idle", run \in Started(cfg)
  PROVE  ServerInv /\ FollowsToggle
<1>1. /\ run \in [Runs -> {"off", "spawned"}]
      /\ On => \E r \in Runs : run[r] = "spawned"
      /\ ~On => \A r \in Runs : run[r] = "off"
  BY StartedRuns DEF On
<1>2. \A r \in Runs : run[r] \in {"off", "spawned"}
  BY <1>1
<1>3. ServerInv
  BY <1>1, <1>2, ModelValues DEF ServerInv, ServerTyped, OneClaim, ServerKnown, CloserWaits, Claimed
<1>4. ~Pending
  BY DEF Pending, Callers
<1>5. FollowsToggle
  BY <1>1, <1>2, <1>4, ModelValues DEF FollowsToggle, Up
<1> QED
  BY <1>3, <1>5

\* One goroutine at a time has claimed the server, and Close waits for it.
LEMMA ServerKept ==
  ASSUME SettingsTyped, ServerInv, [SettingsNext]_configuration
  PROVE  ServerInv'
<1> USE ModelValues DEF settings, server, history
<1>p. "popup" \in Callers
  BY DEF Callers
<1>1. ASSUME NEW c \in Callers, NEW k \in Keys, CycleSettingByKey(c, k) PROVE ServerInv'
  <2>1. closer' = None /\ closer = None /\ UNCHANGED <<run, running, srv>> /\ strayed' \in BOOLEAN
    BY <1>1 DEF CycleSettingByKey, MayCycle, Quiet, ServerInv, ServerTyped
  <2> QED
    BY <2>1 DEF ServerInv, ServerTyped, OneClaim, ServerKnown, CloserWaits, Claimed
<1>2. ASSUME NEW c \in Callers, ReadFile(c) \/ Truncate(c) \/ Write(c) \/ Fails(c)
      PROVE  ServerInv'
  <2>1. UNCHANGED <<closer, run, running, srv, strayed>>
    BY <1>2 DEF ReadFile, Truncate, Write, Fails
  <2>2. saver["popup"].pc = "idle" => saver'["popup"] = saver["popup"]
    BY <1>2, <1>p DEF ReadFile, Truncate, Write, Fails, Saved, SettingsTyped
  <2> QED
    BY <2>1, <2>2 DEF ServerInv, ServerTyped, OneClaim, ServerKnown, CloserWaits, Claimed
<1>3. CASE Apply
  <2>1. closer = None /\ saver'["popup"].pc = "idle" /\ UNCHANGED <<running, srv, strayed>>
    BY <1>3, <1>p DEF Apply, ServerInv, CloserWaits, SettingsTyped, Still
  <2>2. CASE closer' = "looks" /\ run' = run
    BY <2>1, <2>2 DEF ServerInv, ServerTyped, OneClaim, ServerKnown, CloserWaits, Claimed
  <2>3. CASE closer' = closer /\ \E r \in Runs : run[r] = "off" /\ run' = [run EXCEPT ![r] = "spawned"]
    <3>1. PICK r \in Runs : run[r] = "off" /\ run' = [run EXCEPT ![r] = "spawned"]
      BY <2>3
    <3>2. \A q \in Runs : Claimed(q)' <=> Claimed(q)
      BY <3>1 DEF Claimed, ServerInv, ServerTyped
    <3> QED
      BY <2>1, <2>3, <3>1, <3>2 DEF ServerInv, ServerTyped, OneClaim, ServerKnown, CloserWaits
  <2> QED
    BY <1>3, <2>2, <2>3 DEF Apply
<1>4. ASSUME NEW r \in Runs, Claim(r) PROVE ServerInv'
  <2>1. UNCHANGED <<saver, closer, srv, strayed>> /\ run[r] = "spawned"
    BY <1>4 DEF Claim
  <2>2. CASE running /\ run' = [run EXCEPT ![r] = "off"] /\ running' = running
    <3>1. \A q \in Runs : Claimed(q)' <=> Claimed(q)
      BY <2>1, <2>2 DEF Claimed, ServerInv, ServerTyped
    <3> QED
      BY <2>1, <2>2, <3>1 DEF ServerInv, ServerTyped, OneClaim, ServerKnown, CloserWaits
  <2>3. CASE ~running /\ run' = [run EXCEPT ![r] = "binds"] /\ running' = TRUE
    <3>1. \A q \in Runs : Claimed(q)' <=> q = r
      BY <2>3 DEF Claimed, ServerInv, ServerTyped, OneClaim
    <3> QED
      BY <2>1, <2>3, <3>1 DEF ServerInv, ServerTyped, OneClaim, ServerKnown, CloserWaits
  <2> QED
    BY <1>4, <2>2, <2>3 DEF Claim
<1>5. ASSUME NEW r \in Runs, Bind(r) PROVE ServerInv'
  <2>1. /\ UNCHANGED <<saver, closer, running>> /\ run[r] = "binds" /\ strayed' \in BOOLEAN
        /\ \/ srv' = r /\ run' = [run EXCEPT ![r] = "serves"]
           \/ srv' = srv /\ run' = [run EXCEPT ![r] = "unwinds"]
    BY <1>5 DEF Bind, ServerInv, ServerTyped
  <2>2. \A q \in Runs : Claimed(q)' <=> Claimed(q)
    BY <2>1 DEF Claimed, ServerInv, ServerTyped
  <2>3. \A q \in Runs \ {r} : ~Claimed(q)
    BY <2>1 DEF Claimed, ServerInv, OneClaim
  <2> QED
    BY <2>1, <2>2, <2>3 DEF ServerInv, ServerTyped, OneClaim, ServerKnown, CloserWaits, Claimed
<1>6. ASSUME NEW r \in Runs, Unwind(r) PROVE ServerInv'
  <2>1. /\ UNCHANGED <<saver, closer, strayed>> /\ run[r] = "unwinds" /\ running' = FALSE
        /\ srv' = None /\ run' = [run EXCEPT ![r] = "off"]
    BY <1>6 DEF Unwind
  <2>2. \A q \in Runs : ~Claimed(q)'
    BY <2>1 DEF Claimed, ServerInv, ServerTyped, OneClaim
  <2> QED
    BY <2>1, <2>2 DEF ServerInv, ServerTyped, OneClaim, ServerKnown, CloserWaits, Claimed
<1>7. CASE Close
  <2>1. /\ closer = "looks" /\ UNCHANGED <<saver, running, srv>> /\ strayed' \in BOOLEAN
        /\ \/ srv = None /\ closer' = None /\ run' = run
           \/ srv \in Runs /\ closer' = srv /\ run' = [run EXCEPT ![srv] = "unwinds"]
    BY <1>7 DEF Close, ServerInv, ServerTyped
  <2>2. \A q \in Runs : Claimed(q)' <=> Claimed(q)
    BY <2>1 DEF Claimed, ServerInv, ServerTyped, ServerKnown
  <2> QED
    BY <2>1, <2>2 DEF ServerInv, ServerTyped, OneClaim, ServerKnown, CloserWaits, Claimed
<1>8. CASE Closed
  BY <1>8 DEF Closed, ServerInv, ServerTyped, OneClaim, ServerKnown, CloserWaits, Claimed
<1>9. CASE UNCHANGED configuration
  BY <1>9 DEF configuration, ServerInv, ServerTyped, OneClaim, ServerKnown, CloserWaits, Claimed
<1>10. CASE Restart
  <2>1. \A c \in Callers : saver'[c].pc = "idle"
    BY <1>10 DEF Restart, Still
  <2>2. /\ closer' = None /\ running' = FALSE /\ srv' = None /\ strayed' = FALSE
        /\ run' \in Started(cfg')
    BY <1>10 DEF Restart
  <2>3. /\ run' \in [Runs -> {"off", "spawned"}]
        /\ \A r \in Runs : run'[r] \in {"off", "spawned"}
    BY <2>2, StartedRuns
  <2> QED
    BY <2>1, <2>2, <2>3 DEF ServerInv, ServerTyped, OneClaim, ServerKnown, CloserWaits, Claimed
<1> QED
  BY <1>1, <1>2, <1>3, <1>4, <1>5, <1>6, <1>7, <1>8, <1>9, <1>10 DEF SettingsNext

\* Every step leaves what serves as the setting has it, or to the popup.
LEMMA FollowsKept ==
  ASSUME SettingsTyped, ServerInv, FollowsToggle, [SettingsNext]_configuration
  PROVE  FollowsToggle'
<1> SUFFICES ASSUME ~strayed' PROVE FollowsToggle'
  BY DEF FollowsToggle
<1> USE ModelValues DEF settings, server, history
<1>p. "popup" \in Callers /\ "web_serve" \in Keys
  BY DEF Callers, Keys
<1>1. ASSUME NEW c \in Callers, NEW k \in Keys, CycleSettingByKey(c, k) PROVE FollowsToggle'
  <2>1. /\ closer = None /\ closer' = None /\ run' = run /\ saver[c].pc = "idle"
        /\ saver' = [saver EXCEPT ![c] = [pc |-> "read", key |-> k, value |-> ~cfg[k], data |-> Unset]]
        /\ cfg' = [cfg EXCEPT ![k] = ~@]
    BY <1>1 DEF CycleSettingByKey, MayCycle, Still
  <2>2. CASE k # "web_serve"
    <3>1. ~strayed /\ On' = On
      BY <1>1, <2>1, <2>2, <1>p DEF CycleSettingByKey, On, SettingsTyped, Keys
    <3>2. Pending' <=> Pending
      BY <2>1, <2>2, <1>p DEF Pending, SettingsTyped
    <3>3. Pending => saver'["popup"] = saver["popup"]
      BY <2>1, <1>p DEF Pending, SettingsTyped
    <3>4. \A r \in Runs : Up(r)' <=> Up(r)
      BY <2>1 DEF Up
    <3>5. Pending' => On' = saver["popup"].value'
      BY <3>1, <3>2, <3>3 DEF FollowsToggle
    <3> QED
      BY <2>1, <3>1, <3>2, <3>4, <3>5 DEF FollowsToggle
  <2>3. CASE k = "web_serve"
    <3>1. c = "popup" /\ (~strayed \/ Quiet)
      BY <1>1, <2>3 DEF CycleSettingByKey, Callers
    <3>2. Pending' /\ On' = saver'["popup"].value
      BY <2>1, <2>3, <3>1, <1>p DEF Pending, On, SettingsTyped
    <3>3. \A r \in Runs : run[r] # "unwinds"
      BY <2>1, <3>1 DEF Quiet, FollowsToggle
    <3> QED
      BY <2>1, <3>2, <3>3 DEF FollowsToggle
  <2> QED
    BY <2>2, <2>3
<1>2. ASSUME NEW c \in Callers, ReadFile(c) \/ Truncate(c) \/ Write(c) \/ Fails(c)
      PROVE  FollowsToggle'
  <2>1. UNCHANGED <<cfg, closer, run, strayed>>
    BY <1>2 DEF ReadFile, Truncate, Write, Fails
  <2>2. /\ Pending' <=> Pending
        /\ Pending => saver'["popup"].value = saver["popup"].value
    <3>1. CASE ReadFile(c)
      BY <3>1, <1>p DEF ReadFile, SettingsTyped, Saver, Pending
    <3>2. CASE Truncate(c)
      BY <3>2, <1>p DEF Truncate, SettingsTyped, Saver, Pending
    <3>3. CASE Write(c) \/ Fails(c)
      <4>1. saver' = Saved(c) /\ saver[c].pc \in {"read", "truncate", "write"}
        BY <3>3 DEF Write, Fails
      <4>2. CASE Applies(c)
        BY <4>1, <4>2, <1>p DEF Saved, Applies, SettingsTyped, Saver, Pending
      <4>3. CASE ~Applies(c)
        BY <4>1, <4>3, <1>p DEF Saved, Applies, SettingsTyped, Saver, Pending, Still
      <4> QED
        BY <4>2, <4>3
    <3> QED
      BY <1>2, <3>1, <3>2, <3>3
  <2> QED
    BY <2>1, <2>2 DEF FollowsToggle, Up, On
<1>3. CASE Apply
  <2>1. /\ closer = None /\ Pending /\ ~Pending' /\ ~strayed /\ cfg' = cfg
        /\ On = saver["popup"].value
    BY <1>3, <1>p DEF Apply, ServerInv, CloserWaits, SettingsTyped, Still, Pending, FollowsToggle
  <2>2. \A r \in Runs : run[r] # "unwinds"
    BY <2>1 DEF FollowsToggle
  <2>3. CASE saver["popup"].value
    <3>1. PICK r \in Runs : run[r] = "off" /\ run' = [run EXCEPT ![r] = "spawned"]
      BY <1>3, <2>3 DEF Apply
    <3>2. Up(r)' /\ closer' = None /\ \A q \in Runs : run'[q] # "unwinds"
      BY <1>3, <2>1, <2>2, <2>3, <3>1 DEF Apply, Up, ServerInv, ServerTyped
    <3> QED
      BY <2>1, <2>3, <3>2 DEF FollowsToggle, On
  <2>4. CASE ~saver["popup"].value
    <3>1. closer' = "looks" /\ run' = run
      BY <1>3, <2>4 DEF Apply
    <3> QED
      BY <2>1, <2>2, <2>4, <3>1 DEF FollowsToggle, On
  <2> QED
    BY <2>3, <2>4
<1>4. ASSUME NEW r \in Runs, Claim(r) PROVE FollowsToggle'
  <2>1. UNCHANGED <<saver, cfg, closer, strayed>> /\ run[r] = "spawned"
    BY <1>4 DEF Claim
  <2>2. closer \notin Runs
    BY <2>1 DEF FollowsToggle, ServerInv, CloserWaits
  <2>3. \A q \in Runs : run[q] # "unwinds"
    BY <2>1, <2>2 DEF FollowsToggle
  <2>4. \A q \in Runs \ {r} : run'[q] = run[q]
    BY <1>4 DEF Claim, ServerInv, ServerTyped
  <2>5. CASE running
    <3>1. PICK q \in Runs : Claimed(q)
      BY <2>5 DEF ServerInv, OneClaim
    <3>2. q # r /\ Up(q)'
      BY <2>1, <2>3, <2>4, <3>1 DEF Claimed, Up
    <3>3. run'[r] = "off"
      BY <1>4, <2>5 DEF Claim, ServerInv, ServerTyped
    <3> QED
      BY <2>1, <2>2, <2>3, <2>4, <3>2, <3>3 DEF FollowsToggle, Pending, On
  <2>6. CASE ~running
    <3>1. run'[r] = "binds"
      BY <1>4, <2>6 DEF Claim, ServerInv, ServerTyped
    <3> QED
      BY <2>1, <2>2, <2>3, <2>4, <3>1 DEF FollowsToggle, Pending, On, Up
  <2> QED
    BY <2>5, <2>6
<1>5. ASSUME NEW r \in Runs, Bind(r) PROVE FollowsToggle'
  <2>1. /\ UNCHANGED <<saver, cfg, closer, strayed>> /\ run[r] = "binds"
        /\ run' = [run EXCEPT ![r] = "serves"]
    BY <1>5 DEF Bind
  <2>2. \A q \in Runs : (Up(q)' <=> Up(q)) /\ (run'[q] = "off" <=> run[q] = "off")
                          /\ (run'[q] = "unwinds" <=> run[q] = "unwinds")
    BY <2>1 DEF Up, ServerInv, ServerTyped
  <2> QED
    BY <2>1, <2>2 DEF FollowsToggle, Pending, On
<1>6. ASSUME NEW r \in Runs, Unwind(r) PROVE FollowsToggle'
  <2>1. /\ UNCHANGED <<saver, cfg, closer, strayed>> /\ run[r] = "unwinds"
        /\ run' = [run EXCEPT ![r] = "off"]
    BY <1>6 DEF Unwind
  <2>2. closer = r
    BY <2>1 DEF FollowsToggle
  <2>3. \A q \in Runs : run'[q] = "off"
    BY <2>1, <2>2 DEF FollowsToggle, ServerInv, ServerTyped
  <2> QED
    BY <2>1, <2>2, <2>3 DEF FollowsToggle, Pending, On
<1>7. CASE Close
  <2>1. /\ closer = "looks" /\ UNCHANGED <<saver, cfg>> /\ ~strayed /\ Starting = {} /\ ~On
        /\ saver["popup"].pc = "idle"
    BY <1>7 DEF Close, FollowsToggle, ServerInv, CloserWaits
  <2>2. \A q \in Runs : run[q] \notin {"spawned", "binds", "unwinds"}
    BY <2>1 DEF Starting, FollowsToggle
  <2>3. \A q \in Runs : run[q] = "off" \/ srv = q
    BY <2>2 DEF ServerInv, ServerTyped, ServerKnown
  <2>4. CASE srv = None
    <3>1. closer' = None /\ \A q \in Runs : run'[q] = "off"
      BY <1>7, <2>3, <2>4 DEF Close
    <3> QED
      BY <2>1, <3>1 DEF FollowsToggle, On, Pending
  <2>5. CASE srv # None
    <3>1. srv \in Runs /\ closer' = srv /\ run' = [run EXCEPT ![srv] = "unwinds"]
      BY <1>7, <2>5 DEF Close, ServerInv, ServerTyped
    <3>2. \A q \in Runs \ {srv} : run'[q] = "off"
      BY <2>3, <3>1 DEF ServerInv, ServerTyped
    <3> QED
      BY <2>1, <3>1, <3>2 DEF FollowsToggle, On, Pending
  <2> QED
    BY <2>4, <2>5
<1>8. CASE Closed
  <2>1. /\ closer \in Runs /\ run[closer] = "off" /\ closer' = None
        /\ UNCHANGED <<saver, cfg, run, strayed>>
    BY <1>8 DEF Closed, HasWoundUp
  <2>2. ~On /\ \A q \in Runs : run[q] = "off"
    BY <2>1 DEF FollowsToggle
  <2> QED
    BY <2>1, <2>2 DEF FollowsToggle, On, Pending
<1>9. CASE UNCHANGED configuration
  BY <1>9 DEF configuration, FollowsToggle, On, Pending, Up
<1>10. CASE Restart
  <2>1. \A c \in Callers : saver'[c].pc = "idle"
    BY <1>10 DEF Restart, Still
  <2>2. closer' = None /\ run' \in Started(cfg')
    BY <1>10 DEF Restart
  <2>3. /\ \A r \in Runs : run'[r] \in {"off", "spawned"}
        /\ On' => \E r \in Runs : run'[r] = "spawned"
        /\ ~On' => \A r \in Runs : run'[r] = "off"
    BY <2>2, StartedRuns DEF On
  <2>4. ~Pending'
    BY <2>1, <1>p DEF Pending
  <2> QED
    BY <2>2, <2>3, <2>4 DEF FollowsToggle, Up
<1> QED
  BY <1>1, <1>2, <1>3, <1>4, <1>5, <1>6, <1>7, <1>8, <1>9, <1>10 DEF SettingsNext

(* Once nothing is under way the server serves exactly when the setting    *)
(* says so, however often and fast the popup switched it, unless an        *)
(* address could not be bound, the web page threw the switch, or it was    *)
(* thrown before the server was up (cycleSettingByKey of settings.go, Run  *)
(* and Close of server.go).                                                *)
THEOREM ServerFollowsSetting == SettingsSpec => []ServesAsSet
<1> DEFINE Inv == SettingsTyped /\ ServerInv /\ FollowsToggle
<1>1. SettingsInit => Inv
  <2> SUFFICES ASSUME SettingsInit PROVE Inv
    OBVIOUS
  <2>1. \A c \in Callers : saver[c].pc = "idle"
    BY DEF SettingsInit, Still
  <2>2. closer = None /\ running = FALSE /\ srv = None /\ strayed = FALSE /\ run \in Started(cfg)
    BY DEF SettingsInit
  <2> QED
    BY <2>1, <2>2, StartsSettled, StartIsServerInv
<1>2. Inv /\ [SettingsNext]_configuration => Inv'
  BY SettingsTypedKept, ServerKept, FollowsKept
<1>3. Inv => ServesAsSet
  <2> SUFFICES ASSUME Inv, Quiet, ~strayed
               PROVE  (\E r \in Runs : Serving(r)) <=> cfg["web_serve"]
    BY DEF ServesAsSet
  <2>1. closer = None /\ ~Pending
    BY DEF Quiet, Pending, Callers, Still
  <2>2. \A r \in Runs : run[r] = "off" \/ Serving(r)
    BY DEF Quiet, Serving
  <2>3. CASE On
    BY <2>1, <2>2, <2>3 DEF FollowsToggle, Up, On, Serving
  <2>4. CASE ~On
    BY <2>1, <2>2, <2>4 DEF FollowsToggle, On, Serving
  <2> QED
    BY <2>3, <2>4
<1> QED
  BY <1>1, <1>2, <1>3, PTL DEF SettingsSpec

=============================================================================
