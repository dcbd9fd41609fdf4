------------------------------- MODULE Screen -------------------------------
(***************************************************************************)
(* What the terminal UI shows and what its keys act on (tui.go).           *)
(* The screen works on a copy of the manager's list.  A refresh is a       *)
(* command that reads the list outside the event loop and delivers it as a *)
(* message; the message asks for the next refresh two seconds later, so    *)
(* each refresh a key asks for goes on for ever by itself, and the screen  *)
(* is kept up to date only as long as one of them is left.  The message    *)
(* that finds a torrent waiting for its file choice opens the picker and   *)
(* asks for nothing more.                                                  *)
(*                                                                         *)
(* The keys that move a cursor, scroll or edit text change none of this    *)
(* and are left out, as are the drawer with the files of a torrent and the *)
(* focus on a report, which only redirect such keys.                       *)
(***************************************************************************)
EXTENDS Naturals

CONSTANTS
  Torrents,
  Polls,   \* numbers from 1 of the refreshes alive at once: a bound
  None

VARIABLES
  tor,     \* the manager: where each torrent is, and whether it asks
  shown,   \* m.torrents: who is listed, and who awaits a choice
  picking, \* m.pickingID
  page,    \* m.page
  prompt,  \* the popup or prompt that takes the keys before the picker
  load,    \* the loading screen: m.loadTick, roughly, and m.loading
  poll     \* the refreshes

screen == <<shown, picking, page, prompt, load>>
vars   == <<tor, screen, poll>>

Absent == [at |-> "absent", hold |-> FALSE, known |-> FALSE, asks |-> FALSE]
Added(hold) == [at |-> "live", hold |-> hold, known |-> FALSE, asks |-> FALSE]

\* AwaitingSelection with a list of files.  A paused torrent is listed by the
\* row that was made of it when it was paused.
Awaits(t) == IF tor[t].at = "live" THEN tor[t].hold /\ tor[t].known ELSE tor[t].asks

Parked(t) == IF tor[t].at = "live"
             THEN [tor[t] EXCEPT !.at = "parked", !.asks = Awaits(t)] ELSE tor[t]
Resumed(t) == IF tor[t].at = "parked" THEN Added(tor[t].hold) ELSE tor[t]

\* SelectFiles and SelectAll; an unknown id is an error that is not looked at.
Chosen(t) == [tor[t] EXCEPT !.hold = FALSE]

List == [listed |-> {t \in Torrents : tor[t].at # "absent"},
         asks |-> {t \in Torrents : Awaits(t)}]
Nothing == [listed |-> {}, asks |-> {}]

Off       == [pc |-> "off", of |-> None, list |-> Nothing]
Due       == [pc |-> "due", of |-> None, list |-> Nothing]
Adding(t) == [pc |-> "adding", of |-> t, list |-> Nothing]

\* Torrents of the command line are added while the first refresh runs.
Init ==
  /\ tor = [t \in Torrents |-> Absent]
  /\ shown = Nothing /\ picking = None
  /\ page = "downloads" /\ prompt = "none"
  /\ load = [tick |-> "early", on |-> TRUE]
  /\ poll \in {p \in [Polls -> {Off, Due} \union {Adding(t) : t \in Torrents}] :
                \A c \in Polls : p[c].pc = "due" <=> c = 1}

\* fetchData: a refresh of its own, by a key or a message.
Fetches(c) == poll[c].pc = "off" /\ poll' = [poll EXCEPT ![c] = Due]

-----------------------------------------------------------------------------
(* The manager                                                             *)

Metadata(t) ==
  /\ tor[t].at = "live" /\ ~tor[t].known
  /\ tor' = [tor EXCEPT ![t].known = TRUE]
  /\ UNCHANGED <<screen, poll>>

\* Over HTTP, by the completion pass, or by the tunnel.
Elsewhere(t) ==
  /\ tor[t].at # "absent"
  /\ tor' \in {[tor EXCEPT ![t] = row] : row \in {Absent, Chosen(t), Parked(t), Resumed(t)}}
  /\ UNCHANGED <<screen, poll>>

-----------------------------------------------------------------------------
(* Messages                                                                *)

\* loadTickMsg; early is below 15 ticks, late from 40 to 50.  One of the late
\* ones ends the loading screen and starts a refresh.
LoadTick(c) ==
  /\ load.tick # "done"
  /\ \/ /\ load.tick # "late"
        /\ load' = [load EXCEPT !.tick = IF @ = "early" THEN "mid" ELSE "late"]
        /\ UNCHANGED poll
     \/ /\ load.tick = "late"
        /\ load' = [load EXCEPT !.tick = "done", !.on = FALSE]
        /\ Fetches(c)
  /\ UNCHANGED <<tor, shown, picking, page, prompt>>

Poll(c) ==
  /\ poll[c].pc = "due"
  /\ poll' = [poll EXCEPT ![c] = [pc |-> "carries", of |-> None, list |-> List]]
  /\ UNCHANGED <<tor, screen>>

\* The picker opens for one that waits, unless something else is open.
MayPick == picking = None /\ page = "downloads" /\ prompt \in {"none", "referrer"}

NeverAgain(loading) == Off
Again(loading) == IF loading THEN Off ELSE Due

DataMsg(c) ==
  /\ poll[c].pc = "carries"
  /\ shown' = poll[c].list
  /\ load' = [load EXCEPT !.on = @ /\ load.tick = "early"]
  /\ IF MayPick /\ shown'.asks # {}
     THEN /\ picking' \in shown'.asks
          /\ poll' = [poll EXCEPT ![c] = Off]
     ELSE /\ poll' = [poll EXCEPT ![c] = Again(load'.on)]
          /\ UNCHANGED picking
  /\ UNCHANGED <<tor, page, prompt>>

\* addAsync: the list is read once the add is through; an error ends it.
AddReturns(c) ==
  /\ poll[c].pc = "adding"
  /\ \/ poll' = [poll EXCEPT ![c] = Off] /\ UNCHANGED tor
     \/ /\ poll' = [poll EXCEPT ![c] = Due]
        /\ IF poll[c].of = None THEN UNCHANGED tor
           ELSE \E hold \in BOOLEAN : tor' = [tor EXCEPT ![poll[c].of] = Added(hold)]
  /\ UNCHANGED screen

-----------------------------------------------------------------------------
(* Keys.  A prompt takes them before the picker does, and the picker       *)
(* before the page.                                                        *)

PickerHasKeys == prompt = "none" /\ picking # None
PageHasKeys == prompt = "none" /\ picking = None

Opens(p) == PageHasKeys /\ prompt' = p
Adds(c, t) == poll[c].pc = "off" /\ poll' = [poll EXCEPT ![c] = Adding(t)]

KeyInput ==
  /\ Opens("input")
  /\ UNCHANGED <<tor, shown, picking, page, load, poll>>

KeySettings ==
  /\ Opens("settings") /\ page = "downloads"
  /\ UNCHANGED <<tor, shown, picking, page, load, poll>>

\* Escape; of the referrer prompt it goes on with the add.
KeyClosesPrompt ==
  /\ prompt \in {"input", "settings"}
  /\ prompt' = "none"
  /\ UNCHANGED <<tor, shown, picking, page, load, poll>>

\* Enter on a magnet or a path, or on a file of the browser.
KeySubmits(c, t) ==
  /\ prompt = "input" /\ prompt' = "none"
  /\ Adds(c, t)
  /\ UNCHANGED <<tor, shown, picking, page, load>>

KeySubmitsURL ==
  /\ prompt = "input" /\ prompt' = "referrer"
  /\ UNCHANGED <<tor, shown, picking, page, load, poll>>

KeyEndsReferrer(c) ==
  /\ prompt = "referrer" /\ prompt' = "none"
  /\ Adds(c, None)
  /\ UNCHANGED <<tor, shown, picking, page, load>>

OnlyCloses(c) == UNCHANGED poll
AndRefreshes(c) == Fetches(c)

\* Escape takes everything, Enter what is ticked.
KeyPicks(c) ==
  /\ PickerHasKeys
  /\ tor' = [tor EXCEPT ![picking] = Chosen(picking)]
  /\ picking' = None
  /\ AndRefreshes(c)
  /\ UNCHANGED <<shown, page, prompt, load>>

KeyReopens(t) ==
  /\ PageHasKeys /\ page = "downloads" /\ t \in shown.asks
  /\ picking' = t
  /\ UNCHANGED <<tor, shown, page, prompt, load, poll>>

KeyTurnsPage ==
  /\ PageHasKeys
  /\ page' = IF page = "downloads" THEN "history" ELSE "downloads"
  /\ UNCHANGED <<tor, shown, picking, prompt, load, poll>>

\* Pause or resume, by the state the copy shows; either may have no effect.
KeyPauses(c, t) ==
  /\ PageHasKeys /\ page = "downloads" /\ t \in shown.listed
  /\ tor' \in {[tor EXCEPT ![t] = row] : row \in {Parked(t), Resumed(t)}}
  /\ Fetches(c)
  /\ UNCHANGED screen

KeyRemoves(c, t) ==
  /\ PageHasKeys /\ page = "downloads" /\ t \in shown.listed
  /\ IF tor[t].at = "absent" THEN UNCHANGED <<tor, shown, poll>>
     ELSE /\ tor' = [tor EXCEPT ![t] = Absent]
          /\ shown' = [listed |-> shown.listed \ {t}, asks |-> shown.asks \ {t}]
          /\ Fetches(c)
  /\ UNCHANGED <<picking, page, prompt, load>>

\* The panic key stops or starts all, the seed key none; a re-scan that has
\* ended asks for a refresh of its own, too.
KeyPanics(c) ==
  /\ PageHasKeys
  /\ tor' \in {[t \in Torrents |-> Parked(t)], [t \in Torrents |-> Resumed(t)]}
  /\ Fetches(c)
  /\ UNCHANGED screen

KeySeeds(c) ==
  /\ PageHasKeys /\ page = "history" /\ Fetches(c)
  /\ UNCHANGED <<tor, screen>>

RescanMsg(c) == Fetches(c) /\ UNCHANGED <<tor, screen>>

Key(c) ==
  \/ KeyInput \/ KeySettings \/ KeyClosesPrompt \/ KeySubmitsURL \/ KeyTurnsPage
  \/ KeyEndsReferrer(c) \/ KeyPicks(c) \/ KeyPanics(c) \/ KeySeeds(c)
  \/ \E t \in Torrents :
       KeySubmits(c, t) \/ KeyReopens(t) \/ KeyPauses(c, t) \/ KeyRemoves(c, t)

Message(c) ==
  LoadTick(c) \/ Poll(c) \/ DataMsg(c) \/ AddReturns(c) \/ RescanMsg(c)

Next ==
  \/ \E t \in Torrents : Metadata(t) \/ Elsewhere(t)
  \/ \E c \in Polls : Key(c) \/ Message(c)

Spec == Init /\ [][Next]_vars

Refreshes(c) == Poll(c) \/ DataMsg(c) \/ AddReturns(c)
Loads == \E c \in Polls : LoadTick(c)

-----------------------------------------------------------------------------

(* The screen never freezes: once loading is over, a refresh is alive, or  *)
(* the picker is open, whose keys start one (the message that opens it     *)
(* returns no command, tui.go:1147).                                       *)
ScreenRefreshes ==
  ~load.on => picking # None \/ \E c \in Polls : poll[c].pc \in {"due", "carries"}

(* A torrent that waits for its file choice is offered to the user, unless *)
(* he is elsewhere for good: nothing of it is downloaded until then, and   *)
(* nobody else would say so.                                               *)
AwaitingIsOffered ==
  []<>(\/ \A t \in Torrents : ~Awaits(t)
       \/ picking # None
       \/ prompt # "none"
       \/ page # "downloads")

=============================================================================
