---------------------------- MODULE MCInterface ----------------------------
(***************************************************************************)
(* The user's side of the program in one instance for TLC: the screen,     *)
(* the two doors to a re-scan, and the settings with the server they turn  *)
(* on and off.  The three share no state (a re-scan that ends, and a       *)
(* setting, reach the screen as a message and a key that are actions of    *)
(* its own), so a session has one of them as its subject, and the other    *)
(* two stay as they are.                                                   *)
(***************************************************************************)
EXTENDS RescanDoors, Settings

CONSTANTS Torrents, Polls

ASSUME NoTorrentIsNone == None \notin Torrents

VARIABLES
  subject,
  tor, shown, picking, page, prompt, load, poll

UI == INSTANCE Screen

ui   == <<tor, shown, picking, page, prompt, load, poll>>
vars == <<subject, ui, doors, configuration>>

\* What is not the subject starts in one state only.
Init ==
  /\ subject \in {"screen", "doors", "settings"}
  /\ UI!Init /\ DoorsInit /\ SettingsInit
  /\ subject # "screen" => \A c \in Polls : poll[c].pc # "adding"
  /\ subject # "settings" => file = Unset /\ run[CHOOSE r \in Runs : TRUE] = "spawned"

Screen == subject = "screen" /\ UNCHANGED <<subject, doors, configuration>>
Rescans == subject = "doors" /\ UNCHANGED <<subject, ui, configuration>>
Switches == subject = "settings" /\ UNCHANGED <<subject, ui, doors>>

Next ==
  \/ Screen /\ UI!Next
  \/ Rescans /\ DoorsNext
  \/ Switches /\ SettingsNext

\* The event loop takes its messages, commands run, an add returns (it waits
\* for locks only), and a timer goes off.
Fairness ==
  /\ \A c \in Polls : WF_vars(Screen /\ UI!Refreshes(c))
  /\ WF_vars(Screen /\ UI!Loads)
  /\ \A p \in Pumps : /\ WF_vars(Rescans /\ Finds(p))
                      /\ WF_vars(Rescans /\ Reports(p))
                      /\ WF_vars(Rescans /\ ScanTick(p))

Spec == Init /\ [][Next]_vars /\ Fairness

\* A session about the settings ends for TLC where two saves overlap, and at
\* the first save after one that failed: FileFollowsSettings speaks of neither,
\* and the server goes by nothing that a save reads or writes.
Judged == ~overlapped /\ (failed => \A c \in Callers : ~Saving(c))

-----------------------------------------------------------------------------

\* The properties of the screen, stated and explained there.
ScreenRefreshes   == UI!ScreenRefreshes
AwaitingIsOffered == UI!AwaitingIsOffered

=============================================================================
