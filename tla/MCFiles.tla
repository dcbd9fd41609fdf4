------------------------------- MODULE MCFiles -------------------------------
(***************************************************************************)
(* The files of a download in one instance for TLC: which of them are      *)
(* fetched and handed over, and the verdict on one.  The two share no      *)
(* state, so a session has one of them as its subject, and the other stays *)
(* as it is.                                                               *)
(***************************************************************************)
EXTENDS Selection, ScanVerdict

VARIABLE subject

vars == <<subject, selection, verdictVars>>

\* What is not the subject starts in one state only.
Init ==
  /\ subject \in {"selection", "verdict"}
  /\ SelectionInit /\ VerdictInit
  /\ subject # "verdict" =>
       /\ cfg = [socket |-> TRUE, rules |-> TRUE, timeout |-> FALSE, sandbox |-> FALSE,
                 reputation |-> "off"]
       /\ file = [oversize |-> FALSE, archive |-> FALSE, executable |-> "no"]

Selecting == subject = "selection"
Scanning  == subject = "verdict"

Next ==
  \/ Selecting /\ SelectionNext /\ UNCHANGED <<subject, verdictVars>>
  \/ Scanning /\ VerdictNext /\ UNCHANGED <<subject, selection>>

\* The fairness of the two.
Fairness ==
  /\ WF_selection(Selecting /\ Register) /\ WF_selection(Selecting /\ OnAdd)
  /\ WF_selection(Selecting /\ Metadata) /\ WF_selection(Selecting /\ Complete)
  /\ WF_selection(Selecting /\ Prune) /\ WF_selection(Selecting /\ Deliver)
  /\ \A a \in Actors : WF_selection(Selecting /\ ActorStep(a))
  /\ \A f \in Files : WF_selection(Selecting /\ Fetch(f))
  /\ WF_verdictVars(Scanning /\ Expires) /\ WF_verdictVars(Scanning /\ expired /\ EngineStep)
  /\ WF_verdictVars(Scanning /\ OwnStep)

Spec == Init /\ [][Next]_vars /\ Fairness

=============================================================================
