-------------------------------- MODULE Gate --------------------------------
(***************************************************************************)
(* What panic mode promises, whatever is being transferred: from the step  *)
(* that engages it to the step that releases it nothing flows, and nothing *)
(* starts to flow.  The download registry implements this (module          *)
(* TorrentManager); the URL downloads are held against it in URLDownload.  *)
(***************************************************************************)
CONSTANT Items

VARIABLES
  engaged,   \* panic mode is in force
  flowing    \* the items being transferred

vars == <<engaged, flowing>>

Init == engaged = FALSE /\ flowing = {}

Start(i) ==
  /\ ~engaged
  /\ flowing' = flowing \union {i}
  /\ UNCHANGED engaged

Stop(i) ==
  /\ flowing' = flowing \ {i}
  /\ UNCHANGED engaged

Engage  == engaged' = TRUE /\ flowing' = {}
Release == engaged' = FALSE /\ UNCHANGED flowing

Next ==
  \/ \E i \in Items : Start(i) \/ Stop(i)
  \/ Engage
  \/ Release

Spec == Init /\ [][Next]_vars

=============================================================================
