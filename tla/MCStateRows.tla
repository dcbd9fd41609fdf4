---------------------------- MODULE MCStateRows -----------------------------
(* A small instance of StateRows for TLC: the store holds one row. *)
EXTENDS StateRows

MCWriters == {"ui", "monitor", "info", "events", "pass"}
MCTables  == [here : BOOLEAN, done : BOOLEAN, paused : BOOLEAN,
              files : {"all", "some"}]
MCNoRows  == [here |-> FALSE, done |-> FALSE, paused |-> FALSE,
              files |-> "all"]

\* Bounds: requests, restarts and panics together, and goroutines that have
\* changed the store and are not back from Save.
FewMoves ==
  /\ asked + restarts + panics <= 3
  /\ Cardinality({w \in Writers : pc[w] # "idle"}) <= 2

=============================================================================
