----------------------------- MODULE MCDelivery -----------------------------
(***************************************************************************)
(* An instance of Delivery for TLC in which the torrent is paused, deleted *)
(* and added again, and the program killed.  Both of its properties except *)
(* what follows once the torrent was registered anew while work on it went *)
(* on, and nothing undoes that, so TLC goes no further then.               *)
(***************************************************************************)
EXTENDS Delivery, TLC

NotReentered == ~reentered

\* No step tells one file, or one pass, from another.
Interchangeable == Permutations(Files) \union Permutations(Passes)

=============================================================================
