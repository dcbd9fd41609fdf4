--------------------------- MODULE MCURLDownload ---------------------------
(* Small instances of URLDownload for TLC. *)
EXTENDS URLDownload, TLC

\* Structs, transfers and request goroutines are interchangeable.
Interchangeable ==
  Permutations(Entries) \union Permutations(Runs) \union Permutations(Procs)

=============================================================================
