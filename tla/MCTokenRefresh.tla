--------------------------- MODULE MCTokenRefresh ---------------------------
(* TokenRefresh for TLC: the processes are interchangeable. *)
EXTENDS TokenRefresh, TLC

ProcsAreAlike == Permutations(Procs)
=============================================================================
