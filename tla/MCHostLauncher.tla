--------------------------- MODULE MCHostLauncher ---------------------------
(* HostLauncher for TLC: containers are interchangeable. *)
EXTENDS HostLauncher, TLC

PodsAreAlike == Permutations(Pods)
=============================================================================
