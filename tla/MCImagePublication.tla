------------------------- MODULE MCImagePublication -------------------------
(* ImagePublication for TLC: every commit has the one chart version. *)
EXTENDS ImagePublication, TLC

MCAliases == <<"X.Y">>
MCChart == [r \in Revs |-> "X.Y.Z"]
RunsAndJobsAreAlike == Permutations(Runs) \cup Permutations(Publishers)
=============================================================================
