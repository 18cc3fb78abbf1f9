------------------------ MODULE MCOmnigentSupervisor ------------------------
(* OmnigentSupervisor on a small instance: two logins, one tick = one unit. *)
EXTENDS OmnigentSupervisor, TLC

LoginsAreAlike == Permutations(Logins)
=============================================================================
