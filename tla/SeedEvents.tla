----------------------------- MODULE SeedEvents -----------------------------
(* What interferes with the seeds of a host start, counted and bounded: edits *)
(* by the tenant, chart upgrades, deaths of the helper.                        *)
EXTENDS Naturals

CONSTANT MaxEvents   \* bound: such events in a behaviour
ASSUME EventsAssumption == MaxEvents \in Nat

VARIABLE events
Happens == events < MaxEvents /\ events' = events + 1
=============================================================================
