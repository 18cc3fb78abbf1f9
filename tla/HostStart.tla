----------------------------- MODULE HostStart -----------------------------
(***************************************************************************)
(* What the supervisor does before it starts a host (`start_host'): the    *)
(* workspace seed, then the config seed, then the host, whatever came of   *)
(* the two.  The tenant, chart upgrades and omnigent go on meanwhile, the  *)
(* helper may die and the pod may be killed between any two steps.         *)
(***************************************************************************)
EXTENDS WorkspaceSeed, ConfigSeed

VARIABLE phase  \* down, workspace or config (the helper runs), up

work == <<disk, offer, manifest, seed, pc, at, files, src_sha,
          author, optout, written, lost, raced, clean>>
conf == <<config, markers, cpc, draft, marks, adds, unmarked, stale, calm>>
vars == <<phase, work, conf, events>>

Init == phase = "down" /\ WInit /\ CInit

\* seed_workspace: no seed directory, a manifest that is there and cannot be read
\* or a workspace that cannot be created end it before it began.
BeginWorkspace ==
  /\ phase = "down" /\ phase' = "workspace"
  /\ Begin /\ UNCHANGED conf
NothingToSeed ==
  /\ phase = "down" /\ phase' = "config" /\ UNCHANGED <<work, conf, events>>

InWorkspace ==
  /\ phase = "workspace" /\ pc # "idle"
  /\ HelperStep /\ UNCHANGED <<phase, conf>>
WorkspaceDone ==
  /\ phase = "workspace" /\ pc = "idle" /\ phase' = "config"
  /\ UNCHANGED <<work, conf, events>>

\* The exit code of the helper is not looked at.
InConfig ==
  /\ phase = "config"
  /\ CHelperStep /\ UNCHANGED work
  /\ phase' = IF cpc' = "idle" THEN "up" ELSE "config"

HelperDies ==
  \/ phase = "workspace" /\ Die /\ UNCHANGED <<phase, conf>>
  \/ phase = "config" /\ CDie /\ phase' = "up" /\ UNCHANGED work

\* The host ends, for whatever reason, and is started again.
HostEnds == phase = "up" /\ phase' = "down" /\ UNCHANGED <<work, conf, events>>

\* The container is killed with everything in it.
PodKilled ==
  /\ phase \in {"workspace", "config"} /\ phase' = "down"
  /\ \/ phase = "workspace" /\ Die /\ UNCHANGED conf
     \/ phase = "config" /\ CDie /\ UNCHANGED work
     \/ /\ pc = "idle" /\ cpc = "idle" /\ Happens
        /\ UNCHANGED <<work, conf>>

Interference ==
  \/ Outsiders /\ UNCHANGED <<phase, conf>>
  \/ COutsiders /\ UNCHANGED <<phase, work>>

Next ==
  \/ BeginWorkspace \/ NothingToSeed \/ InWorkspace \/ WorkspaceDone \/ InConfig
  \/ HelperDies \/ HostEnds \/ PodKilled \/ Interference

Spec == Init /\ [][Next]_vars
-----------------------------------------------------------------------------
TypeOK == phase \in {"down", "workspace", "config", "up"} /\ WTypeOK /\ CTypeOK

\* "If the tenant later removes an entry, it is never re-added" (README.md:131 of
\* the kit): the marker is written after config.yaml, or never when that fails.
RemovedStaysRemoved == \A n \in Providers : adds[n] <= 1

\* Both seeds are complete after a run nobody disturbed, whatever deaths, edits and
\* failures earlier starts of the host have left behind.
SeedsComplete == Settled /\ DefaultsInPlace
=============================================================================
