----------------------------- MODULE HostService -----------------------------
(***************************************************************************)
(* What the supervisor of the omnigent-host kit promises, without saying   *)
(* how: a service that keeps at most one host for at most one login.       *)
(*                                                                         *)
(* A host is started only from "idle".  It keeps the login it was started  *)
(* for; it is taken down on purpose only once that login is lost; and a    *)
(* host that died by itself leaves the service in "failed", from which it  *)
(* has to come back to "idle" before the next start.                       *)
(***************************************************************************)
CONSTANTS Logins, NoLogin

VARIABLES
  mode,     \* "idle", "serving", "failed" or "down"
  login,    \* the login the running host was started for
  lost      \* that login was replaced, removed, revoked or rejected

serviceVars == <<mode, login, lost>>

NotServing == login' = NoLogin /\ lost' = FALSE

Start(l) ==
  /\ mode = "idle"
  /\ mode' = "serving"
  /\ login' = l
  /\ lost' \in BOOLEAN         \* the login may be gone by the time of the start

Lose == /\ mode = "serving"
        /\ lost' = TRUE
        /\ UNCHANGED <<mode, login>>

Retire == /\ mode = "serving" /\ lost
          /\ mode' = "idle"
          /\ NotServing

Fail == /\ mode = "serving"
        /\ mode' = "failed"
        /\ NotServing

Excuse == /\ mode = "failed"
          /\ mode' = "idle"
          /\ NotServing

Leave == /\ mode # "down"
         /\ mode' = "down"
         /\ NotServing

ServiceInit == mode = "idle" /\ login = NoLogin /\ lost = FALSE

ServiceNext ==
  \/ \E l \in Logins \cup {NoLogin} : Start(l)
  \/ Lose \/ Retire \/ Fail \/ Excuse \/ Leave

ServiceSpec == ServiceInit /\ [][ServiceNext]_serviceVars
=============================================================================
