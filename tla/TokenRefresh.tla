---------------------------- MODULE TokenRefresh ----------------------------
(***************************************************************************)
(* How a login on the volume is probed and renewed: `og_helper.py state'   *)
(* (paas/shared/omnigent-host/og_helper.py).  The probe of the supervisor, *)
(* the host and the tenant's CLI all renew the same auth_tokens.json, each *)
(* under the flock on auth_tokens.lock, from a server that may replace the *)
(* refresh token whenever it is used.                                      *)
(*                                                                         *)
(* A login is a grant; renewing it yields the next version of its tokens.  *)
(* The program counter of a process stops before every request, before it  *)
(* takes the lock and before it replaces the file, so that others, crashes *)
(* and lost answers may come between.                                      *)
(***************************************************************************)
EXTENDS Naturals

CONSTANTS
  Procs,        \* processes that renew the login
  Nobody,       \* holder of a free lock
  NoEntry,      \* no token is stored
  Rotates,      \* the server replaces the refresh token at each use
  MaxGrants,    \* bound: logins of the tenant
  MaxVersion,   \* bound: renewals of one login, plus one
  MaxFaults     \* bound: crashes, lost answers, failed writes

ASSUME TokenAssumption ==
  /\ Nobody \notin Procs
  /\ Rotates \in BOOLEAN
  /\ MaxGrants \in Nat \ {0} /\ MaxVersion \in Nat \ {0} /\ MaxFaults \in Nat

Grants == 1..MaxGrants
Versions == Nat \ {0}
NoRefresh == 0                   \* the entry has no refresh_token

\* The entry of the configured server in auth_tokens.json
Entries == [grant : Grants, token : Versions, refresh : Versions \cup {NoRefresh},
            soon : BOOLEAN]      \* _expires_soon

ASSUME EntryAssumption == NoEntry \notin Entries

VARIABLES
  (* the volume *)
  stored,       \* the entry, or NoEntry
  lock,         \* auth_tokens.lock
  (* the server *)
  up,
  latest,       \* number of the newest grant
  valid,        \* grants it has not revoked
  version,      \* newest version of each grant's tokens
  (* the processes *)
  pc,
  mem,          \* entry whose tokens are being used
  verdict,      \* the last answer
  faults,
  (* history, read by properties only *)
  orphaned,     \* grants whose newest refresh token got lost on its way to the file
  removed       \* grants the tenant removed from the volume

volume == <<stored, lock>>
server == <<up, latest, valid, version>>
local == <<pc, mem, verdict>>
vars == <<volume, server, local, faults, orphaned, removed>>

Verdicts == {"none", "ok", "absent", "rejected", "unreachable"}
PCs == {"idle", "me", "flock", "reload", "post", "write", "me2"}

-----------------------------------------------------------------------------
(* What the server says *)

(* An access token that was replaced meanwhile may still be good or not.     *)
MeAccepts(e) == e.grant \in valid
MeRefuses(e) == e.grant \notin valid \/ e.soon \/ e.token < version[e.grant]

RefreshAccepted(e) ==
  /\ e.refresh # NoRefresh
  /\ e.grant \in valid
  /\ Rotates => e.refresh = version[e.grant]

NextVersion(g) == version[g] + 1

OnlyTheAnswer(e) == [token |-> NextVersion(e.grant), refresh |-> NextVersion(e.grant),
                     soon |-> FALSE]
RefreshTokenKept(e) == [e EXCEPT !.token = NextVersion(e.grant), !.soon = FALSE]
Renewed(e) == [e EXCEPT !.token = NextVersion(e.grant), !.soon = FALSE,
                        !.refresh = IF Rotates THEN NextVersion(e.grant) ELSE @]

-----------------------------------------------------------------------------
(* cmd_state and refresh *)

Goes(p, place) == pc' = [pc EXCEPT ![p] = place]
Answers(p, v) == Goes(p, "idle") /\ verdict' = [verdict EXCEPT ![p] = v]
Unlock == lock' = Nobody
Fault == faults < MaxFaults /\ faults' = faults + 1
Orphan(g) == orphaned' = orphaned \cup {g}

(* A token that is about to expire is not tried at all.                      *)
ExpiryIgnored(e) == "me"
FirstStep(e) == IF e.soon THEN "flock" ELSE "me"

Load(p) ==
  /\ pc[p] = "idle"
  /\ IF stored = NoEntry
     THEN Answers(p, "absent") /\ UNCHANGED mem
     ELSE /\ mem' = [mem EXCEPT ![p] = stored]
          /\ Goes(p, FirstStep(stored))
          /\ verdict' = [verdict EXCEPT ![p] = "none"]
  /\ UNCHANGED <<volume, server, faults, orphaned, removed>>

(* check_me with the token that was read.  A 401 is not a verdict yet: a     *)
(* refresh tells a revoked login from a dead access token.                   *)
CheckMe(p) ==
  /\ pc[p] = "me"
  /\ \/ ~up /\ Answers(p, "unreachable")
     \/ up /\ MeAccepts(mem[p]) /\ Answers(p, "ok")
     \/ up /\ MeRefuses(mem[p]) /\ Goes(p, "flock") /\ UNCHANGED verdict
  /\ UNCHANGED <<volume, server, mem, faults, orphaned, removed>>

Flock(p) ==
  /\ pc[p] = "flock"
  /\ lock = Nobody
  /\ lock' = p
  /\ Goes(p, "reload")
  /\ UNCHANGED <<stored, server, mem, verdict, faults, orphaned, removed>>

(* safe_refresh: the lock file cannot be opened                              *)
NoFlock(p) ==
  /\ pc[p] = "flock"
  /\ Answers(p, "unreachable")
  /\ Fault
  /\ UNCHANGED <<volume, server, mem, orphaned, removed>>

(* What the file holds now, under the lock, decides: somebody else may have  *)
(* renewed the login meanwhile.                                              *)
NeverElsewhere(p) == FALSE
RefreshedElsewhere(p) ==
  /\ <<stored.grant, stored.token>> # <<mem[p].grant, mem[p].token>>
  /\ ~stored.soon

KeepFirstRead(p) == mem[p]
ReadAgain(p) == stored

Reload(p) ==
  /\ pc[p] = "reload"
  /\ \/ stored = NoEntry /\ Answers(p, "absent") /\ Unlock /\ UNCHANGED mem
     \/ /\ stored # NoEntry
        /\ RefreshedElsewhere(p)
        /\ mem' = [mem EXCEPT ![p] = stored]
        /\ Unlock
        /\ Goes(p, "me2")
        /\ UNCHANGED verdict
     \/ /\ stored # NoEntry
        /\ ~RefreshedElsewhere(p)
        /\ mem' = [mem EXCEPT ![p] = ReadAgain(p)]
        /\ IF stored.refresh = NoRefresh
           THEN Answers(p, "rejected") /\ Unlock
           ELSE Goes(p, "post") /\ UNCHANGED <<lock, verdict>>
  /\ UNCHANGED <<stored, server, faults, orphaned, removed>>

(* POST /oauth/token; the answer may get lost after the server acted on it.  *)
Post(p) ==
  /\ pc[p] = "post"
  /\ \/ /\ ~up \/ ~RefreshAccepted(mem[p])
        /\ Answers(p, IF up THEN "rejected" ELSE "unreachable")
        /\ Unlock
        /\ UNCHANGED <<mem, version, faults, orphaned>>
     \/ /\ up /\ RefreshAccepted(mem[p])
        /\ version' = [version EXCEPT ![mem[p].grant] = NextVersion(mem[p].grant)]
        /\ \/ /\ mem' = [mem EXCEPT ![p] = Renewed(mem[p])]
              /\ Goes(p, "write")
              /\ UNCHANGED <<lock, verdict, faults, orphaned>>
           \/ /\ Answers(p, "unreachable")
              /\ Unlock
              /\ Fault /\ Orphan(mem[p].grant)
              /\ UNCHANGED mem
  /\ UNCHANGED <<stored, up, latest, valid, removed>>

(* write_tokens: a temporary file renamed into place, or an OSError          *)
Write(p) ==
  /\ pc[p] = "write"
  /\ Unlock
  /\ \/ stored' = mem[p] /\ Goes(p, "me2") /\ UNCHANGED <<verdict, faults, orphaned>>
     \/ /\ Answers(p, "unreachable")
        /\ Fault /\ Orphan(mem[p].grant)
        /\ UNCHANGED stored
  /\ UNCHANGED <<server, mem, removed>>

(* check_me with the renewed token                                           *)
CheckMeAgain(p) ==
  /\ pc[p] = "me2"
  /\ \/ ~up /\ Answers(p, "unreachable")
     \/ up /\ MeAccepts(mem[p]) /\ Answers(p, "ok")
     \/ up /\ MeRefuses(mem[p]) /\ Answers(p, "rejected")
  /\ UNCHANGED <<volume, server, mem, faults, orphaned, removed>>

(* Killed at any point (the supervisor's process group, the container): the  *)
(* kernel drops the lock.                                                    *)
LockFileLeft(p) == lock
LockLeftBy(p) == IF lock = p THEN Nobody ELSE lock

Crash(p) ==
  /\ pc[p] # "idle"
  /\ Answers(p, "none")
  /\ lock' = LockLeftBy(p)
  /\ Fault
  /\ IF pc[p] = "write" THEN Orphan(mem[p].grant) ELSE UNCHANGED orphaned
  /\ UNCHANGED <<stored, server, mem, removed>>

-----------------------------------------------------------------------------
(* The tenant, the server, time *)

(* omnigent login: a new grant, written under the lock; some servers give no *)
(* refresh token.                                                            *)
Login ==
  /\ lock = Nobody
  /\ latest < MaxGrants
  /\ latest' = latest + 1
  /\ valid' = valid \cup {latest'}
  /\ \E r \in {1, NoRefresh} :
       stored' = [grant |-> latest', token |-> 1, refresh |-> r, soon |-> FALSE]
  /\ UNCHANGED <<lock, up, version, local, faults, orphaned, removed>>

(* rm auth_tokens.json: nobody locks for that                                *)
Logout ==
  /\ stored # NoEntry
  /\ stored' = NoEntry
  /\ removed' = removed \cup {stored.grant}
  /\ UNCHANGED <<lock, server, local, faults, orphaned>>

Revoke ==
  /\ \E g \in valid : valid' = valid \ {g}
  /\ UNCHANGED <<volume, up, latest, version, local, faults, orphaned, removed>>

ServerFlips ==
  /\ up' = ~up
  /\ UNCHANGED <<volume, latest, valid, version, local, faults, orphaned, removed>>

(* The stored token comes within 90 s of its expiry.  A token lasts much     *)
(* longer than the probe that fetched it.                                    *)
ExpiresSoon ==
  /\ stored # NoEntry /\ ~stored.soon
  /\ version[stored.grant] < MaxVersion
  /\ \A p \in Procs : pc[p] # "me2"
  /\ stored' = [stored EXCEPT !.soon = TRUE]
  /\ UNCHANGED <<lock, server, local, faults, orphaned, removed>>

-----------------------------------------------------------------------------
Blank == [grant |-> 1, token |-> 1, refresh |-> NoRefresh, soon |-> FALSE]

Init ==
  /\ stored = NoEntry /\ lock = Nobody
  /\ up \in BOOLEAN /\ latest = 0 /\ valid = {} /\ version = [g \in Grants |-> 1]
  /\ pc = [p \in Procs |-> "idle"]
  /\ mem = [p \in Procs |-> Blank]
  /\ verdict = [p \in Procs |-> "none"]
  /\ faults = 0 /\ orphaned = {} /\ removed = {}

Step(p) ==
  \/ Load(p) \/ CheckMe(p) \/ Flock(p) \/ Reload(p) \/ Post(p) \/ Write(p)
  \/ CheckMeAgain(p)

Next ==
  \/ \E p \in Procs : Step(p) \/ NoFlock(p) \/ Crash(p)
  \/ Login \/ Logout \/ Revoke \/ ServerFlips \/ ExpiresSoon

Spec == Init /\ [][Next]_vars

(* Every process probes again and again and every request ends (timeouts of  *)
(* OG_HTTP_TIMEOUT); a kernel hands a flock on to whoever has waited.  The   *)
(* tenant and the server owe nothing.                                        *)
Fairness == \A p \in Procs : WF_vars(Step(p)) /\ SF_vars(Flock(p))

FairSpec == Spec /\ Fairness

-----------------------------------------------------------------------------
(* Properties *)

(* The type invariant.                                                       *)
TypeOK ==
  /\ stored \in Entries \cup {NoEntry} /\ lock \in Procs \cup {Nobody}
  /\ up \in BOOLEAN /\ latest \in 0..MaxGrants /\ valid \subseteq 1..latest
  /\ version \in [Grants -> Versions]
  /\ pc \in [Procs -> PCs] /\ verdict \in [Procs -> Verdicts]
  /\ mem \in [Procs -> Entries]
  /\ faults \in 0..MaxFaults /\ orphaned \subseteq Grants /\ removed \subseteq Grants

(* "rejected" is a definitive verdict (og_helper.py:20-31): when a probe     *)
(* gives it, nothing on the volume can renew that login any more, however    *)
(* many processes were renewing it at the same time.                         *)
RejectionIsDefinitive ==
  \A p \in Procs :
    verdict[p] = "rejected" /\ stored # NoEntry /\ stored.grant = mem[p].grant
      => ~RefreshAccepted(stored)

(* No update is lost between the processes: the refresh token on the volume  *)
(* is the one the server takes, or its successor is about to be written.     *)
(* Only a crash, a lost answer or a failed write in the one window between   *)
(* the server's step and the rename breaks this (og_helper.py:337-357).      *)
StoredLoginRenewable ==
  stored # NoEntry /\ stored.refresh # NoRefresh
      /\ stored.grant \in valid \ orphaned
    => \/ RefreshAccepted(stored)
       \/ \E p \in Procs : pc[p] = "write" /\ mem[p].grant = stored.grant

Healthy == up /\ stored # NoEntry /\ stored.refresh # NoRefresh
             /\ stored.grant \in valid \ orphaned

(* As long as the login and the server are well, every process comes to see  *)
(* it that way, and the stored token does not stay about to expire.          *)
RenewalConverges ==
  <>[]Healthy => /\ <>[](stored \in Entries /\ ~stored.soon)
                 /\ \A p \in Procs : []<>(verdict[p] = "ok")

(* A probe always ends: nobody waits for ever for a lock whose holder was    *)
(* killed, or for a server that is down.                                     *)
ProbeEnds == \A p \in Procs : pc[p] # "idle" ~> pc[p] = "idle"

(* README.md:303: "Deleting the token file is only a local logout": a login  *)
(* the tenant removed from the volume does not come back.                    *)
LogoutStays == stored # NoEntry => stored.grant \notin removed
=============================================================================
