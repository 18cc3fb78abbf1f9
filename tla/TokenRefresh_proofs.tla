------------------------- MODULE TokenRefresh_proofs -------------------------
(***************************************************************************)
(* Proofs about TokenRefresh for any number of processes, logins, renewals *)
(* and faults, and for servers that rotate refresh tokens or do not.       *)
(***************************************************************************)
EXTENDS TokenRefresh, TLAPS

-----------------------------------------------------------------------------
(* The lock is held exactly between Reload and the end of the renewal.       *)
InSection(p) == pc[p] \in {"reload", "post", "write"}
LockInv == \A p \in Procs : InSection(p) <=> lock = p

(* A process uses an entry that was once stored; the ones it may still renew *)
(* are no newer than what the server issued.                                 *)
KnownInv ==
  /\ stored # NoEntry => stored.grant <= latest
  /\ \A p \in Procs : pc[p] # "idle" \/ verdict[p] = "rejected" => mem[p].grant <= latest
  /\ \A g \in Grants : g > latest => version[g] = 1
AgeInv ==
  /\ stored # NoEntry => stored.token <= version[stored.grant]
  /\ \A p \in Procs : pc[p] # "idle" => mem[p].token <= version[mem[p].grant]

(* Expiry goes one way: the copy of the stored token in a process never      *)
(* expires before the stored one.                                            *)
Reading == {"me", "flock", "reload"}
CopyInv ==
  \A p \in Procs : pc[p] \in Reading /\ stored # NoEntry /\ mem[p].soon
      /\ mem[p].grant = stored.grant /\ mem[p].token = stored.token => stored.soon

(* A token that looks good on the volume is the newest one.                  *)
Dead(e) == e.grant \notin valid
FreshInv ==
  stored # NoEntry /\ ~stored.soon /\ ~Dead(stored) => stored.token = version[stored.grant]

(* The lock is only asked for with a reason.                                 *)
RefusedInv ==
  \A p \in Procs : pc[p] \in {"flock", "reload", "post"} => MeRefuses(mem[p])

(* Between Reload and the rename the volume still holds what was read.       *)
PostInv ==
  \A p \in Procs : pc[p] = "post" =>
    /\ mem[p].refresh # NoRefresh
    /\ stored # NoEntry =>
         /\ stored.grant = mem[p].grant /\ stored.token = mem[p].token
         /\ stored.refresh = mem[p].refresh
         /\ mem[p].soon => stored.soon
WriteInv ==
  \A p \in Procs : pc[p] = "write" =>
    /\ mem[p].refresh # NoRefresh /\ ~mem[p].soon
    /\ mem[p].token = version[mem[p].grant]
    /\ Rotates => mem[p].refresh = version[mem[p].grant]
    /\ stored # NoEntry =>
         /\ stored.grant = mem[p].grant /\ stored.refresh # NoRefresh
         /\ stored.token < mem[p].token
         /\ stored.soon \/ Dead(stored)
OlderInv ==
  \A p, q \in Procs :
    pc[p] = "write" /\ pc[q] \in Reading /\ mem[q].grant = mem[p].grant
      => mem[q].token < mem[p].token

(* A renewed token is good while its owner tries it.                         *)
TriedInv ==
  \A p \in Procs : pc[p] = "me2" =>
    /\ ~mem[p].soon
    /\ ~Dead(mem[p]) =>
         /\ mem[p].token = version[mem[p].grant]
         /\ stored # NoEntry /\ stored.grant = mem[p].grant => ~stored.soon
         /\ \A q \in Procs : pc[q] \in {"post", "write"} => mem[q].grant # mem[p].grant

(* Nobody can renew a rejected login.                                        *)
RejectedInv ==
  \A p \in Procs : verdict[p] = "rejected" =>
    /\ pc[p] = "idle"
    /\ stored # NoEntry /\ stored.grant = mem[p].grant => ~RefreshAccepted(stored)
    /\ \A q \in Procs : pc[q] \in {"post", "write"} /\ mem[q].grant = mem[p].grant
                          => ~RefreshAccepted(mem[q])

(* The refresh token of the volume is the server's, unless lost or under way.*)
RefreshInv ==
  Rotates /\ stored # NoEntry /\ stored.refresh # NoRefresh /\ stored.grant \notin orphaned
    => \/ stored.refresh = version[stored.grant]
       \/ \E p \in Procs : pc[p] = "write" /\ mem[p].grant = stored.grant

IInv ==
  /\ TypeOK /\ LockInv /\ KnownInv /\ AgeInv /\ CopyInv /\ FreshInv /\ RefusedInv
  /\ PostInv /\ WriteInv /\ OlderInv /\ TriedInv /\ RejectedInv /\ RefreshInv

USE DEF volume, server, local, Goes, Answers

-----------------------------------------------------------------------------
(* What a type correct state is made of                                      *)
LEMMA EntryTypes ==
  ASSUME NEW e \in Entries
  PROVE  /\ e.grant \in Grants /\ e.grant \in Nat
         /\ e.token \in Versions /\ e.token \in Nat
         /\ e.refresh \in Versions \cup {NoRefresh} /\ e.refresh \in Nat
         /\ e.soon \in BOOLEAN
  BY TokenAssumption DEF Entries, Grants, Versions, NoRefresh

(* What the step of the server and the answer that reaches r amount to       *)
LEMMA RenewedEntry ==
  ASSUME TypeOK, NEW e \in Entries, e.grant \in valid
  PROVE  /\ Renewed(e) \in Entries
         /\ Renewed(e).grant = e.grant
         /\ Renewed(e).token = version[e.grant] + 1
         /\ Renewed(e).soon = FALSE
         /\ Renewed(e).refresh = IF Rotates THEN version[e.grant] + 1 ELSE e.refresh
<1>1. version[e.grant] \in Versions
  BY EntryTypes DEF TypeOK
<1>2. version[e.grant] + 1 \in Versions
  BY <1>1 DEF Versions
<1> QED
  BY <1>2, TokenAssumption DEF Entries, Renewed, NextVersion, Versions

(* Reading an entry makes a copy of it. *)
LEMMA LoadStep == ASSUME IInv, NEW r \in Procs, Load(r) PROVE IInv'
<1>1. TypeOK'
  BY DEF IInv, TypeOK, Load, FirstStep, PCs, Verdicts
<1>2. OlderInv'
  BY DEF IInv, TypeOK, WriteInv, OlderInv, Load, FirstStep
<1>3. FreshInv'
  BY DEF IInv, FreshInv, Load, Dead
<1>4. LockInv' /\ KnownInv'
  BY DEF IInv, TypeOK, LockInv, KnownInv, Load, FirstStep, InSection
<1>5. AgeInv' /\ CopyInv'
  BY DEF IInv, TypeOK, AgeInv, CopyInv, Load
<1>6. RefusedInv' /\ PostInv'
  BY DEF IInv, TypeOK, RefusedInv, PostInv, Load, FirstStep, MeRefuses
<1>7. WriteInv' /\ TriedInv'
  BY DEF IInv, TypeOK, WriteInv, TriedInv, Load, FirstStep, Dead
<1>8. RejectedInv' /\ RefreshInv'
  BY DEF IInv, TypeOK, RejectedInv, RefreshInv, Load, RefreshAccepted
<1> QED
  BY <1>1, <1>2, <1>3, <1>4, <1>5, <1>6, <1>7, <1>8 DEF IInv

(* A refused token is a reason to ask for the lock. *)
LEMMA CheckMeStep == ASSUME IInv, NEW r \in Procs, CheckMe(r) PROVE IInv'
<1>1. TypeOK'
  BY DEF IInv, TypeOK, CheckMe, PCs, Verdicts
<1>2. FreshInv'
  BY DEF IInv, FreshInv, CheckMe, Dead
<1>3. LockInv' /\ KnownInv'
  BY DEF IInv, TypeOK, LockInv, KnownInv, CheckMe, InSection
<1>4. AgeInv' /\ CopyInv'
  BY DEF IInv, TypeOK, AgeInv, CopyInv, CheckMe, Reading
<1>5. RefusedInv' /\ PostInv'
  BY DEF IInv, TypeOK, RefusedInv, PostInv, CheckMe, MeRefuses
<1>6. WriteInv' /\ OlderInv'
  BY DEF IInv, TypeOK, WriteInv, OlderInv, CheckMe, Dead, Reading
<1>7. TriedInv' /\ RejectedInv'
  BY DEF IInv, TypeOK, TriedInv, RejectedInv, CheckMe, Dead, RefreshAccepted
<1>8. RefreshInv'
  BY DEF IInv, TypeOK, RefreshInv, CheckMe
<1> QED
  BY <1>1, <1>2, <1>3, <1>4, <1>5, <1>6, <1>7, <1>8 DEF IInv

(* The lock is free when it is taken. *)
LEMMA FlockStep == ASSUME IInv, NEW r \in Procs, Flock(r) PROVE IInv'
<1>1. TypeOK'
  BY DEF IInv, TypeOK, Flock, PCs
<1>2. LockInv'
  BY TokenAssumption DEF IInv, TypeOK, LockInv, Flock, InSection
<1>3. KnownInv' /\ AgeInv' /\ CopyInv' /\ FreshInv'
  BY DEF IInv, KnownInv, AgeInv, CopyInv, FreshInv, Flock, Reading, Dead
<1>4. RefusedInv' /\ PostInv' /\ WriteInv' /\ OlderInv'
  BY DEF IInv, RefusedInv, PostInv, WriteInv, OlderInv, Flock, MeRefuses, Dead, Reading
<1>5. TriedInv' /\ RejectedInv' /\ RefreshInv'
  BY DEF IInv, TriedInv, RejectedInv, RefreshInv, Flock, Dead, RefreshAccepted
<1> QED
  BY <1>1, <1>2, <1>3, <1>4, <1>5 DEF IInv

(* No verdict without the lock. *)
LEMMA NoFlockStep == ASSUME IInv, NEW r \in Procs, NoFlock(r) PROVE IInv'
<1>1. TypeOK'
  BY TokenAssumption DEF IInv, TypeOK, NoFlock, Fault, PCs, Verdicts
<1>2. LockInv' /\ KnownInv' /\ AgeInv' /\ CopyInv'
  BY DEF IInv, LockInv, KnownInv, AgeInv, CopyInv, NoFlock, InSection, Reading
<1>3. FreshInv' /\ RefusedInv' /\ PostInv' /\ WriteInv'
  BY DEF IInv, FreshInv, RefusedInv, PostInv, WriteInv, NoFlock, Dead, MeRefuses
<1>4. OlderInv' /\ TriedInv' /\ RejectedInv' /\ RefreshInv'
  BY DEF IInv, OlderInv, TriedInv, RejectedInv, RefreshInv, NoFlock, Reading, Dead,
      RefreshAccepted
<1> QED
  BY <1>1, <1>2, <1>3, <1>4 DEF IInv

(* What is renewed is what the volume holds now, and nobody is trying that token. *)
LEMMA ReloadStep == ASSUME IInv, NEW r \in Procs, Reload(r) PROVE IInv'
<1>1. TypeOK'
  BY DEF IInv, TypeOK, Reload, Unlock, ReadAgain, PCs, Verdicts
<1>2. LockInv'
  BY TokenAssumption DEF IInv, TypeOK, LockInv, Reload, Unlock, InSection
<1>3. RefusedInv'
  BY DEF IInv, TypeOK, CopyInv, RefusedInv, Reload, RefreshedElsewhere, ReadAgain,
     Reading, MeRefuses
<1>4. WriteInv'
  BY DEF IInv, TypeOK, LockInv, WriteInv, Reload, InSection
<1>5. TriedInv'
  BY EntryTypes DEF IInv, TypeOK, CopyInv, FreshInv, RefusedInv, PostInv, WriteInv,
     TriedInv, Reload, RefreshedElsewhere, ReadAgain, Reading, Dead, MeRefuses
<1>6. RejectedInv'
  BY DEF IInv, TypeOK, PostInv, WriteInv, RejectedInv, Reload, ReadAgain,
     RefreshAccepted
<1>7. RefreshInv'
  BY DEF IInv, LockInv, RefreshInv, Reload, InSection
<1>8. FreshInv'
  BY DEF IInv, FreshInv, Reload, Dead
<1>9. KnownInv' /\ AgeInv'
  BY DEF IInv, TypeOK, KnownInv, AgeInv, Reload, ReadAgain
<1>10. CopyInv' /\ PostInv'
  BY DEF IInv, TypeOK, CopyInv, PostInv, Reload, ReadAgain
<1>11. OlderInv'
  BY DEF IInv, TypeOK, OlderInv, Reload, Reading
<1> QED
  BY <1>1, <1>2, <1>3, <1>4, <1>5, <1>6, <1>7, <1>8, <1>9, <1>10, <1>11 DEF IInv

(* The one step that moves the server: refused, nobody can renew the login; accepted,
   the stored token had expired, so that nobody counts on it. *)
LEMMA PostStep == ASSUME IInv, NEW r \in Procs, Post(r) PROVE IInv'
<1> DEFINE g == mem[r].grant
<1>0. /\ pc[r] = "post" /\ lock = r /\ mem[r] \in Entries
      /\ g \in Grants /\ version[g] \in Nat \ {0} /\ version[g] + 1 \in Versions
      /\ \A p \in Procs : p # r => ~InSection(p)
  BY EntryTypes DEF Post, IInv, TypeOK, LockInv, InSection, Versions
<1>a. CASE UNCHANGED <<mem, version, faults, orphaned>>
  <2>1. /\ pc' = [pc EXCEPT ![r] = "idle"] /\ lock' = Nobody
        /\ verdict' = [verdict EXCEPT ![r] = IF up THEN "rejected" ELSE "unreachable"]
        /\ up => ~RefreshAccepted(mem[r])
        /\ UNCHANGED <<stored, mem, version, valid, latest, up, faults, orphaned, removed>>
    <3>1. version' # [version EXCEPT ![g] = NextVersion(g)]
      BY <1>0, <1>a DEF NextVersion, IInv, TypeOK
    <3> QED
      BY <1>a, <3>1 DEF Post, Unlock
  <2>2. TypeOK'
    BY <2>1 DEF IInv, TypeOK, PCs, Verdicts
  <2>3. LockInv' /\ KnownInv' /\ AgeInv' /\ CopyInv' /\ FreshInv'
    BY <2>1, <1>0, TokenAssumption DEF IInv, TypeOK, LockInv, KnownInv, AgeInv, CopyInv,
       FreshInv, InSection, Reading, Dead
  <2>4. RefusedInv' /\ PostInv' /\ WriteInv' /\ OlderInv' /\ TriedInv'
    BY <2>1, <1>0 DEF IInv, TypeOK, RefusedInv, PostInv, WriteInv, OlderInv, TriedInv,
       InSection, Reading, Dead, MeRefuses
  <2>5. RejectedInv'
    BY <2>1, <1>0 DEF IInv, TypeOK, PostInv, RejectedInv, RefreshAccepted, InSection
  <2>6. RefreshInv'
    BY <2>1, <1>0 DEF IInv, TypeOK, RefreshInv
  <2> QED
    BY <2>2, <2>3, <2>4, <2>5, <2>6 DEF IInv
<1>b. CASE ~UNCHANGED <<mem, version, faults, orphaned>>
  <2>1. /\ RefreshAccepted(mem[r]) /\ g \in valid
        /\ version' = [version EXCEPT ![g] = version[g] + 1]
        /\ version'[g] = version[g] + 1
        /\ \A h \in Grants : h # g => version'[h] = version[h]
        /\ UNCHANGED <<stored, valid, latest, up, removed>>
    BY <1>0, <1>b DEF Post, RefreshAccepted, NextVersion, IInv, TypeOK
  <2>2. stored # NoEntry => /\ stored.soon /\ stored.grant = g /\ stored.refresh # NoRefresh
                            /\ stored.token \in Nat /\ stored.token <= version[g]
    BY <1>0, <2>1, EntryTypes DEF IInv, TypeOK, AgeInv, FreshInv, RefusedInv, PostInv, MeRefuses, Dead
  <2>3. \A p \in Procs : pc[p] = "me2" => mem[p].grant # g
    BY <1>0, <2>1 DEF IInv, TriedInv, Dead
  <2>4. \A p \in Procs : verdict[p] = "rejected" => mem[p].grant # g
    BY <1>0, <2>1 DEF IInv, RejectedInv
  <2>5. \A p \in Procs : mem[p] \in Entries /\ mem[p].grant \in Grants /\ mem[p].grant \in Nat
                         /\ mem[p].token \in Nat
    BY EntryTypes DEF IInv, TypeOK
  <2>5a. \A h \in Grants : version[h] \in Nat /\ version'[h] \in Nat /\ version[h] <= version'[h]
    BY <1>0, <2>1 DEF IInv, TypeOK, Versions
  <2>6. CASE /\ mem' = [mem EXCEPT ![r] = Renewed(mem[r])]
             /\ pc' = [pc EXCEPT ![r] = "write"]
             /\ UNCHANGED <<lock, verdict, faults, orphaned>>
    <3>1. /\ mem'[r] \in Entries /\ mem'[r].grant = g /\ mem'[r].token = version'[g]
          /\ mem'[r].soon = FALSE
          /\ mem'[r].refresh = IF Rotates THEN version'[g] ELSE mem[r].refresh
          /\ \A p \in Procs : p # r => mem'[p] = mem[p]
          /\ mem' \in [Procs -> Entries]
      BY <1>0, <2>1, <2>6, RenewedEntry DEF IInv, TypeOK
    <3>2. TypeOK'
      BY <1>0, <2>1, <2>6, <3>1 DEF IInv, TypeOK, PCs
    <3>3. LockInv' /\ KnownInv'
      BY <1>0, <2>1, <2>5, <2>6, <3>1 DEF IInv, TypeOK, LockInv, KnownInv, InSection
    <3>4. AgeInv'
      BY <1>0, <2>1, <2>2, <2>5, <2>5a, <2>6, <3>1 DEF IInv, AgeInv
    <3>5. CopyInv' /\ FreshInv'
      BY <1>0, <2>1, <2>2, <2>6, <3>1 DEF IInv, TypeOK, CopyInv, FreshInv, Reading, Dead
    <3>6. RefusedInv'
      BY <1>0, <2>1, <2>5, <2>6, <3>1, EntryTypes DEF IInv, TypeOK, RefusedInv, MeRefuses, Versions
    <3>7. PostInv'
      BY <1>0, <2>1, <2>6, <3>1 DEF IInv, TypeOK, PostInv, InSection
    <3>8. WriteInv'
      BY <1>0, <2>1, <2>2, <2>6, <3>1, EntryTypes DEF IInv, TypeOK, WriteInv, PostInv, InSection, NoRefresh
    <3>9. OlderInv'
      BY <1>0, <2>1, <2>5, <2>6, <3>1 DEF IInv, TypeOK, AgeInv, OlderInv, InSection, Reading
    <3>10. TriedInv'
      BY <1>0, <2>1, <2>3, <2>6, <3>1 DEF IInv, TypeOK, TriedInv, InSection, Dead
    <3>11. RejectedInv'
      BY <1>0, <2>1, <2>4, <2>5, <2>6, <3>1 DEF IInv, TypeOK, RejectedInv, InSection, RefreshAccepted
    <3>12. RefreshInv'
      BY <1>0, <2>1, <2>2, <2>6, <3>1 DEF IInv, TypeOK, RefreshInv
    <3> QED
      BY <3>2, <3>3, <3>4, <3>5, <3>6, <3>7, <3>8, <3>9, <3>10, <3>11, <3>12 DEF IInv
  <2>7. CASE /\ pc' = [pc EXCEPT ![r] = "idle"] /\ lock' = Nobody
             /\ verdict' = [verdict EXCEPT ![r] = "unreachable"]
             /\ Fault /\ orphaned' = orphaned \cup {g}
             /\ UNCHANGED mem
    <3>2. TypeOK'
      BY <1>0, <2>1, <2>7, TokenAssumption DEF IInv, TypeOK, PCs, Verdicts, Fault
    <3>3. LockInv' /\ KnownInv'
      BY <1>0, <2>1, <2>5, <2>7, TokenAssumption DEF IInv, TypeOK, LockInv, KnownInv, InSection
    <3>4. AgeInv'
      BY <1>0, <2>1, <2>2, <2>5, <2>5a, <2>7 DEF IInv, AgeInv
    <3>5. CopyInv' /\ FreshInv'
      BY <1>0, <2>1, <2>2, <2>7 DEF IInv, TypeOK, CopyInv, FreshInv, Reading, Dead
    <3>6. RefusedInv'
      BY <1>0, <2>1, <2>5, <2>7, EntryTypes DEF IInv, TypeOK, RefusedInv, MeRefuses, Versions
    <3>7. PostInv' /\ WriteInv'
      BY <1>0, <2>1, <2>7 DEF IInv, TypeOK, PostInv, WriteInv, InSection
    <3>8. OlderInv'
      BY <1>0, <2>1, <2>7 DEF IInv, TypeOK, OlderInv, InSection, Reading
    <3>9. TriedInv'
      BY <1>0, <2>1, <2>3, <2>7 DEF IInv, TypeOK, TriedInv, InSection, Dead
    <3>10. RejectedInv'
      BY <1>0, <2>1, <2>4, <2>5, <2>7 DEF IInv, TypeOK, RejectedInv, InSection, RefreshAccepted
    <3>11. RefreshInv'
      BY <1>0, <2>1, <2>2, <2>7 DEF IInv, TypeOK, RefreshInv
    <3> QED
      BY <3>2, <3>3, <3>4, <3>5, <3>6, <3>7, <3>8, <3>9, <3>10, <3>11 DEF IInv
  <2> QED
    BY <1>0, <1>b, <2>6, <2>7 DEF Post, Unlock, Orphan
<1> QED BY <1>a, <1>b

(* The volume gets the newest tokens. *)
LEMMA WriteStep == ASSUME IInv, NEW r \in Procs, Write(r) PROVE IInv'
<1>0. mem[r] \in Entries /\ mem[r].grant \in Grants
  BY EntryTypes DEF IInv, TypeOK
<1>1. TypeOK'
  <2>1. stored' \in Entries \cup {NoEntry} /\ lock' \in Procs \cup {Nobody}
    BY <1>0 DEF Write, Unlock, IInv, TypeOK
  <2>2. pc' \in [Procs -> PCs] /\ verdict' \in [Procs -> Verdicts]
    BY DEF Write, PCs, Verdicts, IInv, TypeOK
  <2>3. faults' \in 0..MaxFaults /\ orphaned' \subseteq Grants
    BY <1>0, TokenAssumption DEF Write, Fault, Orphan, IInv, TypeOK
  <2> QED
    BY <2>1, <2>2, <2>3 DEF Write, IInv, TypeOK
<1>2. LockInv'
  BY TokenAssumption DEF IInv, TypeOK, LockInv, Write, Unlock, InSection
<1>3. CopyInv'
  BY EntryTypes DEF IInv, TypeOK, CopyInv, WriteInv, OlderInv, Write
<1>4. FreshInv'
  BY DEF IInv, FreshInv, WriteInv, Write, Dead
<1>5. PostInv'
  BY DEF IInv, TypeOK, LockInv, PostInv, Write, InSection
<1>6. WriteInv'
  BY DEF IInv, TypeOK, LockInv, WriteInv, Write, InSection
<1>7. OlderInv'
  BY DEF IInv, TypeOK, LockInv, OlderInv, Write, InSection
<1>8. TriedInv'
  BY DEF IInv, TypeOK, LockInv, WriteInv, TriedInv, Write, InSection, Dead
<1>9. RefreshInv'
  BY DEF IInv, WriteInv, RefreshInv, Write, Orphan
<1>10. KnownInv' /\ AgeInv'
  BY DEF IInv, TypeOK, KnownInv, AgeInv, Write
<1>11. RefusedInv' /\ RejectedInv'
  BY DEF IInv, TypeOK, RefusedInv, RejectedInv, Write, MeRefuses, RefreshAccepted
<1> QED
  BY <1>1, <1>2, <1>3, <1>4, <1>5, <1>6, <1>7, <1>8, <1>9, <1>10, <1>11 DEF IInv

(* A renewed token is refused only if its login is dead. *)
LEMMA CheckMeAgainStep == ASSUME IInv, NEW r \in Procs, CheckMeAgain(r) PROVE IInv'
<1>1. TypeOK'
  BY DEF IInv, TypeOK, CheckMeAgain, PCs, Verdicts
<1>2. CopyInv'
  BY DEF IInv, TypeOK, CopyInv, TriedInv, CheckMeAgain
<1>3. RejectedInv'
  BY EntryTypes DEF IInv, TypeOK, TriedInv, RejectedInv, CheckMeAgain, Dead, MeRefuses,
     RefreshAccepted
<1>4. FreshInv'
  BY DEF IInv, FreshInv, CheckMeAgain, Dead
<1>5. LockInv' /\ KnownInv'
  BY DEF IInv, TypeOK, LockInv, KnownInv, CheckMeAgain, InSection
<1>6. AgeInv' /\ RefusedInv'
  BY DEF IInv, TypeOK, AgeInv, RefusedInv, CheckMeAgain, MeRefuses
<1>7. PostInv' /\ WriteInv'
  BY DEF IInv, TypeOK, PostInv, WriteInv, CheckMeAgain, Dead
<1>8. OlderInv' /\ TriedInv'
  BY DEF IInv, TypeOK, OlderInv, TriedInv, CheckMeAgain, Reading, Dead
<1>9. RefreshInv'
  BY DEF IInv, TypeOK, RefreshInv, CheckMeAgain
<1> QED
  BY <1>1, <1>2, <1>3, <1>4, <1>5, <1>6, <1>7, <1>8, <1>9 DEF IInv

(* The kernel frees the lock. *)
LEMMA CrashStep == ASSUME IInv, NEW r \in Procs, Crash(r) PROVE IInv'
<1>1. TypeOK'
  <2>1. mem[r].grant \in Grants
    BY EntryTypes DEF IInv, TypeOK
  <2>2. lock' \in Procs \cup {Nobody}
    BY DEF Crash, LockLeftBy, IInv, TypeOK
  <2>3. pc' \in [Procs -> PCs] /\ verdict' \in [Procs -> Verdicts]
    BY DEF Crash, PCs, Verdicts, IInv, TypeOK
  <2>4. faults' \in 0..MaxFaults /\ orphaned' \subseteq Grants
    BY <2>1, TokenAssumption DEF Crash, Fault, Orphan, IInv, TypeOK
  <2> QED
    BY <2>2, <2>3, <2>4 DEF Crash, IInv, TypeOK
<1>2. LockInv'
  BY TokenAssumption DEF IInv, TypeOK, LockInv, Crash, LockLeftBy, InSection
<1>3. KnownInv' /\ AgeInv' /\ CopyInv' /\ FreshInv'
  BY DEF IInv, KnownInv, AgeInv, CopyInv, FreshInv, Crash, Reading, Dead
<1>4. RefusedInv' /\ PostInv' /\ WriteInv' /\ OlderInv'
  BY DEF IInv, RefusedInv, PostInv, WriteInv, OlderInv, Crash, MeRefuses, Dead, Reading
<1>5. TriedInv' /\ RejectedInv' /\ RefreshInv'
  BY DEF IInv, TriedInv, RejectedInv, RefreshInv, Crash, Dead, RefreshAccepted, Orphan
<1> QED
  BY <1>1, <1>2, <1>3, <1>4, <1>5 DEF IInv

(* A new grant is newer than everything that is in use. *)
LEMMA LoginStep == ASSUME IInv, Login PROVE IInv'
<1>0. stored' \in Entries /\ stored'.grant = latest + 1 /\ stored'.token = 1 /\ stored'.soon = FALSE
        /\ stored'.refresh \in {1, NoRefresh} /\ latest + 1 \in Grants
  BY TokenAssumption DEF Login, IInv, TypeOK, Entries, Grants, Versions, NoRefresh
<1>1. KnownInv'
  <2>1. latest \in Nat /\ latest' = latest + 1 /\ Grants \subseteq Nat
    BY TokenAssumption DEF Login, IInv, TypeOK, Grants
  <2>2. \A p \in Procs : mem[p].grant \in Nat
    BY EntryTypes DEF IInv, TypeOK
  <2>3. \A g \in Grants : g > latest' => version'[g] = 1
    <3>1. version' = version /\ \A g \in Grants : g > latest => version[g] = 1
      BY DEF Login, IInv, KnownInv
    <3>2. \A g \in Grants : g > latest + 1 => g > latest
      BY <2>1
    <3> QED
      BY <2>1, <3>1, <3>2
  <2> QED
    BY <1>0, <2>1, <2>2, <2>3 DEF Login, IInv, KnownInv
<1>2. TypeOK'
  BY <1>0, TokenAssumption DEF IInv, TypeOK, Login
<1>3. AgeInv'
  BY <1>0 DEF IInv, TypeOK, KnownInv, AgeInv, Login
<1>4. CopyInv'
  BY DEF IInv, TypeOK, KnownInv, CopyInv, Login, Reading
<1>5. FreshInv'
  BY <1>0 DEF IInv, TypeOK, KnownInv, FreshInv, Login
<1>6. RefusedInv'
  BY DEF IInv, TypeOK, KnownInv, RefusedInv, Login, MeRefuses
<1>7. PostInv'
  BY TokenAssumption DEF IInv, LockInv, PostInv, Login, InSection
<1>8. WriteInv'
  BY TokenAssumption DEF IInv, LockInv, WriteInv, Login, InSection
<1>9. TriedInv'
  BY DEF IInv, TypeOK, KnownInv, TriedInv, Login, Dead
<1>10. RejectedInv'
  BY TokenAssumption DEF IInv, TypeOK, LockInv, KnownInv, RejectedInv, Login, InSection
<1>11. RefreshInv'
  BY <1>0 DEF IInv, TypeOK, KnownInv, RefreshInv, Login
<1>12. LockInv' /\ OlderInv'
  BY DEF IInv, LockInv, OlderInv, Login, InSection
<1> QED
  BY <1>2, <1>1, <1>3, <1>4, <1>5, <1>6, <1>7, <1>8, <1>9, <1>10, <1>11, <1>12 DEF
     IInv

(* Removing the entry takes nothing from the others. *)
LEMMA LogoutStep == ASSUME IInv, Logout PROVE IInv'
<1>1. TypeOK'
  <2>1. stored.grant \in Grants
    BY EntryTypes DEF Logout, IInv, TypeOK
  <2> QED
    BY <2>1 DEF Logout, IInv, TypeOK
<1>2. LockInv' /\ KnownInv' /\ AgeInv' /\ CopyInv'
  BY DEF IInv, LockInv, KnownInv, AgeInv, CopyInv, Logout, InSection
<1>3. FreshInv' /\ RefusedInv' /\ PostInv' /\ WriteInv'
  BY DEF IInv, FreshInv, RefusedInv, PostInv, WriteInv, Logout, MeRefuses
<1>4. OlderInv' /\ TriedInv' /\ RejectedInv' /\ RefreshInv'
  BY DEF IInv, OlderInv, TriedInv, RejectedInv, RefreshInv, Logout, Dead,
     RefreshAccepted
<1> QED
  BY <1>1, <1>2, <1>3, <1>4 DEF IInv

(* A revoked login asks for nothing. *)
LEMMA RevokeStep == ASSUME IInv, Revoke PROVE IInv'
<1>1. TypeOK'
  BY DEF IInv, TypeOK, Revoke
<1>2. LockInv' /\ KnownInv' /\ AgeInv' /\ CopyInv'
  BY DEF IInv, LockInv, KnownInv, AgeInv, CopyInv, Revoke, InSection
<1>3. FreshInv' /\ RefusedInv' /\ PostInv' /\ WriteInv'
  BY DEF IInv, FreshInv, RefusedInv, PostInv, WriteInv, Revoke, Dead, MeRefuses
<1>4. OlderInv' /\ TriedInv' /\ RejectedInv' /\ RefreshInv'
  BY DEF IInv, OlderInv, TriedInv, RejectedInv, RefreshInv, Revoke, Dead,
     RefreshAccepted
<1> QED
  BY <1>1, <1>2, <1>3, <1>4 DEF IInv

(* Whether the server answers is not remembered. *)
LEMMA ServerFlipsStep == ASSUME IInv, ServerFlips PROVE IInv'
<1>1. TypeOK'
  BY DEF IInv, TypeOK, ServerFlips
<1>2. LockInv' /\ KnownInv' /\ AgeInv' /\ CopyInv'
  BY DEF IInv, LockInv, KnownInv, AgeInv, CopyInv, ServerFlips, InSection
<1>3. FreshInv' /\ RefusedInv' /\ PostInv' /\ WriteInv'
  BY DEF IInv, FreshInv, RefusedInv, PostInv, WriteInv, ServerFlips, Dead, MeRefuses
<1>4. OlderInv' /\ TriedInv' /\ RejectedInv' /\ RefreshInv'
  BY DEF IInv, OlderInv, TriedInv, RejectedInv, RefreshInv, ServerFlips, Dead,
     RefreshAccepted
<1> QED
  BY <1>1, <1>2, <1>3, <1>4 DEF IInv

(* A token expires on the volume only while nobody tries it. *)
LEMMA ExpiresSoonStep == ASSUME IInv, ExpiresSoon PROVE IInv'
<1>0. stored \in Entries /\ stored' \in Entries
  BY TokenAssumption DEF ExpiresSoon, IInv, TypeOK, Entries
<1>1. TypeOK'
  BY <1>0 DEF IInv, TypeOK, ExpiresSoon
<1>2. LockInv' /\ KnownInv' /\ AgeInv' /\ CopyInv'
  BY DEF IInv, LockInv, KnownInv, AgeInv, CopyInv, ExpiresSoon, InSection
<1>3. FreshInv' /\ RefusedInv' /\ PostInv' /\ WriteInv'
  BY DEF IInv, FreshInv, RefusedInv, PostInv, WriteInv, ExpiresSoon, MeRefuses
<1>4. OlderInv' /\ TriedInv' /\ RejectedInv' /\ RefreshInv'
  BY DEF IInv, OlderInv, TriedInv, RejectedInv, RefreshInv, ExpiresSoon,
     RefreshAccepted
<1> QED
  BY <1>1, <1>2, <1>3, <1>4 DEF IInv

-----------------------------------------------------------------------------
(* The inductive invariant                                                   *)
LEMMA InvStart == ASSUME Init PROVE IInv
<1>1. TypeOK
  BY TokenAssumption DEF Init, TypeOK, Entries, Blank, Grants, Versions, NoRefresh, PCs, Verdicts
<1>2. \A p \in Procs : pc[p] = "idle" /\ verdict[p] = "none" /\ lock # p
  BY TokenAssumption DEF Init
<1>3. stored = NoEntry /\ \A g \in Grants : version[g] = 1
  BY DEF Init
<1> QED
  BY <1>1, <1>2, <1>3 DEF IInv, LockInv, KnownInv, AgeInv, CopyInv, FreshInv, RefusedInv, PostInv,
     WriteInv, OlderInv, TriedInv, RejectedInv, RefreshInv, InSection, Reading

LEMMA InvStutters == ASSUME IInv, UNCHANGED vars PROVE IInv'
<1>1. TypeOK'
  BY DEF IInv, TypeOK, vars
<1>2. LockInv' /\ KnownInv' /\ AgeInv' /\ CopyInv' /\ FreshInv' /\ RefusedInv'
  BY DEF IInv, LockInv, KnownInv, AgeInv, CopyInv, FreshInv, RefusedInv, InSection, Dead,
     MeRefuses, vars
<1>3. PostInv' /\ WriteInv' /\ OlderInv' /\ TriedInv'
  BY DEF IInv, PostInv, WriteInv, OlderInv, TriedInv, Dead, vars
<1>4. RejectedInv' /\ RefreshInv'
  BY DEF IInv, RejectedInv, RefreshInv, RefreshAccepted, vars
<1> QED
  BY <1>1, <1>2, <1>3, <1>4 DEF IInv

LEMMA InvStep == ASSUME IInv, [Next]_vars PROVE IInv'
<1>1. ASSUME NEW p \in Procs, Step(p) \/ NoFlock(p) \/ Crash(p) PROVE IInv'
  BY <1>1, LoadStep, CheckMeStep, FlockStep, ReloadStep, PostStep, WriteStep, CheckMeAgainStep,
     NoFlockStep, CrashStep DEF Step
<1>2. CASE Login \/ Logout \/ Revoke \/ ServerFlips \/ ExpiresSoon
  BY <1>2, LoginStep, LogoutStep, RevokeStep, ServerFlipsStep, ExpiresSoonStep
<1>3. CASE UNCHANGED vars
  BY <1>3, InvStutters
<1> QED
  BY <1>1, <1>2, <1>3 DEF Next

(* Every reachable state satisfies the inductive invariant.                  *)
THEOREM Invariance == Spec => []IInv
<1>1. Init => IInv
  BY InvStart
<1>2. IInv /\ [Next]_vars => IInv'
  BY InvStep
<1> QED
  BY <1>1, <1>2, PTL DEF Spec

-----------------------------------------------------------------------------
(* The type invariant holds for all values of the constants.                 *)
THEOREM TypeCorrect == Spec => []TypeOK
<1>1. IInv => TypeOK
  BY DEF IInv
<1> QED
  BY <1>1, Invariance, PTL

(* A login a probe has rejected cannot be renewed from the volume by anybody *)
(* (the promise of og_helper.py:20-31), with any number of processes.        *)
THEOREM RejectionsAreDefinitive == Spec => []RejectionIsDefinitive
<1>1. IInv => RejectionIsDefinitive
  BY DEF IInv, RejectedInv, RejectionIsDefinitive
<1> QED
  BY <1>1, Invariance, PTL

(* The refresh token on the volume is the one the server takes, or its       *)
(* successor is about to be written, unless that one got lost on its way.    *)
THEOREM LoginsStayRenewable == Spec => []StoredLoginRenewable
<1>1. IInv => StoredLoginRenewable
  BY DEF IInv, RefreshInv, RefreshAccepted, StoredLoginRenewable
<1> QED
  BY <1>1, Invariance, PTL
=============================================================================
