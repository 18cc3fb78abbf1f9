---------------------- MODULE OmnigentSupervisor_proofs ----------------------
(***************************************************************************)
(* Proofs about OmnigentSupervisor for any set of logins, any periods and  *)
(* any number of writes, exits and faults.                                 *)
(***************************************************************************)
EXTENDS OmnigentSupervisor, TLAPS

-----------------------------------------------------------------------------
(* The strengthening: where the script is, and what follows from it. *)

InProbe(c) == pc \in {"probe", "confirm", "verdict"} /\ caller = c

(* Where a host may exist, and who holds its pid and the lock *)
ControlInv ==
  /\ pc \in {"probe", "confirm", "verdict"} => caller # "none"
  /\ child <=> pc \in {"watch", "stopping", "term"} \/ InProbe("watch")
  /\ host # "none" => child \/ pc \in {"spawned", "down"}
  /\ lock = "ours" <=> pc \notin {"boot", "lock", "down"}

(* What the status file says there *)
StatusInv ==
  /\ child => st \in OnlineStates
  /\ pc = "down" => /\ st \notin OnlineStates
                    /\ host \in Running => st \notin OfflineStates
  /\ pc \in {"boot", "lock", "checks"} => st = "none"
  /\ pc = "backoff" => st \in OfflineStates
  /\ st \in OnlineStates /\ ~child =>
       \/ pc \in {"probe", "confirm", "verdict", "spawn", "spawned"}
       \/ pc = "login" /\ "look" \in changed

(* Why a steady host is only given up after two rejections *)
VerdictInv ==
  /\ granted => tokens \in Logins
  /\ steady => /\ tokens = served /\ granted
               /\ child \/ pc \in {"spawned", "down"}
  /\ pc = "verdict" =>
       /\ rc = Rejected => rejs = 2
       /\ rc # Rejected => rejs = 0
       /\ caller = "watch" /\ rc = Absent => ~steady
       /\ caller = "watch" /\ rc = Ok /\ found # served => ~steady
  /\ pc = "confirm" => rejs \in {1, 2}
  /\ pc = "stopping" => ~steady \/ rejs = 2

(* No count of rejections is carried over while a host runs *)
RejectionInv ==
  /\ pc \in {"spawn", "spawned", "watch"} => rejs = 0
  /\ InProbe("watch") /\ pc = "probe" => rejs = 0
  /\ InProbe("watch") /\ pc = "confirm" => rejs = 1

(* Where a host that died by itself is remembered.  EXIT_FP is sampled after *)
(* the death, so what it misses cannot excuse a restart.                     *)
FailureInv ==
  /\ failed => host = "dead" \/ pc \in {"backoff", "down"} \/ InProbe("exit78")
  /\ pc = "backoff" \/ InProbe("exit78") => ("exit" \in changed => "death" \in changed)

IInv == TypeOK /\ ControlInv /\ StatusInv /\ VerdictInv /\ RejectionInv /\ FailureInv

USE DEF files, hostVars, world, probed, backoffs, status, supVars

-----------------------------------------------------------------------------
(* Type correctness *)

LEMMA Periods ==
  /\ NoFile \notin Logins /\ NoEntry \notin Logins /\ NoFile # NoEntry
  /\ WatchTicks \in Nat /\ WatchTicks > 0 /\ UnreachTicks \in Nat /\ UnreachTicks > 0
  /\ ReprobeNaps \in Nat /\ ReprobeNaps > 0 /\ HealthyTicks \in Nat /\ HealthyTicks > 0
  /\ BackoffMin \in Nat /\ BackoffMin > 0 /\ BackoffMax \in Nat /\ BackoffMin <= BackoffMax
  /\ Backoff78Min \in Nat /\ Backoff78Min > 0 /\ Backoff78Max \in Nat
  /\ Backoff78Min <= Backoff78Max
  /\ MaxWrites \in Nat /\ MaxExits \in Nat /\ MaxFaults \in Nat
BY SupervisorAssumption

LEMMA Floors ==
  /\ 0 \in Nat /\ 0 \in 0..ReprobeNaps /\ 1 \in 0..ReprobeNaps /\ 0 \in 0..HealthyTicks
  /\ 0 \in 0..MaxWrites /\ 0 \in 0..MaxExits /\ 0 \in 0..MaxFaults /\ 0 \in 0..2
  /\ WatchTicks \in Nat /\ UnreachTicks \in Nat
  /\ BackoffMin \in BackoffMin..BackoffMax /\ Backoff78Min \in Backoff78Min..Backoff78Max
  /\ BackoffMin..BackoffMax \subseteq Nat /\ Backoff78Min..Backoff78Max \subseteq Nat
BY Periods

LEMMA NextNap == ASSUME NEW n \in Nat, NEW a \in 0..n, a < n PROVE a + 1 \in 0..n
OBVIOUS

(* The constants the actions assign belong to the sets of TypeOK. *)
LEMMA Members ==
  /\ {"boot", "lock", "checks", "login", "probe", "confirm", "verdict", "spawn",
      "spawned", "watch", "stopping", "backoff", "term", "down"} \subseteq PCs
  /\ {"none", "error", "image-too-old", "stopped", "waiting-login", "login-expired",
      "needs-reset-id", "host-error", "duplicate-host", "backoff", "starting", "running"}
       \subseteq States
  /\ {Ok, Absent, Rejected, Unreachable} \subseteq Verdicts
  /\ {"alive", "connected"} \subseteq Running
  /\ "other" \in ExitKinds
  /\ Logins \subseteq Stored /\ NoFile \in Stored /\ NoEntry \in Stored
BY DEF PCs, States, OfflineStates, OnlineStates, Verdicts, Running, ExitKinds, Stored

(* What probe() returns: one of the four verdicts, and a login or nothing.   *)
LEMMA ProbeTypes ==
  ASSUME TypeOK, Probe
  PROVE  /\ rc' \in Verdicts /\ found' \in Logins \cup {NoFile}
         /\ rejs' \in 0..2 /\ faults' \in 0..MaxFaults
<1>1. PICK a \in Answers \cup FaultyAnswers :
        /\ rc' = a.code /\ found' = a.login
        /\ rejs' = IF a.code = Rejected THEN AtMost(rejs + 1, 2) ELSE 0
        /\ \/ a \in Answers /\ UNCHANGED faults
           \/ a \notin Answers /\ faults < MaxFaults /\ faults' = faults + 1
  BY DEF Probe
<1>2. a.code \in Verdicts /\ a.login \in Logins \cup {NoFile}
  BY <1>1 DEF Answers, FaultyAnswers, Verdicts
<1>3. rejs' \in 0..2
  BY <1>1 DEF TypeOK, BoundTypes, AtMost
<1>4. faults' \in 0..MaxFaults
  BY <1>1, Periods DEF TypeOK, BoundTypes
<1> QED BY <1>1, <1>2, <1>3, <1>4

(* What a verdict says of the stored login and of the count of rejections.   *)
LEMMA ProbeOutcome ==
  ASSUME Probe
  PROVE  /\ rc' = Rejected => rejs' = AtMost(rejs + 1, 2)
         /\ rc' # Rejected => rejs' = 0
         /\ rc' = Absent => tokens \notin Logins
         /\ rc' = Ok => found' = tokens
BY DEF Probe, Answers, FaultyAnswers, Ok, Absent, Rejected, Unreachable

LEMMA TypeStep == ASSUME TypeOK, [Next]_vars PROVE TypeOK'
<1> USE DEF TypeOK
<1>1. CASE Boot
  <2>1. WorldTypes' BY <1>1 DEF Boot, GiveUp, Exit, WorldTypes
  <2>2. ScriptTypes' BY <1>1, Members DEF Boot, GiveUp, Exit, SetStatus, ScriptTypes
  <2>3. BoundTypes' BY <1>1 DEF Boot, BoundTypes
  <2>4. BackoffTypes' BY <1>1 DEF Boot, BackoffTypes
  <2>5. ClockTypes' BY <1>1 DEF Boot, ClockTypes
  <2> QED BY <2>1, <2>2, <2>3, <2>4, <2>5
<1>2. CASE TryLock
  <2>1. WorldTypes' BY <1>2 DEF TryLock, WorldTypes
  <2>2. ScriptTypes' BY <1>2, Members DEF TryLock, ScriptTypes
  <2>3. BoundTypes' BY <1>2 DEF TryLock, BoundTypes
  <2>4. BackoffTypes' BY <1>2 DEF TryLock, BackoffTypes
  <2>5. ClockTypes' BY <1>2 DEF TryLock, ClockTypes
  <2> QED BY <2>1, <2>2, <2>3, <2>4, <2>5
<1>3. CASE Checks
  <2>1. WorldTypes' BY <1>3 DEF Checks, GiveUp, Exit, WorldTypes
  <2>2. ScriptTypes' BY <1>3, Members DEF Checks, GiveUp, Exit, SetStatus, ScriptTypes
  <2>3. BoundTypes' BY <1>3 DEF Checks, BoundTypes
  <2>4. BackoffTypes' BY <1>3, Floors DEF Checks, BackoffTypes
  <2>5. ClockTypes' BY <1>3 DEF Checks, ClockTypes
  <2> QED BY <2>1, <2>2, <2>3, <2>4, <2>5
<1>4. CASE LoginLook
  <2>1. WorldTypes' BY <1>4 DEF LoginLook, WorldTypes, Samples
  <2>2. ScriptTypes'
    BY <1>4, Members DEF LoginLook, ShowLoginState, SetStatus, ScriptTypes
  <2>3. BoundTypes' BY <1>4 DEF LoginLook, BoundTypes
  <2>4. BackoffTypes' BY <1>4 DEF LoginLook, BackoffTypes
  <2>5. ClockTypes' BY <1>4, Periods DEF LoginLook, ReprobeDue, AtMost, ClockTypes
  <2> QED BY <2>1, <2>2, <2>3, <2>4, <2>5
<1>5. CASE LoginVerdict
  <2>1. WorldTypes' BY <1>5 DEF LoginVerdict, Resample, WorldTypes
  <2>2. ScriptTypes'
    BY <1>5, Members DEF LoginVerdict, ShowLoginState, SetStatus, Returned, ScriptTypes
  <2>3. BoundTypes' BY <1>5 DEF LoginVerdict, Returned, BoundTypes
  <2>4. BackoffTypes' BY <1>5 DEF LoginVerdict, BackoffTypes
  <2>5. ClockTypes' BY <1>5, Floors DEF LoginVerdict, ClockTypes
  <2> QED BY <2>1, <2>2, <2>3, <2>4, <2>5
<1>6. CASE FirstProbe
  <2>1. WorldTypes' BY <1>6, ProbeTypes DEF FirstProbe, WorldTypes
  <2>2. ScriptTypes' BY <1>6, ProbeTypes, Members DEF FirstProbe, ScriptTypes
  <2>3. BoundTypes' BY <1>6, ProbeTypes DEF FirstProbe, BoundTypes
  <2>4. BackoffTypes' BY <1>6, ProbeTypes DEF FirstProbe, BackoffTypes
  <2>5. ClockTypes' BY <1>6, ProbeTypes DEF FirstProbe, ClockTypes
  <2> QED BY <2>1, <2>2, <2>3, <2>4, <2>5
<1>7. CASE SecondProbe
  <2>1. WorldTypes' BY <1>7, ProbeTypes DEF SecondProbe, WorldTypes
  <2>2. ScriptTypes' BY <1>7, ProbeTypes, Members DEF SecondProbe, ScriptTypes
  <2>3. BoundTypes' BY <1>7, ProbeTypes DEF SecondProbe, BoundTypes
  <2>4. BackoffTypes' BY <1>7, ProbeTypes DEF SecondProbe, BackoffTypes
  <2>5. ClockTypes' BY <1>7, ProbeTypes, Periods DEF SecondProbe, AtMost, ClockTypes
  <2> QED BY <2>1, <2>2, <2>3, <2>4, <2>5
<1>8. CASE Spawn
  <2>1. WorldTypes' BY <1>8, Members DEF Spawn, WorldTypes
  <2>2. ScriptTypes' BY <1>8, Members DEF Spawn, ScriptTypes
  <2>3. BoundTypes' BY <1>8 DEF Spawn, BoundTypes
  <2>4. BackoffTypes' BY <1>8 DEF Spawn, BackoffTypes
  <2>5. ClockTypes' BY <1>8, Periods DEF Spawn, ClockTypes
  <2> QED BY <2>1, <2>2, <2>3, <2>4, <2>5
<1>9. CASE RecordHost
  <2>1. WorldTypes' BY <1>9 DEF RecordHost, Resample, WorldTypes
  <2>2. ScriptTypes' BY <1>9, Members DEF RecordHost, SetStatus, ScriptTypes
  <2>3. BoundTypes' BY <1>9 DEF RecordHost, BoundTypes
  <2>4. BackoffTypes' BY <1>9 DEF RecordHost, BackoffTypes
  <2>5. ClockTypes' BY <1>9, Periods DEF RecordHost, ClockTypes
  <2> QED BY <2>1, <2>2, <2>3, <2>4, <2>5
<1>10. CASE WatchTick
  <2>1. WorldTypes' BY <1>10 DEF WatchTick, WorldTypes
  <2>2. ScriptTypes' BY <1>10, Members DEF WatchTick, ScriptTypes
  <2>3. BoundTypes' BY <1>10 DEF WatchTick, BoundTypes
  <2>4. BackoffTypes' BY <1>10 DEF WatchTick, BackoffTypes
  <2>5. ClockTypes' BY <1>10, Periods DEF WatchTick, Tick, AtMost, ClockTypes
  <2> QED BY <2>1, <2>2, <2>3, <2>4, <2>5
<1>11. CASE WatchVerdict
  <2>1. WorldTypes' BY <1>11 DEF WatchVerdict, Resample, WorldTypes
  <2>2. ScriptTypes'
    BY <1>11, Members DEF WatchVerdict, Returned, StopFor, LoginFine, KeepsRunning,
                         ScriptTypes
  <2>3. BoundTypes' BY <1>11 DEF WatchVerdict, Returned, BoundTypes
  <2>4. BackoffTypes' BY <1>11 DEF WatchVerdict, BackoffTypes
  <2>5. ClockTypes' BY <1>11, Periods DEF WatchVerdict, ClockTypes
  <2> QED BY <2>1, <2>2, <2>3, <2>4, <2>5
<1>12. CASE StopHost
  <2>1. WorldTypes' BY <1>12, Members DEF StopHost, HostReaped, EnterLogin, WorldTypes
  <2>2. ScriptTypes'
    BY <1>12, Members DEF StopHost, HostReaped, EnterLogin, ScriptTypes
  <2>3. BoundTypes' BY <1>12 DEF StopHost, BoundTypes
  <2>4. BackoffTypes' BY <1>12 DEF StopHost, BackoffTypes
  <2>5. ClockTypes' BY <1>12, Periods DEF StopHost, EnterLogin, ClockTypes
  <2> QED BY <2>1, <2>2, <2>3, <2>4, <2>5
<1>13. CASE HostExited
  <2>1. WorldTypes' BY <1>13 DEF HostExited, HostReaped, Resample, WorldTypes
  <2>2. ScriptTypes'
    BY <1>13, Members DEF HostExited, HostReaped, BackOff, SetStatus, ScriptTypes
  <2>3. BoundTypes' BY <1>13 DEF HostExited, BoundTypes
  <2>4. BackoffTypes' BY <1>13, Floors DEF HostExited, BackoffTypes
  <2>5. ClockTypes'
    BY <1>13, <2>4, Floors DEF HostExited, BackOff, ClockTypes, BackoffTypes
  <2> QED BY <2>1, <2>2, <2>3, <2>4, <2>5
<1>14. CASE Exit78Verdict
  <2>1. WorldTypes' BY <1>14, Members DEF Exit78Verdict, EnterLogin, WorldTypes
  <2>2. ScriptTypes'
    BY <1>14, Members DEF Exit78Verdict, Returned, EnterLogin, SetStatus, ScriptTypes
  <2>3. BoundTypes' BY <1>14 DEF Exit78Verdict, Returned, BoundTypes
  <2>4. BackoffTypes' BY <1>14 DEF Exit78Verdict, BackoffTypes
  <2>5. ClockTypes'
    BY <1>14, <2>4, Floors DEF Exit78Verdict, EnterLogin, ClockTypes, BackoffTypes
  <2> QED BY <2>1, <2>2, <2>3, <2>4, <2>5
<1>15. CASE BackoffNap
  <2>1. WorldTypes' BY <1>15 DEF BackoffNap, WorldTypes
  <2>2. ScriptTypes' BY <1>15 DEF BackoffNap, ScriptTypes
  <2>3. BoundTypes' BY <1>15 DEF BackoffNap, BoundTypes
  <2>4. BackoffTypes' BY <1>15 DEF BackoffNap, BackoffTypes
  <2>5. ClockTypes' BY <1>15 DEF BackoffNap, Tick, ClockTypes
  <2> QED BY <2>1, <2>2, <2>3, <2>4, <2>5
<1>16. CASE BackoffOver
  <2>1. WorldTypes' BY <1>16, Members DEF BackoffOver, EnterLogin, WorldTypes
  <2>2. ScriptTypes' BY <1>16, Members DEF BackoffOver, EnterLogin, ScriptTypes
  <2>3. BoundTypes' BY <1>16 DEF BackoffOver, BoundTypes
  <2>4. BackoffTypes' BY <1>16, Periods DEF BackoffOver, AtMost, BackoffTypes
  <2>5. ClockTypes' BY <1>16, Periods DEF BackoffOver, EnterLogin, ClockTypes
  <2> QED BY <2>1, <2>2, <2>3, <2>4, <2>5
<1>17. CASE TermStop
  <2>1. WorldTypes' BY <1>17 DEF TermStop, HostReaped, Exit, WorldTypes
  <2>2. ScriptTypes'
    BY <1>17, Members DEF TermStop, HostReaped, Exit, SetStatus, ScriptTypes
  <2>3. BoundTypes' BY <1>17 DEF TermStop, BoundTypes
  <2>4. BackoffTypes' BY <1>17 DEF TermStop, BackoffTypes
  <2>5. ClockTypes' BY <1>17 DEF TermStop, ClockTypes
  <2> QED BY <2>1, <2>2, <2>3, <2>4, <2>5
<1>18. CASE OnTerm
  <2>1. WorldTypes' BY <1>18 DEF OnTerm, Exit, WorldTypes
  <2>2. ScriptTypes' BY <1>18, Members DEF OnTerm, Exit, SetStatus, ScriptTypes
  <2>3. BoundTypes' BY <1>18 DEF OnTerm, BoundTypes
  <2>4. BackoffTypes' BY <1>18 DEF OnTerm, BackoffTypes
  <2>5. ClockTypes' BY <1>18 DEF OnTerm, ClockTypes
  <2> QED BY <2>1, <2>2, <2>3, <2>4, <2>5
<1>19. ASSUME NEW l \in Logins, Login(l) PROVE TypeOK'
  <2>1. WorldTypes' BY <1>19, Members DEF Login, WriteFiles, WorldTypes
  <2>2. ScriptTypes' BY <1>19 DEF Login, WriteFiles, ScriptTypes
  <2>3. BoundTypes' BY <1>19, Periods DEF Login, WriteFiles, BoundTypes
  <2>4. BackoffTypes' BY <1>19 DEF Login, WriteFiles, BackoffTypes
  <2>5. ClockTypes' BY <1>19 DEF Login, WriteFiles, ClockTypes
  <2> QED BY <2>1, <2>2, <2>3, <2>4, <2>5
<1>20. CASE Logout
  <2>1. WorldTypes' BY <1>20, Members DEF Logout, WriteFiles, WorldTypes
  <2>2. ScriptTypes' BY <1>20 DEF Logout, WriteFiles, ScriptTypes
  <2>3. BoundTypes' BY <1>20, Periods DEF Logout, WriteFiles, BoundTypes
  <2>4. BackoffTypes' BY <1>20 DEF Logout, WriteFiles, BackoffTypes
  <2>5. ClockTypes' BY <1>20 DEF Logout, WriteFiles, ClockTypes
  <2> QED BY <2>1, <2>2, <2>3, <2>4, <2>5
<1>21. CASE WriteConfig
  <2>1. WorldTypes' BY <1>21 DEF WriteConfig, WriteFiles, WorldTypes
  <2>2. ScriptTypes' BY <1>21 DEF WriteConfig, WriteFiles, ScriptTypes
  <2>3. BoundTypes' BY <1>21, Periods DEF WriteConfig, WriteFiles, BoundTypes
  <2>4. BackoffTypes' BY <1>21 DEF WriteConfig, WriteFiles, BackoffTypes
  <2>5. ClockTypes' BY <1>21 DEF WriteConfig, WriteFiles, ClockTypes
  <2> QED BY <2>1, <2>2, <2>3, <2>4, <2>5
<1>22. CASE Revoke
  <2>1. WorldTypes' BY <1>22 DEF Revoke, WorldTypes
  <2>2. ScriptTypes' BY <1>22 DEF Revoke, ScriptTypes
  <2>3. BoundTypes' BY <1>22 DEF Revoke, BoundTypes
  <2>4. BackoffTypes' BY <1>22 DEF Revoke, BackoffTypes
  <2>5. ClockTypes' BY <1>22 DEF Revoke, ClockTypes
  <2> QED BY <2>1, <2>2, <2>3, <2>4, <2>5
<1>23. CASE ServerFlips
  <2>1. WorldTypes' BY <1>23 DEF ServerFlips, WorldTypes
  <2>2. ScriptTypes' BY <1>23 DEF ServerFlips, ScriptTypes
  <2>3. BoundTypes' BY <1>23 DEF ServerFlips, BoundTypes
  <2>4. BackoffTypes' BY <1>23 DEF ServerFlips, BackoffTypes
  <2>5. ClockTypes' BY <1>23 DEF ServerFlips, ClockTypes
  <2> QED BY <2>1, <2>2, <2>3, <2>4, <2>5
<1>24. CASE HostConnects
  <2>1. WorldTypes' BY <1>24, Members DEF HostConnects, WorldTypes
  <2>2. ScriptTypes' BY <1>24 DEF HostConnects, ScriptTypes
  <2>3. BoundTypes' BY <1>24 DEF HostConnects, BoundTypes
  <2>4. BackoffTypes' BY <1>24 DEF HostConnects, BackoffTypes
  <2>5. ClockTypes' BY <1>24 DEF HostConnects, ClockTypes
  <2> QED BY <2>1, <2>2, <2>3, <2>4, <2>5
<1>25. CASE HostLosesConnection
  <2>1. WorldTypes' BY <1>25, Members DEF HostLosesConnection, WorldTypes
  <2>2. ScriptTypes' BY <1>25 DEF HostLosesConnection, ScriptTypes
  <2>3. BoundTypes' BY <1>25 DEF HostLosesConnection, BoundTypes
  <2>4. BackoffTypes' BY <1>25 DEF HostLosesConnection, BackoffTypes
  <2>5. ClockTypes' BY <1>25 DEF HostLosesConnection, ClockTypes
  <2> QED BY <2>1, <2>2, <2>3, <2>4, <2>5
<1>26. CASE LogScrolls
  <2>1. WorldTypes' BY <1>26 DEF LogScrolls, WorldTypes
  <2>2. ScriptTypes' BY <1>26 DEF LogScrolls, ScriptTypes
  <2>3. BoundTypes' BY <1>26 DEF LogScrolls, BoundTypes
  <2>4. BackoffTypes' BY <1>26 DEF LogScrolls, BackoffTypes
  <2>5. ClockTypes' BY <1>26 DEF LogScrolls, ClockTypes
  <2> QED BY <2>1, <2>2, <2>3, <2>4, <2>5
<1>27. ASSUME NEW k \in ExitKinds, HostDies(k) PROVE TypeOK'
  <2>1. WorldTypes' BY <1>27 DEF HostDies, Resample, WorldTypes
  <2>2. ScriptTypes' BY <1>27 DEF HostDies, ScriptTypes
  <2>3. BoundTypes' BY <1>27, Periods DEF HostDies, BoundTypes
  <2>4. BackoffTypes' BY <1>27 DEF HostDies, BackoffTypes
  <2>5. ClockTypes' BY <1>27 DEF HostDies, ClockTypes
  <2> QED BY <2>1, <2>2, <2>3, <2>4, <2>5
<1>28. CASE LockReleased
  <2>1. WorldTypes' BY <1>28 DEF LockReleased, WorldTypes
  <2>2. ScriptTypes' BY <1>28 DEF LockReleased, ScriptTypes
  <2>3. BoundTypes' BY <1>28 DEF LockReleased, BoundTypes
  <2>4. BackoffTypes' BY <1>28 DEF LockReleased, BackoffTypes
  <2>5. ClockTypes' BY <1>28 DEF LockReleased, ClockTypes
  <2> QED BY <2>1, <2>2, <2>3, <2>4, <2>5
<1>29. CASE UNCHANGED vars
  <2>1. WorldTypes' BY <1>29 DEF vars, WorldTypes
  <2>2. ScriptTypes' BY <1>29 DEF vars, ScriptTypes
  <2>3. BoundTypes' BY <1>29 DEF vars, BoundTypes
  <2>4. BackoffTypes' BY <1>29 DEF vars, BackoffTypes
  <2>5. ClockTypes' BY <1>29 DEF vars, ClockTypes
  <2> QED BY <2>1, <2>2, <2>3, <2>4, <2>5
<1> QED
  BY <1>1, <1>2, <1>3, <1>4, <1>5, <1>6, <1>7, <1>8, <1>9, <1>10, <1>11, <1>12, <1>13, <1>14, <1>15, <1>16, <1>17, <1>18, <1>19, <1>20, <1>21, <1>22, <1>23, <1>24, <1>25, <1>26, <1>27, <1>28, <1>29
  DEF Next, Supervise, Tenant, Server, HostProcess

LEMMA TypeInit == ASSUME Init PROVE TypeOK
<1>1. WorldTypes BY Members DEF Init, WorldTypes
<1>2. ScriptTypes BY Members DEF Init, ScriptTypes
<1>3. BoundTypes BY Floors DEF Init, BoundTypes
<1>4. BackoffTypes BY Floors DEF Init, BackoffTypes
<1>5. ClockTypes BY Floors DEF Init, ClockTypes
<1> QED BY <1>1, <1>2, <1>3, <1>4, <1>5 DEF TypeOK

(* Every variable holds a value the script can hold.                        *)
THEOREM TypeCorrect == Spec => []TypeOK
<1>1. Init => TypeOK
  BY TypeInit
<1>2. TypeOK /\ [Next]_vars => TypeOK'
  BY TypeStep
<1> QED BY <1>1, <1>2, PTL DEF Spec

-----------------------------------------------------------------------------
(* Where the script is *)

LEMMA ControlStep ==
  ASSUME ControlInv, [Next]_vars
  PROVE  ControlInv'
<1> USE DEF ControlInv, InProbe
<1>1. CASE Boot
  BY <1>1 DEF Boot, GiveUp, Exit, SetStatus
<1>2. CASE TryLock
  BY <1>2 DEF TryLock
<1>3. CASE Checks
  BY <1>3 DEF Checks, GiveUp, Exit, SetStatus
<1>4. CASE LoginLook
  BY <1>4 DEF LoginLook, ShowLoginState, SetStatus
<1>5. CASE LoginVerdict
  BY <1>5 DEF LoginVerdict, ShowLoginState, SetStatus, Returned, Resample
<1>6. CASE FirstProbe
  BY <1>6 DEF FirstProbe, NeedsConfirmation
<1>7. CASE SecondProbe
  BY <1>7 DEF SecondProbe, AtMost
<1>8. CASE Spawn
  BY <1>8 DEF Spawn
<1>9. CASE RecordHost
  BY <1>9 DEF RecordHost, SetStatus, Resample
<1>10. CASE WatchTick
  BY <1>10 DEF WatchTick, AtMost
<1>11. CASE WatchVerdict
  BY <1>11 DEF WatchVerdict, Returned, Resample, StopFor, KeepsRunning
<1>12. CASE StopHost
  BY <1>12 DEF StopHost, HostReaped, EnterLogin
<1>13. CASE HostExited
  BY <1>13 DEF HostExited, HostReaped, Resample, BackOff, SetStatus
<1>14. CASE Exit78Verdict
  BY <1>14 DEF Exit78Verdict, Returned, EnterLogin, SetStatus
<1>15. CASE BackoffNap
  BY <1>15 DEF BackoffNap, WaitOver
<1>16. CASE BackoffOver
  BY <1>16 DEF BackoffOver, EnterLogin, AtMost
<1>17. CASE TermStop
  BY <1>17 DEF TermStop, HostReaped, Exit, SetStatus
<1>18. CASE OnTerm
  BY <1>18 DEF OnTerm, Exit, SetStatus
<1>19. ASSUME NEW l \in Logins, Login(l) PROVE ControlInv'
  BY <1>19 DEF Login, WriteFiles
<1>20. CASE Logout
  <2>1. PICK t \in {NoFile, NoEntry} : WriteFiles(t)
    BY <1>20 DEF Logout
  <2> QED BY <1>20, <2>1 DEF Logout, WriteFiles
<1>21. CASE WriteConfig
  BY <1>21 DEF WriteConfig, WriteFiles
<1>22. CASE Revoke
  BY <1>22 DEF Revoke
<1>23. CASE ServerFlips
  BY <1>23 DEF ServerFlips
<1>24. CASE HostConnects
  BY <1>24 DEF HostConnects
<1>25. CASE HostLosesConnection
  BY <1>25 DEF HostLosesConnection
<1>26. CASE LogScrolls
  BY <1>26 DEF LogScrolls
<1>27. ASSUME NEW k \in ExitKinds, HostDies(k) PROVE ControlInv'
  BY <1>27 DEF HostDies, Resample, Running
<1>28. CASE LockReleased
  BY <1>28 DEF LockReleased
<1>29. CASE UNCHANGED vars
  BY <1>29 DEF vars
<1> QED
  BY <1>1, <1>2, <1>3, <1>4, <1>5, <1>6, <1>7, <1>8, <1>9, <1>10, <1>11, <1>12, <1>13, <1>14, <1>15, <1>16, <1>17, <1>18, <1>19, <1>20, <1>21, <1>22, <1>23, <1>24, <1>25, <1>26, <1>27, <1>28, <1>29
  DEF Next, Supervise, Tenant, Server, HostProcess

-----------------------------------------------------------------------------
(* What it tells the tenant *)

LEMMA StatusStep ==
  ASSUME ControlInv, StatusInv, [Next]_vars
  PROVE  StatusInv'
<1> USE DEF ControlInv, StatusInv, InProbe
<1>1. CASE Boot
  BY <1>1 DEF Boot, GiveUp, Exit, SetStatus, OnlineStates, OfflineStates
<1>2. CASE TryLock
  BY <1>2 DEF TryLock
<1>3. CASE Checks
  BY <1>3 DEF Checks, GiveUp, Exit, SetStatus, OnlineStates, OfflineStates
<1>4. CASE LoginLook
  BY <1>4 DEF LoginLook, ShowLoginState, SetStatus, OnlineStates, OfflineStates
<1>5. CASE LoginVerdict
  BY <1>5 DEF LoginVerdict, ShowLoginState, SetStatus, Returned, Resample, OnlineStates, OfflineStates
<1>6. CASE FirstProbe
  BY <1>6 DEF FirstProbe, NeedsConfirmation
<1>7. CASE SecondProbe
  BY <1>7 DEF SecondProbe, AtMost
<1>8. CASE Spawn
  BY <1>8 DEF Spawn, Running
<1>9. CASE RecordHost
  BY <1>9 DEF RecordHost, SetStatus, Resample, OnlineStates, OfflineStates
<1>10. CASE WatchTick
  BY <1>10 DEF WatchTick, AtMost, OnlineStates, OfflineStates
<1>11. CASE WatchVerdict
  BY <1>11 DEF WatchVerdict, Returned, Resample, StopFor, KeepsRunning
<1>12. CASE StopHost
  BY <1>12 DEF StopHost, HostReaped, EnterLogin, Samples
<1>13. CASE HostExited
  BY <1>13 DEF HostExited, HostReaped, Resample, BackOff, SetStatus, OnlineStates, OfflineStates
<1>14. CASE Exit78Verdict
  BY <1>14 DEF Exit78Verdict, Returned, EnterLogin, SetStatus, Samples, OnlineStates, OfflineStates
<1>15. CASE BackoffNap
  BY <1>15 DEF BackoffNap, WaitOver
<1>16. CASE BackoffOver
  BY <1>16 DEF BackoffOver, EnterLogin, AtMost
<1>17. CASE TermStop
  BY <1>17 DEF TermStop, HostReaped, Exit, SetStatus, OnlineStates, OfflineStates
<1>18. CASE OnTerm
  BY <1>18 DEF OnTerm, Exit, SetStatus, OnlineStates, OfflineStates
<1>19. ASSUME NEW l \in Logins, Login(l) PROVE StatusInv'
  BY <1>19 DEF Login, WriteFiles, Samples
<1>20. CASE Logout
  <2>1. PICK t \in {NoFile, NoEntry} : WriteFiles(t)
    BY <1>20 DEF Logout
  <2> QED BY <1>20, <2>1 DEF Logout, WriteFiles, Samples
<1>21. CASE WriteConfig
  BY <1>21 DEF WriteConfig, WriteFiles, Samples
<1>22. CASE Revoke
  BY <1>22 DEF Revoke
<1>23. CASE ServerFlips
  BY <1>23 DEF ServerFlips
<1>24. CASE HostConnects
  BY <1>24 DEF HostConnects, Running
<1>25. CASE HostLosesConnection
  BY <1>25 DEF HostLosesConnection, Running
<1>26. CASE LogScrolls
  BY <1>26 DEF LogScrolls
<1>27. ASSUME NEW k \in ExitKinds, HostDies(k) PROVE StatusInv'
  BY <1>27 DEF HostDies, Resample, Running
<1>28. CASE LockReleased
  BY <1>28 DEF LockReleased
<1>29. CASE UNCHANGED vars
  BY <1>29 DEF vars
<1> QED
  BY <1>1, <1>2, <1>3, <1>4, <1>5, <1>6, <1>7, <1>8, <1>9, <1>10, <1>11, <1>12, <1>13, <1>14, <1>15, <1>16, <1>17, <1>18, <1>19, <1>20, <1>21, <1>22, <1>23, <1>24, <1>25, <1>26, <1>27, <1>28, <1>29
  DEF Next, Supervise, Tenant, Server, HostProcess

-----------------------------------------------------------------------------
(* What it stops a host for *)

LEMMA VerdictStep ==
  ASSUME TypeOK, ControlInv, VerdictInv, [Next]_vars
  PROVE  VerdictInv'
<1> USE DEF ControlInv, VerdictInv, InProbe
<1>1. CASE Boot
  BY <1>1 DEF Boot, GiveUp, Exit, SetStatus
<1>2. CASE TryLock
  BY <1>2 DEF TryLock
<1>3. CASE Checks
  BY <1>3 DEF Checks, GiveUp, Exit, SetStatus
<1>4. CASE LoginLook
  BY <1>4 DEF LoginLook, ShowLoginState, SetStatus
<1>5. CASE LoginVerdict
  BY <1>5 DEF LoginVerdict, ShowLoginState, SetStatus, Returned, Resample
<1>6. CASE FirstProbe
  <2>1. AtMost(rejs + 1, 2) \in {1, 2}
    BY DEF AtMost, TypeOK, BoundTypes
  <2>2. steady => tokens \in Logins /\ tokens = served
    OBVIOUS
  <2>3. Probe /\ pc = "probe" /\ UNCHANGED <<world, caller, served, child, steady>>
    BY <1>6 DEF FirstProbe
  <2>4. IF rc' = Rejected THEN pc' = "confirm" ELSE pc' = "verdict"
    BY <1>6 DEF FirstProbe, NeedsConfirmation
  <2>5. rc' = Absent \/ (rc' = Ok /\ found' # served) => ~steady
    BY <2>2, <2>3, ProbeOutcome
  <2>6. pc' = "verdict" => rejs' = 0 /\ rc' # Rejected
    BY <2>3, <2>4, ProbeOutcome
  <2>7. pc' = "confirm" => rejs' \in {1, 2}
    BY <2>1, <2>3, <2>4, ProbeOutcome
  <2>8. granted' => tokens' \in Logins
    BY <2>3
  <2>9. steady' => tokens' = served' /\ granted' /\ child'
    BY <2>3
  <2> QED BY <2>3, <2>4, <2>5, <2>6, <2>7, <2>8, <2>9
<1>7. CASE SecondProbe
  <2>1. AtMost(rejs + 1, 2) = 2
    BY <1>7 DEF SecondProbe, AtMost
  <2>2. steady => tokens \in Logins /\ tokens = served
    OBVIOUS
  <2>3. Probe /\ pc = "confirm" /\ pc' = "verdict" /\ UNCHANGED <<world, caller, served, child, steady>>
    BY <1>7 DEF SecondProbe
  <2>4. rc' = Absent \/ (rc' = Ok /\ found' # served) => ~steady
    BY <2>2, <2>3, ProbeOutcome
  <2>5. /\ rc' = Rejected => rejs' = 2
        /\ rc' # Rejected => rejs' = 0
    BY <2>1, <2>3, ProbeOutcome
  <2>6. granted' => tokens' \in Logins
    BY <2>3
  <2>7. steady' => tokens' = served' /\ granted' /\ child'
    BY <2>3
  <2> QED BY <2>3, <2>4, <2>5, <2>6, <2>7
<1>8. CASE Spawn
  BY <1>8 DEF Spawn
<1>9. CASE RecordHost
  BY <1>9 DEF RecordHost, SetStatus, Resample
<1>10. CASE WatchTick
  BY <1>10 DEF WatchTick, AtMost
<1>11. CASE WatchVerdict
  BY <1>11 DEF WatchVerdict, Returned, Resample, StopFor, KeepsRunning
<1>12. CASE StopHost
  BY <1>12 DEF StopHost, HostReaped, EnterLogin
<1>13. CASE HostExited
  BY <1>13 DEF HostExited, HostReaped, Resample, BackOff, SetStatus
<1>14. CASE Exit78Verdict
  BY <1>14 DEF Exit78Verdict, Returned, EnterLogin, SetStatus
<1>15. CASE BackoffNap
  BY <1>15 DEF BackoffNap, WaitOver
<1>16. CASE BackoffOver
  BY <1>16 DEF BackoffOver, EnterLogin, AtMost
<1>17. CASE TermStop
  BY <1>17 DEF TermStop, HostReaped, Exit, SetStatus
<1>18. CASE OnTerm
  BY <1>18 DEF OnTerm, Exit, SetStatus
<1>19. ASSUME NEW l \in Logins, Login(l) PROVE VerdictInv'
  BY <1>19 DEF Login, WriteFiles
<1>20. CASE Logout
  <2>1. PICK t \in {NoFile, NoEntry} : WriteFiles(t)
    BY <1>20 DEF Logout
  <2> QED BY <1>20, <2>1, Periods DEF Logout, WriteFiles
<1>21. CASE WriteConfig
  BY <1>21 DEF WriteConfig, WriteFiles
<1>22. CASE Revoke
  BY <1>22 DEF Revoke
<1>23. CASE ServerFlips
  BY <1>23 DEF ServerFlips
<1>24. CASE HostConnects
  BY <1>24 DEF HostConnects
<1>25. CASE HostLosesConnection
  BY <1>25 DEF HostLosesConnection
<1>26. CASE LogScrolls
  BY <1>26 DEF LogScrolls
<1>27. ASSUME NEW k \in ExitKinds, HostDies(k) PROVE VerdictInv'
  BY <1>27 DEF HostDies, Resample
<1>28. CASE LockReleased
  BY <1>28 DEF LockReleased
<1>29. CASE UNCHANGED vars
  BY <1>29 DEF vars
<1> QED
  BY <1>1, <1>2, <1>3, <1>4, <1>5, <1>6, <1>7, <1>8, <1>9, <1>10, <1>11, <1>12, <1>13, <1>14, <1>15, <1>16, <1>17, <1>18, <1>19, <1>20, <1>21, <1>22, <1>23, <1>24, <1>25, <1>26, <1>27, <1>28, <1>29
  DEF Next, Supervise, Tenant, Server, HostProcess

LEMMA RejectionStep ==
  ASSUME TypeOK, ControlInv, VerdictInv, RejectionInv, [Next]_vars
  PROVE  RejectionInv'
<1> USE DEF ControlInv, VerdictInv, RejectionInv, InProbe
<1>1. CASE Boot
  BY <1>1 DEF Boot, GiveUp, Exit, SetStatus
<1>2. CASE TryLock
  BY <1>2 DEF TryLock
<1>3. CASE Checks
  BY <1>3 DEF Checks, GiveUp, Exit, SetStatus
<1>4. CASE LoginLook
  BY <1>4 DEF LoginLook, ShowLoginState, SetStatus
<1>5. CASE LoginVerdict
  <2>1. pc' = "spawn" => rc # Rejected
    BY <1>5 DEF LoginVerdict, Ok, Rejected, Unreachable
  <2>2. pc = "verdict" /\ pc' \in {"spawn", "login"} /\ rejs' = rejs
    BY <1>5 DEF LoginVerdict, Returned
  <2> QED BY <2>1, <2>2
<1>6. CASE FirstProbe
  <2>1. caller = "watch" => rejs = 0
    BY <1>6 DEF FirstProbe
  <2>2. AtMost(0 + 1, 2) = 1
    BY DEF AtMost
  <2>3. IF rc' = Rejected THEN pc' = "confirm" ELSE pc' = "verdict"
    BY <1>6 DEF FirstProbe, NeedsConfirmation
  <2> QED BY <1>6, <2>1, <2>2, <2>3, ProbeOutcome DEF FirstProbe
<1>7. CASE SecondProbe
  BY <1>7 DEF SecondProbe, AtMost
<1>8. CASE Spawn
  BY <1>8 DEF Spawn
<1>9. CASE RecordHost
  BY <1>9 DEF RecordHost, SetStatus, Resample
<1>10. CASE WatchTick
  BY <1>10 DEF WatchTick, AtMost
<1>11. CASE WatchVerdict
  <2>1. pc' = "watch" => rc # Rejected
    BY <1>11 DEF WatchVerdict, StopFor, Ok, Rejected, Unreachable
  <2>2. pc = "verdict" /\ pc' \in {"watch", "stopping"} /\ rejs' = rejs
    BY <1>11 DEF WatchVerdict, Returned, StopFor, KeepsRunning
  <2> QED BY <2>1, <2>2
<1>12. CASE StopHost
  BY <1>12 DEF StopHost, HostReaped, EnterLogin
<1>13. CASE HostExited
  BY <1>13 DEF HostExited, HostReaped, Resample, BackOff, SetStatus
<1>14. CASE Exit78Verdict
  BY <1>14 DEF Exit78Verdict, Returned, EnterLogin, SetStatus
<1>15. CASE BackoffNap
  BY <1>15 DEF BackoffNap, WaitOver
<1>16. CASE BackoffOver
  BY <1>16 DEF BackoffOver, EnterLogin, AtMost
<1>17. CASE TermStop
  BY <1>17 DEF TermStop, HostReaped, Exit, SetStatus
<1>18. CASE OnTerm
  BY <1>18 DEF OnTerm, Exit, SetStatus
<1>19. ASSUME NEW l \in Logins, Login(l) PROVE RejectionInv'
  BY <1>19 DEF Login, WriteFiles
<1>20. CASE Logout
  <2>1. PICK t \in {NoFile, NoEntry} : WriteFiles(t)
    BY <1>20 DEF Logout
  <2> QED BY <1>20, <2>1 DEF Logout, WriteFiles
<1>21. CASE WriteConfig
  BY <1>21 DEF WriteConfig, WriteFiles
<1>22. CASE Revoke
  BY <1>22 DEF Revoke
<1>23. CASE ServerFlips
  BY <1>23 DEF ServerFlips
<1>24. CASE HostConnects
  BY <1>24 DEF HostConnects
<1>25. CASE HostLosesConnection
  BY <1>25 DEF HostLosesConnection
<1>26. CASE LogScrolls
  BY <1>26 DEF LogScrolls
<1>27. ASSUME NEW k \in ExitKinds, HostDies(k) PROVE RejectionInv'
  BY <1>27 DEF HostDies, Resample
<1>28. CASE LockReleased
  BY <1>28 DEF LockReleased
<1>29. CASE UNCHANGED vars
  BY <1>29 DEF vars
<1> QED
  BY <1>1, <1>2, <1>3, <1>4, <1>5, <1>6, <1>7, <1>8, <1>9, <1>10, <1>11, <1>12, <1>13, <1>14, <1>15, <1>16, <1>17, <1>18, <1>19, <1>20, <1>21, <1>22, <1>23, <1>24, <1>25, <1>26, <1>27, <1>28, <1>29
  DEF Next, Supervise, Tenant, Server, HostProcess

-----------------------------------------------------------------------------
(* What it starts a host for *)

LEMMA FailureStep ==
  ASSUME TypeOK, ControlInv, FailureInv, [Next]_vars
  PROVE  FailureInv'
<1> USE DEF ControlInv, FailureInv, InProbe
<1>1. CASE Boot
  BY <1>1 DEF Boot, GiveUp, Exit, SetStatus
<1>2. CASE TryLock
  BY <1>2 DEF TryLock
<1>3. CASE Checks
  BY <1>3 DEF Checks, GiveUp, Exit, SetStatus
<1>4. CASE LoginLook
  BY <1>4 DEF LoginLook, ShowLoginState, SetStatus
<1>5. CASE LoginVerdict
  BY <1>5 DEF LoginVerdict, ShowLoginState, SetStatus, Returned, Resample
<1>6. CASE FirstProbe
  BY <1>6 DEF FirstProbe, NeedsConfirmation
<1>7. CASE SecondProbe
  BY <1>7 DEF SecondProbe, AtMost
<1>8. CASE Spawn
  BY <1>8 DEF Spawn
<1>9. CASE RecordHost
  BY <1>9 DEF RecordHost, SetStatus, Resample
<1>10. CASE WatchTick
  BY <1>10 DEF WatchTick, AtMost
<1>11. CASE WatchVerdict
  BY <1>11 DEF WatchVerdict, Returned, Resample, StopFor, KeepsRunning
<1>12. CASE StopHost
  BY <1>12 DEF StopHost, HostReaped, EnterLogin
<1>13. CASE HostExited
  BY <1>13 DEF HostExited, HostReaped, Resample, BackOff, SetStatus
<1>14. CASE Exit78Verdict
  BY <1>14 DEF Exit78Verdict, Returned, EnterLogin, SetStatus
<1>15. CASE BackoffNap
  BY <1>15 DEF BackoffNap, WaitOver
<1>16. CASE BackoffOver
  <2>1. left \in Nat
    BY DEF TypeOK, ClockTypes
  <2>2. left > 0 => "death" \in changed
    BY <1>16, <2>1 DEF BackoffOver, WaitOver
  <2>3. ~failed' /\ pc' = "login"
    BY <1>16, <2>2, Zenon DEF BackoffOver, EnterLogin
  <2> QED BY <2>3
<1>17. CASE TermStop
  BY <1>17 DEF TermStop, HostReaped, Exit, SetStatus
<1>18. CASE OnTerm
  BY <1>18 DEF OnTerm, Exit, SetStatus
<1>19. ASSUME NEW l \in Logins, Login(l) PROVE FailureInv'
  BY <1>19 DEF Login, WriteFiles, Samples
<1>20. CASE Logout
  <2>1. PICK t \in {NoFile, NoEntry} : WriteFiles(t)
    BY <1>20 DEF Logout
  <2> QED BY <1>20, <2>1 DEF Logout, WriteFiles, Samples
<1>21. CASE WriteConfig
  BY <1>21 DEF WriteConfig, WriteFiles, Samples
<1>22. CASE Revoke
  BY <1>22 DEF Revoke
<1>23. CASE ServerFlips
  BY <1>23 DEF ServerFlips
<1>24. CASE HostConnects
  BY <1>24 DEF HostConnects, Running
<1>25. CASE HostLosesConnection
  BY <1>25 DEF HostLosesConnection, Running
<1>26. CASE LogScrolls
  BY <1>26 DEF LogScrolls
<1>27. ASSUME NEW k \in ExitKinds, HostDies(k) PROVE FailureInv'
  BY <1>27 DEF HostDies, Resample, Running
<1>28. CASE LockReleased
  BY <1>28 DEF LockReleased
<1>29. CASE UNCHANGED vars
  BY <1>29 DEF vars
<1> QED
  BY <1>1, <1>2, <1>3, <1>4, <1>5, <1>6, <1>7, <1>8, <1>9, <1>10, <1>11, <1>12, <1>13, <1>14, <1>15, <1>16, <1>17, <1>18, <1>19, <1>20, <1>21, <1>22, <1>23, <1>24, <1>25, <1>26, <1>27, <1>28, <1>29
  DEF Next, Supervise, Tenant, Server, HostProcess

-----------------------------------------------------------------------------
(* The theorems *)

(* The inductive invariant: the parts above hold together.                   *)
THEOREM Invariance == Spec => []IInv
<1>1. ASSUME Init PROVE IInv
  <2>1. TypeOK
    BY <1>1, TypeInit
  <2>2. ControlInv /\ StatusInv
    BY <1>1 DEF Init, ControlInv, StatusInv, InProbe, OnlineStates, OfflineStates
  <2>3. VerdictInv /\ RejectionInv /\ FailureInv
    BY <1>1 DEF Init, VerdictInv, RejectionInv, FailureInv, InProbe
  <2> QED BY <2>1, <2>2, <2>3 DEF IInv
<1>2. IInv /\ [Next]_vars => IInv'
  BY TypeStep, ControlStep, StatusStep, VerdictStep, RejectionStep, FailureStep DEF IInv
<1> QED BY <1>1, <1>2, PTL DEF Spec

(* What omnigent-host-status tells the tenant is true while the supervisor   *)
(* is up (StatusTruthful).                                                   *)
THEOREM StatusIsTruthful == Spec => []StatusTruthful
<1>1. IInv => StatusTruthful
  <2> SUFFICES ASSUME IInv PROVE StatusTruthful
    OBVIOUS
  <2>1. host \in Running => host # "none"
    BY DEF Running
  <2>2. ~(st \in OnlineStates /\ st \in OfflineStates)
    BY DEF OnlineStates, OfflineStates
  <2>3. host \in Running /\ st \in OfflineStates => pc = "spawned"
    BY <2>1, <2>2 DEF IInv, ControlInv, StatusInv
  <2>4. host # "none" /\ pc # "down" => lock = "ours"
    BY DEF IInv, ControlInv, InProbe
  <2> QED BY <2>3, <2>4 DEF IInv, StatusInv, StatusTruthful
<1> QED BY <1>1, Invariance, PTL

(* A host that died by itself is not started again before its backoff is     *)
(* over without an excuse (NoUnexcusedRestart).                              *)
THEOREM NoRestartStorm == Spec => []NoUnexcusedRestart
<1>1. IInv => NoUnexcusedRestart
  BY DEF IInv, ControlInv, FailureInv, NoUnexcusedRestart, InProbe
<1> QED BY <1>1, Invariance, PTL

(* The watchdog stops a host only when its login was lost or rejected twice  *)
(* in a row (OnlyAProvenLossStopsHost).                                      *)
THEOREM StopsAreJustified == Spec => OnlyAProvenLossStopsHost
<1> DEFINE Justified == pc' = "stopping" /\ pc # "stopping" => ~steady \/ rejs = 2
<1>1. IInv /\ IInv' /\ [Next]_vars => [Justified]_vars
  <2> SUFFICES ASSUME IInv, IInv', Next, pc' = "stopping", pc # "stopping"
               PROVE  ~steady \/ rejs = 2
    OBVIOUS
  <2>1. CASE Boot
    BY <2>1 DEF Boot, GiveUp, Exit, SetStatus
  <2>2. CASE TryLock
    BY <2>2 DEF TryLock
  <2>3. CASE Checks
    BY <2>3 DEF Checks, GiveUp, Exit, SetStatus
  <2>4. CASE LoginLook
    BY <2>4 DEF LoginLook, ShowLoginState, SetStatus
  <2>5. CASE LoginVerdict
    BY <2>5 DEF LoginVerdict, ShowLoginState, SetStatus, Returned, Resample
  <2>6. CASE FirstProbe
    BY <2>6 DEF FirstProbe, NeedsConfirmation
  <2>7. CASE SecondProbe
    BY <2>7 DEF SecondProbe, AtMost
  <2>8. CASE Spawn
    BY <2>8 DEF Spawn
  <2>9. CASE RecordHost
    BY <2>9 DEF RecordHost, SetStatus, Resample
  <2>10. CASE WatchTick
    BY <2>10 DEF WatchTick, AtMost
  <2>11. CASE WatchVerdict
    BY <2>11 DEF WatchVerdict, StopFor, KeepsRunning, IInv, VerdictInv
  <2>12. CASE StopHost
    BY <2>12 DEF StopHost, HostReaped, EnterLogin
  <2>13. CASE HostExited
    BY <2>13 DEF HostExited, HostReaped, Resample, BackOff, SetStatus
  <2>14. CASE Exit78Verdict
    BY <2>14 DEF Exit78Verdict, Returned, EnterLogin, SetStatus
  <2>15. CASE BackoffNap
    BY <2>15 DEF BackoffNap, WaitOver
  <2>16. CASE BackoffOver
    BY <2>16 DEF BackoffOver, EnterLogin, AtMost
  <2>17. CASE TermStop
    BY <2>17 DEF TermStop, HostReaped, Exit, SetStatus
  <2>18. CASE OnTerm
    BY <2>18 DEF OnTerm, Exit, SetStatus
  <2>19. ASSUME NEW l \in Logins, Login(l) PROVE ~steady \/ rejs = 2
    BY <2>19 DEF Login, WriteFiles
  <2>20. CASE Logout
    BY <2>20 DEF Logout, WriteFiles
  <2>21. CASE WriteConfig
    BY <2>21 DEF WriteConfig, WriteFiles
  <2>22. CASE Revoke
    BY <2>22 DEF Revoke
  <2>23. CASE ServerFlips
    BY <2>23 DEF ServerFlips
  <2>24. CASE HostConnects
    BY <2>24 DEF HostConnects
  <2>25. CASE HostLosesConnection
    BY <2>25 DEF HostLosesConnection
  <2>26. CASE LogScrolls
    BY <2>26 DEF LogScrolls
  <2>27. ASSUME NEW k \in ExitKinds, HostDies(k) PROVE ~steady \/ rejs = 2
    BY <2>27 DEF HostDies, Resample
  <2>28. CASE LockReleased
    BY <2>28 DEF LockReleased
  <2> QED
    BY <2>1, <2>2, <2>3, <2>4, <2>5, <2>6, <2>7, <2>8, <2>9, <2>10, <2>11, <2>12, <2>13, <2>14, <2>15, <2>16, <2>17, <2>18, <2>19, <2>20, <2>21, <2>22, <2>23, <2>24, <2>25, <2>26, <2>27, <2>28
    DEF Next, Supervise, Tenant, Server, HostProcess
<1> QED BY <1>1, Invariance, PTL DEF Spec, OnlyAProvenLossStopsHost

-----------------------------------------------------------------------------
(* Each step is a step of the abstract service, or none. *)

LEMMA ServiceStep ==
  ASSUME IInv, IInv', [Next]_vars
  PROVE  [Service!ServiceNext]_(Service!serviceVars)
<1> USE DEF IInv, ControlInv, InProbe, serving, Running, Service!serviceVars
<1>1. ASSUME Boot PROVE Service!Leave \/ UNCHANGED Service!serviceVars
  BY <1>1 DEF Boot, GiveUp, Exit, SetStatus, Service!Leave, Service!NotServing
<1>2. ASSUME TryLock PROVE UNCHANGED Service!serviceVars
  BY <1>2 DEF TryLock
<1>3. ASSUME Checks PROVE Service!Leave \/ UNCHANGED Service!serviceVars
  BY <1>3 DEF Checks, GiveUp, Exit, SetStatus, Service!Leave, Service!NotServing
<1>4. ASSUME LoginLook PROVE UNCHANGED Service!serviceVars
  BY <1>4 DEF LoginLook, ShowLoginState, SetStatus
<1>5. ASSUME LoginVerdict PROVE UNCHANGED Service!serviceVars
  BY <1>5 DEF LoginVerdict, ShowLoginState, SetStatus, Returned, Resample
<1>6. ASSUME FirstProbe PROVE UNCHANGED Service!serviceVars
  <2>1. serving => rejs = 0
    BY <1>6 DEF FirstProbe, RejectionInv
  <2>2. rejs = 0 => rejs' # 2
    BY <1>6, ProbeOutcome DEF FirstProbe, AtMost
  <2>3. pc = "probe" /\ pc' # "down" /\ UNCHANGED <<host, failed, served, steady>>
    BY <1>6 DEF FirstProbe
  <2> QED BY <2>1, <2>2, <2>3
<1>7. ASSUME SecondProbe PROVE Service!Lose \/ UNCHANGED Service!serviceVars
  <2>1. serving => rejs = 1
    BY <1>7 DEF SecondProbe, RejectionInv
  <2>2. pc = "confirm" /\ pc' = "verdict" /\ UNCHANGED <<host, failed, served, steady>>
    BY <1>7 DEF SecondProbe
  <2> QED BY <2>1, <2>2 DEF Service!Lose
<1>8. ASSUME Spawn PROVE Service!Start(served)
  <2>1. pc = "spawn" /\ host = "none" /\ ~failed
    BY <1>8 DEF Spawn, FailureInv
  <2>2. pc' = "spawned" /\ host' = "alive" /\ served' = served
    BY <1>8 DEF Spawn
  <2> QED BY <2>1, <2>2 DEF Service!Start
<1>9. ASSUME RecordHost PROVE UNCHANGED Service!serviceVars
  BY <1>9 DEF RecordHost, SetStatus, Resample
<1>10. ASSUME WatchTick PROVE UNCHANGED Service!serviceVars
  BY <1>10 DEF WatchTick, AtMost
<1>11. ASSUME WatchVerdict PROVE UNCHANGED Service!serviceVars
  BY <1>11 DEF WatchVerdict, Returned, Resample, StopFor, KeepsRunning
<1>12. ASSUME StopHost PROVE Service!Retire \/ Service!Excuse \/ UNCHANGED Service!serviceVars
  <2>1. pc = "stopping" /\ (~steady \/ rejs = 2)
    BY <1>12 DEF StopHost, VerdictInv
  <2>2. pc' = "login" /\ host' = "none" /\ ~failed'
    BY <1>12 DEF StopHost, HostReaped, EnterLogin
  <2>3. CASE serving
    BY <2>1, <2>2, <2>3 DEF Service!Retire, Service!NotServing
  <2>4. CASE ~serving
    BY <2>1, <2>2, <2>4 DEF Service!Excuse, Service!NotServing
  <2> QED BY <2>3, <2>4
<1>13. ASSUME HostExited PROVE UNCHANGED Service!serviceVars
  BY <1>13 DEF HostExited, HostReaped, Resample, BackOff, SetStatus
<1>14. ASSUME Exit78Verdict PROVE Service!Excuse \/ UNCHANGED Service!serviceVars
  BY <1>14 DEF Exit78Verdict, Returned, EnterLogin, SetStatus, Service!Excuse, Service!NotServing
<1>15. ASSUME BackoffNap PROVE UNCHANGED Service!serviceVars
  BY <1>15 DEF BackoffNap, WaitOver
<1>16. ASSUME BackoffOver PROVE Service!Excuse \/ UNCHANGED Service!serviceVars
  BY <1>16 DEF BackoffOver, EnterLogin, AtMost, Service!Excuse, Service!NotServing
<1>17. ASSUME TermStop PROVE Service!Leave
  BY <1>17 DEF TermStop, HostReaped, Exit, SetStatus, Service!Leave, Service!NotServing
<1>18. ASSUME OnTerm PROVE Service!Leave \/ UNCHANGED Service!serviceVars
  BY <1>18 DEF OnTerm, Exit, SetStatus, Service!Leave, Service!NotServing
<1>19. ASSUME NEW l \in Logins, Login(l) PROVE Service!Lose \/ UNCHANGED Service!serviceVars
  BY <1>19 DEF Login, WriteFiles, Service!Lose, Service!NotServing
<1>20. ASSUME Logout PROVE Service!Lose \/ UNCHANGED Service!serviceVars
  <2>1. PICK t \in {NoFile, NoEntry} : WriteFiles(t)
    BY <1>20 DEF Logout
  <2> QED BY <2>1 DEF WriteFiles, Service!Lose
<1>21. ASSUME WriteConfig PROVE Service!Lose \/ UNCHANGED Service!serviceVars
  BY <1>21 DEF WriteConfig, WriteFiles, Service!Lose, Service!NotServing
<1>22. ASSUME Revoke PROVE Service!Lose \/ UNCHANGED Service!serviceVars
  BY <1>22 DEF Revoke, Service!Lose, Service!NotServing
<1>23. ASSUME ServerFlips PROVE UNCHANGED Service!serviceVars
  BY <1>23 DEF ServerFlips
<1>24. ASSUME HostConnects PROVE UNCHANGED Service!serviceVars
  BY <1>24 DEF HostConnects
<1>25. ASSUME HostLosesConnection PROVE UNCHANGED Service!serviceVars
  BY <1>25 DEF HostLosesConnection
<1>26. ASSUME LogScrolls PROVE UNCHANGED Service!serviceVars
  BY <1>26 DEF LogScrolls
<1>27. ASSUME NEW k \in ExitKinds, HostDies(k) PROVE Service!Fail
  BY <1>27 DEF HostDies, WorldMoves, Service!Fail, Service!NotServing
<1>28. ASSUME LockReleased PROVE UNCHANGED Service!serviceVars
  BY <1>28 DEF LockReleased
<1>29. ASSUME UNCHANGED vars PROVE UNCHANGED Service!serviceVars
  BY <1>29 DEF vars
<1>30. served \in Logins \cup {NoFile}
  BY DEF TypeOK, ScriptTypes
<1> QED
  <2> USE DEF Service!ServiceNext
  <2>1. CASE Supervise
    BY <2>1, <1>1, <1>2, <1>3, <1>4, <1>5, <1>6, <1>7, <1>8, <1>9, <1>10, <1>11, <1>12,
       <1>13, <1>14, <1>15, <1>16, <1>17, <1>30 DEF Supervise
  <2>2. CASE Tenant
    BY <2>2, <1>19, <1>20, <1>21 DEF Tenant
  <2>3. CASE Server \/ HostProcess
    BY <2>3, <1>22, <1>23, <1>24, <1>25, <1>26, <1>27 DEF Server, HostProcess
  <2>4. CASE OnTerm \/ LockReleased \/ UNCHANGED vars
    BY <2>4, <1>18, <1>28, <1>29
  <2> QED BY <2>1, <2>2, <2>3, <2>4 DEF Next

(* The supervisor implements the abstract service (ImplementsHostService).   *)
THEOREM SupervisorImplementsService == Spec => ImplementsHostService
<1>1. Init => Service!ServiceInit
  BY DEF Init, Service!ServiceInit, serving, Running
<1>2. IInv /\ IInv' /\ [Next]_vars => [Service!ServiceNext]_(Service!serviceVars)
  BY ServiceStep
<1> QED
  BY <1>1, <1>2, Invariance, PTL DEF Spec, ImplementsHostService, Service!ServiceSpec
=============================================================================
