------------------------- MODULE HostLauncher_proofs -------------------------
(***************************************************************************)
(* Proofs about HostLauncher for any number of containers on one volume,   *)
(* any grace period and any bounds on signals and on the helper's seconds. *)
(***************************************************************************)
EXTENDS HostLauncher, TLAPS

-----------------------------------------------------------------------------
(* The supervisor fits into the time the wrapper gives it: the helper's call *)
(* and the signals that cut the wrapper's naps short leave it its grace.     *)
Slack == StopWait > MaxBusy + Grace + MaxSignals

(* Before anything is started nothing runs.                                  *)
StartInv ==
  \A p \in Pods :
    /\ main[p] = "start" => sup[p] = "none" /\ host[p] = "none"
    /\ main[p] = "supForked" => sup[p] # "none"

(* SUP and PROD are set behind the forks, and SUP until the supervisor is gone. *)
PidInv ==
  \A p \in Pods :
    /\ main[p] \in {"start", "supForked"} => ~supKnown[p]
    /\ handler[p] \in {"term", "naps"} => supKnown[p]
    /\ supKnown[p] => sup[p] # "none"
    /\ ~supKnown[p] /\ main[p] \notin {"start", "supForked", "execed"} => sup[p] = "gone"
    /\ prodKnown[p] \/ told[p] => main[p] \notin {"start", "supForked", "prodNext", "prodForked"}

(* Behind stop_supervisor the supervisor of a stopped wrapper is gone.       *)
StopInv ==
  \A p \in Pods :
    /\ handler[p] = "tell" \/ told[p] \/ early[p] => stopping[p]
    /\ main[p] \in {"start", "supForked"} /\ stopping[p] => early[p]
    /\ stopping[p] /\ handler[p] \in {"none", "tell"} /\ ~early[p] => sup[p] = "gone"

(* Whoever is past the flock has the lock.                                   *)
LockInv ==
  \A p \in Pods : sup[p] \in {"idle", "launching", "serving", "stopping"} => lock = p

(* How far the supervisor can be while the wrapper naps: the naps so far are *)
(* the helper's seconds, the host's grace or signals.                        *)
NapInv ==
  \A p \in Pods : handler[p] = "naps" /\ sup[p] # "gone" =>
    /\ term[p]
    /\ sup[p] # "stopping" => napped[p] + busy[p] <= MaxBusy + signals[p]
    /\ sup[p] = "stopping" => napped[p] <= MaxBusy + graced[p] + signals[p]

(* A host has a supervisor, or lost it between the fork and child=$!.        *)
HostInv ==
  \A p \in Pods :
    /\ forked[p] => sup[p] = "gone"
    /\ host[p] = "up" => sup[p] \in {"launching", "serving", "stopping"} \/ forked[p]

IInv ==
  /\ TypeOK /\ StartInv /\ PidInv /\ StopInv /\ LockInv /\ NapInv
  /\ WaitsForProduct /\ SupervisorStopsFirst

USE DEF wrapper, supervisor, product

-----------------------------------------------------------------------------
(* Without a kit there is nothing to stop. *)
LEMMA ExecProductStep == ASSUME IInv, NEW r \in Pods, ExecProduct(r) PROVE IInv'
<1>1. TypeOK'
  BY DEF IInv, TypeOK, ExecProduct, At, GoTo, MainPath
<1>2. StartInv'
  BY DEF IInv, StartInv, ExecProduct, At, GoTo
<1>3. PidInv'
  BY DEF IInv, PidInv, ExecProduct, At, GoTo
<1>4. StopInv'
  BY DEF IInv, StopInv, ExecProduct, At, GoTo
<1>5. WaitsForProduct'
  BY DEF IInv, WaitsForProduct, ExecProduct, At, GoTo
<1>6. LockInv' /\ NapInv' /\ SupervisorStopsFirst'
  BY DEF IInv, LockInv, NapInv, SupervisorStopsFirst, ExecProduct
<1> QED
  BY <1>1, <1>2, <1>3, <1>4, <1>5, <1>6 DEF IInv

(* The supervisor is there before its pid is known. *)
LEMMA ForkSupervisorStep == ASSUME IInv, NEW r \in Pods, ForkSupervisor(r) PROVE IInv'
<1>1. TypeOK'
  BY DEF IInv, TypeOK, ForkSupervisor, At, GoTo, MainPath, SupStates
<1>2. StartInv'
  BY DEF IInv, TypeOK, StartInv, ForkSupervisor, At, GoTo
<1>3. PidInv'
  BY DEF IInv, PidInv, ForkSupervisor, At, GoTo
<1>4. StopInv'
  BY DEF IInv, StopInv, ForkSupervisor, At, GoTo
<1>5. NapInv'
  BY DEF IInv, NapInv, ForkSupervisor, At, GoTo
<1>6. WaitsForProduct'
  BY DEF IInv, WaitsForProduct, ForkSupervisor, At, GoTo
<1>7. SupervisorStopsFirst'
  BY DEF IInv, TypeOK, PidInv, SupervisorStopsFirst, ForkSupervisor, At, GoTo
<1>8. LockInv'
  BY DEF IInv, LockInv, ForkSupervisor
<1> QED
  BY <1>1, <1>2, <1>3, <1>4, <1>5, <1>6, <1>7, <1>8 DEF IInv

(* From here on it is stopped before the product. *)
LEMMA RecordSupervisorStep == ASSUME IInv, NEW r \in Pods, RecordSupervisor(r) PROVE IInv'
<1>1. TypeOK'
  BY DEF IInv, TypeOK, RecordSupervisor, At, GoTo, MainPath
<1>2. StartInv'
  BY DEF IInv, StartInv, RecordSupervisor, At, GoTo
<1>3. PidInv'
  BY DEF IInv, TypeOK, StartInv, PidInv, RecordSupervisor, At, GoTo
<1>4. StopInv'
  BY DEF IInv, StopInv, RecordSupervisor, At, GoTo
<1>5. WaitsForProduct'
  BY DEF IInv, WaitsForProduct, RecordSupervisor, At, GoTo
<1>6. LockInv' /\ NapInv' /\ SupervisorStopsFirst'
  BY DEF IInv, LockInv, NapInv, SupervisorStopsFirst, RecordSupervisor
<1> QED
  BY <1>1, <1>2, <1>3, <1>4, <1>5, <1>6 DEF IInv

(* Nothing was told a product before there is one. *)
LEMMA ForkProductStep == ASSUME IInv, NEW r \in Pods, ForkProduct(r) PROVE IInv'
<1>1. TypeOK'
  BY DEF IInv, TypeOK, ForkProduct, At, GoTo, MainPath
<1>2. StartInv'
  BY DEF IInv, StartInv, ForkProduct, At, GoTo
<1>3. PidInv'
  BY DEF IInv, PidInv, ForkProduct, At, GoTo
<1>4. StopInv'
  BY DEF IInv, StopInv, ForkProduct, At, GoTo
<1>5. WaitsForProduct'
  BY DEF IInv, WaitsForProduct, ForkProduct, At, GoTo
<1>6. LockInv' /\ NapInv' /\ SupervisorStopsFirst'
  BY DEF IInv, LockInv, NapInv, SupervisorStopsFirst, ForkProduct
<1> QED
  BY <1>1, <1>2, <1>3, <1>4, <1>5, <1>6 DEF IInv

(* The product's pid is known. *)
LEMMA RecordProductStep == ASSUME IInv, NEW r \in Pods, RecordProduct(r) PROVE IInv'
<1>1. TypeOK'
  BY DEF IInv, TypeOK, RecordProduct, At, GoTo, MainPath
<1>2. StartInv'
  BY DEF IInv, StartInv, RecordProduct, At, GoTo
<1>3. PidInv'
  BY DEF IInv, TypeOK, PidInv, RecordProduct, At, GoTo
<1>4. StopInv'
  BY DEF IInv, StopInv, RecordProduct, At, GoTo
<1>5. WaitsForProduct'
  BY DEF IInv, WaitsForProduct, RecordProduct, At, GoTo
<1>6. LockInv' /\ NapInv' /\ SupervisorStopsFirst'
  BY DEF IInv, LockInv, NapInv, SupervisorStopsFirst, RecordProduct
<1> QED
  BY <1>1, <1>2, <1>3, <1>4, <1>5, <1>6 DEF IInv

(* A stop that came early is passed on when stop_supervisor is through. *)
LEMMA PassOnStep == ASSUME IInv, NEW r \in Pods, PassOn(r) PROVE IInv'
<1>1. TypeOK'
  BY DEF IInv, TypeOK, PassOn, LateSignal, At, GoTo, MainPath
<1>2. StartInv'
  BY DEF IInv, StartInv, PassOn, LateSignal, At, GoTo
<1>3. PidInv'
  BY DEF IInv, PidInv, PassOn, LateSignal, At, GoTo
<1>4. StopInv'
  BY DEF IInv, TypeOK, StopInv, PassOn, LateSignal, At, GoTo
<1>5. WaitsForProduct'
  BY DEF IInv, WaitsForProduct, PassOn, LateSignal, At, GoTo
<1>6. SupervisorStopsFirst'
  BY DEF IInv, TypeOK, StopInv, SupervisorStopsFirst, PassOn, LateSignal, At, GoTo
<1>7. LockInv' /\ NapInv'
  BY DEF IInv, LockInv, NapInv, PassOn
<1> QED
  BY <1>1, <1>2, <1>3, <1>4, <1>5, <1>6, <1>7 DEF IInv

(* The product is reaped. *)
LEMMA WaitReturnsStep == ASSUME IInv, NEW r \in Pods, WaitReturns(r) PROVE IInv'
<1>1. TypeOK'
  BY DEF IInv, TypeOK, WaitReturns, At, GoTo, MainPath
<1>2. StartInv'
  BY DEF IInv, StartInv, WaitReturns, At, GoTo
<1>3. PidInv'
  BY DEF IInv, PidInv, WaitReturns, At, GoTo
<1>4. StopInv'
  BY DEF IInv, StopInv, WaitReturns, At, GoTo
<1>5. WaitsForProduct'
  BY DEF IInv, WaitsForProduct, WaitReturns, At, GoTo
<1>6. LockInv' /\ NapInv' /\ SupervisorStopsFirst'
  BY DEF IInv, LockInv, NapInv, SupervisorStopsFirst, WaitReturns
<1> QED
  BY <1>1, <1>2, <1>3, <1>4, <1>5, <1>6 DEF IInv

(* The only way out of the loop is a product that left. *)
LEMMA CheckProductStep == ASSUME IInv, NEW r \in Pods, CheckProduct(r) PROVE IInv'
<1>1. TypeOK'
  BY DEF IInv, TypeOK, CheckProduct, ProductLeft, At, GoTo, MainPath
<1>2. StartInv'
  BY DEF IInv, StartInv, CheckProduct, ProductLeft, At, GoTo
<1>3. PidInv'
  BY DEF IInv, PidInv, CheckProduct, ProductLeft, At, GoTo
<1>4. StopInv'
  BY DEF IInv, StopInv, CheckProduct, ProductLeft, At, GoTo
<1>5. WaitsForProduct'
  BY DEF IInv, WaitsForProduct, CheckProduct, ProductLeft, At, GoTo
<1>6. LockInv' /\ NapInv' /\ SupervisorStopsFirst'
  BY DEF IInv, LockInv, NapInv, SupervisorStopsFirst, CheckProduct
<1> QED
  BY <1>1, <1>2, <1>3, <1>4, <1>5, <1>6 DEF IInv

(* The last stop_supervisor needs a supervisor that was not stopped yet. *)
LEMMA StopLastStep == ASSUME IInv, NEW r \in Pods, StopLast(r) PROVE IInv'
<1>1. TypeOK'
  BY DEF IInv, TypeOK, StopLast, At, GoTo, MainPath
<1>2. StartInv'
  BY DEF IInv, StartInv, StopLast, At, GoTo
<1>3. PidInv'
  BY DEF IInv, PidInv, StopLast, At, GoTo
<1>4. StopInv'
  BY DEF IInv, StopInv, StopLast, At, GoTo
<1>5. WaitsForProduct'
  BY DEF IInv, WaitsForProduct, StopLast, At, GoTo
<1>6. LockInv' /\ NapInv' /\ SupervisorStopsFirst'
  BY DEF IInv, LockInv, NapInv, SupervisorStopsFirst, StopLast
<1> QED
  BY <1>1, <1>2, <1>3, <1>4, <1>5, <1>6 DEF IInv

(* The wrapper exits. *)
LEMMA LeaveStep == ASSUME IInv, NEW r \in Pods, Leave(r) PROVE IInv'
<1>1. TypeOK'
  BY DEF IInv, TypeOK, Leave, At, GoTo, MainPath
<1>2. StartInv'
  BY DEF IInv, StartInv, Leave, At, GoTo
<1>3. PidInv'
  BY DEF IInv, PidInv, Leave, At, GoTo
<1>4. StopInv'
  BY DEF IInv, StopInv, Leave, At, GoTo
<1>5. WaitsForProduct'
  BY DEF IInv, WaitsForProduct, Leave, At, GoTo
<1>6. LockInv' /\ NapInv' /\ SupervisorStopsFirst'
  BY DEF IInv, LockInv, NapInv, SupervisorStopsFirst, Leave
<1> QED
  BY <1>1, <1>2, <1>3, <1>4, <1>5, <1>6 DEF IInv

(* The naps begin with the helper's seconds ahead. *)
LEMMA KillTermStep == ASSUME IInv, NEW r \in Pods, KillTerm(r) PROVE IInv'
<1>1. TypeOK'
  BY LauncherAssumption DEF IInv, TypeOK, KillTerm, MainPath, SupStates
<1>2. NapInv'
  BY LauncherAssumption DEF IInv, TypeOK, PidInv, NapInv, KillTerm
<1>3. StartInv' /\ PidInv' /\ StopInv' /\ LockInv' /\ WaitsForProduct' /\
      SupervisorStopsFirst'
  BY DEF IInv, StartInv, PidInv, StopInv, LockInv, WaitsForProduct, SupervisorStopsFirst,
      KillTerm
<1> QED
  BY <1>1, <1>2, <1>3 DEF IInv

(* The supervisor is gone, by itself or killed. *)
LEMMA SupervisorStoppedStep == ASSUME IInv, NEW r \in Pods, SupervisorStopped(r) PROVE IInv'
<1>1. TypeOK'
  BY LauncherAssumption DEF IInv, TypeOK, SupervisorStopped, NapsOver, ReleasedBy,
      MainPath, SupStates
<1>2. StartInv'
  BY DEF IInv, TypeOK, PidInv, StartInv, SupervisorStopped, NapsOver, ReleasedBy
<1>3. PidInv'
  BY DEF IInv, TypeOK, PidInv, SupervisorStopped
<1>4. StopInv'
  BY DEF IInv, TypeOK, StopInv, SupervisorStopped
<1>5. LockInv'
  BY DEF IInv, TypeOK, LockInv, SupervisorStopped, NapsOver, ReleasedBy
<1>6. NapInv'
  BY DEF IInv, TypeOK, NapInv, SupervisorStopped
<1>7. WaitsForProduct' /\ SupervisorStopsFirst'
  BY DEF IInv, WaitsForProduct, SupervisorStopsFirst, SupervisorStopped
<1> QED
  BY <1>1, <1>2, <1>3, <1>4, <1>5, <1>6, <1>7 DEF IInv

(* The product is told behind the supervisor. *)
LEMMA TellProductStep == ASSUME IInv, NEW r \in Pods, TellProduct(r) PROVE IInv'
<1>1. PidInv'
  BY DEF IInv, TypeOK, PidInv, TellProduct
<1>2. SupervisorStopsFirst'
  BY DEF IInv, TypeOK, StopInv, SupervisorStopsFirst, TellProduct
<1>3. TypeOK' /\ StartInv' /\ StopInv' /\ LockInv' /\ NapInv' /\ WaitsForProduct'
  BY DEF IInv, TypeOK, StartInv, StopInv, LockInv, NapInv, WaitsForProduct, TellProduct
<1> QED
  BY <1>1, <1>2, <1>3 DEF IInv

(* The lock was free. *)
LEMMA TakeLockStep == ASSUME IInv, NEW r \in Pods, TakeLock(r) PROVE IInv'
<1>1. TypeOK'
  BY DEF IInv, TypeOK, TakeLock, SupStates
<1>2. StartInv'
  BY DEF IInv, StartInv, TakeLock, Runs
<1>3. PidInv'
  BY DEF IInv, PidInv, TakeLock, Runs
<1>4. StopInv'
  BY DEF IInv, StopInv, TakeLock, Runs
<1>5. LockInv'
  BY LauncherAssumption DEF IInv, TypeOK, PidInv, LockInv, TakeLock, Runs
<1>6. NapInv'
  BY DEF IInv, NapInv, TakeLock, Runs
<1>7. SupervisorStopsFirst'
  BY DEF IInv, SupervisorStopsFirst, TakeLock, Runs
<1>8. WaitsForProduct'
  BY DEF IInv, WaitsForProduct, TakeLock
<1> QED
  BY <1>1, <1>2, <1>3, <1>4, <1>5, <1>6, <1>7, <1>8 DEF IInv

(* The lock goes with the supervisor. *)
LEMMA GiveUpStep == ASSUME IInv, NEW r \in Pods, GiveUp(r) PROVE IInv'
<1>1. TypeOK'
  BY DEF IInv, TypeOK, GiveUp, Runs, ReleasedBy, MainPath, SupStates
<1>2. StartInv'
  BY DEF IInv, StartInv, GiveUp, Runs, ReleasedBy
<1>3. LockInv'
  BY DEF IInv, TypeOK, LockInv, GiveUp, Runs, ReleasedBy
<1>4. PidInv' /\ StopInv' /\ NapInv' /\ WaitsForProduct' /\ SupervisorStopsFirst'
  BY DEF IInv, PidInv, StopInv, NapInv, WaitsForProduct, SupervisorStopsFirst, GiveUp
<1> QED
  BY <1>1, <1>2, <1>3, <1>4 DEF IInv

(* No helper is started behind a SIGTERM. *)
LEMMA RunHelperStep == ASSUME IInv, NEW r \in Pods, RunHelper(r) PROVE IInv'
<1>1. NapInv'
  BY DEF IInv, NapInv, RunHelper, Runs
<1>2. TypeOK' /\ StartInv' /\ PidInv' /\ StopInv' /\ LockInv' /\ WaitsForProduct' /\
      SupervisorStopsFirst'
  BY DEF IInv, TypeOK, StartInv, PidInv, StopInv, LockInv, WaitsForProduct,
      SupervisorStopsFirst, RunHelper
<1> QED
  BY <1>1, <1>2 DEF IInv

(* The lock stays. *)
LEMMA ForkHostStep == ASSUME IInv, NEW r \in Pods, ForkHost(r) PROVE IInv'
<1>1. TypeOK'
  BY DEF IInv, TypeOK, ForkHost, SupStates
<1>2. StartInv'
  BY DEF IInv, StartInv, ForkHost, Runs
<1>3. PidInv'
  BY DEF IInv, PidInv, ForkHost, Runs
<1>4. StopInv'
  BY DEF IInv, StopInv, ForkHost, Runs
<1>5. LockInv'
  BY DEF IInv, LockInv, ForkHost, Runs
<1>6. NapInv'
  BY DEF IInv, NapInv, ForkHost, Runs
<1>7. SupervisorStopsFirst'
  BY DEF IInv, SupervisorStopsFirst, ForkHost, Runs
<1>8. WaitsForProduct'
  BY DEF IInv, WaitsForProduct, ForkHost
<1> QED
  BY <1>1, <1>2, <1>3, <1>4, <1>5, <1>6, <1>7, <1>8 DEF IInv

(* The lock stays. *)
LEMMA RecordHostStep == ASSUME IInv, NEW r \in Pods, RecordHost(r) PROVE IInv'
<1>1. TypeOK'
  BY DEF IInv, TypeOK, RecordHost, SupStates
<1>2. StartInv'
  BY DEF IInv, StartInv, RecordHost, Runs
<1>3. PidInv'
  BY DEF IInv, PidInv, RecordHost, Runs
<1>4. StopInv'
  BY DEF IInv, StopInv, RecordHost, Runs
<1>5. LockInv'
  BY DEF IInv, LockInv, RecordHost, Runs
<1>6. NapInv'
  BY DEF IInv, NapInv, RecordHost, Runs
<1>7. SupervisorStopsFirst'
  BY DEF IInv, SupervisorStopsFirst, RecordHost, Runs
<1>8. WaitsForProduct'
  BY DEF IInv, WaitsForProduct, RecordHost
<1> QED
  BY <1>1, <1>2, <1>3, <1>4, <1>5, <1>6, <1>7, <1>8 DEF IInv

(* The lock stays. *)
LEMMA LoseHostStep == ASSUME IInv, NEW r \in Pods, LoseHost(r) PROVE IInv'
<1>1. TypeOK'
  BY DEF IInv, TypeOK, LoseHost, SupStates
<1>2. StartInv'
  BY DEF IInv, StartInv, LoseHost, Runs
<1>3. PidInv'
  BY DEF IInv, PidInv, LoseHost, Runs
<1>4. StopInv'
  BY DEF IInv, StopInv, LoseHost, Runs
<1>5. LockInv'
  BY DEF IInv, LockInv, LoseHost, Runs
<1>6. NapInv'
  BY DEF IInv, NapInv, LoseHost, Runs
<1>7. SupervisorStopsFirst'
  BY DEF IInv, SupervisorStopsFirst, LoseHost, Runs
<1>8. WaitsForProduct'
  BY DEF IInv, WaitsForProduct, LoseHost
<1> QED
  BY <1>1, <1>2, <1>3, <1>4, <1>5, <1>6, <1>7, <1>8 DEF IInv

(* The helper is through: what is left is the grace of the host. *)
LEMMA TrapStep == ASSUME IInv, NEW r \in Pods, Trap(r) PROVE IInv'
<1>1. TypeOK'
  <2>1. forked' \in [Pods -> BOOLEAN]
    <3>1. forked \in [Pods -> BOOLEAN]
      BY DEF IInv, TypeOK
    <3>2. CASE UNCHANGED forked
      BY <3>1, <3>2
    <3>3. CASE forked' = [forked EXCEPT ![r] = sup[r] = "launching"]
      BY <3>1, <3>3, Zenon
    <3> QED
      BY <3>2, <3>3 DEF Trap
  <2>2. UNCHANGED <<main, handler, rc, host, prod, napped, signals, busy, stopping, supKnown,
                    prodKnown, term, told, early>>
    BY DEF Trap
  <2>3. sup' \in [Pods -> SupStates] /\ graced' \in [Pods -> 0..Grace]
    BY LauncherAssumption DEF IInv, TypeOK, Trap, SupStates
  <2>4. lock' \in Pods \cup {NoPod}
    BY DEF IInv, TypeOK, Trap, ReleasedBy
  <2> QED
    BY <2>1, <2>2, <2>3, <2>4 DEF IInv, TypeOK
<1>2. StartInv'
  BY DEF IInv, TypeOK, StartInv, Trap, TrapDue, ChildSet, ReleasedBy
<1>3. PidInv'
  BY DEF IInv, TypeOK, PidInv, Trap, TrapDue, ChildSet, ReleasedBy
<1>4. StopInv'
  BY DEF IInv, TypeOK, StopInv, Trap, TrapDue, ChildSet, ReleasedBy
<1>5. LockInv'
  BY DEF IInv, TypeOK, LockInv, Trap, TrapDue, ChildSet, ReleasedBy
<1>6. NapInv'
  BY LauncherAssumption DEF IInv, TypeOK, PidInv, NapInv, Trap, TrapDue, ChildSet,
      ReleasedBy
<1>7. SupervisorStopsFirst'
  BY DEF IInv, TypeOK, SupervisorStopsFirst, Trap, TrapDue, ChildSet, ReleasedBy
<1>8. WaitsForProduct'
  BY DEF IInv, WaitsForProduct, Trap
<1> QED
  BY <1>1, <1>2, <1>3, <1>4, <1>5, <1>6, <1>7, <1>8 DEF IInv

(* The supervisor is gone. *)
LEMMA StopHostStep == ASSUME IInv, NEW r \in Pods, StopHost(r) PROVE IInv'
<1>1. TypeOK'
  BY LauncherAssumption DEF IInv, TypeOK, StopHost, GraceOver, ReleasedBy, MainPath,
      SupStates
<1>2. StartInv'
  BY DEF IInv, StartInv, StopHost, GraceOver, ReleasedBy
<1>3. LockInv'
  BY DEF IInv, TypeOK, LockInv, StopHost, GraceOver, ReleasedBy
<1>4. NapInv'
  BY DEF IInv, TypeOK, NapInv, StopHost
<1>5. PidInv' /\ StopInv' /\ WaitsForProduct' /\ SupervisorStopsFirst'
  BY DEF IInv, PidInv, StopInv, WaitsForProduct, SupervisorStopsFirst, StopHost
<1> QED
  BY <1>1, <1>2, <1>3, <1>4, <1>5 DEF IInv

(* The handler tells the product first only when the supervisor is gone or came too early.
   *)
LEMMA StopSignalStep == ASSUME IInv, NEW r \in Pods, StopSignal(r) PROVE IInv'
<1>1. TypeOK'
  BY DEF IInv, TypeOK, StopSignal, Trapping, FirstStopStep, Interrupted, GoTo, MainPath
<1>2. StartInv'
  BY DEF IInv, TypeOK, StartInv, StopSignal, Trapping, FirstStopStep, Interrupted, GoTo
<1>3. PidInv'
  BY DEF IInv, TypeOK, PidInv, StopSignal, Trapping, FirstStopStep, Interrupted, GoTo
<1>4. StopInv'
  <2>1. ASSUME NEW p \in Pods, p # r
        PROVE  UNCHANGED <<handler[p], told[p], early[p], stopping[p], main[p], sup[p]>>
    BY <2>1 DEF IInv, TypeOK, StopSignal, Interrupted, GoTo
  <2>2. early'[r] = (main[r] \in {"start", "supForked"})
    BY Zenon DEF IInv, TypeOK, StopSignal
  <2>3. main'[r] \in {"start", "supForked"} => early'[r]
    <3>1. main'[r] \in {main[r], "check"}
      BY DEF IInv, TypeOK, StopSignal, Interrupted, GoTo
    <3> QED
      BY <2>2, <3>1
  <2>4. stopping'[r]
    BY DEF IInv, TypeOK, StopSignal
  <2>5. handler'[r] \in {"none", "tell"} /\ ~early'[r] => sup'[r] = "gone"
    BY <2>2 DEF IInv, TypeOK, PidInv, StopSignal, FirstStopStep, Trapping
  <2> QED
    BY <2>1, <2>3, <2>4, <2>5 DEF IInv, StopInv
<1>5. NapInv'
  BY DEF IInv, NapInv, StopSignal, Trapping, FirstStopStep, Interrupted, GoTo
<1>6. WaitsForProduct'
  BY DEF IInv, TypeOK, WaitsForProduct, StopSignal, Trapping, FirstStopStep, Interrupted,
      GoTo
<1>7. SupervisorStopsFirst'
  BY DEF IInv, TypeOK, StopInv, SupervisorStopsFirst, StopSignal, Trapping, FirstStopStep,
      Interrupted, GoTo
<1>8. LockInv'
  BY DEF IInv, LockInv, StopSignal
<1> QED
  BY <1>1, <1>2, <1>3, <1>4, <1>5, <1>6, <1>7, <1>8 DEF IInv

(* A signal costs one nap and is counted. *)
LEMMA OtherSignalStep == ASSUME IInv, NEW r \in Pods, OtherSignal(r) PROVE IInv'
<1>1. TypeOK'
  BY LauncherAssumption DEF IInv, TypeOK, OtherSignal, Trapping, Interrupted, GoTo,
      MainPath, SupStates
<1>2. StartInv'
  BY DEF IInv, TypeOK, StartInv, OtherSignal, Trapping, Interrupted, GoTo
<1>3. PidInv'
  BY DEF IInv, TypeOK, PidInv, OtherSignal, Trapping, Interrupted, GoTo
<1>4. StopInv'
  BY DEF IInv, TypeOK, StopInv, OtherSignal, Trapping, Interrupted, GoTo
<1>5. NapInv'
  BY LauncherAssumption DEF IInv, TypeOK, PidInv, NapInv, OtherSignal, Trapping,
      Interrupted, GoTo
<1>6. WaitsForProduct'
  BY DEF IInv, TypeOK, WaitsForProduct, OtherSignal, Trapping, Interrupted, GoTo
<1>7. LockInv' /\ SupervisorStopsFirst'
  BY DEF IInv, LockInv, SupervisorStopsFirst, OtherSignal
<1> QED
  BY <1>1, <1>2, <1>3, <1>4, <1>5, <1>6, <1>7 DEF IInv

(* The host is nobody's business here. *)
LEMMA HostExitsStep == ASSUME IInv, NEW r \in Pods, HostExits(r) PROVE IInv'
<1>1. TypeOK' /\ StartInv' /\ PidInv' /\ StopInv' /\ LockInv' /\ NapInv' /\
      WaitsForProduct' /\ SupervisorStopsFirst'
  BY DEF IInv, TypeOK, StartInv, PidInv, StopInv, LockInv, NapInv, WaitsForProduct,
      SupervisorStopsFirst, HostExits
<1> QED
  BY <1>1 DEF IInv

(* A running product has not been waited for. *)
LEMMA ProductExitsStep == ASSUME IInv, NEW r \in Pods, ProductExits(r) PROVE IInv'
<1>1. TypeOK' /\ StartInv' /\ PidInv' /\ StopInv' /\ LockInv' /\ NapInv' /\
      WaitsForProduct' /\ SupervisorStopsFirst'
  BY DEF IInv, TypeOK, StartInv, PidInv, StopInv, LockInv, NapInv, WaitsForProduct,
      SupervisorStopsFirst, ProductExits
<1> QED
  BY <1>1 DEF IInv

(* The product is reaped. *)
LEMMA ProductReapedStep == ASSUME IInv, NEW r \in Pods, ProductReaped(r) PROVE IInv'
<1>1. TypeOK' /\ StartInv' /\ PidInv' /\ StopInv' /\ LockInv' /\ NapInv' /\
      WaitsForProduct' /\ SupervisorStopsFirst'
  BY DEF IInv, TypeOK, StartInv, PidInv, StopInv, LockInv, NapInv, WaitsForProduct,
      SupervisorStopsFirst, ProductReaped
<1> QED
  BY <1>1 DEF IInv

(* With the container everything ends. *)
LEMMA ContainerEndsStep == ASSUME IInv, NEW r \in Pods, ContainerEnds(r) PROVE IInv'
<1>1. TypeOK'
  BY LauncherAssumption DEF IInv, TypeOK, ContainerEnds, ReleasedBy, GoTo, MainPath,
      SupStates
<1>2. StartInv'
  BY DEF IInv, TypeOK, StartInv, ContainerEnds, ReleasedBy, GoTo
<1>3. PidInv'
  BY DEF IInv, TypeOK, PidInv, ContainerEnds, ReleasedBy, GoTo
<1>4. StopInv'
  BY DEF IInv, TypeOK, StopInv, ContainerEnds, ReleasedBy, GoTo
<1>5. LockInv'
  BY DEF IInv, TypeOK, LockInv, ContainerEnds, ReleasedBy, GoTo
<1>6. NapInv'
  BY DEF IInv, TypeOK, NapInv, ContainerEnds
<1>7. WaitsForProduct'
  BY DEF IInv, TypeOK, WaitsForProduct, ContainerEnds, ReleasedBy, GoTo
<1>8. SupervisorStopsFirst'
  BY DEF IInv, SupervisorStopsFirst, ContainerEnds
<1> QED
  BY <1>1, <1>2, <1>3, <1>4, <1>5, <1>6, <1>7, <1>8 DEF IInv

(* A second of the naps is one of the helper or of the grace period. *)
LEMMA SecondStep == ASSUME IInv, Second PROVE IInv'
<1>1. TypeOK'
  BY LauncherAssumption DEF IInv, TypeOK, Second, DueNow, NapsOver, TrapDue, GraceOver,
      Timed, MainPath, SupStates
<1>2. NapInv'
  BY LauncherAssumption DEF IInv, TypeOK, PidInv, NapInv, Second, DueNow, NapsOver,
      TrapDue, GraceOver, Timed
<1>3. StartInv' /\ PidInv' /\ StopInv' /\ LockInv' /\ WaitsForProduct' /\
      SupervisorStopsFirst'
  BY DEF IInv, StartInv, PidInv, StopInv, LockInv, WaitsForProduct, SupervisorStopsFirst,
      Second
<1> QED
  BY <1>1, <1>2, <1>3 DEF IInv

-----------------------------------------------------------------------------
(* One step of the system, whoever takes it. *)
LEMMA StepKeepsInv == ASSUME IInv, [Next]_vars PROVE IInv'
<1>1. CASE UNCHANGED vars
  BY <1>1 DEF vars, IInv, TypeOK, StartInv, PidInv, StopInv, LockInv, NapInv, WaitsForProduct,
      SupervisorStopsFirst
<1>2. CASE Second
  BY <1>2, SecondStep
<1>3. ASSUME NEW r \in Pods, ExecProduct(r) \/ WrapperStep(r) PROVE IInv'
  BY <1>3, ExecProductStep, ForkSupervisorStep, RecordSupervisorStep, ForkProductStep,
     RecordProductStep, PassOnStep, WaitReturnsStep, CheckProductStep, StopLastStep, LeaveStep,
     KillTermStep, SupervisorStoppedStep, TellProductStep DEF WrapperStep
<1>4. ASSUME NEW r \in Pods, SupervisorStep(r) PROVE IInv'
  BY <1>4, TakeLockStep, GiveUpStep, RunHelperStep, ForkHostStep, RecordHostStep, LoseHostStep,
     TrapStep, StopHostStep DEF SupervisorStep, SupervisorStops
<1>5. ASSUME NEW r \in Pods, World(r) PROVE IInv'
  BY <1>5, StopSignalStep, OtherSignalStep, HostExitsStep, ProductExitsStep, ProductReapedStep,
     ContainerEndsStep DEF World
<1> QED
  BY <1>1, <1>2, <1>3, <1>4, <1>5 DEF Next

(* Nothing has happened yet. *)
LEMMA InitInv == Init => IInv
<1> SUFFICES ASSUME Init PROVE IInv
  OBVIOUS
<1>1. TypeOK
  <2>1. {stopping, supKnown, prodKnown, term, told, early, forked} \subseteq [Pods -> BOOLEAN]
    BY DEF Init
  <2> QED
    BY <2>1, LauncherAssumption DEF Init, TypeOK, MainPath, SupStates
<1>2. StartInv /\ PidInv /\ StopInv /\ LockInv /\ NapInv
  BY DEF Init, StartInv, PidInv, StopInv, LockInv, NapInv
<1>3. WaitsForProduct /\ SupervisorStopsFirst
  BY DEF Init, WaitsForProduct, SupervisorStopsFirst
<1> QED
  BY <1>1, <1>2, <1>3 DEF IInv

(* The inductive invariant of the launcher: the order of its main path, of its *)
(* stop handler and of the supervisor's end (omnigent-host-launch:107-168).    *)
THEOREM Invariance == Spec => []IInv
<1>1. IInv /\ [Next]_vars => IInv'
  BY StepKeepsInv
<1> QED
  BY InitInv, <1>1, PTL DEF Spec

(* Every variable keeps its type, napped and graced their bounds.            *)
THEOREM TypeCorrect == Spec => []TypeOK
<1>1. IInv => TypeOK
  BY DEF IInv
<1> QED
  BY Invariance, <1>1, PTL

(* The wrapper exits only once its product is gone, in any number of         *)
(* containers and whatever signals interrupt the wait.                       *)
THEOREM ProductIsWaitedFor == Spec => []WaitsForProduct
<1>1. IInv => WaitsForProduct
  BY DEF IInv
<1> QED
  BY Invariance, <1>1, PTL

(* The product is told to stop only when its supervisor is gone, unless the  *)
(* signal came before SUP was assigned.                                      *)
THEOREM SupervisorsStopFirst == Spec => []SupervisorStopsFirst
<1>1. IInv => SupervisorStopsFirst
  BY DEF IInv
<1> QED
  BY Invariance, <1>1, PTL

(* With slack the naps run out only behind a supervisor that is gone.        *)
LEMMA SlackIsEnough == ASSUME IInv, Slack PROVE NeverKilled
<1> SUFFICES ASSUME NEW p \in Pods, handler[p] = "naps", napped[p] = StopWait, sup[p] # "gone"
             PROVE  FALSE
  BY DEF NeverKilled
<1>1. /\ busy[p] \in Nat /\ busy[p] >= 0
      /\ graced[p] \in Nat /\ graced[p] <= Grace
      /\ signals[p] \in Nat /\ signals[p] <= MaxSignals
      /\ {StopWait, MaxBusy, MaxSignals, Grace} \subseteq Nat
  BY LauncherAssumption DEF IInv, TypeOK
<1>2. CASE sup[p] = "stopping"
  <2>1. napped[p] <= MaxBusy + graced[p] + signals[p]
    BY <1>2 DEF IInv, NapInv
  <2> QED
    BY <1>1, <2>1 DEF Slack
<1>3. CASE sup[p] # "stopping"
  <2>1. napped[p] + busy[p] <= MaxBusy + signals[p]
    BY <1>3 DEF IInv, NapInv
  <2> QED
    BY <1>1, <2>1 DEF Slack
<1> QED
  BY <1>2, <1>3

(* Under that condition (OG_LAUNCH_STOP_SECONDS is the grace period and five *)
(* seconds more: neither the helper nor signals may use them up) the wrapper *)
(* never kills the supervisor, for any number of containers.                 *)
THEOREM NobodyIsKilled == Slack => (Spec => []NeverKilled)
<1> SUFFICES ASSUME Slack PROVE Spec => []NeverKilled
  OBVIOUS
<1>1. IInv => NeverKilled
  BY SlackIsEnough
<1> QED
  BY Invariance, <1>1, PTL

(* A supervisor that is never killed leaves no host behind.                  *)
LEMMA StepKeepsHosts == ASSUME Slack, IInv, HostInv, [Next]_vars PROVE HostInv'
<1>1. CASE UNCHANGED vars
  BY <1>1 DEF vars, HostInv
<1>2. CASE Second
  BY <1>2 DEF HostInv, Second
<1>3. ASSUME NEW r \in Pods, ExecProduct(r) \/ WrapperStep(r) PROVE HostInv'
  <2>1. CASE ForkSupervisor(r)
    BY <2>1 DEF IInv, TypeOK, StartInv, HostInv, ForkSupervisor, At
  <2>2. CASE SupervisorStopped(r)
    <3>1. sup[r] = "gone"
      BY <2>2, SlackIsEnough DEF SupervisorStopped, NapsOver, NeverKilled
    <3> QED
      BY <2>2, <3>1 DEF IInv, TypeOK, HostInv, SupervisorStopped
  <2>3. CASE ExecProduct(r) \/ RecordSupervisor(r) \/ ForkProduct(r) \/ RecordProduct(r)
    BY <2>3 DEF HostInv, ExecProduct, RecordSupervisor, ForkProduct, RecordProduct
  <2>4. CASE PassOn(r) \/ WaitReturns(r) \/ CheckProduct(r) \/ StopLast(r) \/ Leave(r)
    BY <2>4 DEF HostInv, PassOn, WaitReturns, CheckProduct, StopLast, Leave
  <2>5. CASE TellProduct(r)
    BY <2>5 DEF HostInv, TellProduct
  <2>6. CASE KillTerm(r)
    BY <2>6 DEF HostInv, KillTerm
  <2> QED
    BY <1>3, <2>1, <2>2, <2>3, <2>4, <2>5, <2>6 DEF WrapperStep
<1>4. ASSUME NEW r \in Pods, SupervisorStep(r) PROVE HostInv'
  <2>1. CASE TakeLock(r) \/ GiveUp(r)
    BY <2>1 DEF IInv, TypeOK, HostInv, TakeLock, GiveUp, Runs
  <2>2. CASE RunHelper(r)
    BY <2>2 DEF HostInv, RunHelper
  <2>3. CASE ForkHost(r) \/ RecordHost(r) \/ LoseHost(r)
    BY <2>3 DEF IInv, TypeOK, HostInv, ForkHost, RecordHost, LoseHost, Runs
  <2>4. CASE Trap(r)
    <3>1. CASE ChildSet(r)
      BY <2>4, <3>1 DEF IInv, TypeOK, HostInv, Trap, ChildSet
    <3>2. CASE ~ChildSet(r)
      <4>1. forked' = [forked EXCEPT ![r] = sup[r] = "launching"]
        BY <2>4, <3>2 DEF Trap
      <4>2. forked'[r] = (sup[r] = "launching") /\ \A p \in Pods : p # r => forked'[p] = forked[p]
        BY <4>1, Zenon DEF IInv, TypeOK
      <4>3. sup' = [sup EXCEPT ![r] = "gone"] /\ UNCHANGED host
        BY <2>4, <3>2 DEF Trap
      <4>4. host[r] = "up" => sup[r] = "launching"
        BY <2>4, <3>2 DEF HostInv, Trap, TrapDue, ChildSet
      <4> QED
        BY <4>2, <4>3, <4>4 DEF IInv, TypeOK, HostInv
    <3> QED
      BY <3>1, <3>2
  <2>5. CASE StopHost(r)
    BY <2>5 DEF IInv, TypeOK, HostInv, StopHost
  <2> QED
    BY <1>4, <2>1, <2>2, <2>3, <2>4, <2>5 DEF SupervisorStep, SupervisorStops
<1>5. ASSUME NEW r \in Pods, World(r) PROVE HostInv'
  <2>1. CASE HostExits(r) \/ ContainerEnds(r)
    BY <2>1 DEF IInv, TypeOK, HostInv, HostExits, ContainerEnds
  <2>2. CASE StopSignal(r) \/ OtherSignal(r) \/ ProductExits(r) \/ ProductReaped(r)
    BY <2>2 DEF HostInv, StopSignal, OtherSignal, ProductExits, ProductReaped
  <2> QED
    BY <1>5, <2>1, <2>2 DEF World
<1> QED
  BY <1>1, <1>2, <1>3, <1>4, <1>5 DEF Next

(* The same with the invariant on hosts, under the condition on the naps.    *)
THEOREM HostInvariance == Slack => (Spec => [](IInv /\ HostInv))
<1> SUFFICES ASSUME Slack PROVE Spec => [](IInv /\ HostInv)
  OBVIOUS
<1>1. Init => HostInv
  BY DEF Init, HostInv
<1>2. IInv /\ HostInv /\ [Next]_vars => (IInv /\ HostInv)'
  BY StepKeepsInv, StepKeepsHosts
<1> QED
  BY InitInv, <1>1, <1>2, PTL DEF Spec

(* A host runs only under the lock of the volume, unless its supervisor was  *)
(* stopped between the fork and child=$!.                                    *)
THEOREM HostsHoldTheLock == Slack => (Spec => []HostHoldsLock)
<1> SUFFICES ASSUME Slack PROVE Spec => []HostHoldsLock
  OBVIOUS
<1>1. IInv /\ HostInv => HostHoldsLock
  BY DEF IInv, HostInv, LockInv, HostHoldsLock
<1> QED
  BY HostInvariance, <1>1, PTL

(* "one supervisor (and so one host) per volume" (supervisor.sh:42), for any *)
(* number of containers: true whenever nothing eats up the wrapper's spare   *)
(* seconds, and the run launch_two_hosts shows it false when the helper does.*)
THEOREM OneHost == Slack => (Spec => []OneHostPerVolume)
<1> SUFFICES ASSUME Slack PROVE Spec => []OneHostPerVolume
  OBVIOUS
<1>1. IInv /\ HostInv => OneHostPerVolume
  BY DEF IInv, HostInv, LockInv, OneHostPerVolume
<1> QED
  BY HostInvariance, <1>1, PTL
=============================================================================
