---------------------------- MODULE HostLauncher ----------------------------
(***************************************************************************)
(* The entrypoint wrapper of the omnigent-host kit                         *)
(* (paas/shared/omnigent-host/omnigent-host-launch) in several containers  *)
(* that share one volume: each wrapper runs the product and, next to it,   *)
(* the supervisor, and orders their shutdown; the supervisors compete for  *)
(* the lock on the volume, and whoever holds it runs the host.             *)
(*                                                                         *)
(* The wrapper is a shell script: a stop signal runs on_stop between two   *)
(* commands of the main path, wherever that is.  The supervisor is the     *)
(* process OmnigentSupervisor details, reduced to what the wrapper and the *)
(* other containers can see of it: the lock, the host and how long it      *)
(* takes to react to SIGTERM.                                              *)
(*                                                                         *)
(* Time passes in seconds for everybody at once.  It does not pass while a *)
(* process has something to do that does not take time (DueNow).           *)
(***************************************************************************)
EXTENDS Naturals

CONSTANTS
  Pods,        \* the containers
  NoPod,       \* holder of a free lock
  StopWait,    \* OG_LAUNCH_STOP_SECONDS
  Grace,       \* OG_STOP_GRACE_SECONDS
  MaxBusy,     \* bound: seconds a foreground command defers the supervisor's trap
  MaxSignals   \* bound: further signals to one wrapper (HUP, USR1, a second TERM)

ASSUME LauncherAssumption ==
  /\ NoPod \notin Pods
  /\ {StopWait, MaxBusy, MaxSignals} \subseteq Nat
  /\ Grace \in Nat \ {0}

VARIABLES
  lock,          \* supervisor.lock on the volume
  (* the wrapper *)
  main,          \* the next command of its main path
  handler,       \* where on_stop or stop_supervisor is
  napped,        \* _i of stop_supervisor
  stopping,      \* STOPPING is set
  supKnown,      \* SUP holds the supervisor's pid
  prodKnown,     \* PROD holds the product's
  rc,            \* whose status rc holds
  signals,
  (* the processes it runs *)
  sup, term, busy, graced,   \* supervisor; SIGTERM pending; seconds of its waits
  host,
  prod,
  told,          \* the product got the stop signal
  (* history, read by properties only *)
  early,         \* the stop signal came before SUP was assigned
  forked         \* the supervisor's trap ran between the fork of the host and child=$!

wrapper == <<main, handler, napped, stopping, supKnown, prodKnown, rc, signals>>
supervisor == <<sup, term, busy, graced, forked>>
product == <<prod, told>>
vars == <<lock, wrapper, supervisor, host, product, early>>

MainPath == {"start", "supForked", "prodNext", "prodForked", "late", "wait", "check",
             "final", "leave", "execed", "gone"}
SupStates == {"none", "waiting", "idle", "launching", "serving", "stopping", "gone"}

-----------------------------------------------------------------------------
(* The main path *)

At(p, place) == main[p] = place /\ handler[p] = "none"
GoTo(p, place) == main' = [main EXCEPT ![p] = place]

(* Host disabled, no supervisor.sh or no CLI: exec the product, no kit at all *)
ExecProduct(p) ==
  /\ At(p, "start") /\ ~stopping[p]
  /\ GoTo(p, "execed")
  /\ prod' = [prod EXCEPT ![p] = "running"]
  /\ UNCHANGED <<lock, handler, napped, stopping, supKnown, prodKnown, rc, signals,
                 supervisor, host, told, early>>

ForkSupervisor(p) ==
  /\ At(p, "start")
  /\ GoTo(p, "supForked")
  /\ sup' = [sup EXCEPT ![p] = "waiting"]
  /\ UNCHANGED <<lock, handler, napped, stopping, supKnown, prodKnown, rc, signals, term,
                 busy, graced, forked, host, product, early>>

RecordSupervisor(p) ==
  /\ At(p, "supForked")
  /\ GoTo(p, "prodNext")
  /\ supKnown' = [supKnown EXCEPT ![p] = TRUE]
  /\ UNCHANGED <<lock, handler, napped, stopping, prodKnown, rc, signals, supervisor, host,
                 product, early>>

ForkProduct(p) ==
  /\ At(p, "prodNext")
  /\ GoTo(p, "prodForked")
  /\ prod' = [prod EXCEPT ![p] = "running"]
  /\ UNCHANGED <<lock, handler, napped, stopping, supKnown, prodKnown, rc, signals,
                 supervisor, host, told, early>>

RecordProduct(p) ==
  /\ At(p, "prodForked")
  /\ GoTo(p, "late")
  /\ prodKnown' = [prodKnown EXCEPT ![p] = TRUE]
  /\ UNCHANGED <<lock, handler, napped, stopping, supKnown, rc, signals, supervisor, host,
                 product, early>>

(* A stop signal that arrived before the product existed is passed on now. *)
LateSignalDropped(p) == FALSE
LateSignal(p) == stopping[p]

PassOn(p) ==
  /\ At(p, "late")
  /\ GoTo(p, "wait")
  /\ told' = [told EXCEPT ![p] = @ \/ LateSignal(p)]
  /\ UNCHANGED <<lock, handler, napped, stopping, supKnown, prodKnown, rc, signals,
                 supervisor, host, prod, early>>

(* wait "$PROD" returns the status of a product that ended ...               *)
WaitReturns(p) ==
  /\ At(p, "wait")
  /\ prod[p] \in {"zombie", "reaped"}
  /\ GoTo(p, "check")
  /\ prod' = [prod EXCEPT ![p] = "reaped"]
  /\ rc' = [rc EXCEPT ![p] = "own"]
  /\ UNCHANGED <<lock, handler, napped, stopping, supKnown, prodKnown, signals, supervisor,
                 host, told, early>>

(* ... or more than 128 when a trapped signal interrupts it.                 *)
Interrupted(p) ==
  IF main[p] = "wait"
  THEN GoTo(p, "check") /\ rc' = [rc EXCEPT ![p] = "signal"]
  ELSE UNCHANGED <<main, rc>>

AnyReturnEnds(p) == TRUE                            \* without the kill -0
ProductLeft(p) == prod[p] = "reaped"                \* kill -0 fails

CheckProduct(p) ==
  /\ At(p, "check")
  /\ GoTo(p, IF ProductLeft(p) THEN "final" ELSE "wait")
  /\ UNCHANGED <<lock, handler, napped, stopping, supKnown, prodKnown, rc, signals,
                 supervisor, host, product, early>>

(* [ -z "$STOPPING" ] && stop_supervisor *)
StopLast(p) ==
  /\ At(p, "final")
  /\ GoTo(p, "leave")
  /\ handler' = [handler EXCEPT ![p] = IF ~stopping[p] /\ supKnown[p] THEN "term" ELSE "none"]
  /\ UNCHANGED <<lock, napped, stopping, supKnown, prodKnown, rc, signals, supervisor, host,
                 product, early>>

(* exit "$rc" *)
Leave(p) ==
  /\ At(p, "leave")
  /\ GoTo(p, "gone")
  /\ UNCHANGED <<lock, handler, napped, stopping, supKnown, prodKnown, rc, signals,
                 supervisor, host, product, early>>

-----------------------------------------------------------------------------
(* on_stop and stop_supervisor *)

Trapping(p) == main[p] \notin {"execed", "gone"}

ProductFirst(p) == "tell"
FirstStopStep(p) == IF supKnown[p] THEN "term" ELSE "tell"

(* The first TERM, INT or QUIT *)
StopSignal(p) ==
  /\ Trapping(p)
  /\ ~stopping[p]
  /\ stopping' = [stopping EXCEPT ![p] = TRUE]
  /\ handler' = [handler EXCEPT ![p] = FirstStopStep(p)]
  /\ Interrupted(p)
  /\ early' = [early EXCEPT ![p] = main[p] \in {"start", "supForked"}]
  /\ UNCHANGED <<lock, napped, supKnown, prodKnown, signals, supervisor, host, product>>

(* HUP, USR1, USR2 (forwarded to the product) or a further stop signal       *)
(* (ignored): either interrupts the wait or the nap the wrapper is in.       *)
OtherSignal(p) ==
  /\ Trapping(p)
  /\ signals[p] < MaxSignals
  /\ signals' = [signals EXCEPT ![p] = @ + 1]
  /\ IF handler[p] = "none" THEN Interrupted(p) ELSE UNCHANGED <<main, rc>>
  /\ napped' = IF handler[p] = "naps" /\ napped[p] < StopWait
               THEN [napped EXCEPT ![p] = @ + 1] ELSE napped
  /\ UNCHANGED <<lock, handler, stopping, supKnown, prodKnown, supervisor, host, product,
                 early>>

KillTerm(p) ==
  /\ handler[p] = "term"
  /\ handler' = [handler EXCEPT ![p] = "naps"]
  /\ napped' = [napped EXCEPT ![p] = 0]
  /\ term' = [term EXCEPT ![p] = TRUE]
  /\ UNCHANGED <<lock, main, stopping, supKnown, prodKnown, rc, signals, sup, busy, graced,
                 forked, host, product, early>>

ReleasedBy(p) == lock' = IF lock = p THEN NoPod ELSE lock

(* SUP is gone, or gets the group SIGKILL: the host, in a session of its own, *)
(* is not in that group.                                                      *)
NapsOver(p) == handler[p] = "naps" /\ (sup[p] = "gone" \/ napped[p] = StopWait)

SupervisorStopped(p) ==
  /\ NapsOver(p)
  /\ sup' = [sup EXCEPT ![p] = "gone"]
  /\ busy' = [busy EXCEPT ![p] = 0]
  /\ ReleasedBy(p)
  /\ supKnown' = [supKnown EXCEPT ![p] = FALSE]
  /\ handler' = [handler EXCEPT ![p] = IF stopping[p] THEN "tell" ELSE "none"]
  /\ napped' = [napped EXCEPT ![p] = 0]
  /\ graced' = [graced EXCEPT ![p] = 0]
  /\ UNCHANGED <<main, stopping, prodKnown, rc, signals, term, forked, host, product, early>>

TellProduct(p) ==
  /\ handler[p] = "tell"
  /\ handler' = [handler EXCEPT ![p] = "none"]
  /\ told' = [told EXCEPT ![p] = @ \/ prodKnown[p]]
  /\ UNCHANGED <<lock, main, napped, stopping, supKnown, prodKnown, rc, signals, supervisor,
                 host, prod, early>>

-----------------------------------------------------------------------------
(* The supervisor, as far as others see it *)

Runs(p, states) == sup[p] \in states /\ busy[p] = 0 /\ ~term[p]

TakeLock(p) ==
  /\ Runs(p, {"waiting"})
  /\ lock = NoPod
  /\ lock' = p
  /\ sup' = [sup EXCEPT ![p] = "idle"]
  /\ UNCHANGED <<wrapper, term, busy, graced, forked, host, product, early>>

(* give_up: before the lock (disabled, no flock) or behind it (image too old) *)
GiveUp(p) ==
  /\ Runs(p, {"waiting", "idle"})
  /\ sup' = [sup EXCEPT ![p] = "gone"]
  /\ ReleasedBy(p)
  /\ UNCHANGED <<wrapper, term, busy, graced, forked, host, product, early>>

(* A foreground command (the helper, with its network timeouts) defers traps. *)
RunHelper(p) ==
  /\ Runs(p, {"idle", "serving"})
  /\ \E s \in 1..MaxBusy : busy' = [busy EXCEPT ![p] = s]
  /\ UNCHANGED <<lock, wrapper, sup, term, graced, forked, host, product, early>>

ForkHost(p) ==
  /\ Runs(p, {"idle"})
  /\ sup' = [sup EXCEPT ![p] = "launching"]
  /\ host' = [host EXCEPT ![p] = "up"]
  /\ UNCHANGED <<lock, wrapper, term, busy, graced, forked, product, early>>

RecordHost(p) ==
  /\ Runs(p, {"launching"})
  /\ sup' = [sup EXCEPT ![p] = "serving"]
  /\ UNCHANGED <<lock, wrapper, term, busy, graced, forked, host, product, early>>

(* The watchdog stopped the host, or it exited and was reaped. *)
LoseHost(p) ==
  /\ Runs(p, {"serving"})
  /\ sup' = [sup EXCEPT ![p] = "idle"]
  /\ host' = [host EXCEPT ![p] = "none"]
  /\ UNCHANGED <<lock, wrapper, term, busy, graced, forked, product, early>>

(* on_term of supervisor.sh: with $child set it stops the host first. *)
TrapDue(p) == term[p] /\ busy[p] = 0 /\ sup[p] \notin {"none", "stopping", "gone"}

ChildForgotten(p) == FALSE
ChildSet(p) == sup[p] = "serving"

Trap(p) ==
  /\ TrapDue(p)
  /\ IF ChildSet(p)
     THEN /\ sup' = [sup EXCEPT ![p] = "stopping"]
          /\ graced' = [graced EXCEPT ![p] = 0]
          /\ UNCHANGED <<lock, forked>>
     ELSE /\ sup' = [sup EXCEPT ![p] = "gone"]
          /\ ReleasedBy(p)
          /\ forked' = [forked EXCEPT ![p] = sup[p] = "launching"]
          /\ UNCHANGED graced
  /\ UNCHANGED <<wrapper, term, busy, host, product, early>>

(* The host is gone, or gets SIGKILL after the grace period. *)
GraceForever(p) == sup[p] = "stopping" /\ host[p] = "none"
GraceOver(p) == sup[p] = "stopping" /\ (host[p] = "none" \/ graced[p] = Grace)

StopHost(p) ==
  /\ GraceOver(p)
  /\ host' = [host EXCEPT ![p] = "none"]
  /\ sup' = [sup EXCEPT ![p] = "gone"]
  /\ ReleasedBy(p)
  /\ graced' = [graced EXCEPT ![p] = 0]
  /\ UNCHANGED <<wrapper, term, busy, forked, product, early>>

-----------------------------------------------------------------------------
(* The world *)

HostExits(p) ==
  /\ host[p] = "up"
  /\ host' = [host EXCEPT ![p] = "none"]
  /\ UNCHANGED <<lock, wrapper, supervisor, product, early>>

ProductExits(p) ==
  /\ prod[p] = "running"
  /\ prod' = [prod EXCEPT ![p] = "zombie"]
  /\ UNCHANGED <<lock, wrapper, supervisor, host, told, early>>

(* A wait for something else (nap), or the shell's SIGCHLD handler, collects *)
(* the product; wait "$PROD" still returns its status afterwards.            *)
ProductReaped(p) ==
  /\ prod[p] = "zombie" /\ Trapping(p)
  /\ prod' = [prod EXCEPT ![p] = "reaped"]
  /\ UNCHANGED <<lock, wrapper, supervisor, host, told, early>>

(* The container ends with its init process (once the wrapper, or the        *)
(* product exec'd in its place, has exited), or is killed as a whole.  What  *)
(* nobody reads any more goes back to its first value.                       *)
ContainerEnds(p) ==
  /\ GoTo(p, "gone")
  /\ handler' = [handler EXCEPT ![p] = "none"]
  /\ sup' = [sup EXCEPT ![p] = "gone"]
  /\ busy' = [busy EXCEPT ![p] = 0]
  /\ host' = [host EXCEPT ![p] = "none"]
  /\ prod' = [prod EXCEPT ![p] = "reaped"]
  /\ ReleasedBy(p)
  /\ napped' = [napped EXCEPT ![p] = 0] /\ graced' = [graced EXCEPT ![p] = 0]
  /\ supKnown' = [supKnown EXCEPT ![p] = FALSE]
  /\ prodKnown' = [prodKnown EXCEPT ![p] = FALSE]
  /\ term' = [term EXCEPT ![p] = FALSE]
  /\ forked' = [forked EXCEPT ![p] = FALSE]
  /\ rc' = [rc EXCEPT ![p] = "none"]
  /\ signals' = [signals EXCEPT ![p] = 0]
  /\ UNCHANGED <<stopping, told, early>>

DueNow(p) ==
  \/ handler[p] \in {"term", "tell"}
  \/ NapsOver(p)
  \/ TrapDue(p)
  \/ GraceOver(p)

Timed(p) == handler[p] = "naps" \/ busy[p] > 0 \/ sup[p] = "stopping"

Second ==
  /\ \A p \in Pods : ~DueNow(p)
  /\ \E p \in Pods : Timed(p)
  /\ napped' = [p \in Pods |-> IF handler[p] = "naps" THEN napped[p] + 1 ELSE napped[p]]
  /\ busy' = [p \in Pods |-> IF busy[p] > 0 THEN busy[p] - 1 ELSE 0]
  /\ graced' = [p \in Pods |-> IF sup[p] = "stopping" THEN graced[p] + 1 ELSE graced[p]]
  /\ UNCHANGED <<lock, main, handler, stopping, supKnown, prodKnown, rc, signals, sup, term,
                 forked, host, product, early>>

-----------------------------------------------------------------------------
Init ==
  /\ lock = NoPod
  /\ main = [p \in Pods |-> "start"]
  /\ handler = [p \in Pods |-> "none"]
  /\ sup = [p \in Pods |-> "none"]
  /\ host = [p \in Pods |-> "none"]
  /\ prod = [p \in Pods |-> "none"]
  /\ rc = [p \in Pods |-> "none"]
  /\ LET zero == [p \in Pods |-> 0]
     IN napped = zero /\ signals = zero /\ busy = zero /\ graced = zero
  /\ LET no == [p \in Pods |-> FALSE]
     IN /\ stopping = no /\ supKnown = no /\ prodKnown = no
        /\ term = no /\ told = no /\ early = no /\ forked = no

WrapperStep(p) ==
  \/ ForkSupervisor(p) \/ RecordSupervisor(p) \/ ForkProduct(p) \/ RecordProduct(p)
  \/ PassOn(p) \/ WaitReturns(p) \/ CheckProduct(p) \/ StopLast(p) \/ Leave(p)
  \/ KillTerm(p) \/ SupervisorStopped(p) \/ TellProduct(p)

SupervisorStops(p) == Trap(p) \/ StopHost(p)

SupervisorStep(p) ==
  \/ TakeLock(p) \/ GiveUp(p) \/ RunHelper(p) \/ ForkHost(p) \/ RecordHost(p) \/ LoseHost(p)
  \/ SupervisorStops(p)

World(p) ==
  \/ StopSignal(p) \/ OtherSignal(p)
  \/ HostExits(p) \/ ProductExits(p) \/ ProductReaped(p) \/ ContainerEnds(p)

Next ==
  \/ Second
  \/ \E p \in Pods :
       ExecProduct(p) \/ WrapperStep(p) \/ SupervisorStep(p) \/ World(p)

Spec == Init /\ [][Next]_vars

(* Time passes, a shell runs its next command and its traps.  The product,   *)
(* the host and the cluster owe nothing: the product may ignore the stop     *)
(* signal, the host SIGTERM.                                                 *)
Fairness ==
  /\ WF_vars(Second)
  /\ WF_vars(\E p \in Pods : WrapperStep(p) \/ SupervisorStops(p))

FairSpec == Spec /\ Fairness

-----------------------------------------------------------------------------
(* Properties *)

(* The type invariant.                                                       *)
TypeOK ==
  /\ lock \in Pods \cup {NoPod}
  /\ main \in [Pods -> MainPath]
  /\ handler \in [Pods -> {"none", "term", "naps", "tell"}]
  /\ rc \in [Pods -> {"none", "own", "signal"}]
  /\ sup \in [Pods -> SupStates]
  /\ host \in [Pods -> {"none", "up"}]
  /\ prod \in [Pods -> {"none", "running", "zombie", "reaped"}]
  /\ napped \in [Pods -> 0..StopWait] /\ signals \in [Pods -> 0..MaxSignals]
  /\ busy \in [Pods -> 0..MaxBusy] /\ graced \in [Pods -> 0..Grace]
  /\ {stopping, supKnown, prodKnown, term, told, early, forked} \subseteq [Pods -> BOOLEAN]

(* The wrapper never leaves its product behind: whatever signals interrupt   *)
(* its wait, it exits only once the product is gone (omnigent-host-launch:   *)
(* 161-166).                                                                 *)
WaitsForProduct ==
  \A p \in Pods : main[p] \in {"final", "leave", "gone"} => prod[p] = "reaped"

(* The order of shutdown: when the product gets the stop signal its          *)
(* supervisor is gone, unless the signal came before SUP was assigned, in    *)
(* which case nobody stops the supervisor (omnigent-host-launch:24-28).      *)
SupervisorStopsFirst ==
  \A p \in Pods : told[p] /\ ~early[p] => sup[p] = "gone"

(* A host runs only under a supervisor that holds the volume's lock, so that *)
(* two containers never run two hosts; the exception is a SIGTERM between    *)
(* the fork of the host and child=$!.                                        *)
HostHoldsLock ==
  \A p \in Pods : host[p] = "up" => lock = p \/ forked[p]

(* Five spare seconds are enough: if no foreground command outlasts them and *)
(* signals do not eat them up, the wrapper never has to kill the supervisor, *)
(* even when the host ignores SIGTERM for its whole grace period.            *)
NeverKilled ==
  \A p \in Pods : handler[p] = "naps" /\ napped[p] = StopWait => sup[p] = "gone"

(* A stop signal reaches the product (or the container ends), however long   *)
(* the supervisor and the host take and wherever the wrapper was.            *)
StopReachesProduct ==
  \A p \in Pods : stopping[p] ~> told[p] \/ main[p] = "gone"

(* A stopped container gives up the volume although its product may go on    *)
(* for ever.                                                                 *)
StopFreesVolume ==
  \A p \in Pods : stopping[p] /\ ~early[p] ~> sup[p] = "gone" /\ lock # p

(* "one supervisor (and so one host) per volume" (supervisor.sh:42), leaving *)
(* out the hosts lost between fork and child=$!.                             *)
OneHostPerVolume ==
  \A p, q \in Pods :
    host[p] = "up" /\ host[q] = "up" /\ ~forked[p] /\ ~forked[q] => p = q
=============================================================================
