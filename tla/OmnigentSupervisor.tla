------------------------- MODULE OmnigentSupervisor -------------------------
(***************************************************************************)
(* The background supervisor of the omnigent-host kit                      *)
(* (paas/shared/omnigent-host/supervisor.sh): one shell process that waits *)
(* for the tenant's login, runs `omnigent host', re-checks the login while *)
(* the host runs, and backs off when the host exits.                       *)
(*                                                                         *)
(* A shell script has no threads; what races with it is everything it      *)
(* looks at: the tenant's login/logout/reset-id (two files), the Omnigent  *)
(* server, the host process and the signals.  The program counter stops    *)
(* wherever the script sleeps, waits, runs another program or has sampled  *)
(* something it uses later, so that the world may move in between.         *)
(*                                                                         *)
(* Time is counted in ticks of OG_TICK_SECONDS (naps of OG_IDLE_SECONDS    *)
(* while waiting for a login).  A variable the script does not read again  *)
(* before it assigns it holds a fixed value meanwhile.                     *)
(***************************************************************************)
EXTENDS Naturals

CONSTANTS
  Logins,        \* (server, account) pairs the tenant may log in with
  NoFile,        \* auth_tokens.json does not exist (or is empty)
  NoEntry,       \* it exists, without a token for the configured server
  WatchTicks,    \* OG_WATCH_SECONDS
  UnreachTicks,  \* OG_UNREACHABLE_PROBE_SECONDS
  ReprobeNaps,   \* OG_REPROBE_SECONDS
  HealthyTicks,  \* OG_HEALTHY_SECONDS
  BackoffMin,    \* the first backoff (5 s)
  BackoffMax,    \* OG_BACKOFF_MAX
  Backoff78Min,  \* OG_BACKOFF_78_MIN
  Backoff78Max,  \* OG_BACKOFF_78_MAX
  MaxWrites,     \* bound: writes of the tenant or the host to the two files
  MaxExits,      \* bound: times the host exits by itself
  MaxFaults      \* bound: lone 401 answers and crashes of the helper

ASSUME SupervisorAssumption ==
  /\ NoFile \notin Logins /\ NoEntry \notin Logins /\ NoFile # NoEntry
  /\ {WatchTicks, UnreachTicks, ReprobeNaps, HealthyTicks} \subseteq Nat \ {0}
  /\ {BackoffMin, BackoffMax, Backoff78Min, Backoff78Max} \subseteq Nat \ {0}
  /\ BackoffMin <= BackoffMax /\ Backoff78Min <= Backoff78Max
  /\ {MaxWrites, MaxExits, MaxFaults} \subseteq Nat

VARIABLES
  (* the world *)
  tokens,        \* the login stored on the volume
  changed,       \* fingerprints of the two files that no longer match them
  serverUp,      \* the server answers
  granted,       \* the server accepts the stored login
  lock,          \* supervisor.lock
  host,          \* the host process
  exitKind,      \* how it exited (exit code and log tail)
  startLog,      \* what tail -n 400 host.log shows of this start
  writes, exits, faults,
  (* the supervisor *)
  pc, caller,    \* where it is; who called probe_confirmed
  rc, found,     \* result of the last probe: code and P_SERVER/P_ACCOUNT
  served,        \* SERVER/ACCOUNT
  age,           \* naps since _last_probe
  left,          \* ticks until _next / _end
  ran,           \* ticks since STARTED
  backoff, backoff78,
  child,         \* $child holds the host's pid
  stopReason,
  outage,        \* UNREACH_AT, and whether host.log has a new "Connected as"
  st, detail,    \* the status file
  (* history, read by properties only *)
  rejs,          \* consecutive rejections the server answered (capped at 2)
  steady,        \* since this host was spawned its login stayed stored and valid
  failed         \* the host died by itself and nothing has excused a restart yet

files == <<tokens, changed, writes, granted>>
hostVars == <<host, exitKind, startLog, exits>>
world == <<files, serverUp, lock, hostVars>>
probed == <<rc, found, faults, rejs>>
backoffs == <<backoff, backoff78>>
status == <<st, detail>>
supVars == <<pc, caller, rc, found, served, age, left, ran, backoffs, child, stopReason,
             status>>
vars == <<world, faults, supVars, outage, rejs, steady, failed>>

-----------------------------------------------------------------------------
(* Verdicts: the exit codes of `og_helper.py state'. *)
Ok == 0
Absent == 3
Rejected == 4
Unreachable == 5
Verdicts == {Ok, Absent, Rejected, Unreachable}

Stored == Logins \cup {NoFile, NoEntry}
Running == {"alive", "connected"}
ExitKinds == {"rc78-409", "rc78", "already-running", "other"}
\* Statuses that tell the tenant no host is up, and those that say one is.
OfflineStates == {"waiting-login", "login-expired", "needs-reset-id",
                  "host-error", "duplicate-host", "backoff"}
OnlineStates == {"starting", "running"}
States == OfflineStates \cup OnlineStates
            \cup {"none", "error", "image-too-old", "stopped"}
PCs == {"boot", "lock", "checks", "login", "probe", "confirm", "verdict", "spawn",
        "spawned", "watch", "stopping", "backoff", "term", "down"}
Operating == pc \notin {"boot", "lock", "checks", "term", "down"}

(* fingerprint() is only ever compared for equality: what matters of a       *)
(* sample is whether the files changed since.  "look" is _last_fp and _fp    *)
(* (in `changed' from the start: _last_fp=unset), "exit" is EXIT_FP; "death" *)
(* is history, the moment the host died.                                     *)
Samples == {"look", "exit", "death"}

AtMostUncapped(n, cap) == n                      \* AtMost without its cap
AtMost(n, cap) == IF n < cap THEN n ELSE cap
Tick(n) == IF n > 0 THEN n - 1 ELSE 0
SetStatus(s, d) == st' = s /\ detail' = d
HostForgotten == startLog' = "fresh" /\ child' = FALSE /\ UNCHANGED host
HostReaped == host' = "none" /\ startLog' = "fresh" /\ child' = FALSE
Accepted == serverUp /\ granted

(* cmd_state seen from the shell: what a probe may answer in this state.     *)
(* `login' is what P_SERVER/P_ACCOUNT will hold.                             *)
Answers ==
  IF tokens \notin Logins THEN {[code |-> Absent, login |-> NoFile]}
  ELSE {[login |-> tokens,
         code |-> IF ~serverUp THEN Unreachable
                  ELSE IF granted THEN Ok ELSE Rejected]}
(* A lone 401 for a login that is fine, or a helper that crashed (any other  *)
(* exit code counts as 5, with P_SERVER and P_ACCOUNT empty).                *)
FaultyAnswers ==
  {[code |-> Unreachable, login |-> NoFile]}
    \cup (IF tokens \in Logins /\ serverUp
          THEN {[code |-> Rejected, login |-> tokens]} ELSE {})

(* probe: one run of the helper *)
Probe ==
  \E a \in Answers \cup FaultyAnswers :
    /\ rc' = a.code /\ found' = a.login
    /\ rejs' = IF a.code = Rejected THEN AtMost(rejs + 1, 2) ELSE 0
    /\ \/ a \in Answers /\ UNCHANGED faults
       \/ a \notin Answers /\ faults < MaxFaults /\ faults' = faults + 1

-----------------------------------------------------------------------------
(* Start of the script, up to the main loop *)

(* The process is gone, and with it fd 9. *)
Exit == pc' = "down" /\ lock' = IF lock = "ours" THEN "free" ELSE lock

(* A condition this container cannot fix: record it and exit 0. *)
GiveUp(s) == Exit /\ SetStatus(s, "none")

Boot ==
  /\ pc = "boot"
  /\ \/ Exit /\ UNCHANGED status                            \* OG_HOST_ENABLED=0
     \/ GiveUp("error")                                     \* state dir unwritable
     \/ GiveUp("image-too-old")                             \* no flock
     \/ pc' = "lock" /\ UNCHANGED <<lock, status>>
  /\ UNCHANGED <<files, serverUp, hostVars, probed, caller, served, age, left, ran,
                 backoffs, child, stopReason, outage, steady, failed>>

(* flock -n 9, retried every OG_LOCK_RETRY_SECONDS *)
TryLock ==
  /\ pc = "lock"
  /\ lock = "free"
  /\ lock' = "ours"
  /\ pc' = "checks"
  /\ UNCHANGED <<files, serverUp, hostVars, probed, caller, served, age, left, ran,
                 backoffs, child, stopReason, outage, status, steady, failed>>

(* CLI, python and tmux, then the main loop's entry *)
Checks ==
  /\ pc = "checks"
  /\ \/ GiveUp("image-too-old") /\ UNCHANGED backoffs
     \/ /\ pc' = "login"
        /\ backoff' = BackoffMin
        /\ backoff78' = Backoff78Min
        /\ UNCHANGED <<lock, status>>
  /\ UNCHANGED <<files, serverUp, hostVars, probed, caller, served, age, left, ran,
                 child, stopReason, outage, steady, failed>>

-----------------------------------------------------------------------------
(* probe_confirmed: a rejection only counts when it is given twice in a row *)

NeverConfirmed(code) == FALSE
NeedsConfirmation(code) == code = Rejected

FirstProbe ==
  /\ pc = "probe"
  /\ Probe
  /\ pc' = IF NeedsConfirmation(rc') THEN "confirm" ELSE "verdict"
  /\ UNCHANGED <<world, caller, served, age, left, ran, backoffs, child, stopReason,
                 outage, status, steady, failed>>

(* ... after a nap of OG_CONFIRM_SECONDS at pc = "confirm" *)
SecondProbe ==
  /\ pc = "confirm"
  /\ Probe
  /\ pc' = "verdict"
  /\ ran' = IF caller = "watch" THEN AtMost(ran + 1, HealthyTicks) ELSE ran
  /\ UNCHANGED <<world, caller, served, age, left, backoffs, child, stopReason,
                 outage, status, steady, failed>>

(* Whoever called reads the verdict and samples the files again: a probe may *)
(* itself rewrite the token file, so the sample is taken after it.           *)
Returned == caller' = "none" /\ found' = NoFile /\ UNCHANGED <<faults, rejs>>
Resample(s) == changed' = changed \ {s}

-----------------------------------------------------------------------------
(* wait_for_login *)

EnterLoginKeepsSample == /\ pc' = "login" /\ rc' = Absent /\ age' = 0 /\ left' = 0
                         /\ UNCHANGED changed
EnterLogin == /\ pc' = "login" /\ rc' = Absent /\ age' = 0 /\ left' = 0
              /\ changed' = Samples                  \* _last_fp=unset

ShowLoginState(code) ==
  SetStatus(IF code = Absent THEN "waiting-login" ELSE "login-expired", "none")

ReprobeOnlyOnChange == "look" \in changed
ReprobeDue == "look" \in changed \/ age >= ReprobeNaps

(* One turn of the loop and the nap of OG_IDLE_SECONDS after it.  Without a  *)
(* token file there is no probe at all; with one, only when the files        *)
(* changed or the re-probe period is over.                                   *)
LoginLook ==
  /\ pc = "login"
  /\ \/ /\ tokens = NoFile
        /\ changed' = changed \cup {"look"}
        /\ rc' = Absent
        /\ age' = 0
        /\ ShowLoginState(Absent)
        /\ UNCHANGED <<pc, caller>>
     \/ /\ tokens # NoFile
        /\ ReprobeDue
        /\ pc' = "probe"
        /\ caller' = "login"
        /\ UNCHANGED <<changed, rc, age, status>>
     \/ /\ tokens # NoFile
        /\ ~ReprobeDue
        /\ age' = AtMost(age + 1, ReprobeNaps)
        /\ ShowLoginState(rc)
        /\ UNCHANGED <<pc, caller, changed, rc>>
  /\ UNCHANGED <<tokens, writes, granted, serverUp, lock, hostVars, faults, found, served,
                 left, ran, backoffs, child, stopReason, outage, rejs, steady, failed>>

LoginVerdict ==
  /\ pc = "verdict" /\ caller = "login"
  /\ Returned
  /\ Resample("look")
  /\ IF rc \in {Ok, Unreachable}
     THEN /\ served' = found
          /\ pc' = "spawn"
          /\ age' = 0
          /\ UNCHANGED status
     ELSE /\ ShowLoginState(rc)
          /\ pc' = "login"
          /\ age' = 1                             \* the nap that follows
          /\ UNCHANGED served
  /\ UNCHANGED <<tokens, writes, granted, serverUp, lock, hostVars, rc, left, ran, backoffs,
                 child, stopReason, outage, steady, failed>>

-----------------------------------------------------------------------------
(* start_host, in two steps: the process exists before $child is assigned *)

Spawn ==
  /\ pc = "spawn"
  /\ host' = "alive"
  /\ startLog' = "fresh"
  /\ ran' = 0
  /\ pc' = "spawned"
  /\ steady' = (tokens = served /\ granted)
  /\ UNCHANGED <<files, serverUp, lock, exitKind, exits, probed, caller, served, age, left,
                 backoffs, child, stopReason, outage, status, failed>>

(* child=$!, then watch_host up to its loop *)
RecordHost ==
  /\ pc = "spawned"
  /\ child' = TRUE
  /\ SetStatus("starting", "none")
  /\ stopReason' = "none"
  /\ outage' = "none"
  /\ left' = WatchTicks
  /\ Resample("look")
  /\ pc' = "watch"
  /\ UNCHANGED <<tokens, writes, granted, serverUp, lock, hostVars, probed, caller, served,
                 age, ran, backoffs, steady, failed>>

-----------------------------------------------------------------------------
(* watch_host *)

WatchOnlyChanges == "look" \in changed
WatchDue == left <= 1 \/ "look" \in changed
HostConnected == startLog = "connected"

(* One tick with the host alive: follow host.log, then probe when the watch  *)
(* period is over or the files changed.                                      *)
WatchTick ==
  /\ pc = "watch"
  /\ host \in Running
  /\ ran' = AtMost(ran + 1, HealthyTicks)
  /\ LET up   == st = "starting" /\ HostConnected
         back == outage = "over"
     IN /\ st' = IF up THEN "running" ELSE st
        /\ detail' = IF up \/ (back /\ st' = "running") THEN "connected" ELSE detail
        /\ outage' = IF back THEN "none" ELSE outage
  /\ IF WatchDue
     THEN pc' = "probe" /\ caller' = "watch" /\ left' = 0
     ELSE left' = Tick(left) /\ UNCHANGED <<pc, caller>>
  /\ UNCHANGED <<world, probed, served, age, backoffs, child, stopReason, steady, failed>>

StopFor(reason) == /\ stopReason' = reason
                   /\ pc' = "stopping"
                   /\ UNCHANGED <<detail, outage>>

LoginFineKeepsDetail == outage' = "none" /\ UNCHANGED detail
LoginFine == /\ outage' = "none"
             /\ detail' = IF st = "running" THEN "connected" ELSE detail

KeepsRunning == pc' = "watch" /\ UNCHANGED stopReason

(* What the watchdog does with a verdict *)
WatchVerdict ==
  /\ pc = "verdict" /\ caller = "watch"
  /\ Returned
  /\ Resample("look")
  /\ left' = IF rc = Unreachable /\ st = "running" /\ UnreachTicks < WatchTicks
             THEN UnreachTicks ELSE WatchTicks
  /\ \/ rc \in {Absent, Rejected} /\ StopFor("login")
     \/ rc = Ok /\ found # served /\ StopFor("relogin")
     \/ /\ rc = Ok /\ found = served
        /\ LoginFine
        /\ KeepsRunning
     \/ /\ rc = Unreachable
        /\ IF st = "running"
           THEN /\ detail' = "unreachable"
                /\ outage' = IF outage = "none" THEN "noted" ELSE outage
           ELSE UNCHANGED <<detail, outage>>
        /\ KeepsRunning
  /\ rc' = Absent
  /\ UNCHANGED <<tokens, writes, granted, serverUp, lock, hostVars, served, age, ran,
                 backoffs, child, st, steady, failed>>

(* stop_host (TERM, then KILL to the group after the grace period) as called *)
(* by the watchdog, and the turn of the main loop after it                   *)
StopHost ==
  /\ pc = "stopping"
  /\ HostReaped
  /\ exitKind' = "other"
  /\ EnterLogin
  /\ ran' = 0
  /\ steady' = FALSE
  /\ failed' = FALSE
  /\ UNCHANGED <<tokens, writes, granted, serverUp, lock, exits, caller, found, faults,
                 served, backoffs, stopReason, outage, status, rejs>>

-----------------------------------------------------------------------------
(* The host exited by itself: main loop after watch_host, and backoff_wait *)

BackOff(s, ticks) == /\ SetStatus(s, "none")
                     /\ pc' = "backoff"
                     /\ left' = ticks
                     /\ UNCHANGED caller

(* Noticed at a tick.  EXIT_FP is sampled here, after the host was reaped. *)
HostExited ==
  /\ pc = "watch"
  /\ host = "dead"
  /\ HostReaped
  /\ Resample("exit")
  /\ LET healthy == ran + 1 >= HealthyTicks
     IN /\ backoff' = IF healthy THEN BackoffMin ELSE backoff
        /\ backoff78' = IF healthy THEN Backoff78Min ELSE backoff78
  /\ ran' = 0
  /\ \/ exitKind = "rc78-409" /\ BackOff("needs-reset-id", backoff78')
     \/ /\ exitKind = "rc78"
        /\ pc' = "probe" /\ caller' = "exit78" /\ UNCHANGED <<left, status>>
     \/ exitKind = "already-running" /\ BackOff("duplicate-host", backoff')
     \/ exitKind = "other" /\ BackOff("backoff", backoff')
  /\ steady' = FALSE
  /\ UNCHANGED <<tokens, writes, granted, serverUp, lock, exitKind, exits, probed, served,
                 age, stopReason, outage, failed>>

(* Exit 78 without a 409: a login problem goes back to wait_for_login. *)
Exit78Verdict ==
  /\ pc = "verdict" /\ caller = "exit78"
  /\ Returned
  /\ IF rc \in {Absent, Rejected}
     THEN /\ EnterLogin
          /\ exitKind' = "other"
          /\ failed' = FALSE
          /\ UNCHANGED status
     ELSE /\ SetStatus("host-error", "none")
          /\ pc' = "backoff"
          /\ left' = backoff78
          /\ rc' = Absent
          /\ UNCHANGED <<changed, age, exitKind, failed>>
  /\ UNCHANGED <<tokens, writes, granted, serverUp, lock, host, startLog, exits, served, ran,
                 backoffs, child, stopReason, outage, steady>>

WaitOverEarly == left <= 1 \/ "exit" \in changed
WaitOver == left = 0 \/ "exit" \in changed

(* One nap of backoff_wait *)
BackoffNap ==
  /\ pc = "backoff"
  /\ ~WaitOver
  /\ left' = Tick(left)
  /\ UNCHANGED <<world, probed, pc, caller, served, age, ran, backoffs, child, stopReason,
                 outage, status, steady, failed>>

(* The wait is over, or the files changed since EXIT_FP; double the backoff  *)
(* of the branch that waited.                                                *)
BackoffOver ==
  /\ pc = "backoff"
  /\ WaitOver
  /\ IF exitKind \in {"rc78-409", "rc78"}
     THEN backoff78' = AtMost(2 * backoff78, Backoff78Max) /\ UNCHANGED backoff
     ELSE backoff' = AtMost(2 * backoff, BackoffMax) /\ UNCHANGED backoff78
  /\ EnterLogin
  /\ exitKind' = "other"
  /\ failed' = (failed /\ left > 0 /\ "death" \notin changed)
  /\ UNCHANGED <<tokens, writes, granted, serverUp, lock, host, startLog, exits, found,
                 faults, caller, served, ran, child, stopReason, outage, status, rejs,
                 steady>>

-----------------------------------------------------------------------------
(* Signals: the trap runs between two commands of the script, wherever it is. *)

(* on_term, up to the wait for the host *)
OnTerm ==
  /\ pc \notin {"term", "down"}
  /\ IF child
     THEN pc' = "term" /\ UNCHANGED <<lock, status>>
     ELSE Exit /\ SetStatus("stopped", "none")
  /\ UNCHANGED <<files, serverUp, hostVars, probed, caller, served, age, left, ran,
                 backoffs, child, stopReason, outage, steady, failed>>

(* stop_host called by the trap; later signals are ignored *)
TermStop ==
  /\ pc = "term"
  /\ HostReaped
  /\ Exit
  /\ SetStatus("stopped", "none")
  /\ UNCHANGED <<files, serverUp, exitKind, exits, probed, caller, served, age, left, ran,
                 backoffs, stopReason, outage, steady, failed>>

-----------------------------------------------------------------------------
(* The world: the tenant's terminal, the server, the host process, another   *)
(* supervisor on the same volume.  It is followed while the supervisor runs. *)

WorldMoves == pc \notin {"boot", "lock", "checks", "down"}

(* A rewrite in the same second with the same size leaves stat's answer as   *)
(* it was; creating or removing the file never does.                         *)
WriteFiles(t) ==
  /\ WorldMoves
  /\ writes < MaxWrites
  /\ writes' = writes + 1
  /\ tokens' = t
  /\ \/ changed' = Samples
     \/ (tokens = NoFile <=> t = NoFile) /\ UNCHANGED changed
  /\ steady' = (steady /\ t = served)
  /\ UNCHANGED <<serverUp, lock, hostVars, faults, rejs, supVars, outage, failed>>

(* omnigent login <url> *)
Login(l) == WriteFiles(l) /\ granted' = TRUE
(* rm auth_tokens.json, or a config.yaml that names a server without a token *)
Logout == (\E t \in {NoFile, NoEntry} : WriteFiles(t)) /\ granted' = FALSE
(* omnigent host reset-id, or the host itself writing its id to config.yaml *)
WriteConfig == WriteFiles(tokens) /\ UNCHANGED granted

Revoke ==
  /\ WorldMoves
  /\ granted
  /\ granted' = FALSE
  /\ steady' = FALSE
  /\ UNCHANGED <<tokens, changed, writes, serverUp, lock, hostVars, faults, rejs, supVars,
                 outage, failed>>

ServerFlips ==
  /\ WorldMoves
  /\ serverUp' = ~serverUp
  /\ UNCHANGED <<files, lock, hostVars, faults, rejs, supVars, outage, steady, failed>>

(* The host dials out with the stored token and prints "Connected as". *)
HostConnects ==
  /\ WorldMoves
  /\ host = "alive"
  /\ tokens = served /\ Accepted
  /\ host' = "connected"
  /\ startLog' = IF startLog = "fresh" THEN "connected" ELSE startLog
  /\ outage' = IF outage = "noted" THEN "over" ELSE outage
  /\ UNCHANGED <<files, serverUp, lock, exitKind, exits, faults, rejs, supVars, steady,
                 failed>>

HostLosesConnection ==
  /\ WorldMoves
  /\ host = "connected"
  /\ ~(tokens = served /\ Accepted)
  /\ host' = "alive"
  /\ UNCHANGED <<files, serverUp, lock, exitKind, startLog, exits, faults, rejs, supVars,
                 outage, steady, failed>>

(* 400 more lines (or a rotation) push the start mark out of the tail the    *)
(* supervisor reads.                                                         *)
LogScrolls ==
  /\ WorldMoves
  /\ host \in Running
  /\ startLog # "scrolled" /\ st # "running"
  /\ startLog' = "scrolled"
  /\ UNCHANGED <<files, serverUp, lock, host, exitKind, exits, faults, rejs, supVars,
                 outage, steady, failed>>

HostDies(k) ==
  /\ WorldMoves
  /\ host \in Running
  /\ exits < MaxExits
  /\ exits' = exits + 1
  /\ host' = "dead"
  /\ exitKind' = k
  /\ Resample("death")
  /\ failed' = TRUE
  /\ UNCHANGED <<tokens, writes, granted, serverUp, lock, startLog, faults, rejs, supVars,
                 outage, steady>>

(* The other supervisor exits: the kernel drops its flock. *)
LockReleased ==
  /\ pc = "lock"
  /\ lock = "other"
  /\ lock' = "free"
  /\ UNCHANGED <<files, serverUp, hostVars, faults, rejs, supVars, outage, steady, failed>>

-----------------------------------------------------------------------------
Init ==
  /\ tokens \in Stored
  /\ changed = Samples
  /\ serverUp \in BOOLEAN
  /\ granted \in BOOLEAN /\ (granted => tokens \in Logins)
  /\ lock \in {"free", "other"}
  /\ host = "none" /\ exitKind = "other" /\ startLog = "fresh"
  /\ writes = 0 /\ exits = 0 /\ faults = 0
  /\ pc = "boot" /\ caller = "none"
  /\ rc = Absent /\ found = NoFile /\ served = NoFile
  /\ age = 0 /\ left = 0 /\ ran = 0
  /\ backoff = BackoffMin /\ backoff78 = Backoff78Min
  /\ child = FALSE /\ stopReason = "none" /\ outage = "none"
  /\ st = "none" /\ detail = "none"
  /\ rejs = 0 /\ steady = FALSE /\ failed = FALSE

(* What the script does by itself, signals aside *)
Supervise ==
  \/ Boot \/ TryLock \/ Checks
  \/ LoginLook \/ LoginVerdict
  \/ FirstProbe \/ SecondProbe
  \/ Spawn \/ RecordHost
  \/ WatchTick \/ WatchVerdict \/ StopHost
  \/ HostExited \/ Exit78Verdict \/ BackoffNap \/ BackoffOver
  \/ TermStop

Tenant ==
  \/ \E l \in Logins : Login(l)
  \/ Logout
  \/ WriteConfig

Server == Revoke \/ ServerFlips

HostProcess ==
  \/ HostConnects
  \/ HostLosesConnection
  \/ LogScrolls
  \/ \E k \in ExitKinds : HostDies(k)

Next == Supervise \/ OnTerm \/ Tenant \/ Server \/ HostProcess \/ LockReleased

Spec == Init /\ [][Next]_vars

(* The script never blocks for good (every probe, sleep and wait returns),   *)
(* and the host keeps dialling by itself.  The tenant, the server and the    *)
(* signals owe nothing.                                                      *)
Fairness == WF_vars(Supervise) /\ WF_vars(HostConnects)

FairSpec == Spec /\ Fairness

-----------------------------------------------------------------------------
(* Properties *)

(* The type invariant: every variable holds a value the script can hold; the *)
(* backoffs stay between their floor and their cap however often they double *)
(* (supervisor.sh:757, 770).                                                 *)
WorldTypes ==
  /\ tokens \in Stored /\ changed \subseteq Samples
  /\ serverUp \in BOOLEAN /\ granted \in BOOLEAN
  /\ lock \in {"free", "other", "ours"}
  /\ host \in Running \cup {"none", "dead"}
  /\ exitKind \in ExitKinds
  /\ startLog \in {"fresh", "connected", "scrolled"}
  /\ steady \in BOOLEAN /\ failed \in BOOLEAN

ScriptTypes ==
  /\ pc \in PCs /\ caller \in {"none", "login", "watch", "exit78"}
  /\ rc \in Verdicts /\ {found, served} \subseteq Logins \cup {NoFile}
  /\ child \in BOOLEAN
  /\ stopReason \in {"none", "login", "relogin"}
  /\ outage \in {"none", "noted", "over"}
  /\ st \in States /\ detail \in {"none", "connected", "unreachable"}

BoundTypes ==
  /\ writes \in 0..MaxWrites /\ exits \in 0..MaxExits /\ faults \in 0..MaxFaults
  /\ rejs \in 0..2

ClockTypes == age \in 0..ReprobeNaps /\ left \in Nat /\ ran \in 0..HealthyTicks

BackoffTypes ==
  /\ backoff \in BackoffMin..BackoffMax
  /\ backoff78 \in Backoff78Min..Backoff78Max

TypeOK == WorldTypes /\ ScriptTypes /\ BoundTypes /\ ClockTypes /\ BackoffTypes

(* What omnigent-host-status tells the tenant is true while the supervisor   *)
(* is up: an offline status means no host of this supervisor runs (but for   *)
(* the moment between fork and the next status); an online one outlives the  *)
(* host only while the login is being looked at again; and only the holder   *)
(* of the volume's lock ever has a host.                                     *)
StatusTruthful ==
  /\ host \in Running /\ st \in OfflineStates => pc = "spawned"
  /\ st \in OnlineStates /\ ~child =>
       \/ pc \in {"probe", "confirm", "verdict", "spawn", "spawned"}
       \/ pc = "login" /\ "look" \in changed
  /\ host # "none" /\ pc # "down" => lock = "ours"

(* The watchdog stops a host only for a reason the world gave: since the     *)
(* host was spawned its login was replaced, removed or revoked, or the       *)
(* server rejected it twice in a row.  Outages, a lone 401, a crashed helper *)
(* never suffice (supervisor.sh:23-26).                                      *)
OnlyAProvenLossStopsHost ==
  [][pc' = "stopping" /\ pc # "stopping" => ~steady \/ rejs = 2]_vars

(* A host that died by itself is not started again before its backoff is     *)
(* over, unless the files really changed after its death or the login turned *)
(* out to be gone: no interleaving produces a restart storm.                 *)
NoUnexcusedRestart == pc = "spawn" => ~failed

(* The supervisor implements the abstract service: the host process gives    *)
(* the mode, the history the reasons.                                        *)
serving == pc # "down" /\ host \in Running

Service == INSTANCE HostService WITH
  NoLogin <- NoFile,
  mode <- IF pc = "down" THEN "down"
          ELSE IF host \in Running THEN "serving"
          ELSE IF failed THEN "failed" ELSE "idle",
  login <- IF serving THEN served ELSE NoFile,
  lost <- serving /\ (~steady \/ rejs = 2)

(* Never two hosts, never a host that changes its login, no deliberate stop  *)
(* without a lost login, and no start out of a failure: each step of the     *)
(* script, the world and the signals is a step of HostService or none.       *)
ImplementsHostService == Service!ServiceSpec

Stable(l) == Operating /\ tokens = l /\ Accepted

(* Whatever happened before (logins in the blind spots of the fingerprint,   *)
(* outages, rejections, exits, a host started for another login): once one   *)
(* valid login stays on the volume and the server stays up, the host ends up *)
(* connected with exactly that login.                                        *)
StableLoginServed ==
  \A l \in Logins : <>[]Stable(l) => <>[](host = "connected" /\ served = l)

(* A login that stays revoked or removed takes the host down for good, and   *)
(* the tenant is asked to log in, as long as the server answers.             *)
DeadLoginStopsHost ==
  /\ \A l \in Logins :
       <>[](Operating /\ tokens = l /\ serverUp /\ ~granted)
         => <>[](host = "none" /\ st = "login-expired")
  /\ <>[](Operating /\ tokens \notin Logins)
       => <>[](host = "none" /\ st = "waiting-login")

(* "server unreachable right now" does not outlive the outage.               *)
OutageDetailEnds ==
  \A l \in Logins :
    <>[](Stable(l) /\ st = "running") => <>[](detail = "connected")

(* "On SIGTERM the supervisor stops the host [...], writes stopped".         *)
StoppedMeansNoHost == st = "stopped" => host \notin Running
=============================================================================
