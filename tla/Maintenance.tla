----------------------------- MODULE Maintenance -----------------------------
(***************************************************************************)
(* The self-update of a directory node (maintenance.py): a web request     *)
(* queues a durable job and asks systemd to start an independent worker;   *)
(* the worker stops the web service, reinstalls the package, starts the    *)
(* service again and writes the result.  Three kinds of actors share the   *)
(* state directory and the service: the web requests (which die with the   *)
(* web process, possibly stopped by their own worker), the worker of each  *)
(* job, and the systemd user manager, which kills an overdue worker and    *)
(* runs its ExecStopPost.                                                  *)
(*                                                                         *)
(* Job records are written with atomic_json (a unique temporary file and a *)
(* rename), so a write is one step, and every access to them is inside     *)
(* flock(LOCK_EX).  A locked section that writes once is one action; the   *)
(* section of start(), which writes up to three times, is split, because   *)
(* the process may die between two of its writes.                          *)
(***************************************************************************)
EXTENDS Integers

CONSTANTS Jobs,          \* job identifiers (uuid4: never drawn twice)
          NoJob,
          Requests,      \* concurrent POST /api/maintenance/update requests
          NoOne,         \* the lock is free
          LaunchMax,     \* longest time from start()'s clock sample to the
                         \*   start of the unit, or to its being given up
          RunMax,        \* RuntimeMaxSec of the unit (900 s)
          StopMax,       \* TimeoutStopSec of the unit (20 s)
          StaleAfter,    \* age at which an active job reads as failed (960 s)
          MaxTime,       \* bound on the clock
          LastStart,     \* bound: no update is requested after this time
          MaxCrashes     \* bound on deaths of the web process and reboots

ASSUME IdAssumption == NoJob \notin Jobs /\ NoOne \notin Requests

ASSUME BoundAssumption ==
  {LaunchMax, RunMax, StopMax, StaleAfter, MaxTime, LastStart, MaxCrashes} \subseteq Nat

(* "within the job's one-minute deadline grace" (API.md, 491-493): a job   *)
(* is not called stale while its worker may still be alive.                *)
ASSUME GraceAssumption == LaunchMax + RunMax + StopMax <= StaleAfter

VARIABLES clock,         \* the wall clock, in which started_at is written
          lock,          \* the request inside start()'s locked section
          jobs,          \* the <id>.json files
          latest,        \* latest-job.json
          rpc,           \* where each request of start() is
          rjob,          \* the job it created
          rnow,          \* its clock sample
          failure,       \* how its launch failed, and what systemd said
          worker,        \* the transient unit of each job and its process
          launched,      \* when the unit started
          result,        \* the outcome the worker holds before storing it
          web,           \* service-directory.service
          package,       \* the job that installed the present package
          serving,       \* the package the running web process was started from
          intact,        \* the package and the unit file can be started
          crashes

files == <<jobs, latest>>
requests == <<rpc, rjob, rnow, failure>>
units == <<worker, launched, result>>
service == <<web, package, serving, intact>>
vars == <<clock, lock, files, requests, units, service, crashes>>
-----------------------------------------------------------------------------
Times == 0 .. MaxTime
Active == {"queued", "running"}
Terminal == {"succeeded", "failed"}

(* `note' stands for the message: why a job failed.                        *)
Record == [status : {"absent"} \union Active \union Terminal,
           started : Times,
           note : {"none", "stale", "launch", "observed", "worker"}]

Absent == [status |-> "absent", started |-> 0, note |-> "none"]

Ended(job, status, why) == [job EXCEPT !.status = status, !.note = why]

Failed(job, why) == Ended(job, "failed", why)

(* Life of a transient unit: requested, its process started, the process   *)
(* in each stage of run_worker and run_upgrade, ExecStopPost after a clean *)
(* or an unclean end, failed but not yet collected, gone.                  *)
Upgrading == {"stop", "install", "start", "verify", "report"}
Process == {"spawned"} \union Upgrading
Alive == {"pending"} \union Process
UnitState == {"none", "post", "failpost", "failed", "gone"} \union Alive

(* Mutants of IsStale: stale at the deadline already; a final status can   *)
(* be stale; a queued job is never stale.                                  *)
IsStaleTooSoon(job, now) == job.status \in Active /\ now - job.started >= StaleAfter
IsStaleAnyStatus(job, now) == job.status # "absent" /\ now - job.started > StaleAfter
IsStaleRunning(job, now) == job.status = "running" /\ now - job.started > StaleAfter

IsStale(job, now) == job.status \in Active /\ now - job.started > StaleAfter

(* _reconcile_stale_job_view                                               *)
Reconciled(job, now) == IF IsStale(job, now) THEN Failed(job, "stale") ELSE job

(* _latest_job_locked, with the stale record stored back                   *)
LatestJob(now) == IF latest = NoJob THEN Absent ELSE Reconciled(jobs[latest], now)

(* observe_transient_unit: what systemctl show says of the unit; nothing   *)
(* at all if the command fails or takes more than two seconds.             *)
Observations(j) ==
  {"unknown",
   CASE worker[j] = "failed"          -> "failed"
     [] worker[j] \in {"none", "gone"} -> "notfound"
     [] OTHER                         -> "alive"}
-----------------------------------------------------------------------------
Init == /\ clock = 0
        /\ lock = NoOne
        /\ jobs = [j \in Jobs |-> Absent]
        /\ latest = NoJob
        /\ rpc = [r \in Requests |-> "idle"]
        /\ rjob = [r \in Requests |-> NoJob]
        /\ rnow = [r \in Requests |-> 0]
        /\ failure = [r \in Requests |-> "none"]
        /\ worker = [j \in Jobs |-> "none"]
        /\ launched = [j \in Jobs |-> 0]
        /\ result = [j \in Jobs |-> "failed"]
        /\ web = "up"
        /\ package = NoJob
        /\ serving = NoJob
        /\ intact = TRUE
        /\ crashes = 0

(* Time passes, but not past the moment by which a launch or a worker has  *)
(* ended: the caller's 10 s timeout, RuntimeMaxSec and TimeoutStopSec.     *)
Tick ==
  /\ clock < MaxTime
  /\ \A r \in Requests :
       rpc[r] \in {"decide", "store", "point", "launch"} => clock < rnow[r] + LaunchMax
  /\ \A j \in Jobs :
       /\ worker[j] = "pending" => clock < jobs[j].started + LaunchMax
       /\ worker[j] \in Process => clock < launched[j] + RunMax + StopMax
  /\ clock' = clock + 1
  /\ UNCHANGED <<lock, files, requests, units, service, crashes>>
-----------------------------------------------------------------------------
(* Maintenance.start                                                       *)

Goto(r, where) == rpc' = [rpc EXCEPT ![r] = where]

(* The request ends, with a response or an error.                          *)
Answer(r) ==
  /\ Goto(r, "idle")
  /\ rjob' = [rjob EXCEPT ![r] = NoJob]
  /\ rnow' = [rnow EXCEPT ![r] = 0]
  /\ failure' = [failure EXCEPT ![r] = "none"]

(* The capability check passed; flock is taken and the clock sampled.      *)
StartEnter(r) ==
  /\ web = "up"
  /\ clock <= LastStart
  /\ rpc[r] = "idle"
  /\ lock = NoOne
  /\ lock' = r
  /\ rnow' = [rnow EXCEPT ![r] = clock]
  /\ Goto(r, "decide")
  /\ UNCHANGED <<clock, files, rjob, failure, units, service, crashes>>

(* A stale latest job is stored as failed first; an active one is a 409.   *)
StartDecide(r) ==
  /\ rpc[r] = "decide"
  /\ jobs' = IF latest = NoJob THEN jobs
             ELSE [jobs EXCEPT ![latest] = LatestJob(rnow[r])]
  /\ \/ /\ LatestJob(rnow[r]).status \in Active
        /\ Answer(r)
        /\ lock' = NoOne
     \/ /\ LatestJob(rnow[r]).status \notin Active
        /\ \E j \in Jobs :
             /\ jobs[j] = Absent
             /\ rjob' = [rjob EXCEPT ![r] = j]
        /\ Goto(r, "store")
        /\ UNCHANGED <<lock, rnow, failure>>
  /\ UNCHANGED <<clock, latest, units, service, crashes>>

(* Mutant: started_at holds the time at which the job becomes stale.       *)
StoreJobDeadline(r) ==
  /\ rpc[r] = "store"
  /\ jobs' = [jobs EXCEPT ![rjob[r]] =
                [status |-> "queued", started |-> rnow[r] + StaleAfter, note |-> "none"]]
  /\ Goto(r, "point")
  /\ UNCHANGED <<clock, lock, latest, rjob, rnow, failure, units, service, crashes>>

StoreJob(r) ==
  /\ rpc[r] = "store"
  /\ jobs' = [jobs EXCEPT ![rjob[r]] =
                [status |-> "queued", started |-> rnow[r], note |-> "none"]]
  /\ Goto(r, "point")
  /\ UNCHANGED <<clock, lock, latest, rjob, rnow, failure, units, service, crashes>>

StorePointer(r) ==
  /\ rpc[r] = "point"
  /\ latest' = rjob[r]
  /\ lock' = NoOne
  /\ Goto(r, "launch")
  /\ UNCHANGED <<clock, jobs, rjob, rnow, failure, units, service, crashes>>

(* systemd-run is missing or may not be executed: no unit is created.      *)
SpawnFails(r) ==
  /\ rpc[r] = "launch"
  /\ failure' = [failure EXCEPT ![r] = "nospawn"]
  /\ Goto(r, "reconcile")
  /\ UNCHANGED <<clock, lock, files, rjob, rnow, units, service, crashes>>

(* systemd-run fails before it reached the manager.                        *)
LaunchRefused(r) ==
  /\ rpc[r] = "launch"
  /\ Goto(r, "observe")
  /\ UNCHANGED <<clock, lock, files, rjob, rnow, failure, units, service, crashes>>

(* The manager has accepted the transient unit.                            *)
LaunchAccepted(r) ==
  /\ rpc[r] = "launch"
  /\ worker' = [worker EXCEPT ![rjob[r]] = "pending"]
  /\ Goto(r, "await")
  /\ UNCHANGED <<clock, lock, files, rjob, rnow, failure, launched, result,
                 service, crashes>>

(* Type=exec: systemd-run returns 0 once the process has been executed.    *)
LaunchReturns(r) ==
  /\ rpc[r] = "await"
  /\ worker[rjob[r]] # "pending"
  /\ Answer(r)
  /\ UNCHANGED <<clock, lock, files, units, service, crashes>>

(* A non-zero exit, or the ten seconds pass, whatever became of the unit.  *)
LaunchUnconfirmed(r) ==
  /\ rpc[r] = "await"
  /\ Goto(r, "observe")
  /\ UNCHANGED <<clock, lock, files, rjob, rnow, failure, units, service, crashes>>

(* The observation is made outside the lock and used inside it.            *)
Observe(r) ==
  /\ rpc[r] = "observe"
  /\ \E seen \in Observations(rjob[r]) : failure' = [failure EXCEPT ![r] = seen]
  /\ Goto(r, "reconcile")
  /\ UNCHANGED <<clock, lock, files, rjob, rnow, units, service, crashes>>

(* Mutants of LaunchVerdict: a unit nothing is known of never ran; any     *)
(* failed launch is reported as one that changed nothing.                  *)
LaunchVerdictUnknown(job, why) ==
  IF job.status \in Active /\ why \in {"failed", "unknown"} THEN Failed(job, "observed") ELSE job
LaunchVerdictAny(job, why) ==
  IF job.status \in Active THEN Failed(job, "launch") ELSE job

(* _reconcile_launch_locked: only a launch that cannot have happened, or a *)
(* unit seen failed without a process, makes an active job fail.           *)
LaunchVerdict(job, why) ==
  CASE job.status \notin Active -> job
    [] job.status \in Active /\ why = "nospawn" -> Failed(job, "launch")
    [] job.status \in Active /\ why = "failed" -> Failed(job, "observed")
    [] OTHER -> job

ReconcileLaunch(r) ==
  /\ rpc[r] = "reconcile"
  /\ lock = NoOne
  /\ jobs' = [jobs EXCEPT ![rjob[r]] =
                LaunchVerdict(Reconciled(jobs[rjob[r]], clock), failure[r])]
  /\ Answer(r)
  /\ UNCHANGED <<clock, lock, latest, units, service, crashes>>

(* GET /api/maintenance and /api/maintenance/jobs/{id}: a read that finds  *)
(* an overdue job stores it as failed.                                     *)
ReadJob(j) ==
  /\ web = "up"
  /\ lock = NoOne
  /\ IsStale(jobs[j], clock)
  /\ jobs' = [jobs EXCEPT ![j] = Reconciled(jobs[j], clock)]
  /\ UNCHANGED <<clock, lock, latest, requests, units, service, crashes>>

Continue(r) == \/ StartDecide(r) \/ StoreJob(r) \/ StorePointer(r)
               \/ SpawnFails(r) \/ LaunchRefused(r) \/ LaunchAccepted(r)
               \/ LaunchReturns(r) \/ LaunchUnconfirmed(r)
               \/ Observe(r) \/ ReconcileLaunch(r)
-----------------------------------------------------------------------------
(* The systemd user manager                                                *)

Becomes(j, state) == worker' = [worker EXCEPT ![j] = state]

(* systemctl start: nothing if it runs already, and in vain if the package *)
(* or the unit file was left broken.                                       *)
StartWeb(sound) ==
  /\ web' = IF web = "up" \/ sound THEN "up" ELSE "crashed"
  /\ serving' = IF web # "up" /\ sound THEN package ELSE serving

(* Every request ends with the process that served it; flock is released.  *)
RequestsDie ==
  /\ rpc' = [r \in Requests |-> "idle"]
  /\ rjob' = [r \in Requests |-> NoJob]
  /\ rnow' = [r \in Requests |-> 0]
  /\ failure' = [r \in Requests |-> "none"]
  /\ lock' = NoOne

Spawn(j) ==
  /\ worker[j] = "pending"
  /\ Becomes(j, "spawned")
  /\ launched' = [launched EXCEPT ![j] = clock]
  /\ UNCHANGED <<clock, lock, files, requests, result, service, crashes>>

(* The worker cannot be executed, or the unit is given up unstarted.       *)
SpawnLost(j) ==
  /\ worker[j] = "pending"
  /\ \E state \in {"failpost", "gone"} : Becomes(j, state)
  /\ UNCHANGED <<clock, lock, files, requests, launched, result, service, crashes>>

(* A kill of the whole control group, RuntimeMaxSec or any other; one that *)
(* interrupts the installer, or the rewriting of the unit file, may leave  *)
(* the service unable to start.                                            *)
Damage(stages) ==
  IF stages \intersect {"install", "start"} = {} THEN {intact} ELSE {intact, FALSE}

Die(j) ==
  /\ worker[j] \in Process
  /\ Becomes(j, "failpost")
  /\ intact' \in Damage({worker[j]})
  /\ UNCHANGED <<clock, lock, files, requests, launched, result, web, package,
                 serving, crashes>>

Overdue(j) == worker[j] \in Process /\ clock >= launched[j] + RunMax

(* Mutant: the unit has no ExecStopPost.                                   *)
StopPostMissing(j) ==
  /\ worker[j] \in {"post", "failpost"}
  /\ Becomes(j, IF worker[j] = "post" THEN "gone" ELSE "failed")
  /\ UNCHANGED <<clock, lock, files, requests, launched, result, service, crashes>>

(* ExecStopPost=systemctl --user start service-directory.service           *)
StopPost(j) ==
  /\ worker[j] \in {"post", "failpost"}
  /\ Becomes(j, IF worker[j] = "post" THEN "gone" ELSE "failed")
  /\ StartWeb(intact)
  /\ UNCHANGED <<clock, lock, files, requests, launched, result, package, intact, crashes>>

(* --collect                                                               *)
Collect(j) ==
  /\ worker[j] = "failed"
  /\ Becomes(j, "gone")
  /\ UNCHANGED <<clock, lock, files, requests, launched, result, service, crashes>>

(* Restart=on-failure                                                      *)
RestartWeb ==
  /\ web = "crashed"
  /\ intact
  /\ web' = "up"
  /\ serving' = package
  /\ UNCHANGED <<clock, lock, files, requests, units, package, intact, crashes>>

WebDies ==
  /\ web = "up"
  /\ crashes < MaxCrashes
  /\ crashes' = crashes + 1
  /\ web' = "crashed"
  /\ RequestsDie
  /\ UNCHANGED <<clock, files, units, package, serving, intact>>

(* The machine restarts: no unit survives and no ExecStopPost runs.        *)
Reboot ==
  /\ crashes < MaxCrashes
  /\ crashes' = crashes + 1
  /\ web' = "crashed"
  /\ RequestsDie
  /\ worker' = [j \in Jobs |-> IF worker[j] = "none" THEN "none" ELSE "gone"]
  /\ intact' \in Damage({worker[j] : j \in Jobs})
  /\ UNCHANGED <<clock, files, launched, result, package, serving>>
-----------------------------------------------------------------------------
(* run_worker, and run_upgrade inside it                                   *)

(* Only a queued job is started, and its age is not looked at.             *)
Begin(j) ==
  /\ worker[j] = "spawned"
  /\ lock = NoOne
  /\ IF jobs[j].status = "queued"
       THEN /\ jobs' = [jobs EXCEPT ![j].status = "running"]
            /\ Becomes(j, "stop")
       ELSE /\ Becomes(j, "post")
            /\ UNCHANGED jobs
  /\ result' = [result EXCEPT ![j] = "failed"]
  /\ UNCHANGED <<clock, lock, latest, requests, launched, service, crashes>>

(* systemctl stop: the web process dies, and its requests with it.         *)
StopWeb(j) ==
  /\ worker[j] = "stop"
  /\ web' = "stopped"
  /\ RequestsDie
  /\ Becomes(j, "install")
  /\ UNCHANGED <<clock, files, launched, result, package, serving, intact, crashes>>

(* Mutant: result.skipped counts as a success.                             *)
SkipSucceeds(j) ==
  /\ worker[j] = "stop"
  /\ result' = [result EXCEPT ![j] = "succeeded"]
  /\ Becomes(j, "report")
  /\ UNCHANGED <<clock, lock, files, requests, launched, service, crashes>>

(* The stop fails, or there is nothing to upgrade: nothing is reinstalled. *)
StopFails(j) ==
  /\ worker[j] = "stop"
  /\ Becomes(j, "report")
  /\ UNCHANGED <<clock, lock, files, requests, launched, result, service, crashes>>

Install(j) ==
  /\ worker[j] = "install"
  /\ package' = j
  /\ intact' = TRUE
  /\ Becomes(j, "start")
  /\ UNCHANGED <<clock, lock, files, requests, launched, result, web, serving, crashes>>

(* The reinstall fails: the service is started again, the job has failed.  *)
InstallFails(j) ==
  /\ worker[j] = "install"
  /\ intact' \in Damage({"install"})
  /\ StartWeb(intact')
  /\ Becomes(j, "report")
  /\ UNCHANGED <<clock, lock, files, requests, launched, result, package, crashes>>

(* regenerate_unit and restart; the result is a success so far.            *)
StartService(j) ==
  /\ worker[j] = "start"
  /\ StartWeb(intact)
  /\ result' = [result EXCEPT ![j] = "succeeded"]
  /\ Becomes(j, "verify")
  /\ UNCHANGED <<clock, lock, files, requests, launched, package, intact, crashes>>

(* install() raises or reports a failure; start() is tried all the same.   *)
StartFails(j) ==
  /\ worker[j] = "start"
  /\ StartWeb(intact)
  /\ Becomes(j, "report")
  /\ UNCHANGED <<clock, lock, files, requests, launched, result, package, intact, crashes>>

(* verify_restarted_service: the unit is active and instance-info answers. *)
Verify(j) ==
  /\ worker[j] = "verify"
  /\ web = "up"
  /\ Becomes(j, "report")
  /\ UNCHANGED <<clock, lock, files, requests, launched, result, service, crashes>>

VerifyFails(j) ==
  /\ worker[j] = "verify"
  /\ result' = [result EXCEPT ![j] = "failed"]
  /\ Becomes(j, "report")
  /\ UNCHANGED <<clock, lock, files, requests, launched, service, crashes>>

(* A job that was meanwhile given a final status keeps it.                 *)
Report(j) ==
  /\ worker[j] = "report"
  /\ lock = NoOne
  /\ jobs' = IF jobs[j].status \in Active
               THEN [jobs EXCEPT ![j] = Ended(jobs[j], result[j], "worker")]
               ELSE jobs
  /\ Becomes(j, "post")
  /\ UNCHANGED <<clock, lock, latest, requests, launched, result, service, crashes>>

Upgrade(j) == \/ Begin(j) \/ StopWeb(j) \/ StopFails(j) \/ Install(j) \/ InstallFails(j)
              \/ StartService(j) \/ StartFails(j) \/ Verify(j) \/ VerifyFails(j)
              \/ Report(j)
-----------------------------------------------------------------------------
Start(r) == \/ StartEnter(r) \/ Continue(r)

Manage(j) == Spawn(j) \/ SpawnLost(j) \/ Die(j) \/ StopPost(j) \/ Collect(j)

Next == \/ Tick
        \/ \E r \in Requests : Start(r)
        \/ \E j \in Jobs : ReadJob(j) \/ Manage(j) \/ Upgrade(j)
        \/ RestartWeb \/ WebDies \/ Reboot

Spec == Init /\ [][Next]_vars

(* Time passes, an accepted request and a worker keep running, the systemd *)
(* manager does what it is configured to do, and some client keeps polling *)
(* the jobs.  Waiting for flock is strong fairness: the lock is released   *)
(* again and again, and its waiters are served in turn.                    *)
FairSpec ==
  /\ Spec
  /\ WF_vars(Tick)
  /\ \A r \in Requests : SF_vars(Continue(r))
  /\ \A j \in Jobs : /\ SF_vars(Upgrade(j))
                     /\ SF_vars(ReadJob(j))
                     /\ WF_vars(Spawn(j) \/ SpawnLost(j))
                     /\ WF_vars(Overdue(j) /\ Die(j))
                     /\ WF_vars(StopPost(j))
  /\ WF_vars(RestartWeb)
-----------------------------------------------------------------------------
(* Every variable holds a value of its kind.                               *)
TypeOK ==
  /\ clock \in Times
  /\ lock \in Requests \union {NoOne}
  /\ jobs \in [Jobs -> Record]
  /\ latest \in Jobs \union {NoJob}
  /\ rpc \in [Requests -> {"idle", "decide", "store", "point", "launch", "await",
                           "observe", "reconcile"}]
  /\ rjob \in [Requests -> Jobs \union {NoJob}]
  /\ rnow \in [Requests -> Times]
  /\ failure \in [Requests -> {"none", "nospawn", "unknown", "failed", "notfound", "alive"}]
  /\ worker \in [Jobs -> UnitState]
  /\ launched \in [Jobs -> Times]
  /\ result \in [Jobs -> Terminal]
  /\ web \in {"up", "stopped", "crashed"}
  /\ package \in Jobs \union {NoJob}
  /\ serving \in Jobs \union {NoJob}
  /\ intact \in BOOLEAN
  /\ crashes \in 0 .. MaxCrashes

(* At most one job's unit is waiting to start or running: two updates      *)
(* never stop, reinstall and start the service at the same time, although  *)
(* a job may be declared failed, and the next one accepted, without asking *)
(* systemd (maintenance.py, 484-491 and 621-636).                          *)
OneUpgrade == \A j, k \in Jobs : worker[j] \in Alive /\ worker[k] \in Alive => j = k

(* A job that reads as finished has no process that could still change the *)
(* service (but for ExecStopPost): neither the deadline nor a launch       *)
(* judged failed declares a job over while its worker runs.                *)
FinishedIsOver == \A j \in Jobs : jobs[j].status \in Terminal => worker[j] \notin Alive

(* "no service changes were made" (maintenance.py, 43, the 503 of API.md   *)
(* 515): a job answered that way never had a unit.                         *)
NoChangesClaimed == \A j \in Jobs : jobs[j].note = "launch" => worker[j] = "none"

(* The latest job, when it reads as succeeded, installed the package that  *)
(* is present, and nothing interrupted that installation ("success is      *)
(* never inferred from a timeout", API.md 527).                            *)
SuccessIsInstalled ==
  latest # NoJob /\ jobs[latest].status = "succeeded" => package = latest /\ intact

(* A final status never changes again, whichever of the reader, the        *)
(* launching request and the worker writes last (maintenance.py, 526, 482, *)
(* 769).                                                                   *)
TerminalIsFinal ==
  [][\A j \in Jobs : jobs[j].status \in Terminal => jobs'[j] = jobs[j]]_vars

(* "Update completed and the restarted directory responded"                *)
(* (maintenance.py, 46): a worker about to report success leaves a         *)
(* directory that, if it runs, was started after the reinstall.            *)
RestartedResponded ==
  \A j \in Jobs : worker[j] = "report" /\ result[j] = "succeeded" /\ web = "up"
                   => serving = j

(* An update that was announced does not block the next one for ever: the  *)
(* latest job does not stay active, provided the directory can be started  *)
(* at all, for a job nobody reports on is only ended by a read of it.      *)
LatestResolves ==
  \A j \in Jobs :
    latest = j /\ jobs[j].status \in Active ~> jobs[j].status \in Terminal \/ ~intact

(* The directory comes back after every update, failed or killed, unless   *)
(* the installation was left broken (maintenance.py, 418-426).             *)
WebReturns == web # "up" ~> web = "up" \/ ~intact
-----------------------------------------------------------------------------
(* The inductive invariant behind OneUpgrade and the properties above.     *)

InLock == {"decide", "store", "point"}
Launched == {"launch", "await", "observe", "reconcile"}

(* Only the holder of the lock is inside the locked section of start().    *)
LockInv == \A r \in Requests : rpc[r] \in InLock => lock = r

(* Who holds a job identifier: a request between drawing it and answering, *)
(* alone, and the unit created for it, which needs a record to start from. *)
OwnerInv ==
  /\ \A r \in Requests : rpc[r] \in {"idle", "decide"} <=> rjob[r] = NoJob
  /\ \A r, s \in Requests : rjob[r] = rjob[s] /\ rjob[r] # NoJob => r = s
  /\ \A r \in Requests : rpc[r] = "store" => jobs[rjob[r]] = Absent
  /\ \A r \in Requests :
       rpc[r] \in {"point"} \union Launched => jobs[rjob[r]].status # "absent"
  /\ \A j \in Jobs : worker[j] # "none" => jobs[j].status # "absent"

(* Between the decision to start a job and the launch nothing else is on   *)
(* its way: no other launch, no unit waiting or running.                   *)
QuietInv ==
  /\ \A r \in Requests : rpc[r] \in {"store", "point"} =>
       /\ \A j \in Jobs : worker[j] \notin Alive
       /\ \A s \in Requests : rpc[s] # "launch"
  /\ \A r \in Requests : rpc[r] \in {"point", "launch"} =>
       /\ jobs[rjob[r]] = [status |-> "queued", started |-> rnow[r], note |-> "none"]
       /\ worker[rjob[r]] = "none"
  /\ \A r \in Requests : rpc[r] = "launch" => latest = rjob[r]

(* A live unit belongs to the latest job, and that job reads as active.    *)
AliveInv ==
  \A j \in Jobs :
    /\ worker[j] \in Alive => latest = j
    /\ worker[j] \in {"pending", "spawned"} => jobs[j].status = "queued"
    /\ worker[j] \in Upgrading => jobs[j].status = "running"

(* Nothing alive is older than the deadlines allow.                        *)
DeadlineInv ==
  /\ \A r \in Requests : rpc[r] \in InLock \union {"launch"} =>
       rnow[r] <= clock /\ clock <= rnow[r] + LaunchMax
  /\ \A j \in Jobs :
       /\ worker[j] = "pending" => clock <= jobs[j].started + LaunchMax
       /\ worker[j] \in Process =>
            /\ launched[j] <= jobs[j].started + LaunchMax
            /\ clock <= launched[j] + RunMax + StopMax

(* What a failed launch, and what was observed of it, says about the unit  *)
(* stays true until the lock is taken to act on it.                        *)
VerdictInv ==
  /\ \A r \in Requests : rpc[r] = "reconcile" =>
       /\ failure[r] = "nospawn" => worker[rjob[r]] = "none"
       /\ failure[r] = "failed" => worker[rjob[r]] \in {"failed", "gone"}
  /\ \A j \in Jobs : jobs[j].note = "launch" =>
       worker[j] = "none" /\ jobs[j].status = "failed"

(* A success in the making, and one that was recorded, is that of the      *)
(* package that is present.                                                *)
SuccessInv ==
  /\ \A j \in Jobs : \/ worker[j] \in {"start", "verify"}
                     \/ worker[j] = "report" /\ result[j] = "succeeded"
                    => package = j /\ intact
  /\ \A j \in Jobs : worker[j] \in {"stop", "install", "start"} => result[j] = "failed"
  /\ SuccessIsInstalled

IInv == /\ TypeOK /\ LockInv /\ OwnerInv /\ QuietInv /\ AliveInv
        /\ DeadlineInv /\ VerdictInv /\ SuccessInv
=============================================================================
