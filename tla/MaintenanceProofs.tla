-------------------------- MODULE MaintenanceProofs --------------------------
(***************************************************************************)
(* Proofs about Maintenance, for any number of jobs, of requests, of       *)
(* crashes, and any timing constants that satisfy GraceAssumption.         *)
(***************************************************************************)
EXTENDS Maintenance, TLAPS

LEMMA Bounds ==
  /\ LaunchMax \in Nat /\ RunMax \in Nat /\ StopMax \in Nat /\ StaleAfter \in Nat
  /\ MaxTime \in Nat /\ LastStart \in Nat /\ MaxCrashes \in Nat
BY BoundAssumption

(* The reconciliations of a record return a record.                        *)
LEMMA RecordType ==
  ASSUME NEW job \in Record, NEW now, NEW why
  PROVE  /\ Reconciled(job, now) \in Record
         /\ LaunchVerdict(job, why) \in Record
         /\ \A status \in Terminal : Ended(job, status, "worker") \in Record
<1>1. ASSUME NEW status \in Terminal, NEW n \in {"stale", "launch", "observed", "worker"}
      PROVE  Ended(job, status, n) \in Record
  BY DEF Ended, Record, Terminal
<1>4. Failed(job, "stale") \in Record /\ Failed(job, "launch") \in Record
      /\ Failed(job, "observed") \in Record
  BY <1>1 DEF Failed, Terminal
<1>2. Reconciled(job, now) \in Record
  BY <1>4 DEF Reconciled
<1>3. LaunchVerdict(job, why) \in Record
  BY <1>4 DEF LaunchVerdict
<1> QED BY <1>1, <1>2, <1>3

(* Types are preserved by every step: the part of the actions.             *)
LEMMA TypeInit == Init => TypeOK
BY Bounds DEF Init, TypeOK, Record, Absent, Times, Active, Terminal, UnitState, Alive

LEMMA TypeNext == TypeOK /\ [Next]_vars => TypeOK'
<1> SUFFICES ASSUME TypeOK, [Next]_vars PROVE TypeOK'
  OBVIOUS
<1> USE DEF TypeOK
<1>1. CASE Tick
  BY <1>1, Bounds DEF Tick, Times, files, requests, units, service
<1>2. ASSUME NEW r \in Requests, StartEnter(r) PROVE TypeOK'
  BY <1>2 DEF StartEnter, Goto, files, requests, units, service
<1>3. ASSUME NEW r \in Requests, Continue(r) PROVE TypeOK'
  <2>1. CASE StartDecide(r)
    <3>1. jobs' \in [Jobs -> Record]
      BY <2>1, RecordType, IdAssumption DEF StartDecide, LatestJob
    <3>2. rjob' \in [Requests -> Jobs \union {NoJob}] /\ rnow' \in [Requests -> Times]
      BY <2>1, Bounds DEF StartDecide, Answer, Times
    <3>3. /\ rpc' \in [Requests -> {"idle", "decide", "store", "point", "launch", "await",
                                    "observe", "reconcile"}]
          /\ failure' \in [Requests -> {"none", "nospawn", "unknown", "failed", "notfound", "alive"}]
          /\ lock' \in Requests \union {NoOne}
      BY <2>1 DEF StartDecide, Answer, Goto
    <3> QED BY <2>1, <3>1, <3>2, <3>3 DEF StartDecide, units, service
  <2>2. CASE StoreJob(r)
    <3>1. [status |-> "queued", started |-> rnow[r], note |-> "none"] \in Record
      BY DEF Record, Active
    <3> QED BY <2>2, <3>1 DEF StoreJob, Goto, units, service
  <2>3. CASE StorePointer(r)
    BY <2>3 DEF StorePointer, Goto, units, service
  <2>4. CASE SpawnFails(r) \/ LaunchRefused(r) \/ LaunchUnconfirmed(r)
    BY <2>4 DEF SpawnFails, LaunchRefused, LaunchUnconfirmed, Goto, files, units, service
  <2>5. CASE LaunchAccepted(r)
    BY <2>5 DEF LaunchAccepted, Goto, files, service, UnitState, Alive
  <2>6. CASE LaunchReturns(r)
    BY <2>6, Bounds DEF LaunchReturns, Answer, Goto, files, units, service, Times
  <2>7. CASE Observe(r)
    BY <2>7 DEF Observe, Observations, Goto, files, units, service
  <2>8. CASE ReconcileLaunch(r)
    <3>1. jobs' \in [Jobs -> Record]
      BY <2>8, RecordType, IdAssumption DEF ReconcileLaunch
    <3> QED BY <2>8, <3>1, Bounds DEF ReconcileLaunch, Answer, Goto, units, service, Times
  <2> QED BY <1>3, <2>1, <2>2, <2>3, <2>4, <2>5, <2>6, <2>7, <2>8 DEF Continue
<1>4. ASSUME NEW j \in Jobs, ReadJob(j) PROVE TypeOK'
  BY <1>4, RecordType DEF ReadJob, requests, units, service
<1>5. ASSUME NEW j \in Jobs, Manage(j) PROVE TypeOK'
  <2>1. CASE Spawn(j)
    BY <2>1 DEF Spawn, Becomes, files, requests, service, UnitState, Alive, Process
  <2>2. CASE SpawnLost(j)
    BY <2>2 DEF SpawnLost, Becomes, files, requests, service, UnitState
  <2>3. CASE Die(j)
    BY <2>3 DEF Die, Becomes, Damage, files, requests, UnitState
  <2>4. CASE StopPost(j)
    BY <2>4 DEF StopPost, StartWeb, Becomes, files, requests, UnitState
  <2>5. CASE Collect(j)
    BY <2>5 DEF Collect, Becomes, files, requests, service, UnitState
  <2> QED BY <1>5, <2>1, <2>2, <2>3, <2>4, <2>5 DEF Manage
<1>6. ASSUME NEW j \in Jobs, Upgrade(j) PROVE TypeOK'
  <2> USE DEF UnitState, Alive, Process, Upgrading, Terminal
  <2>1. CASE Begin(j)
    <3>1. [jobs[j] EXCEPT !.status = "running"] \in Record
      BY DEF Record, Active
    <3>2. jobs' \in [Jobs -> Record]
      BY <2>1, <3>1 DEF Begin
    <3> QED BY <2>1, <3>2 DEF Begin, Becomes, requests, service
  <2>2. CASE StopWeb(j)
    BY <2>2, Bounds DEF StopWeb, RequestsDie, Becomes, files, Times
  <2>3. CASE StopFails(j) \/ Verify(j)
    BY <2>3 DEF StopFails, Verify, Becomes, files, requests, service
  <2>4. CASE Install(j)
    BY <2>4 DEF Install, Becomes, files, requests
  <2>5. CASE InstallFails(j)
    BY <2>5 DEF InstallFails, StartWeb, Damage, Becomes, files, requests
  <2>6. CASE StartService(j) \/ StartFails(j)
    BY <2>6 DEF StartService, StartFails, StartWeb, Becomes, files, requests
  <2>7. CASE VerifyFails(j)
    BY <2>7 DEF VerifyFails, Becomes, files, requests, service
  <2>8. CASE Report(j)
    <3>1. jobs' \in [Jobs -> Record]
      BY <2>8, RecordType DEF Report
    <3> QED BY <2>8, <3>1 DEF Report, Becomes, requests, service
  <2> QED BY <1>6, <2>1, <2>2, <2>3, <2>4, <2>5, <2>6, <2>7, <2>8 DEF Upgrade
<1>7. CASE RestartWeb
  BY <1>7 DEF RestartWeb, files, requests, units
<1>8. CASE WebDies
  BY <1>8, Bounds DEF WebDies, RequestsDie, files, units, Times
<1>9. CASE Reboot
  <2>1. intact' \in BOOLEAN
    BY <1>9, {intact, FALSE} \subseteq BOOLEAN DEF Reboot, Damage
  <2>2. crashes' \in 0 .. MaxCrashes
    BY <1>9, Bounds DEF Reboot
  <2>3. worker' \in [Jobs -> UnitState]
    BY <1>9 DEF Reboot, UnitState
  <2> QED
    BY <1>9, <2>1, <2>2, <2>3, Bounds DEF Reboot, RequestsDie, files, Times
<1>10. CASE UNCHANGED vars
  BY <1>10 DEF vars, files, requests, units, service
<1> QED
  BY <1>1, <1>2, <1>3, <1>4, <1>5, <1>6, <1>7, <1>8, <1>9, <1>10 DEF Next, Start

(* Every reachable state is well typed.                                    *)
THEOREM TypeCorrect == Spec => []TypeOK
BY TypeInit, TypeNext, PTL DEF Spec
-----------------------------------------------------------------------------
(* Frames: what the actions of each actor leave alone.                     *)

LEMMA WorkerFrame ==
  ASSUME NEW j \in Jobs, Upgrade(j)
  PROVE  /\ StopWeb(j) \/ UNCHANGED <<lock, requests>>
         /\ UNCHANGED <<clock, latest, launched>>
         /\ Begin(j) \/ Report(j) \/ UNCHANGED jobs
BY DEF Upgrade, Begin, StopWeb, StopFails, Install, InstallFails, StartService, StartFails,
       Verify, VerifyFails, Report, files, requests, service

LEMMA ManagerFrame ==
  ASSUME NEW j \in Jobs, Manage(j)
  PROVE  UNCHANGED <<clock, lock, files, requests, result>>
BY DEF Manage, Spawn, SpawnLost, Die, StopPost, Collect, files, requests

LEMMA RequestFrame ==
  ASSUME NEW r \in Requests, Start(r)
  PROVE  /\ UNCHANGED <<clock, launched, result, service>>
         /\ LaunchAccepted(r) \/ UNCHANGED worker
         /\ StorePointer(r) \/ UNCHANGED latest
         /\ StartDecide(r) \/ StoreJob(r) \/ ReconcileLaunch(r) \/ UNCHANGED jobs
BY DEF Start, Continue, StartEnter, StartDecide, StoreJob, StorePointer, SpawnFails,
       LaunchRefused, LaunchAccepted, LaunchReturns, LaunchUnconfirmed, Observe,
       ReconcileLaunch, files, units, service

LEMMA SystemFrame ==
  ASSUME Tick \/ RestartWeb \/ WebDies \/ Reboot
  PROVE  /\ UNCHANGED <<files, launched, result, package>>
         /\ Tick \/ UNCHANGED clock
         /\ Reboot \/ UNCHANGED <<worker, intact>>
         /\ UNCHANGED <<lock, requests>> \/ RequestsDie
BY DEF Tick, RestartWeb, WebDies, Reboot, files, requests, units, service

(* A request that has drawn a job holds one.                               *)
LEMMA RequestHasJob ==
  ASSUME IInv, NEW r \in Requests, rpc[r] \in {"store", "point"} \union Launched
  PROVE  rjob[r] \in Jobs
BY DEF IInv, TypeOK, OwnerInv, Launched

(* The record a worker or a reader leaves behind.                          *)
LEMMA BegunJob ==
  ASSUME TypeOK, NEW j \in Jobs, Begin(j), jobs[j].status = "queued"
  PROVE  /\ jobs'[j].status = "running"
         /\ jobs'[j].started = jobs[j].started
         /\ jobs'[j].note = jobs[j].note
         /\ \A k \in Jobs \ {j} : jobs'[k] = jobs[k]
<1>1. jobs[j] \in Record
  BY DEF TypeOK
<1> QED BY <1>1 DEF TypeOK, Begin, Record

(* A reconciliation that finds a live job stale contradicts the deadlines: *)
(* this is where GraceAssumption is used.                                  *)
LEMMA AliveIsFresh ==
  ASSUME IInv, NEW j \in Jobs, worker[j] \in Alive, NEW now \in Times, now <= clock
  PROVE  ~IsStale(jobs[j], now)
<1>1. clock - jobs[j].started <= LaunchMax + RunMax + StopMax
  <2>1. jobs[j] \in Record
    BY DEF IInv, TypeOK
  <2>2. jobs[j].started \in Nat /\ launched[j] \in Nat /\ clock \in Nat
    BY <2>1, Bounds DEF Record, IInv, TypeOK, Times
  <2>3. CASE worker[j] = "pending"
    BY <2>2, <2>3, Bounds DEF IInv, DeadlineInv
  <2>4. CASE worker[j] \in Process
    BY <2>2, <2>4, Bounds DEF IInv, DeadlineInv
  <2> QED BY <2>3, <2>4 DEF Alive
<1>2. jobs[j] \in Record /\ clock \in Nat
  BY Bounds DEF IInv, TypeOK, Times
<1> QED BY <1>1, <1>2, GraceAssumption, Bounds DEF IsStale, Record, Times
(* A job that is about to be launched is not stale either.                 *)
LEMMA LaunchIsFresh ==
  ASSUME IInv, NEW s \in Requests, rpc[s] = "launch", NEW now \in Times, now <= clock
  PROVE  /\ rjob[s] \in Jobs /\ latest = rjob[s]
         /\ jobs[rjob[s]].status = "queued"
         /\ ~IsStale(jobs[rjob[s]], now)
<1>1. rjob[s] \in Jobs /\ latest = rjob[s]
  BY RequestHasJob DEF IInv, QuietInv, Launched
<1>2. jobs[rjob[s]] = [status |-> "queued", started |-> rnow[s], note |-> "none"]
  BY DEF IInv, QuietInv
<1>3. jobs[rjob[s]].status = "queued" /\ jobs[rjob[s]].started = rnow[s]
  BY <1>2
<1>4. clock <= rnow[s] + LaunchMax
  BY DEF IInv, DeadlineInv
<1>5. rnow[s] \in Nat /\ clock \in Nat /\ now \in Nat
  BY Bounds DEF IInv, TypeOK, Times
<1>6. ~IsStale(jobs[rjob[s]], now)
  BY <1>3, <1>4, <1>5, GraceAssumption, Bounds DEF IsStale
<1> QED BY <1>1, <1>3, <1>6
-----------------------------------------------------------------------------
(* Each part of the invariant is preserved by every step.                  *)

LEMMA LockNext == IInv /\ [Next]_vars => LockInv'
<1> SUFFICES ASSUME IInv, [Next]_vars PROVE LockInv'
  OBVIOUS
<1> USE DEF IInv, TypeOK, LockInv, InLock
<1>1. CASE UNCHANGED <<lock, requests>>
  BY <1>1 DEF requests
<1>2. CASE RequestsDie
  BY <1>2 DEF RequestsDie
<1>3. ASSUME NEW r \in Requests, Start(r) PROVE LockInv'
  <2>1. CASE StartEnter(r) \/ StartDecide(r) \/ StoreJob(r) \/ StorePointer(r)
    BY <2>1, IdAssumption DEF StartEnter, StartDecide, StoreJob, StorePointer, Goto, Answer
  <2>2. CASE ~(StartEnter(r) \/ StartDecide(r) \/ StoreJob(r) \/ StorePointer(r))
    BY <1>3, <2>2 DEF Start, Continue, SpawnFails, LaunchRefused, LaunchAccepted,
       LaunchReturns, LaunchUnconfirmed, Observe, ReconcileLaunch, Goto, Answer
  <2> QED BY <2>1, <2>2
<1>4. ASSUME NEW j \in Jobs, Upgrade(j) PROVE LockInv'
  BY <1>1, <1>2, <1>4, WorkerFrame DEF StopWeb
<1>5. ASSUME NEW j \in Jobs, ReadJob(j) \/ Manage(j) PROVE LockInv'
  BY <1>1, <1>5, ManagerFrame DEF ReadJob
<1>6. CASE Tick \/ RestartWeb \/ WebDies \/ Reboot
  BY <1>1, <1>2, <1>6, SystemFrame
<1>7. CASE UNCHANGED vars
  BY <1>1, <1>7 DEF vars
<1> QED BY <1>3, <1>4, <1>5, <1>6, <1>7 DEF Next

LEMMA OwnerNext == IInv /\ [Next]_vars => OwnerInv'
<1> SUFFICES ASSUME IInv, [Next]_vars PROVE OwnerInv'
  OBVIOUS
<1> USE DEF IInv, TypeOK, OwnerInv, Launched
<1>1. ASSUME NEW r \in Requests, Start(r) PROVE OwnerInv'
  <2>1. CASE StartEnter(r)
    BY <2>1 DEF StartEnter, Goto, files, units
  <2>2. CASE StartDecide(r)
    <3>1. \A k \in Jobs : jobs'[k].status = "absent" <=> jobs[k].status = "absent"
      BY <2>2, IdAssumption
      DEF StartDecide, LatestJob, Reconciled, IsStale, Failed, Ended, Record, Active
    <3>2. \A k \in Jobs : jobs[k] = Absent => jobs'[k] = Absent
      BY <2>2, IdAssumption DEF StartDecide, LatestJob, Reconciled, IsStale, Absent, Active
    <3>3. \A k \in Jobs : jobs[k] = Absent => jobs[k].status = "absent"
      BY DEF Absent
    <3>4. CASE Answer(r)
      BY <2>2, <3>1, <3>2, <3>4 DEF StartDecide, Answer, Goto, units
    <3>5. CASE ~Answer(r)
      <4>1. PICK j \in Jobs : jobs[j] = Absent /\ rjob' = [rjob EXCEPT ![r] = j]
        BY <2>2, <3>5 DEF StartDecide
      <4>2. rpc' = [rpc EXCEPT ![r] = "store"] /\ UNCHANGED worker
        BY <2>2, <3>5 DEF StartDecide, Goto, units
      <4>3. \A s \in Requests \ {r} : rpc[s] # "store"
        BY <2>2 DEF StartDecide, LockInv, InLock
      <4>4. \A s \in Requests \ {r} : rjob[s] # j
        BY <3>3, <4>1, <4>3, IdAssumption
      <4> QED BY <3>1, <3>2, <4>1, <4>2, <4>3, <4>4, IdAssumption
    <3> QED BY <3>4, <3>5
  <2>3. CASE StoreJob(r)
    BY <2>3 DEF StoreJob, LockInv, InLock, Goto, units
  <2>4. CASE StorePointer(r)
    BY <2>4 DEF StorePointer, Goto, units
  <2>5. CASE SpawnFails(r) \/ LaunchRefused(r) \/ LaunchUnconfirmed(r) \/ Observe(r)
    BY <2>5 DEF SpawnFails, LaunchRefused, LaunchUnconfirmed, Observe, Goto, files, units
  <2>6. CASE LaunchAccepted(r)
    BY <2>6 DEF LaunchAccepted, Goto, files
  <2>7. CASE LaunchReturns(r)
    BY <2>7 DEF LaunchReturns, Answer, Goto, files, units
  <2>8. CASE ReconcileLaunch(r)
    BY <2>8 DEF ReconcileLaunch, LaunchVerdict, Reconciled, IsStale, Failed, Ended, Absent,
       Active, Record, Answer, Goto, units
  <2> QED BY <1>1, <2>1, <2>2, <2>3, <2>4, <2>5, <2>6, <2>7, <2>8 DEF Start, Continue
<1>2. ASSUME NEW j \in Jobs, ReadJob(j) PROVE OwnerInv'
  BY <1>2 DEF ReadJob, Reconciled, IsStale, Failed, Ended, Record, Absent, Active, requests, units
<1>3. ASSUME NEW j \in Jobs, Manage(j) PROVE OwnerInv'
  <2>1. worker[j] # "none" /\ \E state : worker' = [worker EXCEPT ![j] = state]
    BY <1>3 DEF Manage, Spawn, SpawnLost, Die, StopPost, Collect, Becomes, Process, Upgrading
  <2> QED BY <1>3, <2>1, ManagerFrame DEF files, requests
<1>4. ASSUME NEW j \in Jobs, Upgrade(j) PROVE OwnerInv'
  <2>1. CASE Begin(j) /\ jobs[j].status = "queued"
    <3>1. jobs[j] # Absent
      BY <2>1 DEF Absent
    <3>2. /\ worker' = [worker EXCEPT ![j] = "stop"]
          /\ UNCHANGED requests
      BY <2>1 DEF Begin, Becomes
    <3>3. \A r \in Requests : rpc[r] = "store" => rjob[r] \in Jobs \ {j}
      BY <3>1, RequestHasJob
    <3> QED BY <2>1, <3>2, <3>3, BegunJob DEF requests
  <2>2. CASE Begin(j) /\ jobs[j].status # "queued"
    BY <2>2 DEF Begin, Becomes, requests
  <2>3. CASE Report(j)
    BY <2>3 DEF Report, Ended, Absent, Active, Terminal, Record, Becomes, requests
  <2>4. CASE StopWeb(j)
    BY <2>4 DEF StopWeb, RequestsDie, Becomes, files
  <2>5. CASE ~Begin(j) /\ ~Report(j) /\ ~StopWeb(j)
    BY <1>4, <2>5, WorkerFrame
    DEF Upgrade, StopFails, Install, InstallFails, StartService, StartFails, Verify,
        VerifyFails, Becomes, requests
  <2> QED BY <2>1, <2>2, <2>3, <2>4, <2>5
<1>5. CASE Tick \/ RestartWeb \/ WebDies \/ Reboot
  <2>1. UNCHANGED requests \/ RequestsDie
    BY <1>5, SystemFrame
  <2>2. \A j \in Jobs : worker'[j] = "none" <=> worker[j] = "none"
    BY <1>5, SystemFrame DEF Reboot
  <2> QED BY <1>5, <2>1, <2>2, SystemFrame DEF RequestsDie, requests, files
<1>6. CASE UNCHANGED vars
  BY <1>6 DEF vars, files, requests, units
<1> QED BY <1>1, <1>2, <1>3, <1>4, <1>5, <1>6 DEF Next

LEMMA QuietNext == IInv /\ [Next]_vars => QuietInv'
<1> SUFFICES ASSUME IInv, [Next]_vars PROVE QuietInv'
  OBVIOUS
<1> USE DEF IInv, TypeOK, QuietInv, Launched
<1>1. ASSUME NEW r \in Requests, Start(r) PROVE QuietInv'
  <2>1. CASE StartEnter(r)
    BY <2>1 DEF StartEnter, Goto, files, units
  <2>2. CASE StartDecide(r)
    <3>1. \A s \in Requests : rpc[s] \notin {"store", "point"}
      BY <2>2 DEF StartDecide, LockInv, InLock
    <3>2. CASE Answer(r)
      <4>1. \A s \in Requests : rpc'[s] \notin {"store", "point"}
        BY <3>1, <3>2 DEF Answer, Goto
      <4>2. \A s \in Requests : rpc'[s] = "launch" => s # r /\ rpc[s] = "launch"
        BY <3>2 DEF Answer, Goto
      <4>3. \A s \in Requests : rpc[s] = "launch" => jobs'[rjob[s]] = jobs[rjob[s]]
        <5> SUFFICES ASSUME NEW s \in Requests, rpc[s] = "launch"
                     PROVE  jobs'[rjob[s]] = jobs[rjob[s]]
          OBVIOUS
        <5>1. rnow[r] <= clock /\ rnow[r] \in Times
          BY <2>2 DEF StartDecide, DeadlineInv, InLock
        <5>2. rjob[s] = latest /\ rjob[s] \in Jobs /\ ~IsStale(jobs[latest], rnow[r])
          BY <5>1, LaunchIsFresh
        <5> QED BY <2>2, <5>1, <5>2, IdAssumption DEF StartDecide, LatestJob, Reconciled
      <4> QED
        BY <2>2, <3>2, <4>1, <4>2, <4>3 DEF StartDecide, Answer, Goto, units
    <3>3. CASE ~Answer(r)
      <4>1. LatestJob(rnow[r]).status \notin Active /\ rpc' = [rpc EXCEPT ![r] = "store"]
        BY <2>2, <3>3 DEF StartDecide, Goto
      <4>2. rnow[r] <= clock /\ rnow[r] \in Times
        BY <2>2 DEF StartDecide, DeadlineInv, InLock
      <4>3. \A j \in Jobs : worker[j] \notin Alive
        <5> SUFFICES ASSUME NEW j \in Jobs, worker[j] \in Alive PROVE FALSE
          OBVIOUS
        <5>1. latest = j /\ jobs[j].status \in Active
          BY DEF AliveInv, Alive, Process, Active
        <5>2. ~IsStale(jobs[j], rnow[r])
          BY <4>2, AliveIsFresh
        <5> QED BY <4>1, <5>1, <5>2, IdAssumption DEF LatestJob, Reconciled
      <4>4. \A s \in Requests : rpc[s] # "launch"
        <5> SUFFICES ASSUME NEW s \in Requests, rpc[s] = "launch" PROVE FALSE
          OBVIOUS
        <5>1. /\ latest \in Jobs /\ jobs[latest].status = "queued"
              /\ ~IsStale(jobs[latest], rnow[r])
          BY <4>2, LaunchIsFresh
        <5> QED BY <4>1, <5>1, IdAssumption DEF LatestJob, Reconciled, Active
      <4>5. UNCHANGED worker
        BY <2>2 DEF StartDecide, units
      <4> QED BY <3>1, <4>1, <4>3, <4>4, <4>5
    <3> QED BY <3>2, <3>3
  <2>3. CASE StoreJob(r)
    <3>1. \A s \in Requests : s # r => rpc[s] \notin InLock \union {"launch"}
      BY <2>3 DEF StoreJob, LockInv, InLock
    <3>2. rjob[r] \in Jobs /\ worker[rjob[r]] = "none"
      BY <2>3, RequestHasJob DEF StoreJob, OwnerInv, Absent
    <3> QED BY <2>3, <3>1, <3>2 DEF StoreJob, InLock, Goto, units
  <2>4. CASE StorePointer(r)
    BY <2>4 DEF StorePointer, LockInv, InLock, Goto, units
  <2>5. CASE SpawnFails(r) \/ LaunchRefused(r) \/ LaunchUnconfirmed(r) \/ Observe(r)
    BY <2>5 DEF SpawnFails, LaunchRefused, LaunchUnconfirmed, Observe, Goto, files, units
  <2>6. CASE LaunchAccepted(r)
    <3>1. \A s \in Requests : rpc[s] \notin {"store", "point"}
      BY <2>6 DEF LaunchAccepted
    <3>2. \A s \in Requests : rpc[s] = "launch" => s = r
      BY <2>6, IdAssumption DEF LaunchAccepted, OwnerInv
    <3> QED BY <2>6, <3>1, <3>2 DEF LaunchAccepted, Goto, files
  <2>7. CASE LaunchReturns(r)
    BY <2>7 DEF LaunchReturns, Answer, Goto, files, units
  <2>8. CASE ReconcileLaunch(r)
    <3>1. \A s \in Requests : rpc[s] \in {"point", "launch"} => rjob[s] # rjob[r]
      BY <2>8, RequestHasJob, IdAssumption DEF ReconcileLaunch, OwnerInv
    <3> QED BY <2>8, <3>1 DEF ReconcileLaunch, Answer, Goto, units
  <2> QED BY <1>1, <2>1, <2>2, <2>3, <2>4, <2>5, <2>6, <2>7, <2>8 DEF Start, Continue
<1>2. ASSUME NEW j \in Jobs, ReadJob(j) PROVE QuietInv'
  <2>1. \A s \in Requests : rpc[s] \notin {"store", "point"}
    BY <1>2, IdAssumption DEF ReadJob, LockInv, InLock
  <2>2. \A s \in Requests : rpc[s] = "launch" => rjob[s] # j
    <3>1. clock \in Times /\ clock <= clock
      BY Bounds DEF Times
    <3> QED BY <1>2, <3>1, LaunchIsFresh DEF ReadJob
  <2> QED BY <1>2, <2>1, <2>2 DEF ReadJob, requests, units
<1>3. ASSUME NEW j \in Jobs, Manage(j) PROVE QuietInv'
  <2>1. /\ worker[j] # "none"
        /\ \E state : worker' = [worker EXCEPT ![j] = state] /\ (state \in Alive => worker[j] \in Alive)
    BY <1>3 DEF Manage, Spawn, SpawnLost, Die, StopPost, Collect, Becomes, Alive, Process, Upgrading
  <2> QED BY <1>3, <2>1, ManagerFrame DEF files, requests
<1>4. ASSUME NEW j \in Jobs, Upgrade(j) PROVE QuietInv'
  <2>1. worker[j] \in Alive /\ \E state : worker' = [worker EXCEPT ![j] = state]
    BY <1>4 DEF Upgrade, Begin, StopWeb, StopFails, Install, InstallFails, StartService,
       StartFails, Verify, VerifyFails, Report, Becomes, Alive, Process, Upgrading
  <2>2. \A s \in Requests : /\ rpc[s] \notin {"store", "point"}
                            /\ rpc[s] = "launch" => rjob[s] # j
    BY <2>1 DEF Alive, Process, Upgrading
  <2>3. \A k \in Jobs : k # j => jobs'[k] = jobs[k] /\ worker'[k] = worker[k]
    BY <1>4, <2>1, WorkerFrame DEF Begin, Report
  <2>4. UNCHANGED requests \/ RequestsDie
    BY <1>4, WorkerFrame DEF StopWeb
  <2>5. UNCHANGED latest
    BY <1>4, WorkerFrame
  <2> QED BY <2>2, <2>3, <2>4, <2>5, RequestHasJob DEF RequestsDie, requests
<1>5. CASE Tick \/ RestartWeb \/ WebDies \/ Reboot
  <2>1. UNCHANGED requests \/ RequestsDie
    BY <1>5, SystemFrame
  <2>2. UNCHANGED worker \/ RequestsDie
    BY <1>5, SystemFrame DEF Reboot
  <2> QED BY <1>5, <2>1, <2>2, SystemFrame DEF RequestsDie, requests, files
<1>6. CASE UNCHANGED vars
  BY <1>6 DEF vars, files, requests, units
<1> QED BY <1>1, <1>2, <1>3, <1>4, <1>5, <1>6 DEF Next

(* What the two later parts need of a reader, a request or a worker that   *)
(* rewrites a record: a live unit's record is only rewritten by its worker.*)
LEMMA LiveRecordKept ==
  ASSUME IInv, NEW j \in Jobs, worker[j] \in Alive,
         \/ \E r \in Requests : Start(r)
         \/ \E k \in Jobs : ReadJob(k)
         \/ \E k \in Jobs \ {j} : Upgrade(k)
  PROVE  jobs'[j] = jobs[j]
<1> USE DEF IInv, TypeOK
<1>1. latest = j /\ jobs[j].status \in Active
  BY DEF AliveInv, Alive, Process, Active
<1>2. ASSUME NEW r \in Requests, StartDecide(r) PROVE jobs'[j] = jobs[j]
  <2>1. rnow[r] <= clock /\ rnow[r] \in Times
    BY <1>2 DEF StartDecide, DeadlineInv, InLock
  <2> QED BY <1>1, <1>2, <2>1, AliveIsFresh DEF StartDecide, LatestJob, Reconciled
<1>3. ASSUME NEW r \in Requests, StoreJob(r) PROVE jobs'[j] = jobs[j]
  BY <1>3 DEF StoreJob, QuietInv
<1>4. clock \in Times /\ clock <= clock
  BY Bounds DEF Times
<1>5. ~IsStale(jobs[j], clock)
  BY <1>4, AliveIsFresh
<1>6. ASSUME NEW r \in Requests, ReconcileLaunch(r) PROVE jobs'[j] = jobs[j]
  <2>1. CASE rjob[r] # j
    BY <1>6, <2>1 DEF ReconcileLaunch
  <2>2. CASE rjob[r] = j
    <3>1. failure[r] \notin {"nospawn", "failed"}
      BY <1>6, <2>2 DEF ReconcileLaunch, VerdictInv, Alive, Process, Upgrading
    <3>2. LaunchVerdict(jobs[j], failure[r]) = jobs[j]
      BY <1>1, <3>1 DEF LaunchVerdict
    <3>3. Reconciled(jobs[j], clock) = jobs[j]
      BY <1>5 DEF Reconciled
    <3> QED BY <1>6, <2>2, <3>2, <3>3 DEF ReconcileLaunch
  <2> QED BY <2>1, <2>2
<1>7. ASSUME NEW r \in Requests, Start(r) PROVE jobs'[j] = jobs[j]
  BY <1>2, <1>3, <1>6, <1>7, RequestFrame
<1>8. ASSUME NEW k \in Jobs, ReadJob(k) PROVE jobs'[j] = jobs[j]
  BY <1>5, <1>8 DEF ReadJob
<1>9. ASSUME NEW k \in Jobs \ {j}, Upgrade(k) PROVE jobs'[j] = jobs[j]
  BY <1>9, WorkerFrame DEF Begin, Report
<1> QED BY <1>7, <1>8, <1>9

(* A unit is live after a step only if it was before, or the step accepts  *)
(* its launch; and only its own steps move it.                             *)
LEMMA LiveUnits ==
  ASSUME IInv, [Next]_vars, NEW j \in Jobs, worker'[j] \in Alive
  PROVE  \/ worker[j] = worker'[j]
         \/ Upgrade(j) /\ worker[j] \in Process /\ worker'[j] \in Upgrading
         \/ Spawn(j)
         \/ \E r \in Requests : LaunchAccepted(r) /\ rjob[r] = j
<1> USE DEF IInv, TypeOK
<1>1. ASSUME NEW r \in Requests, Start(r)
      PROVE  worker[j] = worker'[j] \/ (LaunchAccepted(r) /\ rjob[r] = j)
  BY <1>1, RequestFrame DEF LaunchAccepted, units
<1>2. ASSUME NEW k \in Jobs, ReadJob(k) PROVE worker[j] = worker'[j]
  BY <1>2 DEF ReadJob, units
<1>3. ASSUME NEW k \in Jobs, Manage(k) PROVE worker[j] = worker'[j] \/ Spawn(j)
  BY <1>3 DEF Manage, Spawn, SpawnLost, Die, StopPost, Collect, Becomes, Alive, Process, Upgrading
<1>4. ASSUME NEW k \in Jobs, Upgrade(k)
      PROVE  \/ worker[j] = worker'[j]
             \/ Upgrade(j) /\ worker[j] \in Process /\ worker'[j] \in Upgrading
  BY <1>4 DEF Upgrade, Begin, StopWeb, StopFails, Install, InstallFails, StartService,
     StartFails, Verify, VerifyFails, Report, Becomes, Alive, Process, Upgrading
<1>5. CASE Tick \/ RestartWeb \/ WebDies \/ Reboot
  BY <1>5, SystemFrame DEF Reboot, Alive, Process, Upgrading
<1>6. CASE UNCHANGED vars
  BY <1>6 DEF vars, units
<1> QED BY <1>1, <1>2, <1>3, <1>4, <1>5, <1>6 DEF Next

(* Steps that leave every record alone.                                    *)
LEMMA RecordFrame ==
  ASSUME [Next]_vars
  PROVE  \/ UNCHANGED jobs
         \/ \E r \in Requests : Start(r)
         \/ \E j \in Jobs : ReadJob(j) \/ Upgrade(j)
BY SystemFrame, ManagerFrame DEF Next, vars, files

LEMMA AliveNext == IInv /\ [Next]_vars => AliveInv'
<1> SUFFICES ASSUME IInv, [Next]_vars, NEW j \in Jobs, worker'[j] \in Alive
             PROVE  /\ latest' = j
                    /\ worker'[j] \in {"pending", "spawned"} => jobs'[j].status = "queued"
                    /\ worker'[j] \in Upgrading => jobs'[j].status = "running"
  BY DEF AliveInv, Alive, Process
<1> USE DEF IInv, TypeOK
<1>1. ASSUME NEW r \in Requests, LaunchAccepted(r), rjob[r] = j
      PROVE  /\ latest' = j /\ worker'[j] = "pending" /\ jobs'[j].status = "queued"
  BY <1>1, LaunchIsFresh, Bounds DEF LaunchAccepted, files, DeadlineInv, Times
<1>2. ASSUME Upgrade(j), worker[j] \in Process, worker'[j] \in Upgrading
      PROVE  latest' = j /\ jobs'[j].status = "running"
  <2>1. latest' = j
    BY <1>2, WorkerFrame DEF AliveInv, Alive
  <2>2. CASE Begin(j)
    <3>1. jobs[j].status = "queued"
      BY <2>2 DEF Begin, AliveInv
    <3> QED BY <2>1, <2>2, <3>1, BegunJob
  <2>3. CASE ~Begin(j)
    <3>1. worker[j] # "spawned"
      BY <1>2, <2>3 DEF Upgrade, StopWeb, StopFails, Install, InstallFails, StartService,
         StartFails, Verify, VerifyFails, Report
    <3>2. ~Report(j)
      BY <1>2 DEF Report, Becomes, Upgrading
    <3> QED BY <1>2, <2>1, <2>3, <3>1, <3>2, WorkerFrame DEF AliveInv, Process
  <2> QED BY <2>1, <2>2, <2>3
<1>3. CASE Spawn(j)
  BY <1>3 DEF Spawn, Becomes, files, AliveInv, Alive, Process, Upgrading
<1>4. CASE worker'[j] = worker[j]
  <2>1. latest = j
    BY <1>4 DEF AliveInv
  <2>2. latest' = latest
    <3>1. ASSUME NEW r \in Requests, Start(r) PROVE latest' = latest
      BY <1>4, <3>1, RequestFrame DEF StorePointer, QuietInv
    <3>2. ASSUME NEW k \in Jobs, ReadJob(k) PROVE latest' = latest
      BY <3>2 DEF ReadJob
    <3> QED BY <3>1, <3>2, SystemFrame, ManagerFrame, WorkerFrame DEF Next, vars, files
  <2>3. jobs'[j] = jobs[j]
    <3>1. CASE Upgrade(j)
      BY <1>4, <3>1 DEF Upgrade, Begin, StopWeb, StopFails, Install, InstallFails, StartService,
         StartFails, Verify, VerifyFails, Report, Becomes
    <3>2. CASE ~Upgrade(j)
      BY <1>4, <3>2, RecordFrame, LiveRecordKept
    <3> QED BY <3>1, <3>2
  <2> QED BY <1>4, <2>1, <2>2, <2>3 DEF AliveInv
<1> QED BY <1>1, <1>2, <1>3, <1>4, LiveUnits DEF Upgrading

LEMMA DeadlineNext == IInv /\ [Next]_vars => DeadlineInv'
<1> SUFFICES ASSUME IInv, [Next]_vars PROVE DeadlineInv'
  OBVIOUS
<1> USE DEF IInv, TypeOK
<1> DEFINE Deciding(r) == rpc[r] \in InLock \union {"launch"}
(* Requests: a decision is in time because the clock waits for it.         *)
<1>1. ASSUME NEW s \in Requests, Deciding(s)'
      PROVE  rnow'[s] <= clock' /\ clock' <= rnow'[s] + LaunchMax
  <2>1. ASSUME NEW r \in Requests, Start(r)
        PROVE  rnow'[s] <= clock' /\ clock' <= rnow'[s] + LaunchMax
    <3>1. CASE StartEnter(r)
      BY <1>1, <3>1, Bounds DEF StartEnter, Goto, InLock, DeadlineInv, Times
    <3>2. CASE ~StartEnter(r)
      <4>1. Deciding(s) /\ rnow'[s] = rnow[s]
        BY <1>1, <2>1, <3>2 DEF Start, Continue, StartDecide, StoreJob, StorePointer, SpawnFails,
           LaunchRefused, LaunchAccepted, LaunchReturns, LaunchUnconfirmed, Observe,
           ReconcileLaunch, Goto, Answer, InLock
      <4> QED BY <2>1, <4>1, RequestFrame DEF DeadlineInv
    <3> QED BY <3>1, <3>2
  <2>2. CASE UNCHANGED <<clock, requests>>
    BY <1>1, <2>2 DEF DeadlineInv, requests
  <2>3. ~RequestsDie
    BY <1>1 DEF RequestsDie, InLock
  <2>4. CASE Tick
    <3>1. rnow'[s] = rnow[s] /\ Deciding(s)
      BY <1>1, <2>4 DEF Tick, requests
    <3>2. rnow[s] \in Nat /\ clock \in Nat
      BY Bounds DEF Times
    <3> QED BY <2>4, <3>1, <3>2, Bounds DEF Tick, DeadlineInv, InLock
  <2> QED BY <2>1, <2>2, <2>3, <2>4, SystemFrame, ManagerFrame, WorkerFrame
      DEF Next, vars, ReadJob, StopWeb
(* Units: a new one inherits its request's deadline, the clock waits for   *)
(* the old ones.                                                           *)
<1>2. ASSUME NEW j \in Jobs, worker'[j] \in Alive
      PROVE  /\ worker'[j] = "pending" => clock' <= jobs'[j].started + LaunchMax
             /\ worker'[j] \in Process => /\ launched'[j] <= jobs'[j].started + LaunchMax
                                          /\ clock' <= launched'[j] + RunMax + StopMax
  <2>1. ASSUME NEW r \in Requests, LaunchAccepted(r), rjob[r] = j
        PROVE  worker'[j] = "pending" /\ clock' <= jobs'[j].started + LaunchMax
    <3>1. jobs[j] = [status |-> "queued", started |-> rnow[r], note |-> "none"]
      BY <2>1 DEF LaunchAccepted, QuietInv
    <3>2. jobs[j].started = rnow[r]
      BY <3>1
    <3> QED BY <2>1, <3>2 DEF LaunchAccepted, files, DeadlineInv
  <2>2. CASE Spawn(j)
    <3>1. jobs[j].started \in Nat /\ clock \in Nat
      BY Bounds DEF Record, Times
    <3> QED
      BY <2>2, <3>1, Bounds DEF Spawn, Becomes, files, DeadlineInv, Process, Upgrading
  <2>3. ASSUME Upgrade(j), worker[j] \in Process, worker'[j] \in Upgrading
        PROVE  /\ launched'[j] <= jobs'[j].started + LaunchMax
               /\ clock' <= launched'[j] + RunMax + StopMax
    <3>1. jobs'[j].started = jobs[j].started
      <4>1. ~Report(j)
        BY <2>3 DEF Report, Becomes, Upgrading
      <4>2. CASE Begin(j)
        BY <4>2, BegunJob DEF Begin
      <4> QED BY <2>3, <4>1, <4>2, WorkerFrame
    <3> QED BY <2>3, <3>1, WorkerFrame DEF DeadlineInv
  <2>4. CASE worker'[j] = worker[j]
    <3>1. jobs'[j] = jobs[j]
      <4>1. CASE Upgrade(j)
        BY <2>4, <4>1 DEF Upgrade, Begin, StopWeb, StopFails, Install, InstallFails,
           StartService, StartFails, Verify, VerifyFails, Report, Becomes
      <4>2. CASE ~Upgrade(j)
        BY <1>2, <2>4, <4>2, RecordFrame, LiveRecordKept
      <4> QED BY <4>1, <4>2
    <3>2. CASE Tick
      <4>1. jobs[j].started \in Nat /\ clock \in Nat /\ launched[j] \in Nat
        BY Bounds DEF Record, Times
      <4>2. clock' = clock + 1 /\ launched' = launched
        BY <3>2 DEF Tick, units
      <4>3. /\ worker[j] = "pending" => clock < jobs[j].started + LaunchMax
            /\ worker[j] \in Process => clock < launched[j] + RunMax + StopMax
        BY <3>2 DEF Tick
      <4> QED BY <2>4, <3>1, <4>1, <4>2, <4>3, Bounds DEF DeadlineInv
    <3>3. CASE ~Tick
      <4>1. clock' = clock
        BY <3>3, RequestFrame, SystemFrame, ManagerFrame, WorkerFrame DEF Next, vars, ReadJob
      <4>2. launched'[j] = launched[j]
        <5>1. ASSUME NEW k \in Jobs, Manage(k) PROVE launched'[j] = launched[j]
          BY <2>4, <5>1 DEF Manage, Spawn, SpawnLost, Die, StopPost, Collect, Becomes
        <5>2. ASSUME NEW k \in Jobs, ReadJob(k) PROVE launched'[j] = launched[j]
          BY <5>2 DEF ReadJob, units
        <5> QED
          BY <3>3, <5>1, <5>2, RequestFrame, SystemFrame, WorkerFrame DEF Next, vars, units
      <4> QED BY <2>4, <3>1, <4>1, <4>2 DEF DeadlineInv
    <3> QED BY <3>2, <3>3
  <2> QED BY <1>2, <2>1, <2>2, <2>3, <2>4, LiveUnits DEF Spawn, Becomes, Process, Upgrading
<1> QED BY <1>1, <1>2 DEF DeadlineInv, Alive

LEMMA VerdictNext == IInv /\ [Next]_vars => VerdictInv'
<1> SUFFICES ASSUME IInv, [Next]_vars PROVE VerdictInv'
  OBVIOUS
<1> USE DEF IInv, TypeOK
(* A unit that never was stays so unless its own launch is accepted, and   *)
(* one that has failed can only be collected.                              *)
<1>1. ASSUME NEW j \in Jobs
      PROVE  /\ \/ worker[j] = "none" => worker'[j] = "none"
                \/ \E r \in Requests : LaunchAccepted(r) /\ rjob[r] = j
             /\ worker[j] \in {"failed", "gone"} => worker'[j] \in {"failed", "gone"}
  <2>1. ASSUME NEW r \in Requests, LaunchAccepted(r), rjob[r] = j PROVE worker[j] = "none"
    BY <2>1 DEF LaunchAccepted, QuietInv
  <2>2. ASSUME NEW r \in Requests, Start(r)
        PROVE  worker'[j] = worker[j] \/ (LaunchAccepted(r) /\ rjob[r] = j)
    BY <2>2, RequestFrame DEF LaunchAccepted
  <2>3. ASSUME NEW k \in Jobs, Manage(k) \/ Upgrade(k)
        PROVE  \/ worker'[j] = worker[j]
               \/ worker[j] \notin {"none", "gone", "failed"}
               \/ worker[j] = "failed" /\ worker'[j] = "gone"
    BY <2>3 DEF Manage, Spawn, SpawnLost, Die, StopPost, Collect, Upgrade, Begin, StopWeb,
       StopFails, Install, InstallFails, StartService, StartFails, Verify, VerifyFails, Report,
       Becomes, Process, Upgrading
  <2>4. CASE Tick \/ RestartWeb \/ WebDies \/ Reboot
    BY <2>4, SystemFrame DEF Reboot
  <2>5. CASE UNCHANGED vars \/ \E k \in Jobs : ReadJob(k)
    BY <2>5 DEF vars, ReadJob, units
  <2> QED BY <2>1, <2>2, <2>3, <2>4, <2>5 DEF Next
<1>2. ASSUME NEW s \in Requests, rpc'[s] = "reconcile"
      PROVE  /\ failure'[s] = "nospawn" => worker'[rjob'[s]] = "none"
             /\ failure'[s] = "failed" => worker'[rjob'[s]] \in {"failed", "gone"}
  <2>1. CASE SpawnFails(s)
    BY <1>2, <2>1, IdAssumption, RequestHasJob
    DEF SpawnFails, QuietInv, Launched, units, Goto
  <2>2. CASE Observe(s)
    <3>1. failure'[s] \in Observations(rjob[s]) /\ rjob' = rjob /\ worker' = worker
      BY <2>2 DEF Observe, units
    <3>2. failure'[s] # "nospawn"
      BY <3>1 DEF Observations
    <3>3. failure'[s] = "failed" => worker[rjob[s]] = "failed"
      BY <3>1 DEF Observations
    <3> QED BY <3>1, <3>2, <3>3
  <2>3. CASE ~SpawnFails(s) /\ ~Observe(s)
    <3>1. rpc[s] = "reconcile" /\ rjob'[s] = rjob[s] /\ failure'[s] = failure[s]
      <4>1. ASSUME NEW r \in Requests, Start(r), r # s
            PROVE  rpc'[s] = rpc[s] /\ rjob'[s] = rjob[s] /\ failure'[s] = failure[s]
        BY <4>1 DEF Start, Continue, StartEnter, StartDecide, StoreJob, StorePointer, SpawnFails,
           LaunchRefused, LaunchAccepted, LaunchReturns, LaunchUnconfirmed, Observe,
           ReconcileLaunch, Goto, Answer
      <4>2. ~Start(s)
        BY <1>2, <2>3 DEF Start, Continue, StartEnter, StartDecide, StoreJob, StorePointer,
           LaunchRefused, LaunchAccepted, LaunchReturns, LaunchUnconfirmed,
           ReconcileLaunch, Goto, Answer
      <4>3. ~RequestsDie
        BY <1>2 DEF RequestsDie
      <4> QED BY <1>2, <4>1, <4>2, <4>3, SystemFrame, ManagerFrame, WorkerFrame
          DEF Next, vars, ReadJob, StopWeb, requests
    <3>2. rjob[s] \in Jobs
      BY <3>1, RequestHasJob DEF Launched
    <3>3. \A r \in Requests : LaunchAccepted(r) => rjob[r] # rjob[s]
      BY <3>1, <3>2, IdAssumption DEF LaunchAccepted, OwnerInv
    <3> QED BY <1>1, <3>1, <3>2, <3>3 DEF VerdictInv
  <2> QED BY <2>1, <2>2, <2>3
<1>3. ASSUME NEW j \in Jobs, jobs'[j].note = "launch"
      PROVE  worker'[j] = "none" /\ jobs'[j].status = "failed"
  <2>1. CASE jobs[j].note = "launch"
    <3>1. worker[j] = "none" /\ jobs[j].status = "failed"
      BY <2>1 DEF VerdictInv
    <3>2. jobs[j] # Absent
      BY <3>1 DEF Absent
    <3>3. ~\E r \in Requests : LaunchAccepted(r) /\ rjob[r] = j
      <4>1. \A r \in Requests : rpc[r] = "launch" => jobs[rjob[r]].status = "queued"
        BY LaunchIsFresh, Bounds DEF DeadlineInv, Times
      <4> QED BY <3>1, <4>1 DEF LaunchAccepted
    <3>4. \A r \in Requests : rpc[r] = "store" => rjob[r] # j
      BY <3>2 DEF OwnerInv
    <3>5. jobs'[j] = jobs[j]
      <4>1. ASSUME NEW r \in Requests, Start(r) PROVE jobs'[j] = jobs[j]
        BY <3>1, <3>4, <4>1, RequestFrame
        DEF StartDecide, StoreJob, ReconcileLaunch, LatestJob, LaunchVerdict, Reconciled,
            IsStale, Active
      <4>2. ASSUME NEW k \in Jobs, ReadJob(k) PROVE jobs'[j] = jobs[j]
        BY <3>1, <4>2 DEF ReadJob, IsStale, Active
      <4>3. ASSUME NEW k \in Jobs, Upgrade(k) PROVE jobs'[j] = jobs[j]
        BY <3>1, <4>3, WorkerFrame DEF Begin, Report
      <4> QED BY <4>1, <4>2, <4>3, RecordFrame
    <3> QED BY <1>1, <3>1, <3>3, <3>5
  <2>2. CASE jobs[j].note # "launch"
    <3>1. PICK r \in Requests : /\ ReconcileLaunch(r) /\ rjob[r] = j
                                /\ failure[r] = "nospawn" /\ jobs'[j].status = "failed"
      <4>1. ASSUME NEW r \in Requests, StartDecide(r) PROVE FALSE
        BY <1>3, <2>2, <4>1
        DEF StartDecide, LatestJob, Reconciled, Failed, Ended, Record
      <4>2. ASSUME NEW r \in Requests, StoreJob(r) PROVE FALSE
        BY <1>3, <2>2, <4>2 DEF StoreJob
      <4>3. ASSUME NEW r \in Requests, ReconcileLaunch(r)
            PROVE  rjob[r] = j /\ failure[r] = "nospawn" /\ jobs'[j].status = "failed"
        BY <1>3, <2>2, <4>3
        DEF ReconcileLaunch, LaunchVerdict, Reconciled, Failed, Ended, Record
      <4>4. ASSUME NEW k \in Jobs, ReadJob(k) PROVE FALSE
        BY <1>3, <2>2, <4>4 DEF ReadJob, Reconciled, Failed, Ended, Record
      <4>5. ASSUME NEW k \in Jobs, Begin(k) PROVE FALSE
        BY <1>3, <2>2, <4>5, BegunJob DEF Begin
      <4>6. ASSUME NEW k \in Jobs, Report(k) PROVE FALSE
        BY <1>3, <2>2, <4>6 DEF Report, Ended, Record
      <4> QED BY <1>3, <2>2, <4>1, <4>2, <4>3, <4>4, <4>5, <4>6, RecordFrame, RequestFrame, WorkerFrame
    <3> QED BY <3>1 DEF ReconcileLaunch, VerdictInv, units
  <2> QED BY <2>1, <2>2
<1> QED BY <1>2, <1>3 DEF VerdictInv

(* The package and its health are only touched by a worker in the middle   *)
(* of an upgrade, or by what kills it there.                               *)
LEMMA PackageFrame ==
  ASSUME IInv, [Next]_vars
  PROVE  \/ UNCHANGED <<package, intact>>
         \/ \E k \in Jobs : worker[k] \in Upgrading /\ worker'[k] # worker[k]
<1> USE DEF IInv, TypeOK
<1>1. ASSUME NEW k \in Jobs, Upgrade(k)
      PROVE  \/ UNCHANGED <<package, intact>>
             \/ worker[k] \in Upgrading /\ worker'[k] # worker[k]
  BY <1>1 DEF Upgrade, Begin, StopWeb, StopFails, Install, InstallFails, StartService,
     StartFails, Verify, VerifyFails, Report, Becomes, Upgrading, service
<1>2. ASSUME NEW k \in Jobs, Manage(k)
      PROVE  \/ UNCHANGED <<package, intact>>
             \/ worker[k] \in Upgrading /\ worker'[k] # worker[k]
  BY <1>2 DEF Manage, Spawn, SpawnLost, Die, StopPost, Collect, Becomes, Damage, Process,
     Upgrading, service
<1>3. CASE Reboot
  <2>1. CASE \E k \in Jobs : worker[k] \in {"install", "start"}
    BY <1>3, <2>1 DEF Reboot, Upgrading
  <2>2. CASE \A k \in Jobs : worker[k] \notin {"install", "start"}
    <3>1. {worker[k] : k \in Jobs} \intersect {"install", "start"} = {}
      BY <2>2
    <3> QED BY <1>3, <3>1 DEF Reboot, Damage
  <2> QED BY <2>1, <2>2
<1>4. CASE Tick \/ RestartWeb \/ WebDies \/ UNCHANGED vars \/ \E k \in Jobs : ReadJob(k)
  BY <1>4 DEF Tick, RestartWeb, WebDies, vars, ReadJob, service
<1> QED BY <1>1, <1>2, <1>3, <1>4, RequestFrame DEF Next, service

LEMMA SuccessNext == IInv /\ [Next]_vars => SuccessInv'
<1> SUFFICES ASSUME IInv, [Next]_vars PROVE SuccessInv'
  OBVIOUS
<1> USE DEF IInv, TypeOK
<1> DEFINE Installed(j) == \/ worker[j] \in {"start", "verify"}
                           \/ (worker[j] = "report" /\ result[j] = "succeeded")
           Unstarted(j) == worker[j] \in {"stop", "install", "start"}
<1>1. ASSUME NEW j \in Jobs, worker'[j] = worker[j], worker[j] \in Upgrading
      PROVE  UNCHANGED <<package, intact>> /\ result'[j] = result[j]
  <2>1. \A k \in Jobs : worker[k] \in Upgrading => k = j
    BY <1>1 DEF AliveInv, Alive, Process
  <2>2. ASSUME NEW k \in Jobs, Upgrade(k) PROVE result'[j] = result[j]
    BY <1>1, <2>2 DEF Upgrade, Begin, StopWeb, StopFails, Install, InstallFails, StartService,
       StartFails, Verify, VerifyFails, Report, Becomes
  <2>3. result'[j] = result[j]
    BY <2>2, RequestFrame, SystemFrame, ManagerFrame DEF Next, vars, units, ReadJob
  <2> QED BY <1>1, <2>1, <2>3, PackageFrame
<1>2. ASSUME NEW j \in Jobs, Upgrade(j), worker'[j] \in Upgrading
      PROVE  /\ Installed(j)' => package' = j /\ intact'
             /\ Unstarted(j)' => result'[j] = "failed"
  <2>1. CASE Begin(j) \/ StopWeb(j) \/ StopFails(j) \/ InstallFails(j) \/ StartFails(j)
             \/ VerifyFails(j)
    BY <1>2, <2>1 DEF Begin, StopWeb, StopFails, InstallFails, StartFails, VerifyFails, Becomes,
       Upgrading, SuccessInv
  <2>2. CASE Install(j) \/ StartService(j) \/ Verify(j)
    BY <1>2, <2>2 DEF Install, StartService, Verify, Becomes, service, SuccessInv
  <2>3. CASE Report(j)
    BY <1>2, <2>3 DEF Report, Becomes, Upgrading
  <2> QED BY <1>2, <2>1, <2>2, <2>3 DEF Upgrade
<1>3. ASSUME NEW j \in Jobs, worker'[j] \in Upgrading
      PROVE  /\ Installed(j)' => package' = j /\ intact'
             /\ Unstarted(j)' => result'[j] = "failed"
  <2>1. \/ worker'[j] = worker[j]
        \/ Upgrade(j)
    BY <1>3, LiveUnits DEF Alive, Process, Spawn, Becomes, LaunchAccepted, Upgrading
  <2> QED BY <1>1, <1>2, <1>3, <2>1 DEF SuccessInv
<1>4. ASSUME latest' # NoJob, jobs'[latest'].status = "succeeded"
      PROVE  package' = latest' /\ intact'
  <2>1. latest' \in Jobs
    BY <1>4, TypeNext
  <2>2. CASE \E j \in Jobs : Report(j) /\ j = latest' /\ jobs[j].status \in Active
    <3>1. PICK j \in Jobs : Report(j) /\ j = latest' /\ jobs[j].status \in Active
      BY <2>2
    <3>2. result[j] = "succeeded"
      BY <1>4, <3>1 DEF Report, Ended, Record
    <3> QED BY <3>1, <3>2 DEF Report, service, SuccessInv
  <2>3. CASE ~\E j \in Jobs : Report(j) /\ j = latest' /\ jobs[j].status \in Active
    <3>1. jobs[latest'].status = "succeeded"
      <4>1. ASSUME NEW r \in Requests, StartDecide(r) PROVE jobs[latest'].status = "succeeded"
        BY <1>4, <2>1, <4>1
        DEF StartDecide, LatestJob, Reconciled, Failed, Ended, Record
      <4>2. ASSUME NEW r \in Requests, StoreJob(r) PROVE jobs[latest'].status = "succeeded"
        BY <1>4, <2>1, <4>2 DEF StoreJob
      <4>3. ASSUME NEW r \in Requests, ReconcileLaunch(r)
            PROVE  jobs[latest'].status = "succeeded"
        BY <1>4, <2>1, <4>3
        DEF ReconcileLaunch, LaunchVerdict, Reconciled, Failed, Ended, Record
      <4>4. ASSUME NEW k \in Jobs, ReadJob(k) PROVE jobs[latest'].status = "succeeded"
        BY <1>4, <2>1, <4>4 DEF ReadJob, Reconciled, Failed, Ended, Record
      <4>5. ASSUME NEW k \in Jobs, Begin(k) PROVE jobs[latest'].status = "succeeded"
        BY <1>4, <2>1, <4>5, BegunJob DEF Begin
      <4>6. ASSUME NEW k \in Jobs, Report(k) PROVE jobs[latest'].status = "succeeded"
        BY <1>4, <2>1, <2>3, <4>6 DEF Report
      <4> QED BY <1>4, <4>1, <4>2, <4>3, <4>4, <4>5, <4>6, RecordFrame, RequestFrame, WorkerFrame
    <3>2. latest' = latest
      <4>1. ASSUME NEW r \in Requests, StorePointer(r) PROVE FALSE
        <5>1. jobs[rjob[r]] = [status |-> "queued", started |-> rnow[r], note |-> "none"]
          BY <4>1 DEF StorePointer, QuietInv
        <5>2. jobs[rjob[r]].status = "queued"
          BY <5>1
        <5> QED BY <3>1, <4>1, <5>2 DEF StorePointer
      <4> QED BY <4>1, RequestFrame, SystemFrame, ManagerFrame, WorkerFrame
          DEF Next, vars, files, ReadJob
    <3>3. package = latest /\ intact
      BY <1>4, <3>1, <3>2 DEF SuccessInv, SuccessIsInstalled
    <3>4. \A k \in Jobs : worker[k] \notin Upgrading
      BY <3>1, <3>2 DEF AliveInv, Alive, Process
    <3> QED BY <3>2, <3>3, <3>4, PackageFrame
  <2> QED BY <2>2, <2>3
<1> QED BY <1>3, <1>4 DEF SuccessInv, SuccessIsInstalled, Upgrading
-----------------------------------------------------------------------------
(* The theorems.                                                           *)

LEMMA InvInit == Init => IInv
<1> SUFFICES ASSUME Init PROVE IInv
  OBVIOUS
<1>1. TypeOK
  BY TypeInit
<1> QED
  BY <1>1, IdAssumption DEF Init, IInv, LockInv, OwnerInv, QuietInv, AliveInv, DeadlineInv,
     VerdictInv, SuccessInv, SuccessIsInstalled, Absent, InLock, Launched, Alive, Process,
     Upgrading

(* The strengthening is inductive.                                         *)
THEOREM Invariant == Spec => []IInv
<1>1. IInv /\ [Next]_vars => IInv'
  BY TypeNext, LockNext, OwnerNext, QuietNext, AliveNext, DeadlineNext, VerdictNext, SuccessNext
  DEF IInv
<1> QED BY InvInit, <1>1, PTL DEF Spec

(* Two updates never run at the same time (maintenance.py, 621-636).       *)
THEOREM OneUpgradeHolds == Spec => []OneUpgrade
<1>1. IInv => OneUpgrade
  BY DEF IInv, AliveInv, OneUpgrade
<1> QED BY <1>1, Invariant, PTL

(* A job that reads as finished has no live process.                       *)
THEOREM FinishedIsOverHolds == Spec => []FinishedIsOver
<1>1. IInv => FinishedIsOver
  BY DEF IInv, AliveInv, FinishedIsOver, Alive, Process, Terminal
<1> QED BY <1>1, Invariant, PTL

(* "no service changes were made" is only said of a job that never had a   *)
(* unit.                                                                   *)
THEOREM NoChangesClaimedHolds == Spec => []NoChangesClaimed
<1>1. IInv => NoChangesClaimed
  BY DEF IInv, VerdictInv, NoChangesClaimed
<1> QED BY <1>1, Invariant, PTL

(* The latest job reads as succeeded only if it installed the package.     *)
THEOREM SuccessIsInstalledHolds == Spec => []SuccessIsInstalled
<1>1. IInv => SuccessIsInstalled
  BY DEF IInv, SuccessInv
<1> QED BY <1>1, Invariant, PTL

(* No step, of a reader, of the launching request, of a late worker,       *)
(* changes a record whose status is final.                                 *)
THEOREM TerminalIsFinalHolds == Spec => TerminalIsFinal
<1>1. IInv /\ [Next]_vars
        => [\A j \in Jobs : jobs[j].status \in Terminal => jobs'[j] = jobs[j]]_vars
  <2> SUFFICES ASSUME IInv, [Next]_vars, NEW j \in Jobs, jobs[j].status \in Terminal
               PROVE  jobs'[j] = jobs[j]
    OBVIOUS
  <2>1. jobs[j].status \notin Active /\ jobs[j] # Absent
    BY DEF Active, Terminal, Absent
  <2>2. ASSUME NEW r \in Requests, Start(r) PROVE jobs'[j] = jobs[j]
    BY <2>1, <2>2, RequestFrame
    DEF StartDecide, StoreJob, ReconcileLaunch, LatestJob, LaunchVerdict, Reconciled, IsStale,
        IInv, TypeOK, OwnerInv
  <2>3. ASSUME NEW k \in Jobs, ReadJob(k) PROVE jobs'[j] = jobs[j]
    BY <2>1, <2>3 DEF ReadJob, IsStale, IInv, TypeOK
  <2>4. ASSUME NEW k \in Jobs, Upgrade(k) PROVE jobs'[j] = jobs[j]
    BY <2>1, <2>4, WorkerFrame DEF Begin, Report, IInv, TypeOK, Active
  <2> QED BY <2>2, <2>3, <2>4, RecordFrame
<1> QED BY <1>1, Invariant, PTL DEF Spec, TerminalIsFinal
=============================================================================
