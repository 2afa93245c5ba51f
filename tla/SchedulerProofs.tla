-------------------------- MODULE SchedulerProofs --------------------------
(***************************************************************************)
(* The scheduler's locks exclude, are never leaked, and the ledger's open  *)
(* rows are runs under way - for any set of jobs, keys and callers. And the*)
(* research agent, whose workflows GitHub's scheduler starts: for any      *)
(* papers and pages, and any answers and overlaps of its two workflows.    *)
(***************************************************************************)
EXTENDS Scheduler, ResearchAgent, SequenceTheorems, TLAPS

(* The loop has a job exactly while it waits for or holds its lock, and its *)
(* attempts start from none.                                                *)
LoopInv ==
    /\ job \in Jobs <=> pc[Loop] \notin {"asleep", "picking"}
    /\ pc[Loop] \in {"asleep", "picking", "waiting"} => attempt = 0
    /\ pc[Loop] = "starting" => attempt <= MaxRetries

IInv == TypeOK /\ LoopInv /\ NoLeakedLock /\ MutualExclusion /\ OpenRowIsRunning

USE SchedulerAssumption

LEMMA KeyOfInside ==
    ASSUME TypeOK, LoopInv, NEW t \in Tasks, Inside(t) \/ pc[t] = "waiting"
    PROVE  KeyOf(t) \in Keys
  BY DEF TypeOK, LoopInv, Inside, KeyOf, Tasks, LoopInside

LEMMA InitIInv == Init => IInv
  <1> SUFFICES ASSUME Init PROVE IInv
    OBVIOUS
  <1>1. TypeOK
    BY EmptySeq DEF Init, TypeOK, Tasks, LoopStates, LoopInside, ClientStates, Outcomes
  <1>2. LoopInv
    BY DEF Init, LoopInv, Tasks
  <1>3. \A t \in Tasks : ~Inside(t)
    BY DEF Init, Inside, Tasks, LoopInside
  <1>4. NoLeakedLock /\ MutualExclusion /\ OpenRowIsRunning
    BY <1>3 DEF Init, NoLeakedLock, MutualExclusion, OpenRowIsRunning
  <1> QED BY <1>1, <1>2, <1>4 DEF IInv

-----------------------------------------------------------------------------
(* What acquiring does, for a task that is not inside.                      *)
LEMMA AcquireTypes ==
    ASSUME TypeOK, NEW t \in Tasks, NEW k \in Keys, Acquire(t, k)
    PROVE  /\ locked' \in [Keys -> BOOLEAN]
           /\ waiters' \in [Keys -> Seq(Tasks)]
           /\ pc' \in [Tasks -> LoopStates \cup ClientStates]
           /\ pc'[Loop] \in LoopStates
           /\ \A c \in Clients : pc'[c] \in ClientStates
           /\ pc'[t] \in {"waiting", Entered(t)}
           /\ \A u \in Tasks \ {t} : pc'[u] = pc[u]
  <1>1. CASE FreeToTake(k)
    BY <1>1 DEF Acquire, TypeOK, Entered, Tasks, LoopStates, LoopInside, ClientStates
  <1>2. CASE ~FreeToTake(k)
    <2>1. waiters[k] \in Seq(Tasks)
      BY DEF TypeOK
    <2>2. Append(waiters[k], t) \in Seq(Tasks)
      BY <2>1, AppendProperties
    <2>3. waiters' \in [Keys -> Seq(Tasks)]
      BY <1>2, <2>2 DEF Acquire, TypeOK
    <2> QED BY <1>2, <2>3 DEF Acquire, TypeOK, Entered, Tasks, LoopStates, LoopInside, ClientStates
  <1> QED BY <1>1, <1>2

LEMMA TypeStep == IInv /\ [Next]_vars => TypeOK'
  <1> SUFFICES ASSUME IInv, [Next]_vars PROVE TypeOK'
    OBVIOUS
  <1> USE DEF IInv
  <1>1. ASSUME NEW j \in Jobs, RunJob(j) PROVE TypeOK'
    <2>1. Acquire(Loop, LockKey[j]) BY <1>1 DEF RunJob
    <2> QED BY <1>1, <2>1, AcquireTypes DEF RunJob, TypeOK, Tasks, bounds
  <1>2. ASSUME NEW c \in Clients, TryRunExclusive(c) PROVE TypeOK'
    <2>1. Acquire(c, OnDemandKey) BY <1>2 DEF TryRunExclusive
    <2> QED BY <1>2, <2>1, AcquireTypes DEF TryRunExclusive, TypeOK, Tasks, bounds, loopVars
  <1>3. ASSUME NEW t \in Tasks, Resume(t) PROVE TypeOK'
    <2>1. KeyOf(t) \in Keys /\ waiters[KeyOf(t)] \in Seq(Tasks)
      BY <1>3, KeyOfInside DEF Resume, TypeOK
    <2>2. Tail(waiters[KeyOf(t)]) \in Seq(Tasks)
      BY <1>3, <2>1, HeadTailProperties DEF Resume
    <2> QED BY <1>3, <2>1, <2>2 DEF Resume, TypeOK, Entered, Tasks, LoopStates, LoopInside,
              ClientStates, bounds, loopVars
  <1>4. CASE Tick
    BY <1>4 DEF Tick, TypeOK, Older, lockVars, loopVars, bounds
  <1>5. CASE Health
    BY <1>5 DEF Health, TypeOK, lockVars, loopVars
  <1>6. CASE Crash
    BY <1>6, EmptySeq DEF Crash, TypeOK, Tasks, LoopStates, ClientStates
  <1>7. ASSUME NEW j \in Jobs, RequestRun(j) PROVE TypeOK'
    BY <1>7 DEF RequestRun, TypeOK, lockVars, loopVars, bounds
  <1>8. ASSUME NEW c \in Clients, ClientDone(c) PROVE TypeOK'
    BY <1>8 DEF ClientDone, TypeOK, Release, ClientStates, Tasks, loopVars, bounds
  <1>9. CASE Poll
    BY <1>9 DEF Poll, Asked, Timed, TypeOK, LoopStates, Tasks, lockVars, bounds
  <1>10. CASE Sleep
    BY <1>10 DEF Sleep, TypeOK, LoopStates, Tasks, lockVars, loopVars, bounds
  <1>11. CASE StartAttempt
    BY <1>11 DEF StartAttempt, TypeOK, LoopInv, LoopStates, LoopInside, Outcomes, Tasks, lockVars, bounds
  <1>12. ASSUME NEW how \in {"returned", "raised"}, HandlerReturns(how) PROVE TypeOK'
    BY <1>12 DEF HandlerReturns, TypeOK, LoopStates, LoopInside, Tasks, lockVars, loopVars, bounds
  <1>13. CASE RecordSuccess
    <2>1. job \in Jobs BY <1>13 DEF RecordSuccess, LoopInv
    <2> QED BY <1>13, <2>1 DEF RecordSuccess, LeaveJob, Release, TypeOK, LoopStates, Outcomes, Tasks, bounds
  <1>14. CASE RecordFailure
    BY <1>14 DEF RecordFailure, AfterFailure, TypeOK, LoopStates, LoopInside, Outcomes, Tasks,
       lockVars, loopVars, bounds
  <1>15. CASE Alert
    <2>1. job \in Jobs BY <1>15 DEF Alert, LoopInv
    <2> QED BY <1>15, <2>1 DEF Alert, LeaveJob, Release, TypeOK, LoopStates, Tasks, bounds
  <1>16. CASE UNCHANGED vars
    BY <1>16 DEF vars, TypeOK
  <1> QED
    BY <1>1, <1>2, <1>3, <1>4, <1>5, <1>6, <1>7, <1>8, <1>9, <1>10, <1>11, <1>12, <1>13,
       <1>14, <1>15, <1>16 DEF Next, LoopStep, ClientStep, Tasks
-----------------------------------------------------------------------------
(* One step at a time: who enters finds the lock free, who leaves frees it.  *)
LockInv == NoLeakedLock /\ MutualExclusion

LEMMA AcquireLoop ==
    ASSUME IInv, NEW j \in Jobs, RunJob(j)
    PROVE  LockInv'
  <1> USE DEF Inside, KeyOf
  <1>1. pc[Loop] = "picking" /\ job' = j /\ Acquire(Loop, LockKey[j]) /\ LockKey[j] \in Keys
    BY DEF RunJob
  <1>2. CASE FreeToTake(LockKey[j])
    <2>1. /\ ~locked[LockKey[j]] /\ locked' = [locked EXCEPT ![LockKey[j]] = TRUE]
          /\ pc' = [pc EXCEPT ![Loop] = "starting"]
      BY <1>1, <1>2 DEF Acquire, FreeToTake, Entered
    <2>2. MutualExclusion'
      BY <1>1, <2>1 DEF IInv, MutualExclusion, NoLeakedLock, TypeOK, Tasks, LoopInside
    <2>3. NoLeakedLock'
      BY <1>1, <2>1 DEF IInv, NoLeakedLock, TypeOK, Tasks, LoopInside
    <2> QED BY <2>2, <2>3 DEF LockInv
  <1>3. CASE ~FreeToTake(LockKey[j])
    <2>1. locked' = locked /\ pc' = [pc EXCEPT ![Loop] = "waiting"]
      BY <1>1, <1>3 DEF Acquire
    <2> QED
      BY <1>1, <2>1 DEF LockInv, IInv, MutualExclusion, NoLeakedLock, TypeOK, Tasks, LoopInside
  <1> QED BY <1>2, <1>3

LEMMA AcquireClient ==
    ASSUME IInv, NEW c \in Clients, TryRunExclusive(c)
    PROVE  LockInv'
  <1> USE DEF Inside, KeyOf
  <1>1. /\ pc[c] = "idle" /\ job' = job /\ Acquire(c, OnDemandKey)
        /\ c # Loop /\ c \in Tasks
    BY DEF TryRunExclusive, loopVars, Tasks
  <1>2. CASE FreeToTake(OnDemandKey)
    <2>1. /\ ~locked[OnDemandKey] /\ locked' = [locked EXCEPT ![OnDemandKey] = TRUE]
          /\ pc' = [pc EXCEPT ![c] = "inside"]
      BY <1>1, <1>2 DEF Acquire, FreeToTake, Entered
    <2>2. MutualExclusion'
      BY <1>1, <2>1 DEF IInv, MutualExclusion, NoLeakedLock, TypeOK, Tasks, LoopInside
    <2>3. NoLeakedLock'
      BY <1>1, <2>1 DEF IInv, NoLeakedLock, TypeOK, Tasks, LoopInside
    <2> QED BY <2>2, <2>3 DEF LockInv
  <1>3. CASE ~FreeToTake(OnDemandKey)
    <2>1. locked' = locked /\ pc' = [pc EXCEPT ![c] = "waiting"]
      BY <1>1, <1>3 DEF Acquire
    <2> QED
      BY <1>1, <2>1 DEF LockInv, IInv, MutualExclusion, NoLeakedLock, TypeOK, Tasks, LoopInside
  <1> QED BY <1>2, <1>3

LEMMA ResumeTakes ==
    ASSUME IInv, NEW t \in Tasks, Resume(t)
    PROVE  LockInv'
  <1>1. KeyOf(t) \in Keys
    BY KeyOfInside DEF Resume, IInv
  <1>2. /\ pc[t] = "waiting" /\ job' = job /\ ~locked[KeyOf(t)]
        /\ locked' = [locked EXCEPT ![KeyOf(t)] = TRUE]
        /\ pc' = [pc EXCEPT ![t] = Entered(t)]
    BY DEF Resume, loopVars
  <1> USE DEF Inside, KeyOf
  <1>3. MutualExclusion'
    BY <1>1, <1>2 DEF IInv, MutualExclusion, NoLeakedLock, TypeOK, Tasks, LoopInside, Entered
  <1>4. NoLeakedLock'
    BY <1>1, <1>2 DEF IInv, NoLeakedLock, TypeOK, Tasks, LoopInside, Entered
  <1> QED BY <1>3, <1>4 DEF LockInv

LEMMA LoopLeaves ==
    ASSUME IInv, pc[Loop] \in {"returned", "alerting"}, LeaveJob
    PROVE  LockInv'
  <1> USE DEF Inside, KeyOf
  <1>1. job \in Jobs /\ LockKey[job] \in Keys
    BY DEF IInv, LoopInv
  <1>2. /\ locked' = [locked EXCEPT ![LockKey[job]] = FALSE]
        /\ pc' = [pc EXCEPT ![Loop] = "picking"]
    BY DEF LeaveJob, Release
  <1>3. MutualExclusion'
    BY <1>1, <1>2 DEF IInv, MutualExclusion, TypeOK, Tasks, LoopInside
  <1>4. NoLeakedLock'
    BY <1>1, <1>2 DEF IInv, NoLeakedLock, MutualExclusion, TypeOK, Tasks, LoopInside
  <1> QED BY <1>3, <1>4 DEF LockInv

LEMMA ClientLeaves ==
    ASSUME IInv, NEW c \in Clients, ClientDone(c)
    PROVE  LockInv'
  <1> USE DEF Inside, KeyOf
  <1>1. /\ locked' = [locked EXCEPT ![OnDemandKey] = FALSE]
        /\ pc' = [pc EXCEPT ![c] = "idle"] /\ pc[c] = "inside"
        /\ job' = job /\ c # Loop /\ c \in Tasks
    BY DEF ClientDone, Release, loopVars, Tasks
  <1>2. MutualExclusion'
    BY <1>1 DEF IInv, MutualExclusion, TypeOK, Tasks, LoopInside
  <1>3. NoLeakedLock'
    BY <1>1 DEF IInv, NoLeakedLock, MutualExclusion, TypeOK, Tasks, LoopInside
  <1> QED BY <1>2, <1>3 DEF LockInv

(* Every other step of the loop keeps it where it is with respect to locks.  *)
LEMMA LoopStays ==
    ASSUME IInv, locked' = locked, NEW to,
           pc' = [pc EXCEPT ![Loop] = to],
           \/ pc[Loop] \in LoopInside /\ to \in LoopInside /\ job' = job
           \/ pc[Loop] \notin LoopInside /\ to \notin LoopInside
    PROVE  LockInv'
  BY DEF LockInv, IInv, MutualExclusion, NoLeakedLock, TypeOK, Tasks, Inside, KeyOf

LEMMA LockStep == IInv /\ [Next]_vars => LockInv'
  <1> SUFFICES ASSUME IInv, [Next]_vars PROVE LockInv'
    OBVIOUS
  <1>1. ASSUME locked' = locked, pc' = pc, job' = job PROVE LockInv'
    BY <1>1 DEF LockInv, IInv, MutualExclusion, NoLeakedLock, Inside, KeyOf
  <1>2. CASE Tick \/ Health \/ UNCHANGED vars
    BY <1>1, <1>2 DEF Tick, Health, vars, lockVars, loopVars
  <1>3. ASSUME NEW j \in Jobs, RequestRun(j) PROVE LockInv'
    BY <1>1, <1>3 DEF RequestRun, lockVars, loopVars
  <1>4. CASE Crash
    BY <1>4 DEF Crash, LockInv, MutualExclusion, NoLeakedLock, Inside, Tasks, LoopInside
  <1>5. CASE Poll \/ Sleep
    <2>1. locked' = locked /\ pc[Loop] \notin LoopInside
      BY <1>5 DEF Poll, Sleep, lockVars, LoopInside
    <2>2. CASE Poll BY <2>1, <2>2, LoopStays DEF Poll, LoopInside
    <2>3. CASE Sleep BY <2>1, <2>3, LoopStays DEF Sleep, LoopInside
    <2> QED BY <1>5, <2>2, <2>3
  <1>6. CASE StartAttempt
    BY <1>6, LoopStays DEF StartAttempt, lockVars, LoopInside
  <1>7. ASSUME NEW how \in {"returned", "raised"}, HandlerReturns(how) PROVE LockInv'
    BY <1>7, LoopStays DEF HandlerReturns, lockVars, loopVars, LoopInside
  <1>8. CASE RecordFailure
    BY <1>8, LoopStays DEF RecordFailure, AfterFailure, lockVars, loopVars, LoopInside
  <1>9. CASE RecordSuccess \/ Alert
    BY <1>9, LoopLeaves DEF RecordSuccess, Alert
  <1> QED
    BY <1>2, <1>3, <1>4, <1>5, <1>6, <1>7, <1>8, <1>9, AcquireLoop, AcquireClient,
       ResumeTakes, ClientLeaves DEF Next, LoopStep, ClientStep, Tasks

-----------------------------------------------------------------------------
LEMMA LoopInvStep == IInv /\ [Next]_vars => LoopInv'
  <1> SUFFICES ASSUME IInv, [Next]_vars PROVE LoopInv'
    OBVIOUS
  <1> USE DEF IInv, LoopInv
  <1>1. ASSUME pc'[Loop] = pc[Loop], job' = job, attempt' = attempt PROVE LoopInv'
    BY <1>1
  <1>2. CASE Tick \/ Health \/ UNCHANGED vars
    BY <1>1, <1>2 DEF Tick, Health, vars, loopVars
  <1>3. ASSUME NEW j \in Jobs, RequestRun(j) PROVE LoopInv'
    BY <1>1, <1>3 DEF RequestRun, loopVars
  <1>4. ASSUME NEW c \in Clients, ClientDone(c) PROVE LoopInv'
    BY <1>1, <1>4 DEF ClientDone, loopVars, TypeOK, Tasks
  <1>5. ASSUME NEW c \in Clients, TryRunExclusive(c) PROVE LoopInv'
    BY <1>1, <1>5, AcquireTypes DEF TryRunExclusive, loopVars, Tasks
  <1>6. ASSUME NEW c \in Clients, Resume(c) PROVE LoopInv'
    BY <1>1, <1>6 DEF Resume, loopVars, TypeOK, Tasks
  <1>7. CASE Resume(Loop)
    BY <1>7 DEF Resume, loopVars, TypeOK, Tasks, Entered
  <1>8. ASSUME NEW j \in Jobs, RunJob(j) PROVE LoopInv'
    <2>1. pc'[Loop] \in {"waiting", "starting"}
      BY <1>8, AcquireTypes DEF RunJob, Entered, Tasks
    <2> QED BY <1>8, <2>1 DEF RunJob, TypeOK
  <1>9. CASE Crash
    BY <1>9 DEF Crash, Tasks
  <1>10. CASE Poll \/ Sleep \/ StartAttempt
    BY <1>10 DEF Poll, Sleep, StartAttempt, TypeOK, Tasks, loopVars
  <1>11. ASSUME NEW how \in {"returned", "raised"}, HandlerReturns(how) PROVE LoopInv'
    BY <1>11 DEF HandlerReturns, TypeOK, Tasks, loopVars
  <1>12. CASE RecordFailure
    BY <1>12 DEF RecordFailure, AfterFailure, TypeOK, Tasks, loopVars
  <1>13. CASE RecordSuccess \/ Alert
    BY <1>13 DEF RecordSuccess, Alert, LeaveJob, TypeOK, Tasks
  <1> QED
    BY <1>2, <1>3, <1>4, <1>5, <1>6, <1>7, <1>8, <1>9, <1>10, <1>11, <1>12, <1>13
       DEF Next, LoopStep, ClientStep

LEMMA OpenRowStep == IInv /\ [Next]_vars => OpenRowIsRunning'
  <1> SUFFICES ASSUME IInv, [Next]_vars PROVE OpenRowIsRunning'
    OBVIOUS
  <1> USE DEF IInv, LoopInv, OpenRowIsRunning
  <1>1. ASSUME pc'[Loop] = pc[Loop], job' = job, row' = row, orphan' = orphan, LockInv'
        PROVE  OpenRowIsRunning'
    <2>1. job \in Jobs /\ pc[Loop] \in LoopInside => locked'[LockKey[job]]
      BY <1>1 DEF LockInv, NoLeakedLock, Inside, KeyOf, Tasks
    <2> QED BY <1>1, <2>1 DEF LoopInside
  <1> USE LockStep
  <1>2. CASE Tick \/ Health \/ UNCHANGED vars
    BY <1>1, <1>2 DEF Tick, Health, vars, loopVars
  <1>3. ASSUME NEW j \in Jobs, RequestRun(j) PROVE OpenRowIsRunning'
    BY <1>1, <1>3 DEF RequestRun, loopVars
  <1>4. ASSUME NEW c \in Clients, ClientDone(c) PROVE OpenRowIsRunning'
    BY <1>1, <1>4 DEF ClientDone, loopVars, TypeOK, Tasks
  <1>5. ASSUME NEW c \in Clients, TryRunExclusive(c) PROVE OpenRowIsRunning'
    BY <1>1, <1>5, AcquireTypes DEF TryRunExclusive, loopVars, Tasks
  <1>6. ASSUME NEW c \in Clients, Resume(c) PROVE OpenRowIsRunning'
    BY <1>1, <1>6 DEF Resume, loopVars, TypeOK, Tasks
  <1>7. CASE Resume(Loop) \/ Poll \/ Sleep
    <2>1. pc[Loop] \notin {"handling", "returned", "raised"} /\ row' = row /\ orphan' = orphan
      BY <1>7 DEF Resume, Poll, Sleep, loopVars
    <2> QED BY <2>1
  <1>8. ASSUME NEW j \in Jobs, RunJob(j) PROVE OpenRowIsRunning'
    BY <1>8 DEF RunJob
  <1>9. CASE Crash
    <2>1. \A j \in Jobs \ orphan' : row'[j] # "running"
      BY <1>9 DEF Crash
    <2> QED BY <2>1
  <1>10. CASE StartAttempt
    <2>1. job \in Jobs /\ pc[Loop] \in LoopInside /\ locked' = locked
      BY <1>10 DEF StartAttempt, lockVars, LoopInside
    <2>2. Inside(Loop) /\ KeyOf(Loop) = LockKey[job] /\ LockKey[job] \in Keys
      BY <2>1 DEF Inside, KeyOf
    <2>3. locked'[LockKey[job]]
      BY <2>1, <2>2 DEF NoLeakedLock, Tasks
    <2>4. /\ pc[Loop] = "starting" /\ pc'[Loop] = "handling" /\ job' = job
          /\ row' = [row EXCEPT ![job] = "running"] /\ orphan' = orphan \ {job}
      BY <1>10 DEF StartAttempt, TypeOK, Tasks
    <2>5. \A j \in Jobs \ orphan : row[j] # "running"
      BY <2>4
    <2>6. \A j \in Jobs \ orphan' : j # job => row'[j] # "running"
      BY <2>4, <2>5 DEF TypeOK
    <2>7. ASSUME NEW j \in Jobs \ orphan', row'[j] = "running"
          PROVE  job' = j /\ locked'[LockKey[j]] /\ pc'[Loop] = "handling"
      BY <2>3, <2>4, <2>6, <2>7
    <2> QED BY <2>7
  <1>11. ASSUME NEW how \in {"returned", "raised"}, HandlerReturns(how)
         PROVE OpenRowIsRunning'
    BY <1>11 DEF HandlerReturns, TypeOK, Tasks, lockVars, loopVars
  <1>12. CASE RecordFailure
    BY <1>12 DEF RecordFailure, TypeOK
  <1>13. CASE RecordSuccess \/ Alert
    <2>1. \A j \in Jobs \ orphan : row[j] = "running" => j = job /\ pc[Loop] # "alerting"
      OBVIOUS
    <2>2. orphan' = orphan /\ (row' = row \/ row' = [row EXCEPT ![job] = "success"])
      BY <1>13 DEF RecordSuccess, Alert
    <2>3. \A j \in Jobs \ orphan : row'[j] # "running"
      BY <1>13, <2>1, <2>2 DEF RecordSuccess, Alert, TypeOK
    <2> QED BY <2>2, <2>3
  <1> QED
    BY <1>2, <1>3, <1>4, <1>5, <1>6, <1>7, <1>8, <1>9, <1>10, <1>11, <1>12, <1>13
       DEF Next, LoopStep, ClientStep

-----------------------------------------------------------------------------
LEMMA Inductive == Spec => []IInv
  <1>1. IInv /\ [Next]_vars => IInv'
    BY TypeStep, LoopInvStep, LockStep, OpenRowStep DEF IInv, LockInv
  <1> QED BY <1>1, InitIInv, PTL DEF Spec

(* Type correctness of scheduler, locks, ledger and loop.                    *)
THEOREM SchedulerTypeOK == Spec => []TypeOK
  <1>1. IInv => TypeOK BY DEF IInv
  <1> QED BY <1>1, Inductive, PTL

(* Per-key locks: of the loop and any number of on-demand callers, at most   *)
(* one is inside a key at a time.                                            *)
THEOREM LocksExclude == Spec => []MutualExclusion
  <1>1. IInv => MutualExclusion BY DEF IInv
  <1> QED BY <1>1, Inductive, PTL

(* A key is locked only while a task is inside that will release it.         *)
THEOREM LocksAreHeld == Spec => []NoLeakedLock
  <1>1. IInv => NoLeakedLock BY DEF IInv
  <1> QED BY <1>1, Inductive, PTL

(* An open Run row is a run under way under its job's lock, or an orphan of  *)
(* a crash.                                                                  *)
THEOREM LedgerIsTrue == Spec => []OpenRowIsRunning
  <1>1. IInv => OpenRowIsRunning BY DEF IInv
  <1> QED BY <1>1, Inductive, PTL

-----------------------------------------------------------------------------
(* The research agent's workflows.                                         *)

RunPlaces == {"idle", "load", "think", "read", "write", "save"}
RunJobs == {"none", "whatsapp", "projects", "trending"}
Spots == URLs \X (Pages \cup {Feed})
StateRec == [hash : Nat, urls : SUBSET URLs]
RunRec ==
    [at : RunPlaces, job : RunJobs, seen : Nat, state : StateRec, picks : [Items -> Nat],
     rest : SUBSET Pages, dest : Pages \cup {Feed}, copy : [Items -> Nat], pushed : SUBSET Spots]

ResearchTypeOK ==
    /\ version \in Nat /\ handled \in Nat /\ troubles \in Nat /\ calm \in BOOLEAN
    /\ page \in [Items -> Nat] /\ memory \in StateRec /\ run \in [Workflows -> RunRec]
    /\ ever \in SUBSET Spots /\ doubled \in SUBSET Items

\* No page, and no copy of one, has a line twice that was not written twice.
OneLine ==
    \A x \in Items \ doubled : page[x] <= 1 /\ \A w \in Workflows : run[w].copy[x] <= 1

\* A job that has not written yet has pushed nothing, and the trending job
\* reads no page.
Beginning ==
    \A w \in Workflows :
        /\ run[w].at \in {"idle", "load"} \/ (run[w].at = "think" /\ run[w].job = "trending") => run[w].pushed = {}
        /\ run[w].at \in {"read", "write"} => run[w].job \in {"whatsapp", "projects"}

Alone == \A w, v \in Workflows : run[w].at # "idle" /\ run[v].at # "idle" => w = v

\* What was ever pushed is remembered, or will be when the run has saved.
Remembered ==
    \A x \in ever : x[1] \in memory.urls \/ \E w \in Workflows : x \in run[w].pushed

\* A run has read the state as it is, and picks what was never pushed, once.
Fresh(p) ==
    \A x \in Named(p) :
        /\ p[x] = 1
        /\ \A y \in ever : x[1] # y[1]
        /\ \A y \in Named(p) : x[1] = y[1] => x = y
UpToDate ==
    \A w \in Workflows :
        /\ run[w].at \in {"think", "read", "write", "save"} => run[w].state = memory
        /\ run[w].at \in {"read", "write"} => Fresh(run[w].picks)
        /\ run[w].at = "write" => \A x \in Items : x[2] = run[w].dest => run[w].copy[x] = page[x]

Quiet == calm => Alone /\ Remembered /\ UpToDate /\ CalmPromise

ResearchInductive == ResearchTypeOK /\ OneLine /\ Beginning /\ Quiet

LEMMA ResearchTyped ==
    ASSUME ResearchInductive
    PROVE  /\ version \in Nat /\ handled \in Nat /\ troubles \in Nat /\ calm \in BOOLEAN
           /\ page \in [Items -> Nat] /\ memory \in StateRec /\ run \in [Workflows -> RunRec]
           /\ ever \in SUBSET Spots /\ doubled \in SUBSET Items
BY DEF ResearchInductive, ResearchTypeOK

LEMMA RunIs ==
    ASSUME NEW r \in RunRec
    PROVE  /\ r.at \in RunPlaces /\ r.job \in RunJobs /\ r.seen \in Nat /\ r.state \in StateRec
           /\ r.picks \in [Items -> Nat] /\ r.rest \in SUBSET Pages /\ r.dest \in Pages \cup {Feed}
           /\ r.copy \in [Items -> Nat] /\ r.pushed \in SUBSET Spots
           /\ r.state.urls \in SUBSET URLs /\ r.state.hash \in Nat
BY DEF RunRec, StateRec

LEMMA IdleIs ==
    /\ Idle \in RunRec /\ Idle.at = "idle" /\ Idle.pushed = {} /\ Idle.job = "none"
    /\ \A x \in Items : Idle.copy[x] = 0
<1>1. NoPicks \in [Items -> Nat] /\ \A x \in Items : NoPicks[x] = 0
  BY DEF NoPicks
<1>2. Blank \in StateRec
  BY DEF Blank, StateRec
<1>3. QED
  BY <1>1, <1>2 DEF Idle, RunRec, RunPlaces, RunJobs

\* A job that begins.
LEMMA LoadIs ==
    ASSUME NEW kind \in RunJobs, NEW q, q = [Idle EXCEPT !.at = "load", !.job = kind]
    PROVE  q \in RunRec /\ q.at = "load" /\ q.pushed = {} /\ \A x \in Items : q.copy[x] = 0
<1>1. NoPicks \in [Items -> Nat] /\ \A x \in Items : NoPicks[x] = 0
  BY DEF NoPicks
<1>2. Blank \in StateRec
  BY DEF Blank, StateRec
<1>3. QED
  BY <1>1, <1>2 DEF Idle, RunRec, RunPlaces

LEMMA AfterIs ==
    ASSUME NEW r \in RunRec
    PROVE  /\ After(r) \in RunRec /\ After(r).at \in {"idle", "load"} /\ After(r).pushed = {}
           /\ \A x \in Items : After(r).copy[x] = 0
<1>1. CASE r.job = "projects"
  <2>1. After(r) = [Idle EXCEPT !.at = "load", !.job = "trending"]
    BY <1>1 DEF After
  <2>2. "trending" \in RunJobs
    BY DEF RunJobs
  <2>3. QED
    BY <2>1, <2>2, LoadIs, Zenon
<1>2. CASE r.job # "projects"
  BY <1>2, IdleIs DEF After
<1>3. QED
  BY <1>1, <1>2

LEMMA SpotIs ==
    ASSUME NEW x \in Spots
    PROVE  /\ x[1] \in URLs /\ x[2] \in Pages \cup {Feed}
           /\ x[2] # Feed => x \in Items
           /\ \A y \in Spots : x[1] = y[1] /\ x[2] = y[2] => x = y
BY DEF Spots, Items

LEMMA ItemIs ==
    ASSUME NEW x \in Items
    PROVE  x \in Spots /\ x[1] \in URLs /\ x[2] \in Pages /\ x[2] # Feed
BY ResearchAssumption DEF Spots, Items, ResearchAssumption, Pages

LEMMA ResearchInits == ResearchInit => ResearchInductive
<1> SUFFICES ASSUME ResearchInit PROVE ResearchInductive
  OBVIOUS
<1>1. /\ version = 0 /\ memory = Blank /\ page = [x \in Items |-> IF x \in ByHand THEN 1 ELSE 0]
      /\ run = [w \in Workflows |-> Idle] /\ ever = {} /\ doubled = {} /\ handled = 0
      /\ calm = TRUE /\ troubles = 0
  BY DEF ResearchInit
<1>2. Blank \in StateRec
  BY DEF Blank, StateRec
<1>3. page \in [Items -> Nat] /\ \A x \in Items : page[x] <= 1
  BY <1>1
<1>4. ResearchTypeOK
  BY <1>1, <1>2, <1>3, IdleIs DEF ResearchTypeOK
<1>5. OneLine
  BY <1>1, <1>3, IdleIs DEF OneLine
<1>6. Beginning
  BY <1>1, IdleIs DEF Beginning
<1>7. Quiet
  BY <1>1, IdleIs DEF Quiet, Alone, Remembered, UpToDate, CalmPromise
<1>8. QED
  BY <1>4, <1>5, <1>6, <1>7 DEF ResearchInductive

-----------------------------------------------------------------------------
\* A run goes on and the pages stay: what one must know of where it goes.
LEMMA RunMoves ==
    ASSUME ResearchInductive, NEW w \in Workflows, NEW q \in RunRec, Becomes(w, q),
           UNCHANGED <<version, page, memory, ever, doubled, handled>>,
           troubles' \in Nat, calm' \in BOOLEAN,
           \A x \in Items \ doubled : q.copy[x] <= 1,
           q.at \in {"idle", "load"} \/ (q.at = "think" /\ q.job = "trending") => q.pushed = {},
           q.at \in {"read", "write"} => q.job \in {"whatsapp", "projects"},
           calm' => /\ calm
                    /\ q.at # "idle" => run[w].at # "idle" \/ \A v \in Workflows : run[v].at = "idle"
                    /\ run[w].pushed \subseteq q.pushed
                    /\ q.at \in {"think", "read", "write", "save"} => q.state = memory
                    /\ q.at \in {"read", "write"} => Fresh(q.picks)
                    /\ q.at = "write" => \A x \in Items : x[2] = q.dest => q.copy[x] = page[x]
    PROVE  ResearchInductive'
<1>1. run \in [Workflows -> RunRec]
  BY ResearchTyped
<1>2. /\ run' \in [Workflows -> RunRec] /\ run'[w] = q
      /\ \A v \in Workflows : v # w => run'[v] = run[v]
  BY <1>1 DEF Becomes
<1>3. ResearchTypeOK'
  BY <1>2, ResearchTyped DEF ResearchTypeOK
<1>4. OneLine'
  BY <1>2 DEF ResearchInductive, OneLine
<1>5. Beginning'
  BY <1>2 DEF ResearchInductive, Beginning
<1>6. ASSUME calm' PROVE Alone' /\ Remembered' /\ UpToDate' /\ CalmPromise'
  <2>1. calm /\ Alone /\ Remembered /\ UpToDate /\ CalmPromise
    BY <1>6 DEF ResearchInductive, Quiet
  <2>2. Alone'
    BY <1>2, <1>6, <2>1 DEF Alone
  <2>3. Remembered'
    <3>1. ASSUME NEW x \in ever, NEW v \in Workflows, x \in run[v].pushed
          PROVE  x \in run'[v].pushed
      BY <1>2, <1>6, <3>1
    <3>2. QED
      BY <2>1, <3>1 DEF Remembered
  <2>4. UpToDate'
    BY <1>2, <1>6, <2>1 DEF UpToDate, Fresh
  <2>5. CalmPromise'
    BY <1>6, <2>1 DEF CalmPromise
  <2>6. QED
    BY <2>2, <2>3, <2>4, <2>5
<1>7. Quiet'
  BY <1>6 DEF Quiet
<1>8. QED
  BY <1>3, <1>4, <1>5, <1>7 DEF ResearchInductive

LEMMA StartOK == ASSUME ResearchInductive, NEW w \in Workflows, Start(w) PROVE ResearchInductive'
<1>1. /\ run[w].at = "idle" /\ UNCHANGED <<version, page, memory, ever, doubled, handled, troubles>>
      /\ calm' = (calm /\ \A v \in Workflows : run[v].at = "idle")
      /\ Becomes(w, IF w \in Hourly
                    THEN [Idle EXCEPT !.at = "load", !.job = "whatsapp", !.seen = version]
                    ELSE [Idle EXCEPT !.at = "load", !.job = "projects"])
  BY DEF Start
<1> DEFINE q == IF w \in Hourly THEN [Idle EXCEPT !.at = "load", !.job = "whatsapp", !.seen = version]
                ELSE [Idle EXCEPT !.at = "load", !.job = "projects"]
<1>2. q \in RunRec /\ q.at = "load" /\ q.pushed = {} /\ \A x \in Items : q.copy[x] = 0
  <2>1. version \in Nat /\ "whatsapp" \in RunJobs /\ "projects" \in RunJobs
    BY ResearchTyped DEF RunJobs
  <2>2. CASE w \in Hourly
    <3>1. q = [Idle EXCEPT !.at = "load", !.job = "whatsapp", !.seen = version]
      BY <2>2
    <3> HIDE DEF q
    <3>2. NoPicks \in [Items -> Nat] /\ \A x \in Items : NoPicks[x] = 0
      BY DEF NoPicks
    <3>3. Blank \in StateRec
      BY DEF Blank, StateRec
    <3>4. QED
      BY <2>1, <3>1, <3>2, <3>3 DEF Idle, RunRec, RunPlaces
  <2>3. CASE w \notin Hourly
    <3>1. q = [Idle EXCEPT !.at = "load", !.job = "projects"]
      BY <2>3
    <3> HIDE DEF q
    <3>2. QED
      BY <2>1, <3>1, LoadIs, Zenon
  <2>4. QED
    BY <2>2, <2>3
<1>3. Becomes(w, q)
  BY <1>1
<1> HIDE DEF q
<1>4. run[w].pushed = {}
  BY <1>1 DEF ResearchInductive, Beginning
<1>5. troubles' \in Nat /\ calm' \in BOOLEAN
  BY <1>1, ResearchTyped
<1>6. calm' => calm /\ \A v \in Workflows : run[v].at = "idle"
  BY <1>1
<1>7. /\ \A x \in Items \ doubled : q.copy[x] <= 1
      /\ q.at \notin {"think", "read", "write", "save"}
      /\ run[w].pushed \subseteq q.pushed
  BY <1>2, <1>4
<1>8. QED
  BY <1>1, <1>2, <1>3, <1>5, <1>6, <1>7, RunMoves

LEMMA ResearchLoadOK == ASSUME ResearchInductive, NEW w \in Workflows, Load(w) PROVE ResearchInductive'
<1> DEFINE r == run[w]
           q == [r EXCEPT !.at = "think", !.state = memory, !.rest = Projects]
<1>1. /\ r.at = "load"
      /\ Becomes(w, After(r)) \/ Becomes(w, q)
      /\ UNCHANGED <<version, page, memory, ever, doubled, handled, calm, troubles>>
  BY DEF Load
<1>2. /\ r \in RunRec /\ memory \in StateRec /\ troubles' \in Nat /\ calm' \in BOOLEAN
      /\ \A x \in Items \ doubled : r.copy[x] <= 1
  BY <1>1, ResearchTyped DEF ResearchInductive, OneLine
<1>3. r.pushed = {}
  BY <1>1 DEF ResearchInductive, Beginning
<1>4. CASE Becomes(w, After(r))
  <2> DEFINE a == After(r)
  <2>1. a \in RunRec /\ a.at \in {"idle", "load"} /\ a.pushed = {} /\ \A x \in Items : a.copy[x] = 0
    BY <1>2, AfterIs
  <2>2. Becomes(w, a)
    BY <1>4
  <2> HIDE DEF a
  <2>3. \A x \in Items \ doubled : a.copy[x] <= 1
    BY <2>1
  <2>4. r.pushed \subseteq a.pushed
    BY <1>3
  <2>5. QED
    BY <1>1, <1>2, <2>1, <2>2, <2>3, <2>4, RunMoves
<1>5. CASE Becomes(w, q)
  <2>1. /\ q \in RunRec /\ q.at = "think" /\ q.pushed = {} /\ q.copy = r.copy /\ q.state = memory
    <3>1. Projects \in SUBSET Pages
      BY DEF Pages
    <3>2. QED
      BY <1>2, <1>3, <3>1 DEF RunRec, RunPlaces
  <2> HIDE DEF q
  <2>2. \A x \in Items \ doubled : q.copy[x] <= 1
    BY <1>2, <2>1
  <2>3. r.pushed \subseteq q.pushed
    BY <1>3
  <2>4. QED
    BY <1>1, <1>2, <1>5, <2>1, <2>2, <2>3, RunMoves
<1>6. QED
  BY <1>1, <1>4, <1>5

\* What a run may pick, when nothing disturbs it, was never pushed.
LEMMA CandidatesAreNew ==
    ASSUME ResearchInductive, calm, NEW w \in Workflows, run[w].at = "think",
           NEW u \in Candidates(run[w]), NEW y \in ever
    PROVE  u # y[1]
<1>1. run[w].state = memory /\ Alone /\ Remembered
  BY DEF ResearchInductive, Quiet, UpToDate
<1>2. CASE y[1] \in memory.urls
  BY <1>1, <1>2 DEF Candidates
<1>3. ASSUME NEW v \in Workflows, y \in run[v].pushed
      PROVE  u # y[1]
  <2>1. run[v].at # "idle"
    BY <1>3 DEF ResearchInductive, Beginning
  <2>2. v = w
    BY <1>1, <2>1 DEF Alone
  <2>3. QED
    BY <1>3, <2>2 DEF Candidates
<1>4. QED
  BY <1>1, <1>2, <1>3 DEF Remembered

\* The copy of a page.
LEMMA AtIs ==
    ASSUME ResearchInductive, NEW r \in RunRec, NEW d \in Pages
    PROVE  /\ At(r, d) \in RunRec /\ At(r, d).at = "write" /\ At(r, d).dest = d
           /\ At(r, d).job = r.job /\ At(r, d).state = r.state /\ At(r, d).picks = r.picks
           /\ At(r, d).pushed = r.pushed
           /\ \A x \in Items : x[2] = d => At(r, d).copy[x] = page[x]
           /\ \A x \in Items \ doubled : At(r, d).copy[x] <= 1
<1> DEFINE copy == [x \in Items |-> IF x[2] = d THEN page[x] ELSE 0]
<1>1. page \in [Items -> Nat] /\ \A x \in Items \ doubled : page[x] <= 1
  BY ResearchTyped DEF ResearchInductive, OneLine
<1>2. copy \in [Items -> Nat]
  BY <1>1
<1>3. \A x \in Items : copy[x] = IF x[2] = d THEN page[x] ELSE 0
  OBVIOUS
<1>4. At(r, d) = [r EXCEPT !.at = "write", !.dest = d, !.copy = copy]
  BY DEF At
<1> HIDE DEF copy
<1>5. /\ At(r, d) \in RunRec /\ At(r, d).at = "write" /\ At(r, d).dest = d
      /\ At(r, d).job = r.job /\ At(r, d).state = r.state /\ At(r, d).picks = r.picks
      /\ At(r, d).pushed = r.pushed /\ At(r, d).copy = copy
  BY <1>2, <1>4 DEF RunRec, RunPlaces
<1>6. \A x \in Items \ doubled : copy[x] <= 1
  BY <1>1, <1>3
<1>7. QED
  BY <1>3, <1>5, <1>6

LEMMA JudgedOK ==
    ASSUME ResearchInductive, NEW w \in Workflows, run[w].at = "think",
           run[w].job \in {"whatsapp", "projects"},
           NEW pages \in SUBSET Pages, NEW other \in SUBSET Pages,
           NEW p \in Answers(run[w], pages), Judged(w, run[w], p, other)
    PROVE  ResearchInductive'
<1> DEFINE r == run[w]
           left == other \cup {x[2] : x \in Named(p)}
           place == IF left # {} THEN "think" ELSE "save"
           on == [r EXCEPT !.picks = p, !.rest = left]
           q == [on EXCEPT !.at = place]
<1>1. /\ Becomes(w, q) \/ \E d \in Turns(p, left) : Becomes(w, At(on, d))
      /\ calm' = (calm /\ Once(p))
      /\ UNCHANGED <<version, page, memory, ever, doubled, handled, troubles>>
  BY DEF Judged
<1>2. p \in [Items -> 0..2] /\ Named(p) \subseteq Items /\ Named(p) \subseteq Candidates(r) \X pages
  BY DEF Answers, Named
<1>3. p \in [Items -> Nat]
  BY <1>2
<1>4. left \in SUBSET Pages
  BY <1>2, ItemIs
<1>5. /\ r \in RunRec /\ troubles' \in Nat /\ calm' \in BOOLEAN
      /\ \A x \in Items \ doubled : r.copy[x] <= 1
  BY <1>1, ResearchTyped DEF ResearchInductive, OneLine
<1>6. place \in {"think", "save"}
  OBVIOUS
<1> HIDE DEF left, place
<1>7. /\ on \in RunRec /\ on.job = r.job /\ on.state = r.state /\ on.pushed = r.pushed
      /\ on.picks = p /\ on.copy = r.copy
  BY <1>3, <1>4, <1>5 DEF RunRec
<1>8. calm' => calm /\ Once(p)
  BY <1>1
<1>9. calm' => r.state = memory
  BY <1>8 DEF ResearchInductive, Quiet, UpToDate
<1>10. CASE Becomes(w, q)
  <2>1. /\ q \in RunRec /\ q.at = place /\ q.job = on.job /\ q.state = on.state /\ q.pushed = on.pushed
        /\ q.copy = on.copy
    BY <1>6, <1>7 DEF RunRec, RunPlaces
  <2> HIDE DEF q, on
  <2>2. QED
    BY <1>1, <1>5, <1>6, <1>7, <1>8, <1>9, <1>10, <2>1, RunMoves
<1>11. ASSUME NEW d \in Turns(p, left), Becomes(w, At(on, d))
       PROVE  ResearchInductive'
  <2>1. d \in Pages
    BY <1>4 DEF Turns
  <2> DEFINE a == At(on, d)
  <2> HIDE DEF on
  <2>2. /\ a \in RunRec /\ a.at = "write" /\ a.dest = d /\ a.job = r.job /\ a.state = r.state /\ a.picks = p
        /\ a.pushed = r.pushed /\ \A x \in Items : x[2] = d => a.copy[x] = page[x]
        /\ \A x \in Items \ doubled : a.copy[x] <= 1
    BY <1>7, <2>1, AtIs
  <2>3. Becomes(w, a)
    BY <1>11
  <2> HIDE DEF a
  <2>4. ASSUME calm'
        PROVE  Fresh(p)
    <3>1. \A x \in Named(p) : p[x] = 1 /\ \A y \in Named(p) : x[1] = y[1] => x = y
      BY <1>8, <2>4 DEF Once
    <3>2. \A x \in Named(p) : \A y \in ever : x[1] # y[1]
      BY <1>2, <1>8, <2>4, CandidatesAreNew
    <3>3. QED
      BY <3>1, <3>2 DEF Fresh
  <2>5. QED
    BY <1>1, <1>5, <1>8, <1>9, <2>2, <2>3, <2>4, RunMoves
<1>12. QED
  BY <1>1, <1>10, <1>11

LEMMA ThinkOK ==
    ASSUME ResearchInductive, NEW w \in Workflows, ThinkAll(w) \/ ThinkProject(w) PROVE ResearchInductive'
<1>1. run[w] \in RunRec /\ run[w].rest \in SUBSET Pages
  BY ResearchTyped, RunIs
<1>2. CASE ThinkAll(w)
  <2>1. /\ run[w].at = "think" /\ run[w].job \in {"whatsapp", "projects"}
        /\ Pages \in SUBSET Pages /\ {} \in SUBSET Pages
        /\ \E p \in Answers(run[w], Pages) : Judged(w, run[w], p, {})
    BY <1>2 DEF ThinkAll
  <2>2. QED
    BY <2>1, JudgedOK
<1>3. CASE ThinkProject(w)
  <2>1. run[w].at = "think" /\ run[w].job \in {"whatsapp", "projects"}
    BY <1>3 DEF ThinkProject
  <2>2. PICK d \in run[w].rest : \E p \in Answers(run[w], {d}) : Judged(w, run[w], p, run[w].rest \ {d})
    BY <1>3 DEF ThinkProject
  <2>3. {d} \in SUBSET Pages /\ run[w].rest \ {d} \in SUBSET Pages
    BY <1>1
  <2>4. QED
    BY <2>1, <2>2, <2>3, JudgedOK
<1>4. QED
  BY <1>2, <1>3

LEMMA ReadPageOK == ASSUME ResearchInductive, NEW w \in Workflows, ReadPage(w) PROVE ResearchInductive'
<1>1. /\ run[w].at = "read" /\ UNCHANGED <<version, page, memory, ever, doubled, handled, calm, troubles>>
  BY DEF ReadPage
<1>2. PICK d \in Turns(run[w].picks, run[w].rest) : Becomes(w, At(run[w], d))
  BY DEF ReadPage
<1>3. run[w] \in RunRec /\ d \in Pages /\ troubles' \in Nat /\ calm' \in BOOLEAN
  BY <1>1, ResearchTyped, RunIs DEF Turns
<1> DEFINE a == At(run[w], d)
<1>4. /\ a \in RunRec /\ a.at = "write" /\ a.dest = d /\ a.job = run[w].job /\ a.state = run[w].state
      /\ a.picks = run[w].picks /\ a.pushed = run[w].pushed
      /\ \A x \in Items : x[2] = d => a.copy[x] = page[x]
      /\ \A x \in Items \ doubled : a.copy[x] <= 1
  BY <1>3, AtIs
<1>5. Becomes(w, a)
  BY <1>2
<1> HIDE DEF a
<1>6. run[w].job \in {"whatsapp", "projects"}
  BY <1>1 DEF ResearchInductive, Beginning
<1>7. calm' => calm /\ run[w].state = memory /\ Fresh(run[w].picks)
  BY <1>1 DEF ResearchInductive, Quiet, UpToDate
<1>8. QED
  BY <1>1, <1>3, <1>4, <1>5, <1>6, <1>7, RunMoves

LEMMA FailsOK == ASSUME ResearchInductive, NEW w \in Workflows, Fail(w) PROVE ResearchInductive'
<1>1. /\ Becomes(w, Idle) /\ calm' = FALSE /\ troubles' = troubles + 1
      /\ UNCHANGED <<version, page, memory, ever, doubled, handled>>
  BY DEF Fail
<1>2. troubles' \in Nat /\ calm' \in BOOLEAN /\ ~calm'
  <2>1. troubles' \in Nat
    BY <1>1, ResearchTyped
  <2>2. calm' \in BOOLEAN /\ ~calm'
    BY <1>1, Zenon
  <2>3. QED
    BY <2>1, <2>2
<1>3. /\ Idle \in RunRec /\ Idle.at = "idle" /\ Idle.pushed = {}
      /\ \A x \in Items \ doubled : Idle.copy[x] <= 1
  BY IdleIs
<1>4. QED
  BY <1>1, <1>2, <1>3, RunMoves

-----------------------------------------------------------------------------
(* Writes.                                                                 *)

LEMMA WritePageOK == ASSUME ResearchInductive, NEW w \in Workflows, WritePage(w) PROVE ResearchInductive'
<1> DEFINE r == run[w]
           place == CASE r.rest = {r.dest} -> "save"
                      [] r.rest # {r.dest} /\ r.job = "whatsapp" -> "read"
                      [] OTHER -> "think"
           rest == [x \in Items |-> IF x[2] = r.dest THEN 0 ELSE r.picks[x]]
           q == [r EXCEPT !.rest = @ \ {r.dest}, !.dest = Feed, !.copy = NoPicks, !.picks = rest,
                          !.pushed = @ \cup Added(r), !.at = place]
           new == [x \in Items |-> CASE x[2] # r.dest -> page[x]
                                     [] x \in Added(r) -> r.copy[x] + r.picks[x]
                                     [] OTHER -> r.copy[x]]
<1>1. /\ r.at = "write" /\ page' = IF Added(r) = {} THEN page ELSE new
      /\ ever' = ever \cup Added(r) /\ doubled' = doubled \cup {x \in Added(r) : r.picks[x] > 1}
      /\ UNCHANGED <<version, memory, handled, calm, troubles>>
  BY DEF WritePage
<1>2. Becomes(w, q)
  BY DEF WritePage, Pushes
<1>3. /\ r \in RunRec /\ run \in [Workflows -> RunRec] /\ page \in [Items -> Nat]
      /\ r.picks \in [Items -> Nat] /\ r.copy \in [Items -> Nat] /\ r.pushed \in SUBSET Spots
      /\ ever \in SUBSET Spots /\ doubled \in SUBSET Items
  BY ResearchTyped, RunIs
<1>4. r.job \in {"whatsapp", "projects"}
  BY <1>1 DEF ResearchInductive, Beginning
<1>5. /\ Added(r) \subseteq Named(r.picks) /\ Added(r) \subseteq Items
      /\ \A x \in Added(r) : x[2] = r.dest /\ r.copy[x] = 0 /\ r.picks[x] > 0
  BY DEF Added, Named
<1>6. rest \in [Items -> Nat] /\ \A x \in Items : rest[x] = IF x[2] = r.dest THEN 0 ELSE r.picks[x]
  BY <1>3
<1>7. place \in {"save", "read", "think"} /\ (place = "read" => r.job = "whatsapp")
  OBVIOUS
<1>8. /\ new \in [Items -> Nat]
      /\ \A x \in Items : /\ x[2] # r.dest => new[x] = page[x]
                          /\ x[2] = r.dest /\ x \in Added(r) => new[x] = r.picks[x]
                          /\ x[2] = r.dest /\ x \notin Added(r) => new[x] = r.copy[x]
  <2>1. \A x \in Items : r.copy[x] \in Nat /\ r.picks[x] \in Nat /\ page[x] \in Nat
    BY <1>3
  <2>2. ASSUME NEW x \in Items
        PROVE  /\ new[x] \in Nat
               /\ x[2] # r.dest => new[x] = page[x]
               /\ x[2] = r.dest /\ x \in Added(r) => new[x] = r.picks[x]
               /\ x[2] = r.dest /\ x \notin Added(r) => new[x] = r.copy[x]
    <3>1. CASE x[2] # r.dest
      BY <1>5, <2>1, <3>1
    <3>2. CASE x[2] = r.dest /\ x \in Added(r)
      BY <1>5, <2>1, <3>2
    <3>3. CASE x[2] = r.dest /\ x \notin Added(r)
      BY <2>1, <3>3
    <3>4. QED
      BY <3>1, <3>2, <3>3
  <2>3. new \in [Items -> Nat]
    BY <2>2
  <2>4. QED
    BY <2>2, <2>3
<1> HIDE DEF place, rest, new
<1>9. /\ q \in RunRec /\ q.at = place /\ q.job = r.job /\ q.state = r.state /\ q.picks = rest
      /\ q.pushed = r.pushed \cup Added(r) /\ \A x \in Items : q.copy[x] = 0
  <2>1. NoPicks \in [Items -> Nat] /\ \A x \in Items : NoPicks[x] = 0
    BY DEF NoPicks
  <2>2. r.pushed \cup Added(r) \in SUBSET Spots
    BY <1>3, <1>5, ItemIs
  <2>3. QED
    BY <1>3, <1>6, <1>7, <2>1, <2>2 DEF RunRec, RunPlaces
<1> HIDE DEF q
<1>10. /\ run' \in [Workflows -> RunRec] /\ run'[w] = q
       /\ \A v \in Workflows : v # w => run'[v] = run[v]
  BY <1>2, <1>3, <1>9 DEF Becomes
<1>11. page' \in [Items -> Nat]
  BY <1>1, <1>3, <1>8
<1>12. ResearchTypeOK'
  <2>1. ever' \in SUBSET Spots /\ doubled' \in SUBSET Items
    BY <1>1, <1>3, <1>5, ItemIs
  <2>2. QED
    BY <1>1, <1>10, <1>11, <2>1, ResearchTyped DEF ResearchTypeOK
<1>13. OneLine'
  <2>1. ASSUME NEW x \in Items \ doubled'
        PROVE  page'[x] <= 1 /\ \A v \in Workflows : run'[v].copy[x] <= 1
    <3>1. /\ x \in Items \ doubled /\ page[x] <= 1 /\ r.copy[x] <= 1
          /\ \A v \in Workflows : run[v].copy[x] <= 1
      BY <1>1, <2>1 DEF ResearchInductive, OneLine
    <3>2. x \in Added(r) => r.picks[x] <= 1
      BY <1>1, <1>3, <2>1
    <3>3. page'[x] <= 1
      BY <1>1, <1>8, <3>1, <3>2
    <3>4. \A v \in Workflows : run'[v].copy[x] <= 1
      BY <1>9, <1>10, <3>1
    <3>5. QED
      BY <3>3, <3>4
  <2>2. QED
    BY <2>1 DEF OneLine
<1>14. Beginning'
  BY <1>4, <1>7, <1>9, <1>10 DEF ResearchInductive, Beginning
<1>15. ASSUME calm PROVE Alone' /\ Remembered' /\ UpToDate' /\ CalmPromise'
  <2>1. Alone /\ Remembered /\ UpToDate /\ CalmPromise
    BY <1>15 DEF ResearchInductive, Quiet
  <2>2. \A v \in Workflows : v # w => run[v].at = "idle"
    BY <1>1, <2>1 DEF Alone
  <2>3. /\ r.state = memory /\ Fresh(r.picks)
        /\ \A x \in Items : x[2] = r.dest => r.copy[x] = page[x]
    BY <1>1, <2>1 DEF UpToDate
  <2>4. Alone'
    BY <1>10, <2>2 DEF Alone
  <2>5. Remembered'
    <3>1. ASSUME NEW x \in ever'
          PROVE  x[1] \in memory.urls \/ \E v \in Workflows : x \in run'[v].pushed
      <4>1. CASE x \in Added(r)
        BY <1>9, <1>10, <4>1
      <4>2. CASE x \in ever
        BY <1>9, <1>10, <2>1, <4>2 DEF Remembered
      <4>3. QED
        BY <1>1, <3>1, <4>1, <4>2
    <3>2. QED
      BY <1>1, <3>1 DEF Remembered
  <2>6. \A x \in Items : x \notin Added(r) => page'[x] = page[x]
    BY <1>1, <1>8, <2>3
  <2>7. \A x \in Added(r) : page'[x] = 1
    BY <1>1, <1>5, <1>8, <2>3 DEF Fresh
  <2>8. \A x \in Named(rest) :
          /\ rest[x] = 1
          /\ \A y \in ever' : x[1] # y[1]
          /\ \A y \in Named(rest) : x[1] = y[1] => x = y
    <3>1. /\ Named(rest) \subseteq Named(r.picks)
          /\ \A x \in Named(rest) : x[2] # r.dest /\ rest[x] = r.picks[x]
      BY <1>6 DEF Named
    <3>2. \A x \in Named(rest) : \A y \in ever' : x[1] # y[1]
      BY <1>1, <1>5, <2>3, <3>1 DEF Fresh
    <3>3. QED
      BY <2>3, <3>1, <3>2 DEF Fresh
  <2>9. UpToDate'
    <3>1. ASSUME NEW v \in Workflows
          PROVE  /\ run'[v].at \in {"think", "read", "write", "save"} => run'[v].state = memory'
                 /\ run'[v].at # "write"
      BY <1>1, <1>7, <1>9, <1>10, <2>2, <2>3
    <3>2. ASSUME NEW v \in Workflows, run'[v].at = "read"
          PROVE  run'[v].picks = rest
      BY <1>9, <1>10, <2>2, <3>2
    <3>3. ASSUME NEW v \in Workflows, run'[v].at = "read"
          PROVE  Fresh(run[v].picks)'
      BY <2>8, <3>2, <3>3 DEF Fresh, Named
    <3>4. QED
      BY <3>1, <3>3 DEF UpToDate
  <2>10. CalmPromise'
    <3>1. \A x, y \in ever : x[1] = y[1] => x = y
      BY <1>15, <2>1 DEF CalmPromise
    <3>2. \A x, y \in ever' : x[1] = y[1] => x = y
      BY <1>1, <1>5, <2>3, <3>1 DEF Fresh
    <3>3. ASSUME NEW x \in ever', x[2] # Feed
          PROVE  page'[x] = 1
      <4>1. CASE x \in Added(r)
        BY <2>7, <4>1
      <4>2. CASE x \in ever /\ x \notin Added(r)
        <5>1. x \in Items
          BY <1>3, <3>3, <4>2, SpotIs
        <5>2. page[x] = 1
          BY <1>15, <2>1, <3>3, <4>2 DEF CalmPromise
        <5>3. QED
          BY <2>6, <4>2, <5>1, <5>2
      <4>3. QED
        BY <1>1, <3>3, <4>1, <4>2
    <3>4. QED
      BY <3>2, <3>3 DEF CalmPromise
  <2>11. QED
    BY <2>4, <2>5, <2>9, <2>10
<1>16. Quiet'
  BY <1>1, <1>15 DEF Quiet
<1>17. QED
  BY <1>12, <1>13, <1>14, <1>16 DEF ResearchInductive

LEMMA WriteFeedOK == ASSUME ResearchInductive, NEW w \in Workflows, WriteFeed(w) PROVE ResearchInductive'
<1> DEFINE r == run[w]
<1>1. /\ r.at = "think" /\ r.job = "trending"
      /\ UNCHANGED <<version, page, memory, doubled, handled, calm, troubles>>
  BY DEF WriteFeed
<1>2. PICK s \in TrendingAnswers(r) :
        /\ ever' = ever \cup s \X {Feed}
        /\ Becomes(w, [r EXCEPT !.pushed = s \X {Feed}, !.at = "save"])
  BY DEF WriteFeed
<1> DEFINE fed == s \X {Feed}
           q == [r EXCEPT !.pushed = fed, !.at = "save"]
<1>3. /\ r \in RunRec /\ run \in [Workflows -> RunRec] /\ ever \in SUBSET Spots
  BY ResearchTyped
<1>4. s \subseteq Candidates(r) /\ s \subseteq URLs
  BY DEF TrendingAnswers, Candidates
<1>5. /\ fed \in SUBSET Spots
      /\ \A x \in fed : x[1] \in s /\ x[2] = Feed /\ \A y \in fed : x[1] = y[1] => x = y
  BY <1>4 DEF Spots
<1> HIDE DEF fed
<1>6. /\ q \in RunRec /\ q.at = "save" /\ q.copy = r.copy /\ q.state = r.state /\ q.pushed = fed
  BY <1>3, <1>5 DEF RunRec, RunPlaces
<1>7. ever' = ever \cup fed /\ Becomes(w, q)
  BY <1>2 DEF fed
<1> HIDE DEF q
<1>8. /\ run' \in [Workflows -> RunRec] /\ run'[w] = q
      /\ \A v \in Workflows : v # w => run'[v] = run[v]
  BY <1>3, <1>6, <1>7 DEF Becomes
<1>9. ResearchTypeOK'
  BY <1>1, <1>3, <1>5, <1>7, <1>8, ResearchTyped DEF ResearchTypeOK
<1>10. OneLine'
  BY <1>1, <1>6, <1>8 DEF ResearchInductive, OneLine
<1>11. Beginning'
  BY <1>6, <1>8 DEF ResearchInductive, Beginning
<1>12. ASSUME calm PROVE Alone' /\ Remembered' /\ UpToDate' /\ CalmPromise'
  <2>1. Alone /\ Remembered /\ UpToDate /\ CalmPromise
    BY <1>12 DEF ResearchInductive, Quiet
  <2>2. \A v \in Workflows : v # w => run[v].at = "idle"
    BY <1>1, <2>1 DEF Alone
  <2>3. r.state = memory
    BY <1>1, <2>1 DEF UpToDate
  <2>4. r.pushed = {}
    BY <1>1 DEF ResearchInductive, Beginning
  <2>5. Alone'
    BY <1>8, <2>2 DEF Alone
  <2>6. Remembered'
    <3>1. ASSUME NEW x \in ever'
          PROVE  x[1] \in memory.urls \/ \E v \in Workflows : x \in run'[v].pushed
      <4>1. CASE x \in fed
        BY <1>6, <1>8, <4>1
      <4>2. CASE x \in ever
        <5>1. ASSUME NEW v \in Workflows, x \in run[v].pushed PROVE x \in run'[v].pushed
          BY <1>8, <2>4, <5>1
        <5>2. QED
          BY <2>1, <4>2, <5>1 DEF Remembered
      <4>3. QED
        BY <1>7, <3>1, <4>1, <4>2
    <3>2. QED
      BY <1>1, <3>1 DEF Remembered
  <2>7. UpToDate'
    BY <1>1, <1>6, <1>8, <2>2, <2>3 DEF UpToDate
  <2>8. CalmPromise'
    <3>1. \A x \in fed : \A y \in ever : x[1] # y[1]
      BY <1>1, <1>4, <1>5, <1>12, CandidatesAreNew
    <3>2. \A x, y \in ever' : x[1] = y[1] => x = y
      BY <1>5, <1>7, <1>12, <2>1, <3>1 DEF CalmPromise
    <3>3. \A x \in ever' : x[2] # Feed => page'[x] = 1
      BY <1>1, <1>5, <1>7, <1>12, <2>1 DEF CalmPromise
    <3>4. QED
      BY <3>2, <3>3 DEF CalmPromise
  <2>9. QED
    BY <2>5, <2>6, <2>7, <2>8
<1>13. Quiet'
  BY <1>1, <1>12 DEF Quiet
<1>14. QED
  BY <1>9, <1>10, <1>11, <1>13 DEF ResearchInductive

LEMMA SaveOK == ASSUME ResearchInductive, NEW w \in Workflows, Save(w) PROVE ResearchInductive'
<1> DEFINE r == run[w]
           q == After(r)
           urls == r.state.urls \cup {x[1] : x \in r.pushed}
<1>1. /\ r.at = "save" /\ memory' = [hash |-> Hash(r), urls |-> urls]
      /\ handled' = IF r.job = "whatsapp" THEN r.seen ELSE handled
      /\ Becomes(w, q) /\ UNCHANGED <<version, page, ever, doubled, calm, troubles>>
  BY DEF Save
<1>2. /\ r \in RunRec /\ run \in [Workflows -> RunRec] /\ r.seen \in Nat /\ r.state.urls \in SUBSET URLs
      /\ r.state.hash \in Nat /\ r.pushed \in SUBSET Spots /\ handled \in Nat
  BY ResearchTyped, RunIs
<1>3. urls \in SUBSET URLs
  BY <1>2, SpotIs
<1>4. memory' \in StateRec /\ memory'.urls = urls
  BY <1>1, <1>2, <1>3 DEF StateRec, Hash
<1>5. /\ q \in RunRec /\ q.at \in {"idle", "load"} /\ q.pushed = {} /\ \A x \in Items : q.copy[x] = 0
  BY <1>2, AfterIs
<1> HIDE DEF q
<1>6. /\ run' \in [Workflows -> RunRec] /\ run'[w] = q
      /\ \A v \in Workflows : v # w => run'[v] = run[v]
  BY <1>1, <1>2, <1>5 DEF Becomes
<1>7. ResearchTypeOK'
  BY <1>1, <1>2, <1>4, <1>6, ResearchTyped DEF ResearchTypeOK
<1>8. OneLine'
  BY <1>1, <1>5, <1>6 DEF ResearchInductive, OneLine
<1>9. Beginning'
  BY <1>5, <1>6 DEF ResearchInductive, Beginning
<1>10. ASSUME calm PROVE Alone' /\ Remembered' /\ UpToDate' /\ CalmPromise'
  <2>1. Alone /\ Remembered /\ UpToDate /\ CalmPromise
    BY <1>10 DEF ResearchInductive, Quiet
  <2>2. \A v \in Workflows : v # w => run[v].at = "idle" /\ run[v].pushed = {}
    BY <1>1, <2>1 DEF Alone, ResearchInductive, Beginning
  <2>3. r.state = memory
    BY <1>1, <2>1 DEF UpToDate
  <2>4. Alone'
    BY <1>6, <2>2 DEF Alone
  <2>5. \A x \in ever : x[1] \in urls
    BY <2>1, <2>2, <2>3 DEF Remembered
  <2>6. Remembered'
    BY <1>1, <1>4, <2>5 DEF Remembered
  <2>7. UpToDate'
    BY <1>5, <1>6, <2>2 DEF UpToDate
  <2>8. CalmPromise'
    BY <1>1, <2>1 DEF CalmPromise
  <2>9. QED
    BY <2>4, <2>6, <2>7, <2>8
<1>11. Quiet'
  BY <1>1, <1>10 DEF Quiet
<1>12. QED
  BY <1>7, <1>8, <1>9, <1>11 DEF ResearchInductive

LEMMA ResearchSteps == ResearchInductive /\ [ResearchNext]_researchVars => ResearchInductive'
<1> SUFFICES ASSUME ResearchInductive, [ResearchNext]_researchVars PROVE ResearchInductive'
  OBVIOUS
<1>1. ASSUME NEW w \in Workflows, Start(w) \/ Step(w) \/ Fail(w)
      PROVE  ResearchInductive'
  <2>1. CASE Start(w) \/ Load(w) \/ ReadPage(w) \/ Fail(w)
    BY <2>1, StartOK, ResearchLoadOK, ReadPageOK, FailsOK
  <2>2. CASE ThinkAll(w) \/ ThinkProject(w)
    BY <2>2, ThinkOK
  <2>3. CASE WritePage(w) \/ WriteFeed(w) \/ Save(w)
    BY <2>3, WritePageOK, WriteFeedOK, SaveOK
  <2>4. QED
    BY <1>1, <2>1, <2>2, <2>3 DEF Step
<1>2. CASE DigestChanges \/ UNCHANGED researchVars
  <2>1. UNCHANGED <<page, memory, run, ever, doubled, handled, calm>>
    BY <1>2 DEF DigestChanges, researchVars
  <2>2. version' \in Nat /\ troubles' \in Nat
    <3>1. version \in Nat /\ troubles \in Nat
      BY ResearchTyped
    <3>2. (version' = version + 1 /\ troubles' = troubles + 1) \/ (version' = version /\ troubles' = troubles)
      BY <1>2 DEF DigestChanges, researchVars
    <3>3. QED
      BY <3>1, <3>2
  <2>3. ResearchTypeOK'
    BY <2>1, <2>2 DEF ResearchInductive, ResearchTypeOK
  <2>4. OneLine' /\ Beginning'
    BY <2>1 DEF ResearchInductive, OneLine, Beginning
  <2>5. Alone' = Alone /\ Remembered' = Remembered /\ UpToDate' = UpToDate /\ CalmPromise' = CalmPromise
    BY <2>1 DEF Alone, Remembered, UpToDate, Fresh, CalmPromise
  <2>6. Quiet'
    BY <2>1, <2>5 DEF ResearchInductive, Quiet
  <2>7. QED
    BY <2>3, <2>4, <2>6 DEF ResearchInductive
<1>3. QED
  BY <1>1, <1>2 DEF ResearchNext

\* Whatever the runs do, no page has a line twice that no answer doubled; and as
\* long as they are undisturbed, what was ever pushed is remembered and what a
\* run has picked was not (state.ts and the jobs of the research agent).
THEOREM ResearchInductiveHolds == ResearchSpec => []ResearchInductive
<1>1. ResearchInit => ResearchInductive
  BY ResearchInits
<1>2. ResearchInductive /\ [ResearchNext]_researchVars => ResearchInductive'
  BY ResearchSteps
<1>3. QED
  BY <1>1, <1>2, PTL DEF ResearchSpec

\* As long as no runs overlap, none fails and no answer names a paper twice,
\* no paper is pushed twice, to any page, and no line is taken away.
THEOREM PapersGoOnce == ResearchSpec => []CalmPromise
<1>1. ResearchInductive => CalmPromise
  BY DEF ResearchInductive, Quiet, CalmPromise
<1>2. QED
  BY <1>1, ResearchInductiveHolds, PTL

NotAgain == \A x \in Items \ doubled' : page[x] > 0 => page'[x] <= page[x]

\* A URL that is on a page is not added, unless an answer has named it twice
\* for that page (appendUnderHeading), whatever overlaps, fails or is forgotten.
THEOREM PageTakesUrlOnce == ResearchSpec => NeverAddedAgain
<1>1. ResearchInductive /\ [ResearchNext]_researchVars => [NotAgain]_researchVars
  <2> SUFFICES ASSUME ResearchInductive, [ResearchNext]_researchVars PROVE NotAgain
    OBVIOUS
  <2>1. ResearchInductive'
    BY ResearchSteps
  <2>2. ASSUME NEW x \in Items \ doubled', page[x] > 0 PROVE page'[x] <= page[x]
    <3>1. page'[x] <= 1
      BY <2>1, <2>2 DEF ResearchInductive, OneLine
    <3>2. page[x] \in Nat /\ page'[x] \in Nat
      BY <2>1, <2>2, ResearchTyped DEF ResearchInductive, ResearchTypeOK
    <3>3. QED
      BY <2>2, <3>1, <3>2
  <2>3. QED
    BY <2>2 DEF NotAgain
<1>2. ResearchSpec => [][NotAgain]_researchVars
  BY <1>1, ResearchInductiveHolds, PTL DEF ResearchSpec
<1>3. QED
  BY <1>2 DEF NeverAddedAgain, NotAgain
=============================================================================
