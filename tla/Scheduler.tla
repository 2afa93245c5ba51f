----------------------------- MODULE Scheduler -----------------------------
(***************************************************************************)
(* The in-process job scheduler (shared/scheduler/scheduler.py) as the     *)
(* composition root drives it (main.py): one polling loop that runs due    *)
(* jobs one after another, webhook tasks that run ad-hoc work under a      *)
(* job's lock key, hooks that request runs, and /health, which calls       *)
(* due_jobs for its report.                                                *)
(*                                                                         *)
(* main.py registers every job with a lock key, and only RunEvery and      *)
(* RunAfter triggers, so the other cases of run_job and is_due are out.    *)
(***************************************************************************)
EXTENDS Naturals, Sequences

CONSTANTS
    Jobs,         \* the registered jobs
    Keys,         \* lock keys
    Loop,         \* the scheduler_loop task
    Clients,      \* webhook tasks that call try_run_exclusive
    LockKey,      \* JobSpec.lock_key: a key for each job
    OnDemandKey,  \* the key the on-demand ingest takes
    Interval,     \* RunEvery interval of a job in ticks; 0 for a RunAfter job
    MaxRetries,   \* JobSpec.max_retries, the same for every job in main.py
    NameRank,     \* position of a job's name in sorted order
    RegRank,      \* position of a job in the registry
    MaxAge,       \* ages above this are not told apart
    MaxCrashes,   \* bound on process restarts
    MaxHealth,    \* bound on /health commands
    NoJob, Never

ASSUME SchedulerAssumption ==
    /\ Loop \notin Clients
    /\ LockKey \in [Jobs -> Keys]
    /\ OnDemandKey \in Keys
    /\ Interval \in [Jobs -> Nat]
    /\ NameRank \in [Jobs -> Nat] /\ RegRank \in [Jobs -> Nat]
    /\ MaxRetries \in Nat /\ MaxAge \in Nat
    /\ MaxCrashes \in Nat /\ MaxHealth \in Nat
    /\ NoJob \notin Jobs /\ Never \notin Nat
    /\ \A j \in Jobs : Interval[j] <= MaxAge

VARIABLES
    requested,  \* Scheduler._requested
    age,        \* ticks since the finished_at of the last successful Run
    row,        \* the outcome of each job's newest Run row
    attempt,    \* _run_with_retries' attempt number, 0 when no job runs
    locked,     \* asyncio.Lock._locked, by key
    waiters,    \* asyncio.Lock._waiters, by key
    pc,         \* where each task stands between two awaits
    asked,      \* the loop's due list: jobs that were requested
    timed,      \*                      and jobs due by their trigger
    job,        \* the job the loop is running
    orphan,     \* jobs whose newest row was left open by a crash
    crashes, healths

lockVars == <<locked, waiters>>
loopVars == <<asked, timed, job, attempt>>
bounds   == <<crashes, healths>>
vars == <<requested, age, row, locked, waiters, pc, asked, timed, job,
          attempt, orphan, crashes, healths>>

Tasks == {Loop} \cup Clients

LoopInside   == {"starting", "handling", "returned", "raised", "alerting"}
LoopStates   == {"asleep", "picking", "waiting"} \cup LoopInside
ClientStates == {"idle", "waiting", "inside"}

Outcomes == {"none", "running", "success", "failure"}

TypeOK ==
    /\ requested \in SUBSET Jobs
    /\ age \in [Jobs -> {Never} \cup (0..MaxAge)]
    /\ row \in [Jobs -> Outcomes]
    /\ attempt \in 0..(MaxRetries + 1)
    /\ locked \in [Keys -> BOOLEAN]
    /\ waiters \in [Keys -> Seq(Tasks)]
    /\ pc \in [Tasks -> LoopStates \cup ClientStates]
    /\ pc[Loop] \in LoopStates
    /\ \A c \in Clients : pc[c] \in ClientStates
    /\ asked \in SUBSET Jobs /\ timed \in SUBSET Jobs
    /\ job \in Jobs \cup {NoJob}
    /\ orphan \in SUBSET Jobs
    /\ crashes \in 0..MaxCrashes /\ healths \in 0..MaxHealth

Init ==
    /\ requested = {}
    /\ age = [j \in Jobs |-> Never]
    /\ row = [j \in Jobs |-> "none"] /\ attempt = 0
    /\ locked = [k \in Keys |-> FALSE]
    /\ waiters = [k \in Keys |-> <<>>]
    /\ pc = [t \in Tasks |-> IF t = Loop THEN "asleep" ELSE "idle"]
    /\ asked = {} /\ timed = {} /\ job = NoJob
    /\ orphan = {} /\ crashes = 0 /\ healths = 0

-----------------------------------------------------------------------------
(* asyncio.Lock: a release only clears the flag and wakes the first waiter, *)
(* which takes the lock when its task runs again. Until then the lock is    *)
(* free but has a queue, and a new acquire joins that queue.                *)

Inside(t) == IF t = Loop THEN pc[t] \in LoopInside ELSE pc[t] = "inside"
KeyOf(t)  == IF t = Loop THEN LockKey[job] ELSE OnDemandKey
Entered(t) == IF t = Loop THEN "starting" ELSE "inside"

FreeToTake(k) == ~locked[k] /\ waiters[k] = <<>>

Acquire(t, k) ==
    IF FreeToTake(k)
    THEN /\ locked' = [locked EXCEPT ![k] = TRUE]
         /\ pc' = [pc EXCEPT ![t] = Entered(t)]
         /\ UNCHANGED waiters
    ELSE /\ waiters' = [waiters EXCEPT ![k] = Append(@, t)]
         /\ pc' = [pc EXCEPT ![t] = "waiting"]
         /\ UNCHANGED locked

Release(k) ==
    /\ locked' = [locked EXCEPT ![k] = FALSE]
    /\ UNCHANGED waiters

Resume(t) ==
    /\ pc[t] = "waiting"
    /\ ~locked[KeyOf(t)]
    /\ waiters[KeyOf(t)] # <<>> /\ Head(waiters[KeyOf(t)]) = t
    /\ locked' = [locked EXCEPT ![KeyOf(t)] = TRUE]
    /\ waiters' = [waiters EXCEPT ![KeyOf(t)] = Tail(@)]
    /\ pc' = [pc EXCEPT ![t] = Entered(t)]
    /\ UNCHANGED <<requested, age, row, loopVars, orphan, bounds>>

-----------------------------------------------------------------------------
(* due_jobs and the loop.                                                   *)

Older(a) == IF a = Never \/ a = MaxAge THEN a ELSE a + 1

Tick ==
    /\ age' = [j \in Jobs |-> Older(age[j])]
    /\ UNCHANGED <<requested, row, lockVars, pc, loopVars, orphan, bounds>>

RequestRun(j) ==
    /\ requested' = requested \cup {j}
    /\ UNCHANGED <<age, row, lockVars, pc, loopVars, orphan, bounds>>

IsDue(j) == Interval[j] > 0 /\ (age[j] = Never \/ age[j] >= Interval[j])

AskedOfTimers == {j \in requested : Interval[j] > 0}  \* mutant: RunAfter jobs never run
Asked == requested

TimedUnlessAsked == {j \in Jobs : requested = {} /\ IsDue(j)}  \* mutant: requests crowd out timers
Timed == {j \in Jobs \ requested : IsDue(j)}

(* due_jobs returns the requested jobs, then those due by trigger. It        *)
(* forgets the requests at once; the ledger reads that follow see rows only  *)
(* the loop itself writes, so for the loop the call is one step.             *)
Poll ==
    /\ pc[Loop] = "asleep"
    /\ asked' = Asked /\ timed' = Timed
    /\ requested' = {}
    /\ pc' = [pc EXCEPT ![Loop] = "picking"]
    /\ UNCHANGED <<age, row, lockVars, job, attempt, orphan, bounds>>

(* /health calls due_jobs and prints the length of the list.                 *)
Health ==
    /\ healths < MaxHealth
    /\ healths' = healths + 1
    /\ requested' = {}
    /\ UNCHANGED <<age, row, lockVars, pc, loopVars, orphan, crashes>>

First(S, rank, j) == j \in S /\ \A o \in S : rank[j] <= rank[o]

(* The next job of the for loop; run_job takes its lock.                     *)
RunJob(j) ==
    /\ pc[Loop] = "picking"
    /\ \/ First(asked, NameRank, j)
       \/ asked = {} /\ First(timed, RegRank, j)
    /\ asked' = asked \ {j} /\ timed' = timed \ {j}
    /\ job' = j
    /\ Acquire(Loop, LockKey[j])
    /\ UNCHANGED <<requested, age, row, attempt, orphan, bounds>>

Sleep ==
    /\ pc[Loop] = "picking" /\ asked = {} /\ timed = {}
    /\ pc' = [pc EXCEPT ![Loop] = "asleep"]
    /\ UNCHANGED <<requested, age, row, lockVars, loopVars, orphan, bounds>>

(* _run_with_retries: every attempt opens a Run row of its own.             *)
StartAttempt ==
    /\ pc[Loop] = "starting"
    /\ attempt' = attempt + 1
    /\ row' = [row EXCEPT ![job] = "running"]
    /\ orphan' = orphan \ {job}
    /\ pc' = [pc EXCEPT ![Loop] = "handling"]
    /\ UNCHANGED <<requested, age, lockVars, asked, timed, job, bounds>>

HandlerReturns(how) ==
    /\ pc[Loop] = "handling"
    /\ pc' = [pc EXCEPT ![Loop] = how]
    /\ UNCHANGED <<requested, age, row, lockVars, loopVars, orphan, bounds>>

LeaveJob ==
    /\ Release(LockKey[job])
    /\ job' = NoJob /\ attempt' = 0
    /\ pc' = [pc EXCEPT ![Loop] = "picking"]

RecordSuccess ==
    /\ pc[Loop] = "returned"
    /\ row' = [row EXCEPT ![job] = "success"]
    /\ age' = [age EXCEPT ![job] = 0]
    /\ LeaveJob
    /\ UNCHANGED <<requested, asked, timed, orphan, bounds>>

AfterFailure == IF attempt <= MaxRetries THEN "starting" ELSE "alerting"

(* A failed attempt is closed in the ledger, and while retries are left the  *)
(* next one starts after the backoff.                                        *)
RecordFailureOpen ==  \* mutant: the row is not closed
    /\ pc[Loop] = "raised"
    /\ pc' = [pc EXCEPT ![Loop] = AfterFailure]
    /\ UNCHANGED <<requested, age, row, lockVars, loopVars, orphan, bounds>>

RecordFailure ==
    /\ pc[Loop] = "raised"
    /\ row' = [row EXCEPT ![job] = "failure"]
    /\ pc' = [pc EXCEPT ![Loop] = AfterFailure]
    /\ UNCHANGED <<requested, age, lockVars, loopVars, orphan, bounds>>

(* on_failure posts to the logs channel; an exception in it is swallowed.    *)
Alert ==
    /\ pc[Loop] = "alerting"
    /\ LeaveJob
    /\ UNCHANGED <<requested, age, row, asked, timed, orphan, bounds>>

-----------------------------------------------------------------------------
(* try_run_exclusive. When the key is locked it answers (False, None) and    *)
(* nothing changes; otherwise it goes on to acquire.                         *)
TryRunExclusiveMutant(c) ==  \* mutant: tests the lock but never takes it
    /\ pc[c] = "idle" /\ ~locked[OnDemandKey]
    /\ pc' = [pc EXCEPT ![c] = "inside"]
    /\ UNCHANGED <<requested, age, row, lockVars, loopVars, orphan, bounds>>

TryRunExclusive(c) ==
    /\ pc[c] = "idle" /\ ~locked[OnDemandKey]
    /\ Acquire(c, OnDemandKey)
    /\ UNCHANGED <<requested, age, row, loopVars, orphan, bounds>>

(* The handler returned or raised: the finally clause releases either way.   *)
ClientDone(c) ==
    /\ pc[c] = "inside"
    /\ Release(OnDemandKey)
    /\ pc' = [pc EXCEPT ![c] = "idle"]
    /\ UNCHANGED <<requested, age, row, loopVars, orphan, bounds>>

(* The process dies (an error in the ledger's own writes also ends the loop  *)
(* and with it the process) and starts again: only the ledger is left.       *)
Crash ==
    /\ crashes < MaxCrashes
    /\ crashes' = crashes + 1
    /\ requested' = {}
    /\ locked' = [k \in Keys |-> FALSE]
    /\ waiters' = [k \in Keys |-> <<>>]
    /\ pc' = [t \in Tasks |-> IF t = Loop THEN "asleep" ELSE "idle"]
    /\ asked' = {} /\ timed' = {} /\ job' = NoJob /\ attempt' = 0
    /\ orphan' = orphan \cup {j \in Jobs : row[j] = "running"}
    /\ UNCHANGED <<age, row, healths>>

LoopStep ==
    \/ Poll \/ Sleep \/ StartAttempt \/ RecordSuccess \/ RecordFailure
    \/ Alert \/ Resume(Loop)
    \/ \E j \in Jobs : RunJob(j)
    \/ \E how \in {"returned", "raised"} : HandlerReturns(how)

ClientStep(c) == Resume(c) \/ ClientDone(c)

Next ==
    \/ LoopStep \/ Tick \/ Health \/ Crash
    \/ \E j \in Jobs : RequestRun(j)
    \/ \E c \in Clients : TryRunExclusive(c) \/ ClientStep(c)

Spec == Init /\ [][Next]_vars

(* The event loop runs every ready task, and handlers end: their HTTP calls  *)
(* carry timeouts. Users, hooks and crashes owe nothing.                     *)
FairSpec ==
    /\ Spec
    /\ WF_vars(LoopStep) /\ WF_vars(Tick)
    /\ \A c \in Clients : WF_vars(ClientStep(c))

-----------------------------------------------------------------------------
(* "per-key locks so two overlapping triggers on the same key never run      *)
(* concurrently" (interface.py): of two tasks inside, the keys differ, and a *)
(* key is marked locked whenever somebody is inside.                         *)
MutualExclusion ==
    \A t, u \in Tasks :
        Inside(t) /\ Inside(u) /\ KeyOf(t) = KeyOf(u) => t = u

(* Nobody gets locked out for good: a locked key has a task inside that will *)
(* release it.                                                               *)
NoLeakedLock ==
    \A k \in Keys : locked[k] <=> \E t \in Tasks : Inside(t) /\ KeyOf(t) = k

(* A Run row without an outcome belongs to the job the loop is running under *)
(* its lock, or was cut short by a crash of the process.                     *)
OpenRowIsRunning ==
    \A j \in Jobs \ orphan :
        row[j] = "running" => /\ job = j
                           /\ locked[LockKey[j]]
                           /\ pc[Loop] \in {"handling", "returned", "raised"}

(* A job due by its interval is started, whatever other jobs and on-demand   *)
(* runs do, unless the process restarts first.                               *)
DueJobRuns ==
    \A j \in Jobs, n \in 0..MaxCrashes :
        (IsDue(j) /\ crashes = n) ~> ((job = j /\ pc[Loop] = "handling") \/ crashes # n)

(* A requested job starts, unless a restart or a /health report forgets the  *)
(* request first.                                                            *)
RequestedJobRuns ==
    \A j \in Jobs, n \in 0..MaxCrashes, h \in 0..MaxHealth :
        (j \in requested /\ crashes = n /\ healths = h)
            ~> ((job = j /\ pc[Loop] = "handling") \/ crashes # n \/ healths # h)
=============================================================================
