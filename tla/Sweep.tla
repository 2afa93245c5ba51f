-------------------------------- MODULE Sweep --------------------------------
(***************************************************************************)
(* Ingest sweeps over all Channels and their accounts (main.py and         *)
(* shared/observability): the polling loop runs the backfill of Channels   *)
(* that /setup has just seeded with history and the regular tick, the chat *)
(* task runs a sweep of one Channel on demand, all under the ingest lock.  *)
(* Every model call is logged with the run and the Channel of the calling  *)
(* task's ambient context; when a Channel is done its calls are read back  *)
(* and rolled up, and the run's row adds the Channels up.                  *)
(*                                                                         *)
(* What a batch does to the wiki is the Ingestion module's; here it takes  *)
(* messages off the Channel's buffer, makes some model calls or fails. The *)
(* rows of a run are kept until the next one starts. A Channel that was    *)
(* never watched has kind "unset". Phases, durations and costs are left    *)
(* out, and MAX_DRAIN_BATCHES (100) is not reached.                        *)
(***************************************************************************)
EXTENDS Naturals, FiniteSets, Sequences

CONSTANTS
    Channels, None,
    Initially,   \* Channels that are watched from the start
    BatchN,      \* messages of one batch
    MaxPending,  \* bound on a Channel's unprocessed messages
    MaxMessages, \* bound on messages that ever come, with imported ones
    MaxCalls,    \* bound on model calls of one run
    MaxFaults,   \* bound on failures and restarts
    MaxAdmin     \* bound on /setup and /unwatch

ASSUME SweepAssumption ==
    /\ None \notin Channels /\ Initially \subseteq Channels
    /\ BatchN \in Nat \ {0} /\ MaxPending \in Nat /\ MaxMessages \in Nat
    /\ MaxCalls \in Nat /\ MaxFaults \in Nat /\ MaxAdmin \in Nat

VARIABLES
    kind,      \* of each Channel: unset, project or logs
    pending,   \* how many of its messages are unprocessed
    ripe,      \* Channels whose batch is ready for a tick (is_batch_ready)
    watched,   \* WatchedChannelQueue: Channels that wait for their backfill
    requested, \* the backfill job is requested
    jobs,      \* jobs the loop has found due and not run yet
    sweep,     \* the sweep that holds the ingest lock
    context,   \* ambient context of each task
    ledger,    \* model_calls rows of the last run, in order: the Channel of each
    row,       \* its row of obs_ingest_runs, with its rows of obs_ingest_channel_runs
    messages, faults, admin

world == <<kind, pending, ripe, messages, admin>>
vars == <<world, watched, requested, jobs, sweep, context, ledger, row, faults>>

Tasks == {"loop", "chat"}
Empty == [run |-> FALSE, channel |-> None]

\* A sweep: the task it runs in, the entry point, the attempt, the queue as it
\* was read, what of it is not watched any more, the Channels to do, the one it
\* is at, how much it still owes it, the calls and the error so far, the context
\* to go back to.
Idle == [at |-> "idle", task |-> "loop", mode |-> "tick", tries |-> 0, waiting |-> {}, gone |-> {},
         left |-> {}, on |-> None, owed |-> 0, calls |-> 0, failed |-> FALSE, saved |-> Empty]
NewRow == [outcome |-> "none", calls |-> 0, channels |-> [c \in Channels |-> None]]

Init ==
    /\ kind = [c \in Channels |-> IF c \in Initially THEN "project" ELSE "unset"]
    /\ pending = [c \in Channels |-> 0]
    /\ ripe = {} /\ watched = {} /\ requested = FALSE /\ jobs = <<>>
    /\ sweep = Idle /\ context = [t \in Tasks |-> Empty]
    /\ ledger = <<>> /\ row = NewRow
    /\ messages = 0 /\ faults = 0 /\ admin = 0

Fault == faults < MaxFaults /\ faults' = faults + 1

-----------------------------------------------------------------------------
(* The ambient context                                                     *)

\* scope: the fields given go over those of the base, the others are kept.
Scope(base, f) == [x \in DOMAIN base |-> IF x \in DOMAIN f THEN f[x] ELSE base[x]]

\* record_model_call in a context; a call without a run is in no account.
Logged(c) == IF c.run THEN Append(ledger, c.channel) ELSE ledger

\* _phase_totals: how many rows the run and the Channel have.
CallsOf(c) == {i \in DOMAIN ledger : ledger[i] = c}
Count(c) == Cardinality(CallsOf(c))

-----------------------------------------------------------------------------
(* Messages and admins                                                     *)

Arrive(c) ==
    /\ kind[c] # "unset" /\ pending[c] < MaxPending /\ messages < MaxMessages
    /\ pending' = [pending EXCEPT ![c] = @ + 1] /\ messages' = messages + 1
    /\ UNCHANGED <<kind, ripe, admin, watched, requested, jobs, sweep, context, ledger, row, faults>>

\* The batch gets big or old enough.
Ripen(c) ==
    /\ pending[c] > 0 /\ c \notin ripe /\ ripe' = ripe \cup {c}
    /\ UNCHANGED <<kind, pending, messages, admin, watched, requested, jobs, sweep, context, ledger, row, faults>>

\* /setup, and the history it imports; the logs Channel has none.
Watch(c) ==
    /\ kind[c] = "unset" /\ admin < MaxAdmin /\ admin' = admin + 1
    /\ \/ kind' = [kind EXCEPT ![c] = "logs"] /\ UNCHANGED <<pending, messages, watched, requested>>
       \/ /\ kind' = [kind EXCEPT ![c] = "project"]
          /\ \E n \in 0..(MaxPending - pending[c]) :
               /\ messages + n <= MaxMessages /\ messages' = messages + n
               /\ pending' = [pending EXCEPT ![c] = @ + n]
               /\ watched' = IF n > 0 THEN watched \cup {c} ELSE watched
               /\ requested' = (requested \/ n > 0)
    /\ UNCHANGED <<ripe, jobs, sweep, context, ledger, row, faults>>

Unwatch(c) ==
    /\ kind[c] # "unset" /\ admin < MaxAdmin /\ admin' = admin + 1
    /\ kind' = [kind EXCEPT ![c] = "unset"]
    /\ UNCHANGED <<pending, ripe, messages, watched, requested, jobs, sweep, context, ledger, row, faults>>

-----------------------------------------------------------------------------
(* Who starts a sweep                                                      *)

\* due_jobs; a tick is due two minutes after the last that succeeded.
Poll ==
    /\ jobs = <<>>
    /\ \E tick \in IF requested THEN BOOLEAN ELSE {TRUE} :
         jobs' = (IF requested THEN <<"backfill">> ELSE <<>>) \o (IF tick THEN <<"tick">> ELSE <<>>)
    /\ requested' = FALSE
    /\ UNCHANGED <<world, watched, sweep, context, ledger, row, faults>>

\* ingest_run opens a row.
Opened(task, mode, waiting, left) ==
    /\ sweep' = [Idle EXCEPT !.at = "next", !.task = task, !.mode = mode, !.tries = sweep.tries + 1,
                   !.waiting = waiting, !.gone = waiting \ left, !.left = left]
    /\ row' = NewRow
    /\ ledger' = <<>>

\* list_channels
Listed == {c \in Channels : kind[c] # "unset"}

\* BUG: a tick goes through the Channels as they were listed at the start.
InTurnMutant(mode, waiting) == Listed \cap (IF mode = "backfill" THEN waiting ELSE Initially)

\* The Channels of a sweep.
InTurn(mode, waiting) == IF mode = "backfill" THEN Listed \cap waiting ELSE Listed

\* The handler of a job, at its first try or again.
StartJob ==
    /\ jobs # <<>> /\ sweep.at \in {"idle", "again"}
    /\ LET mode == Head(jobs)
           waiting == IF mode = "backfill" THEN watched ELSE {}
       IN Opened("loop", mode, waiting, InTurn(mode, waiting))
    /\ UNCHANGED <<world, watched, requested, jobs, context, faults>>

\* /ingest, or the tool of a chat answer; refused while the lock is held.
Demand(c) ==
    /\ sweep.at = "idle" /\ kind[c] # "logs" /\ pending[c] > 0
    /\ Opened("chat", "demand", {}, {c})
    /\ UNCHANGED <<world, watched, requested, jobs, context, faults>>

\* An answer of the chat task is there, and its own call is logged.
Answer ==
    /\ sweep.at # "idle" => sweep.task = "loop"
    /\ ledger' = Logged(context["chat"])
    /\ context' = [context EXCEPT !["chat"] = Empty]
    /\ UNCHANGED <<world, watched, requested, jobs, sweep, row, faults>>

-----------------------------------------------------------------------------
(* The sweep                                                               *)

\* The next Channel: IngestRunRecorder.channel opens its scope.
Enter ==
    /\ sweep.at = "next" /\ sweep.left # {}
    /\ \E c \in sweep.left :
         /\ sweep' = [sweep EXCEPT !.at = "batch", !.on = c, !.owed = pending[c], !.saved = context[sweep.task]]
         /\ context' = [context EXCEPT ![sweep.task] = Scope(@, [run |-> TRUE, channel |-> c])]
    /\ UNCHANGED <<world, watched, requested, jobs, ledger, row, faults>>

\* A model call of the batch. One whose logging fails is in no account.
Call ==
    /\ sweep.at = "batch" /\ pending[sweep.on] > 0 /\ kind[sweep.on] # "logs"
    /\ Len(ledger) < MaxCalls
    /\ ledger' = Logged(context[sweep.task])
    /\ UNCHANGED <<world, watched, requested, jobs, sweep, context, row, faults>>

\* A batch is cut and consumed: one for a tick, if it is ready, and all there
\* are for the others. Even of a Channel that is unset by now.
Batch ==
    LET c == sweep.on
        n == IF sweep.mode = "tick" /\ c \notin ripe THEN 0 ELSE IF pending[c] < BatchN THEN pending[c] ELSE BatchN
    IN
    /\ sweep.at = "batch"
    /\ pending' = [pending EXCEPT ![c] = @ - n]
    /\ ripe' = IF n > 0 THEN ripe \ {c} ELSE ripe
    /\ sweep' = [sweep EXCEPT !.owed = IF @ < n THEN 0 ELSE @ - n,
                   !.at = IF sweep.mode = "tick" \/ n = 0 THEN "left" ELSE "batch"]
    /\ UNCHANGED <<kind, messages, admin, watched, requested, jobs, context, ledger, row, faults>>

BatchFails ==
    /\ sweep.at = "batch" /\ Fault
    /\ sweep' = [sweep EXCEPT !.at = "left", !.failed = TRUE]
    /\ UNCHANGED <<world, watched, requested, jobs, context, ledger, row>>

\* BUG: the context stays as the block left it.
RestoredMutant(s) == context

Restored(s) == [context EXCEPT ![s.task] = s.saved]

\* The end of the block, whatever became of it: the calls are rolled up, the
\* Channel's row is written, or lost, and the context restored.
RollUp ==
    /\ sweep.at = "left"
    /\ \/ /\ row' = [row EXCEPT !.channels[sweep.on] = Count(sweep.on)]
          /\ UNCHANGED faults
       \/ Fault /\ UNCHANGED row
    /\ sweep' = [sweep EXCEPT !.at = "leave", !.calls = @ + Count(sweep.on)]
    /\ context' = Restored(sweep)
    /\ UNCHANGED <<world, watched, requested, jobs, ledger>>

\* _phase_totals raises: no row, and the sweep fails with it.
RollUpFails ==
    /\ sweep.at = "left" /\ Fault
    /\ sweep' = [sweep EXCEPT !.at = "leave", !.failed = TRUE]
    /\ context' = Restored(sweep)
    /\ UNCHANGED <<world, watched, requested, jobs, ledger, row>>

\* BUG: the Channel is off the queue even if its batch failed.
DoneMutant(s) == {s.on} \cap s.waiting

\* The Channel a backfill takes off the queue.
Done(s) == IF s.failed THEN {} ELSE {s.on} \cap s.waiting

\* A failure ends the sweep, for the Channels behind this one too.
Leave ==
    /\ sweep.at = "leave"
    /\ watched' = watched \ Done(sweep)
    /\ sweep' = [sweep EXCEPT !.at = IF sweep.failed THEN "end" ELSE "next", !.left = @ \ {sweep.on},
                   !.on = None, !.owed = 0, !.saved = Empty]
    /\ UNCHANGED <<world, requested, jobs, context, ledger, row, faults>>

\* The sweep is over: it went through, or has failed for the last time.
Ends(s) == ~s.failed \/ s.mode = "demand" \/ s.tries > 1

\* _finalise, or a failure of it that nobody sees; then the retry of a job.
\* What a backfill found unwatched is off the queue.
Finish ==
    /\ sweep.at = "end" \/ (sweep.at = "next" /\ sweep.left = {})
    /\ \/ /\ row' = [row EXCEPT !.calls = sweep.calls,
                       !.outcome = IF sweep.failed THEN "failure" ELSE "success"]
          /\ UNCHANGED faults
       \/ Fault /\ UNCHANGED row
    /\ watched' = IF sweep.failed THEN watched ELSE watched \ sweep.gone
    /\ sweep' = IF Ends(sweep) THEN Idle
                ELSE [sweep EXCEPT !.at = "again", !.left = {}]
    /\ jobs' = IF sweep.mode # "demand" /\ Ends(sweep) THEN Tail(jobs) ELSE jobs
    /\ UNCHANGED <<world, requested, context, ledger>>

\* The process restarts: the queue was in memory, the rows stay as they are.
Crash ==
    /\ Fault
    /\ watched' = {} /\ requested' = FALSE /\ jobs' = <<>>
    /\ sweep' = Idle
    /\ context' = [t \in Tasks |-> Empty]
    /\ UNCHANGED <<world, ledger, row>>

SweepStep == Enter \/ Batch \/ RollUp \/ Leave \/ Finish

Next ==
    \/ \E c \in Channels : Arrive(c) \/ Ripen(c) \/ Watch(c) \/ Unwatch(c) \/ Demand(c)
    \/ Poll \/ StartJob \/ Answer
    \/ SweepStep \/ Call \/ BatchFails \/ RollUpFails \/ Crash

\* The loop polls for ever, a batch gets old, and awaits come back.
Spec == Init /\ [][Next]_vars
        /\ WF_vars(Poll) /\ WF_vars(StartJob) /\ WF_vars(SweepStep)
        /\ \A c \in Channels : WF_vars(Ripen(c))

-----------------------------------------------------------------------------
\* "The dashboard and the WhatsApp report can never disagree about what a run
\* cost" (observability/ingest.py): what a run that succeeded adds up to, and
\* each row of one of its Channels, is what model_calls says from then on,
\* whatever the chat task calls meanwhile and whatever was lost.
AccountsAgree ==
    /\ row.outcome = "success" => row.calls = Len(ledger)
    /\ \A c \in Channels : row.channels[c] \in {None, Count(c)}

\* A Channel is off the backfill's queue only when all that was pending when
\* the sweep came to it is taken, or when it was not watched as the sweep began,
\* even if it is again by now, or on a restart.
BackfillIsKept ==
    [][\A c \in watched \ watched' :
         \/ sweep.on = c /\ sweep.owed = 0 /\ ~sweep.failed
         \/ c \in sweep.gone
         \/ sweep'.at = "idle" /\ jobs' = <<>> /\ faults' # faults]_vars

\* "The regular ingest_tick picks them up" (main.py): the messages of a Channel
\* that stays watched are all ingested, even if its backfill failed, was lost
\* with a restart or forgotten, and another Channel's failures ended sweeps.
CaughtUp == \A c \in Channels : pending[c] > 0 ~> (pending[c] = 0 \/ kind[c] = "unset")
=============================================================================
