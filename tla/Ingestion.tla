----------------------------- MODULE Ingestion -----------------------------
(***************************************************************************)
(* The ingestion pipeline of one Channel (agents/wa_agent/ingestion.py,    *)
(* driven by main.py): a batch of pending messages is cut, each message is *)
(* put on a Thread or dropped as chatter, one page per Thread is revised,  *)
(* and only then is the batch consumed and the Channel's cursor moved.     *)
(*                                                                         *)
(* Every entry point holds the ingest lock (Scheduler proves that it       *)
(* excludes), so there is one run at a time; the intake, the commands,     *)
(* humans and the lifecycle job go on meanwhile. What the assigner returns *)
(* is any assignment, and not always of every message. A Thread page is    *)
(* the sequence of buckets appended to its Timeline, each a function from  *)
(* the rows it took in to the version of their text; a Thread whose page   *)
(* is empty is yet to be created.                                          *)
(***************************************************************************)
EXTENDS MessageBuffer

CONSTANTS
    Threads,    \* the Threads the Channel can come to have
    Chatter,    \* the bucket of messages that belong to none
    Nowhere,    \* the place of a message the assigner left in no bucket
    BatchN,     \* batch_n
    QuietAge,   \* batch_quiet_minutes, in ticks; OldAge is batch_t_minutes
    MaxDrain,   \* MAX_DRAIN_BATCHES
    Merges,     \* the vault may merge a stale write (Lapis), or refuses it (a directory)
    MaxTouches, \* bound on edits of a page by others during a run
    MaxFaults,  \* bound on model, vault and database calls that fail
    MaxCrashes  \* bound on restarts

ASSUME IngestionAssumption ==
    /\ Chatter \notin Threads /\ Nowhere \notin Threads \cup {Chatter}
    /\ BatchN \in Nat \ {0} /\ QuietAge \in 0..OldAge /\ MaxDrain \in Nat \ {0}
    /\ Merges \in BOOLEAN
    /\ MaxTouches \in Nat /\ MaxFaults \in Nat /\ MaxCrashes \in Nat

VARIABLES
    at,       \* where the run stands between two awaits
    mode,     \* which entry point it came from
    drained,  \* batches this run has finished
    batch,    \* rows of the cut batch
    text,     \* the version of each as it was read
    plan,     \* the bucket of each, if it has one
    written,  \* Threads of this batch whose page is written
    page,     \* the Timeline of each Thread's page
    stale,    \* Threads whose page others changed since the run read it
    ended,    \* Threads a human ended
    dropped,  \* rows dropped as chatter or with the logs channel
    missed,   \* history: rows consumed that were in no bucket
    cursor,   \* row of Channel.cursor, 0 for none
    torn,     \* history: rows on a page of a batch that was cut off before it was consumed
    touches, faults, crashes

runVars   == <<at, mode, drained, batch, text, plan, written>>
wikiVars  == <<page, stale, ended>>
trailVars == <<dropped, missed, cursor, torn>>
bounds    == <<touches, faults, crashes>>
vars == <<bufferVars, runVars, wikiVars, trailVars, bounds>>

Busy == {"cutting", "loading", "writing", "consuming", "advancing", "posting"}
Buckets == Threads \cup {Chatter}
Places == Buckets \cup {Nowhere}

IngestionTypeOK ==
    /\ BufferTypeOK
    /\ at \in Busy \cup {"idle"} /\ mode \in {"tick", "backfill", "demand"}
    /\ drained \in 0..MaxDrain
    /\ batch \in SUBSET DOMAIN rows
    /\ text \in [batch -> Nat] /\ plan \in [batch -> Places]
    /\ written \in SUBSET Threads
    /\ DOMAIN page = Threads
    /\ \A t \in Threads : \A k \in 1..Len(page[t]) :
          DOMAIN page[t][k] \subseteq DOMAIN rows /\ \A r \in DOMAIN page[t][k] : page[t][k][r] \in Nat
    /\ stale \in SUBSET Threads /\ ended \in SUBSET Threads
    /\ dropped \in SUBSET DOMAIN rows /\ missed \in SUBSET DOMAIN rows
    /\ cursor \in 0..Len(rows) /\ torn \in SUBSET DOMAIN rows
    /\ touches \in 0..MaxTouches /\ faults \in 0..MaxFaults /\ crashes \in 0..MaxCrashes

EmptyBatch == batch = {} /\ text = [r \in {} |-> 0] /\ plan = [r \in {} |-> Chatter]

Init ==
    /\ BufferInit
    /\ at = "idle" /\ mode = "tick" /\ drained = 0
    /\ EmptyBatch /\ written = {}
    /\ page = [t \in Threads |-> <<>>] /\ stale = {} /\ ended = {}
    /\ dropped = {} /\ missed = {} /\ cursor = 0 /\ torn = {}
    /\ touches = 0 /\ faults = 0 /\ crashes = 0

-----------------------------------------------------------------------------
(* The entry points. *)

Enter(m) ==
    /\ at = "idle" /\ at' = "cutting"
    /\ mode' = m /\ drained' = 0
    /\ UNCHANGED <<batch, text, plan, written, wikiVars, trailVars, bounds>>

\* _ingest_tick: list_channels leaves out channels that are not watched.
StartTick ==
    /\ Allowlisted /\ Pending # {}
    /\ Enter("tick")
    /\ UNCHANGED bufferVars

\* _backfill_ingest: a Channel unwatched before its turn just leaves the queue.
StartBackfill ==
    /\ backfill
    /\ IF Allowlisted
       THEN Enter("backfill") /\ UNCHANGED bufferVars
       ELSE /\ backfill' = FALSE
            /\ UNCHANGED <<rows, kind, cmds, edits, commands,
                           runVars, wikiVars, trailVars, bounds>>

\* _ingest_channel_on_demand, for /ingest or the Chat Agent: refused while a run holds the lock,
\* for a Channel without a row or of kind logs, and with nothing pending.
Refused == at # "idle" \/ kind \in {"none", "logs"} \/ Ingestible = {}

OnDemand ==
    /\ rows' = Consuming(Pending \ Ingestible)
    /\ Enter("demand")

StartOnDemand(c) ==
    /\ c \in cmds /\ c.phase = "started" /\ c.verb = "ingest"
    /\ IF Refused
       THEN /\ Moves(c, "served")
            /\ rows' = IF at = "idle" /\ kind \notin {"none", "logs"}
                       THEN Consuming(Pending) ELSE rows
            /\ UNCHANGED <<runVars, wikiVars, trailVars, bounds>>
       ELSE Moves(c, "serving") /\ OnDemand
    /\ UNCHANGED <<kind, backfill, edits, commands>>

\* The Chat Agent's tool: a message in a watched Channel asked for it.
StartFromChat ==
    /\ Allowlisted /\ ~Refused
    /\ OnDemand
    /\ UNCHANGED <<kind, cmds, backfill, edits, commands>>

NoBatch ==
    /\ batch' = {} /\ text' = [r \in {} |-> 0] /\ plan' = [r \in {} |-> Chatter]
    /\ written' = {}

\* The run is over, with a result or an exception: a command that waits for it
\* gets its answer.
Over ==
    /\ at' = "idle" /\ mode' = "tick" /\ drained' = 0 /\ stale' = {}
    /\ NoBatch
    /\ cmds' = {IF c.phase = "serving" THEN [c EXCEPT !.phase = "served"] ELSE c : c \in cmds}

Finish ==
    /\ Over
    /\ backfill' = (backfill /\ mode # "backfill")

-----------------------------------------------------------------------------
(* One batch. *)

\* BUG: the age of the oldest message is not a trigger.
ReadyMutant ==
    /\ \A r \in Ingestible : rows[r].age >= QuietAge
    /\ Cardinality(Ingestible) >= BatchN
Ready ==
    /\ \A r \in Ingestible : rows[r].age >= QuietAge
    /\ \/ Cardinality(Ingestible) >= BatchN
       \/ \E r \in Ingestible : rows[r].age >= OldAge

FirstN == {r \in Ingestible : Cardinality({q \in Ingestible : q < r}) < BatchN}

NothingToCut == Ingestible = {} \/ (mode = "tick" /\ ~Ready) \/ drained = MaxDrain

\* cut_scheduled_batch, cut_forced_batch. pending_messages consumes on sight
\* what is never ingested; run_drained stops when its bound is reached.
Cut ==
    /\ at = "cutting"
    /\ rows' = IF drained = MaxDrain THEN rows ELSE Consuming(Pending \ Ingestible)
    /\ IF NothingToCut
       THEN Finish
       ELSE /\ at' = "loading"
            /\ batch' = FirstN
            /\ text' = [r \in FirstN |-> rows[r].version]
            /\ plan' = [r \in FirstN |-> Chatter]
            /\ UNCHANGED <<mode, drained, written, stale, cmds, backfill>>
    /\ UNCHANGED <<kind, edits, commands, page, ended, trailVars, bounds>>

\* What the assigner may leave in no bucket: replies to one another in a circle,
\* or a reply to a reply to a message that Jev handed to the worker. Assignment
\* shows both, and that nothing else is left.
MayBeLeft(S) == S # {} => Cardinality(S) >= 2 \/ Cardinality(batch \ S) >= 2

\* _run and the first half of _process_batch. The logs channel is drained
\* unread; no other kind is looked at. Otherwise the pages are read and a
\* message is put on an open Thread or a new one, or is chatter, or is left.
Load ==
    /\ at = "loading"
    /\ stale' = {} /\ written' = {}
    /\ IF kind = "logs"
       THEN at' = "consuming" /\ UNCHANGED plan
       ELSE /\ at' = "writing"
            /\ plan' \in [batch -> Places \ ended]
            /\ MayBeLeft({r \in batch : plan'[r] = Nowhere})
    /\ UNCHANGED <<bufferVars, mode, drained, batch, text, page, ended, trailVars, bounds>>

Bucket(t) == {r \in batch : plan[r] = t}
ToWrite == {t \in Threads : Bucket(t) # {}} \ written

Appended(t) == [page EXCEPT ![t] = Append(@, [r \in Bucket(t) |-> text[r]])]

\* _write_bucket: a page is written against the revision that was read; a new
\* Thread's page takes a free name and conflicts with nobody's. Lapis merges
\* three ways what does not overlap: the other change stays, the lines are added.
\* BUG: the page is written whatever its revision.
ConflictsMutant(t) == FALSE
Conflicts(t) == t \in stale

WriteBucket(t) ==
    /\ at = "writing" /\ t \in ToWrite /\ (Conflicts(t) => Merges)
    /\ page' = Appended(t)
    /\ written' = written \cup {t}
    /\ UNCHANGED <<bufferVars, at, mode, drained, batch, text, plan,
                   stale, ended, trailVars, bounds>>

\* The last bucket is written and the Channel Page reindexed.
\* BUG: the batch is consumed as soon as one bucket is written.
WrittenMutant ==
    /\ at = "writing" /\ (ToWrite = {} \/ written # {})
    /\ at' = "consuming"
    /\ UNCHANGED <<bufferVars, mode, drained, batch, text, plan, written,
                   wikiVars, trailVars, bounds>>
Written ==
    /\ at = "writing" /\ ToWrite = {}
    /\ at' = "consuming"
    /\ UNCHANGED <<bufferVars, mode, drained, batch, text, plan, written,
                   wikiVars, trailVars, bounds>>
\* mark_consumed, of the whole batch, whatever bucket its messages are in
Consume ==
    /\ at = "consuming" /\ at' = "advancing"
    /\ rows' = Consuming(batch)
    /\ dropped' = dropped \cup Bucket(Chatter) /\ missed' = missed \cup Bucket(Nowhere)
    /\ UNCHANGED <<kind, cmds, backfill, edits, commands, mode, drained,
                   batch, text, plan, written, wikiVars, cursor, torn, bounds>>

\* advance_channel_cursor, to the batch's last message
Advance ==
    /\ at = "advancing" /\ at' = "posting"
    /\ \E last \in batch : (\A r \in batch : r <= last) /\ cursor' = last
    /\ UNCHANGED <<bufferVars, mode, drained, batch, text, plan, written,
                   wikiVars, dropped, missed, torn, bounds>>

\* post_notices, whose notices ProjectAgent follows, has returned: it reports an
\* inbox that cannot be written and goes on. A drain cuts the next batch.
Post ==
    /\ at = "posting"
    /\ IF mode = "tick"
       THEN Finish
       ELSE /\ at' = "cutting" /\ drained' = drained + 1
            /\ NoBatch
            /\ UNCHANGED <<mode, stale, cmds, backfill>>
    /\ UNCHANGED <<rows, kind, edits, commands, page, ended, trailVars, bounds>>

-----------------------------------------------------------------------------
(* What goes wrong, and who else writes. *)

\* What a run that is cut off leaves on pages will be cut and written again.
HalfWritten == IF at \in {"writing", "consuming"} THEN {r \in batch : plan[r] \in written} ELSE {}
CutOff(rs) == torn' = torn \cup rs /\ UNCHANGED <<dropped, missed, cursor>>

\* Any call of a run may raise; the run ends there.
Fails ==
    /\ at # "idle" /\ faults < MaxFaults
    /\ faults' = faults + 1
    /\ Over /\ CutOff(HalfWritten)
    /\ UNCHANGED <<rows, kind, backfill, edits, commands, page, ended, touches, crashes>>

\* A page write that took effect, its answer lost.
WriteAnswerLost(t) ==
    /\ at = "writing" /\ t \in ToWrite /\ (Conflicts(t) => Merges) /\ faults < MaxFaults
    /\ faults' = faults + 1
    /\ page' = Appended(t)
    /\ Over /\ CutOff(HalfWritten \cup Bucket(t))
    /\ UNCHANGED <<rows, kind, backfill, edits, commands, ended, touches, crashes>>

\* ConflictError is not caught on the way up.
WriteConflicts(t) ==
    /\ at = "writing" /\ t \in ToWrite /\ Conflicts(t)
    /\ Over /\ CutOff(HalfWritten)
    /\ UNCHANGED <<rows, kind, backfill, edits, commands, page, ended, bounds>>

\* The process restarts: tasks, the in-memory queue and the lock are gone.
Crash ==
    /\ crashes < MaxCrashes
    /\ crashes' = crashes + 1
    /\ at' = "idle" /\ mode' = "tick" /\ drained' = 0 /\ stale' = {}
    /\ NoBatch /\ CutOff(HalfWritten)
    /\ cmds' = {} /\ backfill' = FALSE
    /\ UNCHANGED <<rows, kind, edits, commands, page, ended, touches, faults>>

\* A human or the lifecycle job changes a Thread's page; a human may end it.
Touch(t, ends) ==
    /\ page[t] # <<>> /\ touches < MaxTouches
    /\ ends \/ at = "writing"
    /\ touches' = touches + 1
    /\ stale' = IF at = "writing" THEN stale \cup {t} ELSE stale
    /\ ended' = IF ends THEN ended \cup {t} ELSE ended
    /\ UNCHANGED <<bufferVars, runVars, page, trailVars, faults, crashes>>

Outside == Intake /\ UNCHANGED <<runVars, wikiVars, trailVars, bounds>>

Step == Cut \/ Load \/ Written \/ Consume \/ Advance \/ Post
        \/ \E t \in Threads : WriteBucket(t) \/ WriteConflicts(t)

Next ==
    \/ Outside
    \/ StartTick \/ StartBackfill \/ StartFromChat \/ \E c \in cmds : StartOnDemand(c)
    \/ Step
    \/ Fails \/ Crash
    \/ \E t \in Threads : WriteAnswerLost(t) \/ Touch(t, FALSE) \/ Touch(t, TRUE)

Spec == Init /\ [][Next]_vars

\* The loop polls for ever, a run's calls all return, time passes and command
\* handlers end.
FairSpec ==
    /\ Spec
    /\ WF_vars(StartTick) /\ WF_vars(Step) /\ WF_vars(Tick /\ UNCHANGED <<runVars, wikiVars, trailVars, bounds>>)
    /\ WF_vars(\E c \in cmds : StartOnDemand(c))
    /\ WF_vars(/\ \E c \in cmds : SetUp(c) \/ ImportEnds(c) \/ Unwatch(c) \/ CommandDone(c)
               /\ UNCHANGED <<runVars, wikiVars, trailVars, bounds>>)

-----------------------------------------------------------------------------
(* Properties. *)

OnPage(r) == \E t \in Threads : \E k \in DOMAIN page[t] : r \in DOMAIN page[t][k]

\* A message is consumed only once it is on a Thread page or was dropped, so
\* neither a failing call nor a restart at any point of a batch loses one
\* (mark_consumed comes last, ingestion.py:336). Command rows are their handlers'.
\* What the assigner left in no bucket is consumed with its batch and on no
\* page: that loss is excepted here, and Assignment says what it can be.
ConsumedWasRead ==
    \A r \in DOMAIN rows :
        rows[r].consumed => \/ rows[r].type \notin Ingested
                            \/ rows[r].cmd
                            \/ r \in dropped
                            \/ r \in missed
                            \/ OnPage(r)

\* No message at or before the Channel's cursor is still to be ingested: cuts
\* are oldest first and the cursor moves after the batch is consumed.
CursorIsConsumed == \A r \in DOMAIN rows : r <= cursor => rows[r].consumed

\* The cursor never moves back, whatever the entry points do in turn.
CursorNeverBack == [][cursor' >= cursor]_vars

\* What reaches a page is not consumed yet: with the ingest lock no batch is
\* written after another run, or this one, has consumed its messages.
WritesArePending ==
    [][\A t \in Threads : page'[t] # page[t] =>
         \A r \in DOMAIN page'[t][Len(page'[t])] : rows[r].cmd \/ ~rows[r].consumed]_vars

\* A Thread a human ended takes no more messages, even if it was ended after
\* the run read it as open: the write meets a changed revision. CONTEXT.md l.49:
\* "a continuation is a new Thread linking to it". That is so over a vault that
\* refuses; Lapis merges (lapis_client.py:377), so over it such a Thread does
\* take the lines of a run that read its page before it was ended, and of no other.
EndedStaysClosed ==
    [][\A t \in ended : page'[t] # page[t] => Merges /\ at = "writing" /\ t \in stale]_vars

\* A message is on one page, once, and each Timeline is in arrival order. Spec
\* l.104: "Batches are idempotent on message ids and hold the channel lock." Only
\* what a batch had on pages when it was cut off is written again.
WrittenOnce ==
    \A t, u \in Threads : \A k \in DOMAIN page[t], l \in DOMAIN page[u] :
        \A r \in DOMAIN page[t][k] \ torn, q \in DOMAIN page[u][l] \ torn :
            /\ rows[r].id = rows[q].id => t = u /\ k = l /\ r = q
            /\ t = u /\ k < l => r < q

Buffers(r)  == r \in DOMAIN rows /\ ~rows[r].consumed
Consumed(r) == r \in DOMAIN rows /\ rows[r].consumed

\* A pending message is consumed in the end, by the tick if nothing else, unless
\* its Channel stops being watched.
EventuallyConsumed ==
    \A r \in 1..MaxRows : (Buffers(r) /\ Allowlisted) ~> (Consumed(r) \/ ~Allowlisted)
=============================================================================
