----------------------------- MODULE Assignment -----------------------------
(***************************************************************************)
(* Which thread each message of a batch goes to (agents/wa_agent/assign.py *)
(* and assign_jev.py): replies are routed without a model, the rest is     *)
(* asked about chunk by chunk, and a chunk's new threads are known to the  *)
(* chunks after it. In Jev mode a decision model labels every message      *)
(* first and only those it cannot place go to the worker model.            *)
(*                                                                         *)
(* A model answers anything its schema admits. Texts and titles are left   *)
(* out; their sizes, which decide how a batch is cut, are small numbers. A *)
(* message is named by its place in the batch, so that a list of messages, *)
(* always in the order of the batch, is a set of them.                     *)
(***************************************************************************)
EXTENDS Naturals, Sequences, FiniteSets, FiniteSetsExt, SequencesExt

CONSTANTS
    Modes,      \* ASSIGNMENT_MODE: subset of {"worker", "jev"}
    Batches,    \* batches of logical messages: [ids, reply, size]
    Open,       \* the channel's open threads, as list_active_threads orders them
    Stale,      \* those of them that are stale
    OnPage,     \* find_by_src_id: message id -> the thread whose page has it
    CHATTER, NEW_THREAD, \* what a model says instead of a thread's slug
    Unknown,    \* a thread no list has
    None,       \* no reply, no page, no thread
    MaxNew,     \* bound on the N of new-N
    MaxPerCall, \* ingest_max_messages_per_call
    TotalBudget \* ingest_max_prompt_tokens

Retries == 2     \* ASSIGN_MAX_RETRIES
MaxShrink == 3

NewIds == 1..MaxNew
Known == ToSet(Open)
Keys == Known \cup NewIds \cup {CHATTER}
Ids == DOMAIN OnPage

ASSUME AssignmentAssumption ==
    /\ Modes \subseteq {"worker", "jev"}
    /\ MaxNew \in Nat /\ MaxPerCall \in Nat \ {0} /\ TotalBudget \in Nat
    /\ Stale \subseteq Known /\ Known \cap (NewIds \cup {CHATTER, NEW_THREAD, Unknown, None}) = {}
    /\ (NewIds \cup {CHATTER}) \cap {None, NEW_THREAD, Unknown} = {} /\ CHATTER \notin NewIds
    /\ None \notin Ids /\ \A s \in Ids : OnPage[s] \in Known \cup {None}
    /\ Batches \subseteq Seq([ids : SUBSET Ids, reply : Ids \cup {None}, size : Nat])
    /\ \A b \in Batches : \A i \in DOMAIN b, j \in DOMAIN b : i # j => b[i].ids \cap b[j].ids = {}

VARIABLES
    batch,     \* the messages, in order
    mode,      \* who is asked first
    stage,     \* "route", "jev", "hand", "cut", "ask" or "done"
    given,     \* the messages of this call of the assigner
    queue,     \* messages the stage has yet to look at
    toAsk,     \* messages no reply has placed
    followers, \* message id -> replies that wait for its message
    placed,    \* message id -> the thread its message was put on
    landed,    \* message -> every thread it was put on, in order
    routed,    \* how many were placed as replies: already_assigned
    carried,   \* new-N of earlier chunks, shown to the next
    named,     \* new-N -> the ask whose declaration names it, 0 for none
    nextNew,   \* next_new_index
    chunk,     \* the messages being asked about
    attempt,   \* asks of this chunk so far
    answer,    \* what the last answer means, None before one came
    asks       \* chunks settled so far

asking == <<chunk, attempt, answer>>
minted == <<carried, named, nextNew, asks>>
placement == <<toAsk, followers, placed, landed, routed>>
call == <<batch, mode, given>>
assignVars == <<call, stage, queue, placement, minted, asking>>

Messages == DOMAIN batch

AssignInit ==
    /\ batch \in Batches /\ mode \in Modes
    /\ given = Messages /\ stage = "route" /\ queue = Messages /\ toAsk = {}
    /\ followers = [s \in Ids |-> {}] /\ placed = [s \in Ids |-> None]
    /\ landed = [i \in Messages |-> <<>>] /\ routed = 0
    /\ carried = {} /\ named = [n \in NewIds |-> 0] /\ nextNew = 1 /\ asks = 0
    /\ chunk = {} /\ attempt = 0 /\ answer = None

-----------------------------------------------------------------------------
(* _Placement                                                              *)

IdsOf(S) == UNION {batch[i].ids : i \in S}

\* BUG: only the replies to the message itself go with it.
CohortMutant(i) == {i} \cup UNION {followers[s] : s \in batch[i].ids}

\* Whose replies are in S when they wait for a message of S.
WithFollowers(S) == \A s \in IdsOf(S) : followers[s] \subseteq S

\* The message and everything that waits for it, replies to replies included.
Cohort(i) == {j \in Messages : \A S \in SUBSET Messages : i \in S /\ WithFollowers(S) => j \in S}

\* put, for messages that each have a thread: key maps the ones placed now.
Heads(key, j) == {i \in DOMAIN key : j \in Cohort(i)}
Going(key) == {j \in Messages : Heads(key, j) # {}}
Goals(key) == [j \in Going(key) |-> key[CHOOSE i \in Heads(key, j) : TRUE]]

Put(key) ==
    \E goal \in {Goals(key)} :
      LET carrier(s) == {j \in DOMAIN goal : s \in batch[j].ids} IN
      /\ landed' = [j \in Messages |-> IF j \in DOMAIN goal THEN Append(landed[j], goal[j]) ELSE landed[j]]
      /\ placed' = [s \in Ids |-> IF carrier(s) = {} THEN placed[s] ELSE goal[CHOOSE j \in carrier(s) : TRUE]]
      /\ followers' = [s \in Ids |-> IF carrier(s) = {} THEN followers[s] ELSE {}]

\* BUG: only the first id of a concatenated message is looked for.
InBatchMutant(i) == \E j \in given \ {i} : batch[i].reply = Min(batch[j].ids)

\* _in_batch: another message of this call carries the reply's target.
InBatch(i) == \E j \in given \ {i} : batch[i].reply \in batch[j].ids

PlaceReply(i, thread) == Put([j \in {i} |-> thread]) /\ routed' = routed + 1 /\ UNCHANGED toAsk

WaitFor(i, target) ==
    /\ followers' = [followers EXCEPT ![target] = @ \cup {i}]
    /\ UNCHANGED <<landed, placed, routed, toAsk>>

LeaveToAsk(i) == toAsk' = toAsk \cup {i} /\ UNCHANGED <<landed, placed, followers, routed>>

\* The next message of route_replies. A reply goes to the thread its target was
\* put on, waits for a target of this call, or goes to the page that has it.
RouteReply(i, target) ==
    IF placed[target] # None THEN PlaceReply(i, placed[target])
    ELSE IF InBatch(i) THEN WaitFor(i, target)
    ELSE IF OnPage[target] # None THEN PlaceReply(i, OnPage[target])
    ELSE LeaveToAsk(i)

Route ==
    /\ stage = "route"
    /\ \E i \in queue :
         /\ \A j \in queue : i <= j
         /\ queue' = queue \ {i}
         /\ IF batch[i].reply = None THEN LeaveToAsk(i) ELSE RouteReply(i, batch[i].reply)
    /\ UNCHANGED <<call, stage, minted, asking>>

\* All replies are routed; nothing left to ask ends the call.
Routed ==
    /\ stage = "route" /\ queue = {}
    /\ stage' = CASE toAsk = {} -> "done" [] toAsk # {} /\ mode = "jev" -> "jev" [] OTHER -> "cut"
    /\ queue' = toAsk
    /\ UNCHANGED <<call, placement, minted, asking>>

-----------------------------------------------------------------------------
(* assign_with_jev                                                         *)

Labels == [option : Known \cup {CHATTER, NEW_THREAD, Unknown}, sure : BOOLEAN]

\* _needs_worker, or the thread the label is sure of. No label: None.
NeedsWorker(c) == c = None \/ c.option \notin Known \cup {CHATTER} \/ ~c.sure
Decision(c) == IF NeedsWorker(c) THEN None ELSE c.option
Decisions == {Decision(c) : c \in Labels \cup {None}}

\* choice_batch labels every message, or raises, which labels none. What it
\* is sure of is placed, the rest held for the worker.
JevDecides ==
    /\ stage = "jev"
    /\ \E decision \in [queue -> Decisions] :
         LET sure == {i \in queue : decision[i] # None} IN
         /\ Put(Restrict(decision, sure))
         /\ queue' = queue \ sure
         /\ stage' = IF queue' = {} THEN "done" ELSE "hand"
    /\ UNCHANGED <<call, toAsk, routed, minted, asking>>

\* assign_batch starts over with the held messages and the replies that wait
\* for one of them. A reply to such a reply is not among them.
HandOver ==
    LET handed == queue \cup UNION {followers[s] : s \in IdsOf(queue)} IN
    /\ stage = "hand"
    /\ stage' = "route" /\ mode' = "worker"
    /\ given' = handed /\ queue' = handed /\ toAsk' = {} /\ routed' = 0
    /\ followers' = [s \in Ids |-> {}] /\ placed' = [s \in Ids |-> None]
    /\ UNCHANGED <<batch, landed, minted, asking>>

-----------------------------------------------------------------------------
(* assign_batch: the context is squeezed until the messages have room      *)

\* A title, a description and the recent lines, as far as shrink shows them.
ThreadSize(t, shrink) ==
    1 + (IF shrink < 3 THEN 1 ELSE 0)
      + (IF shrink = 0 \/ (shrink = 1 /\ t \notin Stale) THEN 1 ELSE 0)

Waiting == Cardinality(UNION {followers[s] : s \in Ids})

\* _context_overhead: all of the prompt but the messages to assign.
Overhead(shown, shrink) ==
    routed + Waiting + Cardinality(carried) * ThreadSize(None, shrink)
    + FoldSeq(LAMBDA t, sum : sum + ThreadSize(t, shrink), 0, shown)

\* Within _CONTEXT_BUDGET_SHARE of the budget.
Fits(shown, shrink) == 10 * Overhead(shown, shrink) <= 6 * TotalBudget

Shrink == CHOOSE s \in 0..MaxShrink :
             /\ Fits(Open, s) \/ s = MaxShrink
             /\ \A r \in 0..(s - 1) : ~Fits(Open, r)

\* _drop_one_thread: the oldest stale thread, else the oldest.
DropOne(shown) ==
    LET stale == {i \in DOMAIN shown : shown[i] \in Stale}
    IN IF stale # {} THEN RemoveAt(shown, Min(stale)) ELSE Tail(shown)

\* The threads shown: fewer until they fit, never one of this batch.
Shown ==
    LET less[k \in 0..Len(Open)] == IF k = 0 THEN Open ELSE DropOne(less[k - 1])
        stops(k) == \/ Fits(less[k], Shrink) \/ less[k] = <<>>
                    \/ Len(less[k]) + Cardinality(carried) <= 1
    IN less[CHOOSE k \in 0..Len(Open) : stops(k) /\ \A j \in 0..(k - 1) : ~stops(j)]

\* What is left for the messages, and never less than their share.
Budget ==
    LET share == (4 * TotalBudget) \div 10
        left == TotalBudget - Overhead(Shown, Shrink)
    IN IF Overhead(Shown, Shrink) >= TotalBudget \/ left < share THEN share ELSE left

Upto(i) == {j \in queue : j <= i}
SizeOf(S) == MapThenSumSet(LAMBDA i : batch[i].size, S)

\* chunk_messages: the first chunk, which has a message however big it is.
FirstChunk ==
    Upto(Max({i \in queue : \/ i = Min(queue)
                            \/ SizeOf(Upto(i)) <= Budget /\ Cardinality(Upto(i)) <= MaxPerCall}))

Cut ==
    /\ stage = "cut" /\ queue # {}
    /\ chunk' = FirstChunk
    /\ queue' = queue \ FirstChunk
    /\ stage' = "ask" /\ attempt' = 0 /\ answer' = None
    /\ UNCHANGED <<call, placement, minted>>

Finish ==
    /\ stage = "cut" /\ queue = {}
    /\ stage' = "done"
    /\ UNCHANGED <<call, queue, placement, minted, asking>>

-----------------------------------------------------------------------------
(* _ask_with_retries                                                       *)

\* Any answer: a thread per message or none (Unknown), the new threads with
\* a title, and flaws that change nothing else (an id twice, an id of no
\* message, a new thread declared twice or without a title).
Answers == [of : [chunk -> Known \cup NewIds \cup {CHATTER, Unknown}],
            declared : SUBSET NewIds, flawed : BOOLEAN]

ValidRefs(a) == Known \cup carried \cup a.declared \cup {CHATTER}

\* _validate_assignment has nothing to complain of.
Clean(a) ==
    /\ ~a.flawed
    /\ \A n \in a.declared \ carried : n >= nextNew
    /\ \A i \in DOMAIN a.of : a.of[i] \in ValidRefs(a)

\* BUG: a reference is used as it is, whether or not it names a thread.
KeysOfMutant(a) == a.of

\* What names no thread is chatter.
KeysOf(a) ==
    LET refs == ValidRefs(a) IN
    [i \in DOMAIN a.of |-> IF a.of[i] \in refs THEN a.of[i] ELSE CHATTER]

NewIn(a) == {n \in a.declared \ carried : \E i \in DOMAIN a.of : a.of[i] = n}

\* All that is used of an answer: where its messages go, and the new threads
\* that got one.
Meaning(a) == [key |-> KeysOf(a), new |-> NewIn(a)]
AllChatter == [key |-> [i \in chunk |-> CHATTER], new |-> {}]

Apply(m) ==
    /\ Put(m.key)
    /\ carried' = carried \cup m.new
    /\ named' = [n \in NewIds |-> IF n \in m.new THEN asks + 1 ELSE named[n]]
    /\ nextNew' = Max({nextNew} \cup {n + 1 : n \in m.new})
    /\ asks' = asks + 1
    /\ stage' = "cut" /\ chunk' = {} /\ attempt' = 0 /\ answer' = None
    /\ UNCHANGED <<call, queue, toAsk, routed>>

AskAgain(a) ==
    /\ attempt < Retries
    /\ attempt' = attempt + 1 /\ answer' = a
    /\ UNCHANGED <<call, stage, queue, placement, minted, chunk>>

\* Asked again unless the answer is clean or it was the last attempt.
AskAnswers ==
    /\ stage = "ask"
    /\ \E r \in {[meaning |-> Meaning(a), clean |-> Clean(a)] : a \in Answers} :
         IF r.clean \/ attempt = Retries THEN Apply(r.meaning) ELSE AskAgain(r.meaning)

\* The call raised. After the last attempt an earlier answer is salvaged;
\* without one the whole chunk is chatter.
AskFails ==
    /\ stage = "ask"
    /\ \/ AskAgain(answer)
       \/ attempt = Retries /\ Apply(IF answer = None THEN AllChatter ELSE answer)

-----------------------------------------------------------------------------
AssignNext == Route \/ Routed \/ JevDecides \/ HandOver \/ Cut \/ AskAnswers \/ AskFails \/ Finish

\* The pipeline awaits the assigner; a run of it has no other steps.
AssignSpec == AssignInit /\ [][AssignNext]_assignVars

-----------------------------------------------------------------------------
\* A batch is consumed whole once it is assigned, so a message without a
\* thread would be gone: each lands exactly once, whoever is asked, also when
\* every ask failed and when it replies to a reply (assign.py, _Placement).
EveryMessagePlaced == stage = "done" => \A i \in Messages : Len(landed[i]) = 1

ParentOf(i) == {j \in Messages \ {i} : batch[i].reply \in batch[j].ids}

\* What i replies to, and what that replies to, and so on.
Behind(i) ==
    {j \in Messages : \A S \in SUBSET Messages :
        ParentOf(i) \subseteq S /\ (\A k \in S : ParentOf(k) \subseteq S) => j \in S}

\* Messages that arrive out of order may be concatenated so that replies run
\* in a circle, and each waits for the next.
WaitsForCircle(i) == \E j \in Behind(i) : j \in Behind(j)

\* The same for the passing run: only a reply to a reply of the batch may be
\* lost, where Jev handed over without it, or what waits for a circle of
\* replies; and nothing ever lands twice.
NothingDropped ==
    /\ \A i \in Messages : Len(landed[i]) <= 1
    /\ stage = "done" =>
         \A i \in Messages :
            \/ landed[i] # <<>> \/ WaitsForCircle(i)
            \/ i \notin given /\ \E j \in ParentOf(i) : ParentOf(j) # {}

\* "A reply to a message in this same batch follows that message wherever it
\* lands", through both assigners, chunks, retries and failures.
RepliesFollow ==
    stage = "done" =>
      \A i \in Messages : \A j \in ParentOf(i) : landed[i] # <<>> => landed[i] = landed[j]

\* _write_bucket takes the title of a new thread from new_threads[key]: each
\* new-N a message landed on was named by a declaration, and none without.
NewThreadsAreNamed ==
    stage = "done" =>
      \A n \in NewIds : named[n] # 0 <=> \E i \in Messages : landed[i] = <<n>>

=============================================================================
