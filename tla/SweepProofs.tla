----------------------------- MODULE SweepProofs -----------------------------
(***************************************************************************)
(* The accounts of a sweep and the queue of Channels to backfill, for any  *)
(* Channels, messages, model calls, failures and restarts. A call is       *)
(* logged for the Channel the sweep is at because no task keeps a context  *)
(* it has left (Scoped), so what a run has added up is what is logged      *)
(* (Accounted) and a Channel that is done is logged for no more (Closed).  *)
(*                                                                         *)
(* Then the Chat Agent, for any posts, rows, deliveries and failures: what *)
(* is in line at the limiter is there once and has not been sent (InLine), *)
(* and the hook of a post that is answered is over (AnsweredOnce).         *)
(***************************************************************************)
EXTENDS Sweep, Chat, FiniteSetTheorems, TLAPS

Places == {"idle", "next", "batch", "left", "leave", "end", "again"}
Modes  == {"tick", "backfill", "demand"}
InChannel == {"batch", "left", "leave"}
Inside == {"batch", "left"}

Ctx == [run : BOOLEAN, channel : Channels \cup {None}]
SweepRec ==
    [at : Places, task : Tasks, mode : Modes, tries : Nat,
     waiting : SUBSET Channels, gone : SUBSET Channels, left : SUBSET Channels,
     on : Channels \cup {None}, owed : Nat, calls : Nat, failed : BOOLEAN, saved : Ctx]
RowRec ==
    [outcome : {"none", "success", "failure"}, calls : Nat, channels : [Channels -> Nat \cup {None}]]

\* The Channels, their messages and the queue.
WorldTypeOK ==
    /\ kind \in [Channels -> {"unset", "project", "logs"}]
    /\ pending \in [Channels -> Nat]
    /\ ripe \in SUBSET Channels /\ watched \in SUBSET Channels
    /\ requested \in BOOLEAN
    /\ messages \in Nat /\ faults \in Nat /\ admin \in Nat

RunTypeOK ==
    /\ jobs \in Seq({"backfill", "tick"})
    /\ sweep \in SweepRec
    /\ sweep.at \in InChannel => sweep.on \in sweep.left
    /\ sweep.at # "idle" /\ sweep.mode # "demand" => jobs # <<>>
    /\ context \in [Tasks -> Ctx]
    /\ ledger \in Seq(Channels)
    /\ row \in RowRec

SweepTypeOK == WorldTypeOK /\ RunTypeOK

\* Only the task whose sweep is inside a Channel's block has a run and a
\* Channel to log to, and it goes back to none.
Scoped ==
    /\ \A t \in Tasks :
         context[t] = IF sweep.at \in Inside /\ t = sweep.task
                      THEN [run |-> TRUE, channel |-> sweep.on] ELSE Empty
    /\ sweep.at \in Inside => sweep.saved = Empty

\* No call is logged for a Channel before its turn.
Untouched == sweep.left \ (IF sweep.at \in InChannel THEN {sweep.on} ELSE {})
NotYet == \A i \in 1..Len(ledger) : ledger[i] \notin Untouched

\* What the run has added up, with the Channel it is at, is all that is logged.
Accounted ==
    /\ sweep.at \in Inside => Len(ledger) = sweep.calls + Count(sweep.on)
    /\ sweep.at \in {"leave", "next"} /\ ~sweep.failed => Len(ledger) = sweep.calls

\* A Channel has its row only when it is done, and then it is as logged.
Closed ==
    \A c \in Channels :
        row.channels[c] # None =>
            /\ row.channels[c] = Count(c)
            /\ c \notin sweep.left \/ (sweep.at = "leave" /\ c = sweep.on)

\* A run that succeeded is over.
Settled ==
    /\ row.outcome = "success" => sweep.at = "idle" /\ row.calls = Len(ledger)
    /\ sweep.at = "next" => ~sweep.failed
    /\ sweep.at = "end" => sweep.failed

\* What a backfill still owes a Channel is in its buffer, and when the batches
\* are done it owes it nothing.
Owing ==
    /\ sweep.mode # "backfill" => sweep.waiting = {}
    /\ sweep.at = "batch" => sweep.owed <= pending[sweep.on] /\ ~sweep.failed
    /\ sweep.at \in {"left", "leave"} /\ sweep.mode # "tick" /\ ~sweep.failed => sweep.owed = 0

SweepInductive ==
    SweepTypeOK /\ Scoped /\ NotYet /\ Accounted /\ Closed /\ Settled /\ Owing
-----------------------------------------------------------------------------
(* The ledger.                                                             *)

LEMMA CountType ==
    ASSUME ledger \in Seq(Channels), NEW c
    PROVE  IsFiniteSet(CallsOf(c)) /\ Count(c) \in Nat
<1>1. CallsOf(c) \subseteq 1..Len(ledger) /\ Len(ledger) \in Nat
  BY DEF CallsOf
<1>2. IsFiniteSet(1..Len(ledger))
  BY <1>1, FS_Interval
<1>3. IsFiniteSet(CallsOf(c))
  BY <1>1, <1>2, FS_Subset
<1>4. QED
  BY <1>3, FS_CardinalityType DEF Count

LEMMA CountNone ==
    ASSUME ledger \in Seq(Channels), NEW c, \A i \in 1..Len(ledger) : ledger[i] # c
    PROVE  Count(c) = 0
<1>1. CallsOf(c) = {}
  BY DEF CallsOf
<1>2. QED
  BY <1>1, FS_EmptySet DEF Count

LEMMA CountAppend ==
    ASSUME ledger \in Seq(Channels), NEW c \in Channels, ledger' = Append(ledger, c)
    PROVE  /\ ledger' \in Seq(Channels)
           /\ Len(ledger') = Len(ledger) + 1
           /\ \A i \in 1..Len(ledger') : ledger'[i] = c \/ (i \in 1..Len(ledger) /\ ledger'[i] = ledger[i])
           /\ Count(c)' = Count(c) + 1
           /\ \A d : d # c => Count(d)' = Count(d)
<1> DEFINE n == Len(ledger) + 1
<1>1. /\ ledger' \in Seq(Channels) /\ Len(ledger') = n /\ Len(ledger) \in Nat
      /\ DOMAIN ledger = 1..Len(ledger) /\ DOMAIN ledger' = 1..n
      /\ ledger'[n] = c /\ \A i \in 1..Len(ledger) : ledger'[i] = ledger[i]
  OBVIOUS
<1>2. CallsOf(c)' = CallsOf(c) \cup {n} /\ n \notin CallsOf(c)
  BY <1>1 DEF CallsOf
<1>3. IsFiniteSet(CallsOf(c))
  BY CountType
<1>4. Count(c)' = Count(c) + 1
  <2>1. Cardinality(CallsOf(c) \cup {n}) = Cardinality(CallsOf(c)) + 1
    BY <1>2, <1>3, FS_AddElement
  <2>2. QED
    BY <1>2, <2>1 DEF Count
<1>5. ASSUME NEW d, d # c
      PROVE  Count(d)' = Count(d)
  <2>1. CallsOf(d)' = CallsOf(d)
    BY <1>1, <1>5 DEF CallsOf
  <2>2. QED
    BY <2>1 DEF Count
<1>6. \A i \in 1..Len(ledger') : ledger'[i] = c \/ (i \in 1..Len(ledger) /\ ledger'[i] = ledger[i])
  BY <1>1
<1>7. QED
  BY <1>1, <1>4, <1>5, <1>6

\* A run that holds no Channel's block has nothing to log to.
LEMMA NoScope ==
    ASSUME Scoped, NEW t \in Tasks, ~(sweep.at \in Inside /\ t = sweep.task)
    PROVE  context[t] = Empty /\ Logged(context[t]) = ledger
<1>1. context[t] = Empty
  BY DEF Scoped
<1>2. QED
  BY <1>1 DEF Logged, Empty

-----------------------------------------------------------------------------
LEMMA SweepInit == Init => SweepInductive
<1> SUFFICES ASSUME Init PROVE SweepInductive
  OBVIOUS
<1>1. Idle \in SweepRec /\ Idle.at = "idle" /\ ~Idle.failed /\ Idle.mode = "tick" /\ Idle.waiting = {} /\ Idle.left = {}
  BY DEF Idle, SweepRec, Places, Tasks, Modes, Ctx, Empty
<1>2. NewRow \in RowRec /\ NewRow.outcome = "none" /\ \A c \in Channels : NewRow.channels[c] = None
  BY DEF NewRow, RowRec
<1>3. Empty \in Ctx
  BY DEF Empty, Ctx
<1>4. /\ sweep = Idle /\ row = NewRow /\ ledger = <<>> /\ jobs = <<>>
      /\ context = [t \in Tasks |-> Empty] /\ watched = {} /\ ripe = {} /\ requested = FALSE
      /\ messages = 0 /\ faults = 0 /\ admin = 0
      /\ pending = [c \in Channels |-> 0]
      /\ kind = [c \in Channels |-> IF c \in Initially THEN "project" ELSE "unset"]
  BY DEF Init
<1>5. WorldTypeOK
  BY <1>4 DEF WorldTypeOK
<1>6. RunTypeOK
  BY <1>1, <1>2, <1>3, <1>4 DEF RunTypeOK, InChannel
<1>7. Scoped /\ NotYet
  BY <1>1, <1>4 DEF Scoped, Inside, NotYet
<1>8. Accounted /\ Closed /\ Settled
  BY <1>1, <1>2, <1>4 DEF Accounted, Closed, Settled, Inside
<1>9. Owing
  BY <1>1, <1>4 DEF Owing
<1>10. QED
  BY <1>5, <1>6, <1>7, <1>8, <1>9 DEF SweepInductive, SweepTypeOK

\* What the accounts say does not change while the sweep, the contexts and
\* the rows stay.
LEMMA AccountsStay ==
    ASSUME SweepInductive, UNCHANGED <<sweep, context, ledger, row>>
    PROVE  Scoped' /\ NotYet' /\ Accounted' /\ Closed' /\ Settled'
<1>1. Scoped' /\ NotYet'
  BY DEF SweepInductive, Scoped, NotYet, Untouched
<1>2. \A c : Count(c)' = Count(c)
  BY DEF Count, CallsOf
<1>3. Accounted' /\ Closed'
  BY <1>2 DEF SweepInductive, Accounted, Closed
<1>4. Settled'
  BY DEF SweepInductive, Settled
<1>5. QED
  BY <1>1, <1>3, <1>4

\* Messages come and Channels are watched and unwatched beside the sweep.
LEMMA WorldSteps ==
    ASSUME SweepInductive, NEW c \in Channels, Arrive(c) \/ Ripen(c) \/ Watch(c) \/ Unwatch(c)
    PROVE  SweepInductive'
<1>1. /\ UNCHANGED <<sweep, context, ledger, row>> /\ jobs' = jobs /\ faults' = faults
      /\ ripe' \in SUBSET Channels /\ watched' \in SUBSET Channels /\ requested' \in BOOLEAN
  BY DEF SweepInductive, SweepTypeOK, WorldTypeOK, Arrive, Ripen, Watch, Unwatch
<1>2. Scoped' /\ NotYet' /\ Accounted' /\ Closed' /\ Settled'
  BY <1>1, AccountsStay
<1>3. pending' \in [Channels -> Nat] /\ \A d \in Channels : pending[d] <= pending'[d]
  <2>1. pending \in [Channels -> Nat]
    BY DEF SweepInductive, SweepTypeOK, WorldTypeOK
  <2>2. CASE UNCHANGED pending
    BY <2>1, <2>2
  <2>3. ASSUME NEW n \in Nat, pending' = [pending EXCEPT ![c] = @ + n]
        PROVE  pending' \in [Channels -> Nat] /\ \A d \in Channels : pending[d] <= pending'[d]
    BY <2>1, <2>3
  <2>4. UNCHANGED pending \/ \E n \in Nat : pending' = [pending EXCEPT ![c] = @ + n]
    <3>1. CASE Watch(c)
      <4>1. \A n : n \in 0..(MaxPending - pending[c]) => n \in Nat
        BY <2>1, SweepAssumption DEF SweepAssumption
      <4>2. QED
        BY <3>1, <4>1 DEF Watch
    <3>2. CASE Arrive(c) \/ Ripen(c) \/ Unwatch(c)
      BY <3>2 DEF Arrive, Ripen, Unwatch
    <3>3. QED
      BY <3>1, <3>2
  <2>5. QED
    BY <2>2, <2>3, <2>4
<1>4. messages' \in Nat /\ admin' \in Nat
  <2>1. messages \in Nat /\ admin \in Nat /\ pending \in [Channels -> Nat]
    BY DEF SweepInductive, SweepTypeOK, WorldTypeOK
  <2>2. \A n : n \in 0..(MaxPending - pending[c]) => n \in Nat
    BY <2>1, SweepAssumption DEF SweepAssumption
  <2>3. CASE Watch(c)
    BY <2>1, <2>2, <2>3 DEF Watch
  <2>4. CASE Arrive(c) \/ Ripen(c) \/ Unwatch(c)
    BY <2>1, <2>4 DEF Arrive, Ripen, Unwatch
  <2>5. QED
    BY <2>3, <2>4
<1>5. kind' \in [Channels -> {"unset", "project", "logs"}]
  BY DEF SweepInductive, SweepTypeOK, WorldTypeOK, Arrive, Ripen, Watch, Unwatch
<1>6. WorldTypeOK'
  BY <1>1, <1>3, <1>4, <1>5 DEF SweepInductive, SweepTypeOK, WorldTypeOK
<1>7. RunTypeOK'
  BY <1>1 DEF SweepInductive, SweepTypeOK, RunTypeOK
<1>8. Owing'
  <2>1. sweep.at = "batch" => sweep.on \in Channels /\ sweep.owed \in Nat
    BY DEF SweepInductive, SweepTypeOK, RunTypeOK, SweepRec, InChannel
  <2>2. sweep.at = "batch" => sweep.owed <= pending[sweep.on]
    BY DEF SweepInductive, Owing
  <2>3. sweep.at = "batch" => pending[sweep.on] \in Nat /\ pending'[sweep.on] \in Nat
                              /\ pending[sweep.on] <= pending'[sweep.on]
    BY <1>3, <2>1 DEF SweepInductive, SweepTypeOK, WorldTypeOK
  <2>4. sweep.at = "batch" => sweep.owed <= pending'[sweep.on]
    BY <2>1, <2>2, <2>3
  <2>5. QED
    BY <1>1, <2>4 DEF SweepInductive, Owing
<1>9. QED
  BY <1>2, <1>6, <1>7, <1>8 DEF SweepInductive, SweepTypeOK

-----------------------------------------------------------------------------
(* Who starts a sweep.                                                     *)

LEMMA Typed ==
    ASSUME SweepInductive
    PROVE  /\ kind \in [Channels -> {"unset", "project", "logs"}] /\ pending \in [Channels -> Nat]
           /\ ripe \in SUBSET Channels /\ watched \in SUBSET Channels /\ requested \in BOOLEAN
           /\ messages \in Nat /\ faults \in Nat /\ admin \in Nat
           /\ jobs \in Seq({"backfill", "tick"}) /\ sweep \in SweepRec
           /\ sweep.at \in InChannel => sweep.on \in sweep.left /\ sweep.on \in Channels
           /\ sweep.at # "idle" /\ sweep.mode # "demand" => jobs # <<>>
           /\ context \in [Tasks -> Ctx] /\ ledger \in Seq(Channels) /\ row \in RowRec
BY DEF SweepInductive, SweepTypeOK, WorldTypeOK, RunTypeOK, SweepRec

LEMMA PollOK == ASSUME SweepInductive, Poll PROVE SweepInductive'
<1>1. UNCHANGED <<world, watched, sweep, context, ledger, row, faults>> /\ requested' = FALSE
  BY DEF Poll
<1>2. Scoped' /\ NotYet' /\ Accounted' /\ Closed' /\ Settled'
  BY <1>1, AccountsStay
<1>3. jobs' \in Seq({"backfill", "tick"})
  <2>1. PICK tick \in BOOLEAN :
          jobs' = (IF requested THEN <<"backfill">> ELSE <<>>) \o (IF tick THEN <<"tick">> ELSE <<>>)
    BY DEF Poll
  <2> DEFINE S == Seq({"backfill", "tick"})
  <2>2. <<"backfill">> \in S /\ <<"tick">> \in S /\ <<>> \in S
    OBVIOUS
  <2>3. \A s, t \in S : s \o t \in S
    OBVIOUS
  <2> HIDE DEF S
  <2>4. jobs' \in S
    BY <2>1, <2>2, <2>3
  <2>5. QED
    BY <2>4 DEF S
<1>4. WorldTypeOK'
  BY <1>1 DEF SweepInductive, SweepTypeOK, WorldTypeOK, world
<1>5. RunTypeOK'
  <2>1. jobs = <<>>
    BY DEF Poll
  <2>2. QED
    BY <1>1, <1>3, <2>1 DEF SweepInductive, SweepTypeOK, RunTypeOK
<1>6. Owing'
  BY <1>1 DEF SweepInductive, Owing, world
<1>7. QED
  BY <1>2, <1>4, <1>5, <1>6 DEF SweepInductive, SweepTypeOK

\* A run begins with empty accounts, and while none is under way no context is open.
LEMMA OpenedOK ==
    ASSUME SweepInductive, sweep.at \in {"idle", "again"},
           NEW task \in Tasks, NEW mode \in Modes,
           NEW waiting \in SUBSET Channels, NEW left \in SUBSET Channels,
           mode # "backfill" => waiting = {}, mode # "demand" => jobs # <<>>,
           Opened(task, mode, waiting, left),
           UNCHANGED <<world, watched, requested, jobs, context, faults>>
    PROVE  SweepInductive'
<1>1. /\ sweep' = [Idle EXCEPT !.at = "next", !.task = task, !.mode = mode, !.tries = sweep.tries + 1,
                     !.waiting = waiting, !.gone = waiting \ left, !.left = left]
      /\ row' = NewRow /\ ledger' = <<>>
  BY DEF Opened
<1>2. sweep.tries \in Nat
  BY Typed DEF SweepRec
<1>3. sweep' = [at |-> "next", task |-> task, mode |-> mode, tries |-> sweep.tries + 1,
                waiting |-> waiting, gone |-> waiting \ left,
                left |-> left, on |-> None, owed |-> 0, calls |-> 0, failed |-> FALSE, saved |-> Empty]
  BY <1>1 DEF Idle
<1>4. sweep' \in SweepRec
  BY <1>2, <1>3 DEF SweepRec, Places, Modes, Ctx, Empty
<1>5. /\ sweep'.at = "next" /\ sweep'.calls = 0 /\ sweep'.failed = FALSE
      /\ sweep'.mode = mode /\ sweep'.waiting = waiting
  BY <1>3
<1>6. row' \in RowRec /\ row'.outcome = "none" /\ \A c \in Channels : row'.channels[c] = None
  BY <1>1 DEF NewRow, RowRec
<1>7. RunTypeOK'
  BY <1>1, <1>4, <1>5, <1>6, Typed DEF RunTypeOK, InChannel
<1>8. WorldTypeOK'
  BY DEF SweepInductive, SweepTypeOK, WorldTypeOK, world
<1>9. Scoped'
  BY <1>5 DEF SweepInductive, Scoped, Inside
<1>10. NotYet'
  BY <1>1 DEF NotYet
<1>11. Accounted' /\ Closed' /\ Settled'
  BY <1>1, <1>5, <1>6 DEF Accounted, Closed, Settled, Inside
<1>12. Owing'
  BY <1>5 DEF Owing
<1>13. QED
  BY <1>7, <1>8, <1>9, <1>10, <1>11, <1>12 DEF SweepInductive, SweepTypeOK

LEMMA StartsOK ==
    ASSUME SweepInductive, StartJob \/ \E c \in Channels : Demand(c)
    PROVE  SweepInductive'
<1>1. CASE StartJob
  <2> DEFINE mode == Head(jobs)
             waiting == IF mode = "backfill" THEN watched ELSE {}
  <2>1. /\ jobs # <<>> /\ sweep.at \in {"idle", "again"}
        /\ Opened("loop", mode, waiting, InTurn(mode, waiting))
        /\ UNCHANGED <<world, watched, requested, jobs, context, faults>>
    BY <1>1 DEF StartJob
  <2>2. jobs \in Seq({"backfill", "tick"}) /\ watched \in SUBSET Channels
    BY Typed
  <2>3. mode \in {"backfill", "tick"}
    BY <2>1, <2>2
  <2>4. waiting \in SUBSET Channels /\ InTurn(mode, waiting) \in SUBSET Channels
    BY <2>2 DEF InTurn, Listed
  <2>5. mode \in Modes /\ "loop" \in Tasks /\ (mode # "backfill" => waiting = {})
    BY <2>3 DEF Modes, Tasks
  <2> HIDE DEF mode, waiting
  <2>6. QED
    BY <2>1, <2>4, <2>5, OpenedOK
<1>2. ASSUME NEW c \in Channels, Demand(c)
      PROVE  SweepInductive'
  <2>1. /\ sweep.at = "idle" /\ Opened("chat", "demand", {}, {c})
        /\ UNCHANGED <<world, watched, requested, jobs, context, faults>>
    BY <1>2 DEF Demand
  <2>2. "demand" \in Modes /\ "chat" \in Tasks /\ {} \in SUBSET Channels /\ {c} \in SUBSET Channels
    BY DEF Modes, Tasks
  <2>3. QED
    BY <2>1, <2>2, OpenedOK
<1>3. QED
  BY <1>1, <1>2

\* The chat task's own call is in no account.
LEMMA AnswerOK == ASSUME SweepInductive, Answer PROVE SweepInductive'
<1>1. /\ sweep.at # "idle" => sweep.task = "loop"
      /\ ledger' = Logged(context["chat"])
      /\ context' = [context EXCEPT !["chat"] = Empty]
      /\ UNCHANGED <<world, watched, requested, jobs, sweep, row, faults>>
  BY DEF Answer
<1>2. ~(sweep.at \in Inside /\ "chat" = sweep.task)
  BY <1>1 DEF Inside
<1>3. context["chat"] = Empty /\ ledger' = ledger
  BY <1>1, <1>2, NoScope DEF SweepInductive, Tasks
<1>4. context' = context
  BY <1>1, <1>3, Typed DEF Tasks
<1>5. Scoped' /\ NotYet' /\ Accounted' /\ Closed' /\ Settled'
  BY <1>1, <1>3, <1>4, AccountsStay
<1>6. QED
  BY <1>1, <1>3, <1>4, <1>5 DEF SweepInductive, SweepTypeOK, WorldTypeOK, RunTypeOK, Owing, world

-----------------------------------------------------------------------------
(* The sweep.                                                              *)

LEMMA EnterOK == ASSUME SweepInductive, Enter PROVE SweepInductive'
<1>1. PICK c \in sweep.left :
        /\ sweep' = [sweep EXCEPT !.at = "batch", !.on = c, !.owed = pending[c], !.saved = context[sweep.task]]
        /\ context' = [context EXCEPT ![sweep.task] = Scope(@, [run |-> TRUE, channel |-> c])]
  BY DEF Enter
<1>2. sweep.at = "next" /\ UNCHANGED <<world, watched, requested, jobs, ledger, row, faults>>
  BY DEF Enter
<1>3. /\ sweep \in SweepRec /\ context \in [Tasks -> Ctx] /\ pending \in [Channels -> Nat]
      /\ ledger \in Seq(Channels) /\ sweep.task \in Tasks /\ c \in Channels
  BY Typed DEF SweepRec
<1>4. context[sweep.task] = Empty
  BY <1>2, <1>3 DEF SweepInductive, Scoped, Inside
<1>5. Scope(Empty, [run |-> TRUE, channel |-> c]) = [run |-> TRUE, channel |-> c]
  BY DEF Scope, Empty
<1>6. context' = [context EXCEPT ![sweep.task] = [run |-> TRUE, channel |-> c]]
  BY <1>1, <1>4, <1>5
<1>7. /\ sweep' \in SweepRec /\ sweep'.at = "batch" /\ sweep'.on = c /\ sweep'.owed = pending[c]
      /\ sweep'.saved = Empty /\ sweep'.task = sweep.task /\ sweep'.left = sweep.left
      /\ sweep'.calls = sweep.calls /\ sweep'.failed = sweep.failed
      /\ sweep'.mode = sweep.mode /\ sweep'.waiting = sweep.waiting
  <2>1. Empty \in Ctx
    BY DEF Empty, Ctx
  <2>2. QED
    BY <1>1, <1>3, <1>4, <2>1 DEF SweepRec, Places
<1>8. RunTypeOK'
  <2>1. [run |-> TRUE, channel |-> c] \in Ctx
    BY <1>3 DEF Ctx
  <2>2. context' \in [Tasks -> Ctx]
    BY <1>3, <1>6, <2>1
  <2>3. QED
    BY <1>1, <1>2, <1>7, <2>2, Typed DEF RunTypeOK
<1>9. Scoped'
  BY <1>2, <1>3, <1>6, <1>7 DEF SweepInductive, Scoped, Inside
<1>10. \A i \in 1..Len(ledger) : ledger[i] \notin sweep.left
  BY <1>2 DEF SweepInductive, NotYet, Untouched, InChannel
<1>11. NotYet'
  BY <1>2, <1>7, <1>10 DEF NotYet, Untouched
<1>12. Count(c) = 0 /\ \A d : Count(d)' = Count(d)
  <2>1. Count(c) = 0
    BY <1>1, <1>3, <1>10, CountNone
  <2>2. QED
    BY <1>2, <2>1 DEF Count, CallsOf
<1>13. ~sweep.failed /\ Len(ledger) = sweep.calls /\ Len(ledger) \in Nat
  BY <1>2, <1>3 DEF SweepInductive, Settled, Accounted
<1>14. Accounted'
  BY <1>2, <1>7, <1>12, <1>13 DEF Accounted
<1>15. Closed'
  BY <1>2, <1>7, <1>12 DEF SweepInductive, Closed
<1>16. Settled'
  BY <1>2, <1>7 DEF SweepInductive, Settled
<1>17. Owing'
  BY <1>2, <1>3, <1>7, <1>13 DEF SweepInductive, Owing, world
<1>18. WorldTypeOK'
  BY <1>2 DEF SweepInductive, SweepTypeOK, WorldTypeOK, world
<1>19. QED
  BY <1>8, <1>9, <1>11, <1>14, <1>15, <1>16, <1>17, <1>18 DEF SweepInductive, SweepTypeOK

LEMMA CallOK == ASSUME SweepInductive, Call PROVE SweepInductive'
<1>1. /\ sweep.at = "batch" /\ ledger' = Logged(context[sweep.task])
      /\ UNCHANGED <<world, watched, requested, jobs, sweep, context, row, faults>>
  BY DEF Call
<1>2. /\ sweep.on \in sweep.left /\ sweep.on \in Channels /\ ledger \in Seq(Channels) /\ sweep \in SweepRec
      /\ sweep.task \in Tasks
  BY <1>1, Typed DEF InChannel, SweepRec
<1>3. context[sweep.task] = [run |-> TRUE, channel |-> sweep.on]
  BY <1>1, <1>2 DEF SweepInductive, Scoped, Inside
<1>4. ledger' = Append(ledger, sweep.on)
  BY <1>1, <1>3 DEF Logged
<1>5. /\ ledger' \in Seq(Channels) /\ Len(ledger') = Len(ledger) + 1
      /\ \A i \in 1..Len(ledger') :
            ledger'[i] = sweep.on \/ (i \in 1..Len(ledger) /\ ledger'[i] = ledger[i])
      /\ \A d : d # sweep.on => Count(d)' = Count(d)
  BY <1>2, <1>4, CountAppend
<1>7. Count(sweep.on)' = Count(sweep.on) + 1
  <2>1. ASSUME NEW d, d = sweep.on PROVE Count(d)' = Count(d) + 1
    BY <1>2, <1>4, <2>1, CountAppend
  <2>2. QED
    BY <1>1, <2>1 DEF Count, CallsOf
<1>8. RunTypeOK' /\ WorldTypeOK'
  BY <1>1, <1>5 DEF SweepInductive, SweepTypeOK, RunTypeOK, WorldTypeOK, world
<1>9. Scoped' /\ Owing'
  BY <1>1 DEF SweepInductive, Scoped, Owing, world
<1>10. NotYet'
  BY <1>1, <1>5 DEF SweepInductive, NotYet, Untouched, InChannel
<1>11. Accounted'
  <2>1. Len(ledger) = sweep.calls + Count(sweep.on)
    BY <1>1 DEF SweepInductive, Accounted, Inside
  <2>2. Count(sweep.on) \in Nat /\ sweep.calls \in Nat /\ Len(ledger) \in Nat
    BY <1>2, CountType DEF SweepRec
  <2>3. Len(ledger') = sweep.calls + (Count(sweep.on) + 1)
    BY <1>5, <2>1, <2>2
  <2>4. QED
    BY <1>1, <1>7, <2>3 DEF Accounted
<1>12. Closed'
  <2>1. ASSUME NEW c \in Channels, row.channels[c] # None
        PROVE  c # sweep.on /\ row.channels[c] = Count(c) /\ c \notin sweep.left
    BY <1>1, <1>2, <2>1 DEF SweepInductive, Closed
  <2>2. QED
    BY <1>1, <1>5, <2>1 DEF Closed
<1>13. Settled'
  BY <1>1 DEF SweepInductive, Settled
<1>14. QED
  BY <1>8, <1>9, <1>10, <1>11, <1>12, <1>13 DEF SweepInductive, SweepTypeOK

\* Steps of the sweep that leave the contexts and the rows alone.
LEMMA BatchOK == ASSUME SweepInductive, Batch PROVE SweepInductive'
<1> DEFINE c == sweep.on
           n == IF sweep.mode = "tick" /\ c \notin ripe THEN 0
                ELSE IF pending[c] < BatchN THEN pending[c] ELSE BatchN
           place == IF sweep.mode = "tick" \/ n = 0 THEN "left" ELSE "batch"
           owes == IF sweep.owed < n THEN 0 ELSE sweep.owed - n
<1>1. /\ sweep.at = "batch"
      /\ pending' = [pending EXCEPT ![c] = @ - n]
      /\ ripe' = IF n > 0 THEN ripe \ {c} ELSE ripe
      /\ sweep' = [sweep EXCEPT !.owed = owes, !.at = place]
      /\ UNCHANGED <<kind, messages, admin, watched, requested, jobs, context, ledger, row, faults>>
  BY DEF Batch
<1>2. /\ sweep \in SweepRec /\ c \in sweep.left /\ c \in Channels /\ sweep.owed \in Nat
      /\ pending \in [Channels -> Nat] /\ pending[c] \in Nat /\ BatchN \in Nat \ {0}
  BY <1>1, Typed, SweepAssumption DEF InChannel, SweepRec, SweepAssumption
<1>3. sweep.owed <= pending[c] /\ ~sweep.failed
  BY <1>1 DEF SweepInductive, Owing
<1>4. n \in Nat /\ n <= pending[c] /\ owes \in Nat /\ owes <= pending[c] - n
  BY <1>2, <1>3
<1>5. (sweep.mode # "tick" /\ n = 0) => pending[c] = 0 /\ owes = 0
  BY <1>2, <1>3
<1>6. place \in Inside /\ place \in Places /\ (place = "left" /\ sweep.mode # "tick" => n = 0)
  BY DEF Inside, Places
<1> HIDE DEF n, place, owes
<1>7. /\ sweep' \in SweepRec /\ sweep'.at = place /\ sweep'.owed = owes /\ sweep'.on = c
      /\ sweep'.task = sweep.task /\ sweep'.left = sweep.left /\ sweep'.calls = sweep.calls
      /\ sweep'.failed = sweep.failed /\ sweep'.mode = sweep.mode
      /\ sweep'.waiting = sweep.waiting /\ sweep'.saved = sweep.saved
  BY <1>1, <1>2, <1>4, <1>6 DEF SweepRec
<1>8. pending' \in [Channels -> Nat] /\ pending'[c] = pending[c] - n
  BY <1>1, <1>2, <1>4
<1>9. WorldTypeOK'
  BY <1>1, <1>8, Typed DEF WorldTypeOK
<1>10. RunTypeOK'
  BY <1>1, <1>2, <1>7, Typed DEF RunTypeOK
<1>11. Scoped'
  BY <1>1, <1>6, <1>7 DEF SweepInductive, Scoped, Inside
<1>12. NotYet'
  BY <1>1, <1>6, <1>7 DEF SweepInductive, NotYet, Untouched, InChannel, Inside
<1>13. \A d : Count(d)' = Count(d)
  BY <1>1 DEF Count, CallsOf
<1>14. Accounted' /\ Closed'
  <2>1. place # "leave" /\ place # "next"
    BY <1>6 DEF Inside
  <2>2. Accounted'
    BY <1>1, <1>6, <1>7, <1>13, <2>1 DEF SweepInductive, Accounted, Inside
  <2>3. Closed'
    BY <1>1, <1>7, <1>13, <2>1 DEF SweepInductive, Closed
  <2>4. QED
    BY <2>2, <2>3
<1>15. Settled'
  BY <1>1, <1>6, <1>7 DEF SweepInductive, Settled, Inside
<1>16. Owing'
  BY <1>3, <1>4, <1>5, <1>6, <1>7, <1>8 DEF SweepInductive, Owing, Inside
<1>17. QED
  BY <1>9, <1>10, <1>11, <1>12, <1>14, <1>15, <1>16 DEF SweepInductive, SweepTypeOK

LEMMA BatchFailsOK == ASSUME SweepInductive, BatchFails PROVE SweepInductive'
<1>1. /\ sweep.at = "batch" /\ sweep' = [sweep EXCEPT !.at = "left", !.failed = TRUE]
      /\ faults' = faults + 1
      /\ UNCHANGED <<world, watched, requested, jobs, context, ledger, row>>
  BY DEF BatchFails, Fault
<1>2. sweep \in SweepRec /\ sweep.on \in sweep.left /\ faults \in Nat
  BY <1>1, Typed DEF InChannel
<1>3. /\ sweep' \in SweepRec /\ sweep'.at = "left" /\ sweep'.on = sweep.on
      /\ sweep'.task = sweep.task /\ sweep'.left = sweep.left /\ sweep'.calls = sweep.calls
      /\ sweep'.failed = TRUE /\ sweep'.mode = sweep.mode
      /\ sweep'.waiting = sweep.waiting /\ sweep'.saved = sweep.saved
  BY <1>1, <1>2 DEF SweepRec, Places
<1>4. WorldTypeOK' /\ RunTypeOK'
  BY <1>1, <1>2, <1>3, Typed DEF WorldTypeOK, RunTypeOK, world
<1>5. Scoped' /\ NotYet'
  BY <1>1, <1>3 DEF SweepInductive, Scoped, NotYet, Untouched, InChannel, Inside
<1>6. \A d : Count(d)' = Count(d)
  BY <1>1 DEF Count, CallsOf
<1>7. Accounted' /\ Closed'
  BY <1>1, <1>3, <1>6 DEF SweepInductive, Accounted, Closed, Inside
<1>8. Settled' /\ Owing'
  BY <1>1, <1>3 DEF SweepInductive, Settled, Owing
<1>9. QED
  BY <1>4, <1>5, <1>7, <1>8 DEF SweepInductive, SweepTypeOK

\* The block of a Channel is left, rolled up or not, with the context restored.
LEMMA BlockLeft ==
    ASSUME SweepInductive, sweep.at = "left",
           NEW calls \in Nat, NEW failed \in BOOLEAN,
           ~failed => ~sweep.failed /\ calls = sweep.calls + Count(sweep.on),
           sweep' = [sweep EXCEPT !.at = "leave", !.calls = calls, !.failed = failed],
           context' = Restored(sweep),
           row' = [row EXCEPT !.channels[sweep.on] = Count(sweep.on)] \/ row' = row,
           faults' \in Nat,
           UNCHANGED <<world, watched, requested, jobs, ledger>>
    PROVE  SweepInductive'
<1>1. /\ sweep \in SweepRec /\ sweep.on \in sweep.left /\ sweep.on \in Channels /\ sweep.task \in Tasks
      /\ context \in [Tasks -> Ctx] /\ ledger \in Seq(Channels) /\ row \in RowRec
  BY Typed DEF InChannel, SweepRec
<1>2. /\ sweep' \in SweepRec /\ sweep'.at = "leave" /\ sweep'.on = sweep.on
      /\ sweep'.task = sweep.task /\ sweep'.left = sweep.left /\ sweep'.calls = calls
      /\ sweep'.failed = failed /\ sweep'.mode = sweep.mode /\ sweep'.owed = sweep.owed
      /\ sweep'.waiting = sweep.waiting /\ sweep'.saved = sweep.saved
  BY <1>1 DEF SweepRec, Places
<1>3. sweep.saved = Empty /\ Empty \in Ctx
  BY DEF SweepInductive, Scoped, Inside, Empty, Ctx
<1>4. context' = [context EXCEPT ![sweep.task] = Empty]
  BY <1>3 DEF Restored
<1>5. context' \in [Tasks -> Ctx]
  BY <1>1, <1>3, <1>4
<1>6. \A d : Count(d)' = Count(d)
  BY DEF Count, CallsOf
<1>7. Count(sweep.on) \in Nat
  BY <1>1, CountType
<1>8. /\ row' \in RowRec /\ row'.outcome = row.outcome /\ row'.calls = row.calls
      /\ \A c \in Channels :
            row'.channels[c] = row.channels[c] \/ (c = sweep.on /\ row'.channels[c] = Count(c))
  BY <1>1, <1>7 DEF RowRec
<1>9. WorldTypeOK' /\ RunTypeOK'
  BY <1>1, <1>2, <1>5, <1>8, Typed DEF WorldTypeOK, RunTypeOK, world
<1>10. Scoped'
  BY <1>1, <1>2, <1>4 DEF SweepInductive, Scoped, Inside
<1>11. NotYet'
  BY <1>2 DEF SweepInductive, NotYet, Untouched, InChannel
<1>12. Accounted'
  <2>1. Len(ledger) = sweep.calls + Count(sweep.on)
    BY DEF SweepInductive, Accounted, Inside
  <2>2. QED
    BY <1>2, <2>1 DEF Accounted, Inside
<1>13. Closed'
  <2>1. ASSUME NEW c \in Channels, row'.channels[c] # None
        PROVE  row'.channels[c] = Count(c) /\ (c \notin sweep.left \/ c = sweep.on)
    BY <1>8, <2>1 DEF SweepInductive, Closed
  <2>2. QED
    BY <1>2, <1>6, <2>1 DEF Closed
<1>14. Settled'
  BY <1>2, <1>8 DEF SweepInductive, Settled
<1>15. Owing'
  BY <1>2 DEF SweepInductive, Owing
<1>16. QED
  BY <1>9, <1>10, <1>11, <1>12, <1>13, <1>14, <1>15 DEF SweepInductive, SweepTypeOK

LEMMA RollUpOK == ASSUME SweepInductive, RollUp \/ RollUpFails PROVE SweepInductive'
<1>1. sweep \in SweepRec /\ ledger \in Seq(Channels) /\ faults \in Nat
  BY Typed
<1>2. sweep.calls \in Nat /\ sweep.failed \in BOOLEAN /\ Count(sweep.on) \in Nat
  BY <1>1, CountType DEF SweepRec
<1>3. CASE RollUp
  <2>1. /\ sweep.at = "left" /\ context' = Restored(sweep)
        /\ row' = [row EXCEPT !.channels[sweep.on] = Count(sweep.on)] \/ row' = row
        /\ UNCHANGED <<world, watched, requested, jobs, ledger>>
        /\ sweep' = [sweep EXCEPT !.at = "leave", !.calls = @ + Count(sweep.on)]
    BY <1>3 DEF RollUp
  <2>2. faults' \in Nat
    BY <1>1, <1>3 DEF RollUp, Fault
  <2>3. sweep' = [sweep EXCEPT !.at = "leave", !.calls = sweep.calls + Count(sweep.on), !.failed = sweep.failed]
    BY <1>1, <2>1 DEF SweepRec
  <2>4. sweep.calls + Count(sweep.on) \in Nat
    BY <1>2
  <2>5. QED
    BY <1>2, <2>1, <2>2, <2>3, <2>4, BlockLeft
<1>4. CASE RollUpFails
  <2>1. /\ sweep.at = "left" /\ context' = Restored(sweep) /\ row' = row
        /\ UNCHANGED <<world, watched, requested, jobs, ledger>>
        /\ sweep' = [sweep EXCEPT !.at = "leave", !.failed = TRUE]
    BY <1>4 DEF RollUpFails
  <2>2. faults' \in Nat
    BY <1>1, <1>4 DEF RollUpFails, Fault
  <2>3. sweep' = [sweep EXCEPT !.at = "leave", !.calls = sweep.calls, !.failed = TRUE]
    BY <1>1, <2>1 DEF SweepRec
  <2>4. QED
    BY <1>2, <2>1, <2>2, <2>3, BlockLeft
<1>5. QED
  BY <1>3, <1>4

LEMMA LeaveOK == ASSUME SweepInductive, Leave PROVE SweepInductive'
<1> DEFINE place == IF sweep.failed THEN "end" ELSE "next"
<1>1. /\ sweep.at = "leave" /\ watched' = watched \ Done(sweep)
      /\ sweep' = [sweep EXCEPT !.at = place, !.left = @ \ {sweep.on}, !.on = None, !.owed = 0, !.saved = Empty]
      /\ UNCHANGED <<world, requested, jobs, context, ledger, row, faults>>
  BY DEF Leave
<1>2. sweep \in SweepRec /\ sweep.on \in sweep.left
  BY <1>1, Typed DEF InChannel
<1>3. place \in {"end", "next"} /\ (place = "next" => ~sweep.failed) /\ (place = "end" => sweep.failed)
  OBVIOUS
<1> HIDE DEF place
<1>4. /\ sweep' \in SweepRec /\ sweep'.at = place
      /\ sweep'.task = sweep.task /\ sweep'.left = sweep.left \ {sweep.on}
      /\ sweep'.calls = sweep.calls /\ sweep'.failed = sweep.failed /\ sweep'.mode = sweep.mode
      /\ sweep'.waiting = sweep.waiting
  <2>1. Empty \in Ctx
    BY DEF Empty, Ctx
  <2>2. QED
    BY <1>1, <1>2, <1>3, <2>1 DEF SweepRec, Places
<1>5. WorldTypeOK' /\ RunTypeOK'
  BY <1>1, <1>3, <1>4, Typed DEF WorldTypeOK, RunTypeOK, world, InChannel
<1>6. Scoped'
  BY <1>1, <1>3, <1>4 DEF SweepInductive, Scoped, Inside
<1>7. NotYet'
  BY <1>1, <1>4 DEF SweepInductive, NotYet, Untouched, InChannel
<1>8. \A d : Count(d)' = Count(d)
  BY <1>1 DEF Count, CallsOf
<1>9. Accounted'
  BY <1>1, <1>3, <1>4 DEF SweepInductive, Accounted, Inside
<1>10. Closed'
  BY <1>1, <1>4, <1>8 DEF SweepInductive, Closed
<1>11. Settled'
  BY <1>1, <1>3, <1>4 DEF SweepInductive, Settled
<1>12. Owing'
  BY <1>1, <1>3, <1>4 DEF SweepInductive, Owing
<1>13. QED
  BY <1>5, <1>6, <1>7, <1>9, <1>10, <1>11, <1>12 DEF SweepInductive, SweepTypeOK

\* Nothing is open between sweeps.
LEMMA FinishOK == ASSUME SweepInductive, Finish PROVE SweepInductive'
<1> DEFINE over == [sweep EXCEPT !.at = "again", !.left = {}]
           success == [row EXCEPT !.calls = sweep.calls,
                         !.outcome = IF sweep.failed THEN "failure" ELSE "success"]
<1>1. /\ sweep.at = "end" \/ (sweep.at = "next" /\ sweep.left = {})
      /\ row' = success \/ row' = row
      /\ watched' = IF sweep.failed THEN watched ELSE watched \ sweep.gone
      /\ sweep' = IF Ends(sweep) THEN Idle ELSE over
      /\ jobs' = IF sweep.mode # "demand" /\ Ends(sweep) THEN Tail(jobs) ELSE jobs
      /\ UNCHANGED <<world, requested, context, ledger>>
  BY DEF Finish
<1>2. sweep \in SweepRec /\ row \in RowRec /\ jobs \in Seq({"backfill", "tick"}) /\ faults \in Nat
  BY Typed
<1>3. sweep.mode # "demand" => jobs # <<>>
  BY <1>1, Typed
<1>4. /\ sweep' \in SweepRec /\ sweep'.at \in {"idle", "again"} /\ sweep'.left = {}
      /\ (sweep'.mode # "backfill" => sweep'.waiting = {})
      /\ (sweep'.at = "idle" <=> Ends(sweep))
  <2>1. Idle \in SweepRec /\ Idle.at = "idle" /\ Idle.left = {} /\ Idle.waiting = {}
    BY DEF Idle, SweepRec, Places, Tasks, Modes, Ctx, Empty
  <2>2. /\ over \in SweepRec /\ over.at = "again" /\ over.left = {}
        /\ over.mode = sweep.mode /\ over.waiting = sweep.waiting
    BY <1>2 DEF SweepRec, Places
  <2> HIDE DEF over
  <2>3. QED
    BY <1>1, <2>1, <2>2 DEF SweepInductive, Owing
<1>5. /\ jobs' \in Seq({"backfill", "tick"})
      /\ sweep'.at = "again" => jobs' # <<>>
  <2>1. sweep.mode # "demand" => Tail(jobs) \in Seq({"backfill", "tick"})
    BY <1>2, <1>3
  <2>2. ~Ends(sweep) => sweep.mode # "demand"
    BY DEF Ends
  <2>3. QED
    BY <1>1, <1>2, <1>3, <1>4, <2>1, <2>2
<1>6. sweep.calls \in Nat /\ sweep.failed \in BOOLEAN
  BY <1>2 DEF SweepRec
<1>7. /\ success \in RowRec /\ success.channels = row.channels /\ success.calls = sweep.calls
      /\ success.outcome = "success" => ~sweep.failed
  BY <1>2, <1>6 DEF RowRec
<1> HIDE DEF success, over
<1>8. row' \in RowRec /\ row'.channels = row.channels
  BY <1>1, <1>2, <1>7
<1>9. faults' \in Nat
  BY <1>2 DEF Finish, Fault
<1>10. WorldTypeOK' /\ RunTypeOK'
  <2>1. sweep'.at # "idle" => sweep'.at = "again"
    BY <1>4
  <2>2. WorldTypeOK'
    BY <1>1, <1>9, Typed DEF WorldTypeOK, world
  <2>3. RunTypeOK'
    BY <1>1, <1>4, <1>5, <1>8, <2>1, Typed DEF RunTypeOK, InChannel
  <2>4. QED
    BY <2>2, <2>3
<1>11. Scoped' /\ NotYet'
  <2>1. sweep.at \notin Inside /\ sweep'.at \notin Inside
    BY <1>1, <1>4 DEF Inside
  <2>2. Scoped'
    BY <1>1, <2>1 DEF SweepInductive, Scoped
  <2>3. NotYet'
    BY <1>4 DEF NotYet, Untouched
  <2>4. QED
    BY <2>2, <2>3
<1>12. \A d : Count(d)' = Count(d)
  BY <1>1 DEF Count, CallsOf
<1>13. Accounted'
  BY <1>4 DEF Accounted, Inside
<1>14. Closed'
  BY <1>4, <1>8, <1>12 DEF SweepInductive, Closed
<1>15. Settled'
  <2>1. ASSUME row'.outcome = "success"
        PROVE  sweep'.at = "idle" /\ row'.calls = Len(ledger)
    <3>1. row' = success
      BY <1>1, <2>1 DEF SweepInductive, Settled
    <3>2. ~sweep.failed
      BY <1>7, <2>1, <3>1
    <3>3. sweep.at = "next" /\ Len(ledger) = sweep.calls
      BY <1>1, <3>2 DEF SweepInductive, Settled, Accounted
    <3>4. QED
      BY <1>4, <1>7, <3>1, <3>2, <3>3 DEF Ends
  <2>2. QED
    BY <1>1, <1>4, <2>1 DEF Settled
<1>16. Owing'
  BY <1>4 DEF Owing
<1>17. QED
  BY <1>10, <1>11, <1>13, <1>14, <1>15, <1>16 DEF SweepInductive, SweepTypeOK

LEMMA CrashOK == ASSUME SweepInductive, Crash PROVE SweepInductive'
<1>1. /\ faults' = faults + 1 /\ watched' = {} /\ requested' = FALSE /\ jobs' = <<>>
      /\ sweep' = Idle /\ context' = [t \in Tasks |-> Empty] /\ UNCHANGED <<world, ledger, row>>
  BY DEF Crash, Fault
<1>2. /\ Idle \in SweepRec /\ Idle.at = "idle" /\ ~Idle.failed /\ Idle.mode = "tick"
      /\ Idle.waiting = {} /\ Idle.left = {} /\ Empty \in Ctx
  BY DEF Idle, SweepRec, Places, Tasks, Modes, Ctx, Empty
<1>3. WorldTypeOK'
  <2>1. faults' \in Nat
    BY <1>1, Typed
  <2>2. watched' \in SUBSET Channels
    BY <1>1
  <2>3. UNCHANGED <<kind, pending, ripe, messages, admin>>
    BY <1>1 DEF world
  <2>4. requested' \in BOOLEAN
    BY <1>1, Zenon
  <2>5. QED
    BY <2>1, <2>2, <2>3, <2>4, Typed DEF WorldTypeOK
<1>4. RunTypeOK'
  BY <1>1, <1>2, Typed DEF RunTypeOK, InChannel
<1>5. Scoped' /\ NotYet'
  BY <1>1, <1>2 DEF Scoped, NotYet, Untouched, Inside
<1>6. \A d : Count(d)' = Count(d)
  BY <1>1 DEF Count, CallsOf
<1>7. Accounted' /\ Closed'
  BY <1>1, <1>2, <1>6 DEF SweepInductive, Accounted, Closed, Inside
<1>8. Settled' /\ Owing'
  BY <1>1, <1>2 DEF SweepInductive, Settled, Owing
<1>9. QED
  BY <1>3, <1>4, <1>5, <1>7, <1>8 DEF SweepInductive, SweepTypeOK

LEMMA SweepNext == SweepInductive /\ [Next]_vars => SweepInductive'
<1> SUFFICES ASSUME SweepInductive, [Next]_vars PROVE SweepInductive'
  OBVIOUS
<1>1. CASE Next
  <2>1. CASE \E c \in Channels : Arrive(c) \/ Ripen(c) \/ Watch(c) \/ Unwatch(c)
    BY <2>1, WorldSteps
  <2>2. CASE StartJob \/ \E c \in Channels : Demand(c)
    BY <2>2, StartsOK
  <2>3. CASE Poll \/ Answer \/ Enter \/ Call
    BY <2>3, PollOK, AnswerOK, EnterOK, CallOK
  <2>4. CASE Batch \/ BatchFails \/ RollUp \/ RollUpFails
    BY <2>4, BatchOK, BatchFailsOK, RollUpOK
  <2>5. CASE Leave \/ Finish \/ Crash
    BY <2>5, LeaveOK, FinishOK, CrashOK
  <2>6. QED
    BY <1>1, <2>1, <2>2, <2>3, <2>4, <2>5 DEF Next, SweepStep
<1>2. CASE UNCHANGED vars
  <2>1. UNCHANGED <<sweep, context, ledger, row, jobs, faults, watched, requested>> /\ UNCHANGED world
    BY <1>2 DEF vars
  <2>2. Scoped' /\ NotYet' /\ Accounted' /\ Closed' /\ Settled'
    BY <2>1, AccountsStay
  <2>3. WorldTypeOK' /\ RunTypeOK' /\ Owing'
    BY <2>1 DEF SweepInductive, SweepTypeOK, WorldTypeOK, RunTypeOK, Owing, world
  <2>4. QED
    BY <2>2, <2>3 DEF SweepInductive, SweepTypeOK
<1>3. QED
  BY <1>1, <1>2

\* In every state of every run of sweeps the contexts, the accounts and the
\* debts of a backfill are as the code of main.py and observability means them.
THEOREM SweepInductiveHolds == Spec => []SweepInductive
<1>1. Init => SweepInductive
  BY SweepInit
<1>2. SweepInductive /\ [Next]_vars => SweepInductive'
  BY SweepNext
<1>3. QED
  BY <1>1, <1>2, PTL DEF Spec

\* What a run that succeeded adds up to, and each row of one of its Channels,
\* is what the calls logged for it say, from then on (IngestRunRecorder).
THEOREM AccountsAlwaysAgree == Spec => []AccountsAgree
<1>1. SweepInductive => AccountsAgree
  BY DEF SweepInductive, Settled, Closed, AccountsAgree
<1>2. QED
  BY <1>1, SweepInductiveHolds, PTL

-----------------------------------------------------------------------------
\* The steps after which a Channel is off the queue.
Kept ==
    \A c \in watched \ watched' :
        \/ sweep.on = c /\ sweep.owed = 0 /\ ~sweep.failed
        \/ c \in sweep.gone
        \/ sweep'.at = "idle" /\ jobs' = <<>> /\ faults' # faults

LEMMA KeptStep == SweepInductive /\ [Next]_vars => [Kept]_vars
<1> SUFFICES ASSUME SweepInductive, Next PROVE Kept
  OBVIOUS
<1>1. CASE Leave
  <2>1. sweep.at = "leave" /\ watched' = watched \ Done(sweep)
    BY <1>1 DEF Leave
  <2>2. ASSUME NEW c \in watched \ watched'
        PROVE  c = sweep.on /\ c \in sweep.waiting /\ ~sweep.failed
    BY <2>1, <2>2 DEF Done
  <2>3. ASSUME NEW c \in watched \ watched'
        PROVE  sweep.on = c /\ sweep.owed = 0 /\ ~sweep.failed
    <3>1. sweep.mode = "backfill" /\ ~sweep.failed /\ sweep.on = c
      BY <2>2, <2>3 DEF SweepInductive, Owing
    <3>2. QED
      BY <2>1, <3>1 DEF SweepInductive, Owing
  <2>4. QED
    BY <2>3 DEF Kept
<1>2. CASE Finish
  BY <1>2 DEF Finish, Kept
<1>3. CASE Crash
  <2>1. sweep' = Idle /\ jobs' = <<>> /\ faults' = faults + 1 /\ faults \in Nat
    BY <1>3, Typed DEF Crash, Fault
  <2>2. sweep'.at = "idle" /\ faults' # faults
    BY <2>1 DEF Idle
  <2>3. QED
    BY <2>1, <2>2 DEF Kept
<1>4. ASSUME watched \subseteq watched' PROVE Kept
  BY <1>4 DEF Kept
<1>5. CASE \E c \in Channels : Arrive(c) \/ Ripen(c) \/ Watch(c) \/ Unwatch(c) \/ Demand(c)
  <2>1. watched \subseteq watched'
    BY <1>5 DEF Arrive, Ripen, Watch, Unwatch, Demand
  <2>2. QED
    BY <1>4, <2>1
<1>6. CASE Poll \/ StartJob \/ Answer \/ Enter \/ Call
  <2>1. watched \subseteq watched'
    BY <1>6 DEF Poll, StartJob, Answer, Enter, Call
  <2>2. QED
    BY <1>4, <2>1
<1>7. CASE Batch \/ BatchFails \/ RollUp \/ RollUpFails
  <2>1. watched \subseteq watched'
    BY <1>7 DEF Batch, BatchFails, RollUp, RollUpFails
  <2>2. QED
    BY <1>4, <2>1
<1>8. QED
  BY <1>1, <1>2, <1>3, <1>5, <1>6, <1>7 DEF Next, SweepStep

\* A Channel is off the backfill's queue only when what was pending as the
\* sweep came to it is taken, or it was not watched, or on a restart
\* (WatchedChannelQueue, main.py's backfill).
THEOREM BackfillKeepsItsQueue == Spec => BackfillIsKept
<1>1. SweepInductive /\ [Next]_vars => [Kept]_vars
  BY KeptStep
<1>2. Spec => [][Kept]_vars
  BY <1>1, SweepInductiveHolds, PTL DEF Spec
<1>3. QED
  BY <1>2 DEF BackfillIsKept, Kept

-----------------------------------------------------------------------------
(* The Chat Agent, whose task a sweep shares its calls' accounts with.     *)

HookPlaces == {"none", "new", "looking", "asking", "queued", "sending", "logging", "done", "lost"}
Active == {"looking", "asking", "queued", "sending", "logging"}
Over == {"logging", "done", "lost"}

Post == [me : BOOLEAN, mention : BOOLEAN, media : BOOLEAN, reply : Nat]
HookRec == [at : HookPlaces, seen : SUBSET Nat]

ChatTypeOK ==
    /\ chat \in Seq(Post) /\ hook \in Seq(HookRec) /\ Len(hook) = Len(chat)
    /\ rows \in Seq(Nat) /\ line \in Seq(Nat)

\* A post has one row, has it before its hook starts, and only a member's post
\* gets past the switch.
RowsOnce == \A a, b \in 1..Len(rows) : rows[a] = rows[b] => a = b
HooksCame ==
    \A k \in 1..Len(chat) :
        /\ hook[k].at # "none" => \E a \in 1..Len(rows) : rows[a] = k
        /\ hook[k].at \in Active => ~chat[k].me

\* Who waits at the limiter waits once, and nobody else sends.
InLine ==
    /\ \A i \in 1..Len(line) : line[i] \in 1..Len(chat) /\ hook[line[i]].at = "queued"
    /\ \A i, j \in 1..Len(line) : line[i] = line[j] => i = j

\* A post that is answered is a member's, its hook has sent, and it is answered once.
AnsweredOnce ==
    \A j \in 1..Len(chat) : chat[j].me /\ chat[j].reply # 0 =>
        /\ chat[j].reply \in 1..Len(chat) /\ ~chat[chat[j].reply].me
        /\ hook[chat[j].reply].at \in Over
        /\ \A i \in 1..Len(chat) : chat[i].me /\ chat[i].reply = chat[j].reply => i = j

With(k, seen) ==
    /\ k \in seen
    /\ \A a, b \in 1..Len(rows) :
          a < b /\ rows[a] = chat[k].reply /\ rows[b] = k => chat[k].reply \in seen

\* What the model is asked with.
AskedWith ==
    \A k \in 1..Len(chat) :
        hook[k].at \in {"asking", "queued", "sending"} /\ ~chat[k].media => With(k, hook[k].seen)

ChatInductive == ChatTypeOK /\ RowsOnce /\ HooksCame /\ InLine /\ AnsweredOnce /\ AskedWith

LEMMA AppendIs ==
    ASSUME NEW S, NEW s \in Seq(S), NEW e \in S
    PROVE  /\ Append(s, e) \in Seq(S) /\ Len(Append(s, e)) = Len(s) + 1
           /\ Len(s) \in Nat
           /\ Append(s, e)[Len(s) + 1] = e
           /\ \A i \in 1..Len(s) : Append(s, e)[i] = s[i] /\ i \in 1..(Len(s) + 1)
           /\ \A i \in 1..(Len(s) + 1) : i \in 1..Len(s) \/ i = Len(s) + 1
OBVIOUS

LEMMA TailIs ==
    ASSUME NEW S, NEW s \in Seq(S), s # <<>>
    PROVE  /\ Tail(s) \in Seq(S) /\ Len(Tail(s)) = Len(s) - 1 /\ Len(s) \in Nat /\ Len(s) >= 1
           /\ Head(s) = s[1] /\ 1 \in 1..Len(s)
           /\ \A i \in 1..Len(Tail(s)) : Tail(s)[i] = s[i + 1] /\ i + 1 \in 1..Len(s) /\ i + 1 # 1
OBVIOUS

\* A place of the hook list is changed, the others stay.
LEMMA ExceptIs ==
    ASSUME NEW S, NEW s \in Seq(S), NEW k \in 1..Len(s), NEW e \in S
    PROVE  /\ [s EXCEPT ![k] = e] \in Seq(S) /\ Len([s EXCEPT ![k] = e]) = Len(s)
           /\ [s EXCEPT ![k] = e][k] = e
           /\ \A i \in 1..Len(s) : i # k => [s EXCEPT ![k] = e][i] = s[i]
<1>1. s \in [1..Len(s) -> S] /\ Len(s) \in Nat
  OBVIOUS
<1>2. [s EXCEPT ![k] = e] \in [1..Len(s) -> S]
  BY <1>1
<1>3. [s EXCEPT ![k] = e] \in Seq(S) /\ Len([s EXCEPT ![k] = e]) = Len(s)
  BY <1>1, <1>2
<1>4. QED
  BY <1>1, <1>3

LEMMA ChatTyped ==
    ASSUME ChatInductive
    PROVE  /\ chat \in Seq(Post) /\ hook \in Seq(HookRec) /\ Len(hook) = Len(chat) /\ Len(chat) \in Nat
           /\ DOMAIN chat = 1..Len(chat) /\ DOMAIN hook = 1..Len(chat)
           /\ rows \in Seq(Nat) /\ DOMAIN rows = 1..Len(rows) /\ Len(rows) \in Nat
           /\ line \in Seq(Nat) /\ DOMAIN line = 1..Len(line) /\ Len(line) \in Nat
           /\ \A k \in 1..Len(chat) : /\ chat[k] \in Post /\ hook[k] \in HookRec
                                      /\ chat[k].reply \in Nat /\ hook[k].seen \in SUBSET Nat /\ k \in Nat
<1>1. /\ chat \in Seq(Post) /\ hook \in Seq(HookRec) /\ Len(hook) = Len(chat)
      /\ rows \in Seq(Nat) /\ line \in Seq(Nat)
  BY DEF ChatInductive, ChatTypeOK
<1>2. \A k \in 1..Len(chat) : chat[k] \in Post /\ hook[k] \in HookRec /\ k \in Nat
  BY <1>1
<1>3. \A k \in 1..Len(chat) : chat[k].reply \in Nat /\ hook[k].seen \in SUBSET Nat
  BY <1>2 DEF Post, HookRec
<1>4. /\ Len(chat) \in Nat /\ DOMAIN chat = 1..Len(chat) /\ DOMAIN hook = 1..Len(chat)
      /\ DOMAIN rows = 1..Len(rows) /\ Len(rows) \in Nat /\ DOMAIN line = 1..Len(line) /\ Len(line) \in Nat
  BY <1>1
<1>5. QED
  BY <1>1, <1>2, <1>3, <1>4

LEMMA ChatInits == ChatInit => ChatInductive
<1> SUFFICES ASSUME ChatInit PROVE ChatInductive
  OBVIOUS
<1>1. /\ chat = <<Report>> /\ hook = <<NoHook>> /\ rows = <<>> /\ line = <<>>
      /\ Report.me = TRUE /\ Report.reply = 0 /\ NoHook.at = "none"
  BY DEF ChatInit, Report, NoHook
<1>2. Report \in Post /\ NoHook \in HookRec
  BY DEF Report, Post, NoHook, HookRec, HookPlaces
<1>3. /\ chat \in Seq(Post) /\ hook \in Seq(HookRec) /\ Len(hook) = Len(chat) /\ Len(chat) = 1
      /\ rows \in Seq(Nat) /\ line \in Seq(Nat) /\ Len(rows) = 0 /\ Len(line) = 0
      /\ chat[1] = Report /\ hook[1] = NoHook /\ 1..Len(chat) = {1}
  BY <1>1, <1>2
<1>4. ChatTypeOK /\ RowsOnce /\ InLine
  BY <1>3 DEF ChatTypeOK, RowsOnce, InLine
<1>5. HooksCame /\ AskedWith
  BY <1>1, <1>3 DEF HooksCame, AskedWith, Active
<1>6. AnsweredOnce
  BY <1>1, <1>3 DEF AnsweredOnce
<1>7. QED
  BY <1>4, <1>5, <1>6 DEF ChatInductive

-----------------------------------------------------------------------------
\* Hooks go on while no post and no row comes.
LEMMA HooksMove ==
    ASSUME ChatInductive, UNCHANGED <<chat, rows>>,
           hook' \in Seq(HookRec), Len(hook') = Len(chat),
           \A k \in 1..Len(chat) : hook'[k].at # "none" => hook[k].at # "none",
           \A k \in 1..Len(chat) : hook'[k].at \in Active => ~chat[k].me,
           \A k \in 1..Len(chat) : hook[k].at \in Over => hook'[k].at \in Over,
           \A k \in 1..Len(chat) :
               hook'[k].at \in {"asking", "queued", "sending"} /\ ~chat[k].media => With(k, hook'[k].seen),
           line' \in Seq(Nat), InLine'
    PROVE  ChatInductive'
<1>1. ChatTypeOK' /\ RowsOnce'
  BY DEF ChatInductive, ChatTypeOK, RowsOnce
<1>2. HooksCame'
  BY DEF ChatInductive, HooksCame
<1>3. AnsweredOnce'
  BY DEF ChatInductive, AnsweredOnce
<1>4. AskedWith'
  BY DEF AskedWith, With
<1>5. QED
  BY <1>1, <1>2, <1>3, <1>4 DEF ChatInductive

\* One hook goes on.
LEMMA OneMoves ==
    ASSUME ChatInductive, UNCHANGED <<chat, rows>>, NEW k \in 1..Len(chat), NEW e \in HookRec,
           hook' = [hook EXCEPT ![k] = e],
           e.at # "none" => hook[k].at # "none",
           e.at \in Active => ~chat[k].me,
           hook[k].at \in Over => e.at \in Over,
           e.at \in {"asking", "queued", "sending"} /\ ~chat[k].media => With(k, e.seen),
           \/ line' = line /\ hook[k].at # "queued"
           \/ line' = Append(line, k) /\ hook[k].at # "queued" /\ e.at = "queued"
           \/ line # <<>> /\ k = Head(line) /\ line' = Tail(line)
    PROVE  ChatInductive'
<1>1. /\ hook \in Seq(HookRec) /\ Len(hook) = Len(chat) /\ k \in 1..Len(hook) /\ line \in Seq(Nat)
      /\ Len(line) \in Nat /\ k \in Nat /\ \A i \in 1..Len(line) : line[i] \in 1..Len(chat)
  BY ChatTyped DEF ChatInductive, InLine
<1>2. /\ hook' \in Seq(HookRec) /\ Len(hook') = Len(chat) /\ hook'[k] = e
      /\ \A i \in 1..Len(chat) : i # k => hook'[i] = hook[i]
  BY <1>1, ExceptIs
<1>3. line' \in Seq(Nat) /\ InLine'
  <2>1. CASE line' = line /\ hook[k].at # "queued"
    BY <1>1, <1>2, <2>1 DEF ChatInductive, InLine
  <2>2. CASE line' = Append(line, k) /\ hook[k].at # "queued" /\ e.at = "queued"
    <3>1. /\ line' \in Seq(Nat) /\ Len(line') = Len(line) + 1 /\ line'[Len(line) + 1] = k
          /\ \A i \in 1..Len(line) : line'[i] = line[i]
          /\ \A i \in 1..Len(line') : i \in 1..Len(line) \/ i = Len(line) + 1
      BY <1>1, <2>2, AppendIs
    <3>2. \A i \in 1..Len(line) : line[i] # k /\ line[i] \in 1..Len(chat) /\ hook[line[i]].at = "queued"
      BY <2>2 DEF ChatInductive, InLine
    <3>3. \A i \in 1..Len(line') : line'[i] \in 1..Len(chat) /\ hook'[line'[i]].at = "queued"
      BY <1>2, <2>2, <3>1, <3>2
    <3>4. \A i, j \in 1..Len(line') : line'[i] = line'[j] => i = j
      BY <3>1, <3>2 DEF ChatInductive, InLine
    <3>5. QED
      BY <3>1, <3>3, <3>4 DEF InLine
  <2>3. CASE line # <<>> /\ k = Head(line) /\ line' = Tail(line)
    <3>1. /\ line' \in Seq(Nat) /\ k = line[1] /\ 1 \in 1..Len(line)
          /\ \A i \in 1..Len(line') : line'[i] = line[i + 1] /\ i + 1 \in 1..Len(line) /\ i + 1 # 1
          /\ Len(line') \in Nat
      BY <1>1, <2>3, TailIs
    <3>2. \A i \in 1..Len(line) : i # 1 => line[i] # k
      BY <3>1 DEF ChatInductive, InLine
    <3>3. ASSUME NEW i \in 1..Len(line')
          PROVE  line'[i] \in 1..Len(chat) /\ hook'[line'[i]].at = "queued"
      <4> DEFINE l == line[i + 1]
      <4>1. line'[i] = l /\ i + 1 \in 1..Len(line) /\ l # k
        BY <3>1, <3>2
      <4>2. l \in 1..Len(chat) /\ hook[l].at = "queued"
        BY <4>1 DEF ChatInductive, InLine
      <4> HIDE DEF l
      <4>3. QED
        BY <1>2, <4>1, <4>2
    <3>4. ASSUME NEW i \in 1..Len(line'), NEW j \in 1..Len(line'), line'[i] = line'[j]
          PROVE  i = j
      <4>1. i + 1 = j + 1
        BY <3>1, <3>4 DEF ChatInductive, InLine
      <4>2. QED
        BY <3>1, <4>1
    <3>5. QED
      BY <3>1, <3>3, <3>4 DEF InLine
  <2>4. QED
    BY <2>1, <2>2, <2>3
<1>4. \A i \in 1..Len(chat) : hook'[i].at # "none" => hook[i].at # "none"
  BY <1>2
<1>5. \A i \in 1..Len(chat) : hook'[i].at \in Active => ~chat[i].me
  BY <1>2 DEF ChatInductive, HooksCame
<1>6. \A i \in 1..Len(chat) : hook[i].at \in Over => hook'[i].at \in Over
  BY <1>2
<1>7. \A i \in 1..Len(chat) :
        hook'[i].at \in {"asking", "queued", "sending"} /\ ~chat[i].media => With(i, hook'[i].seen)
  BY <1>2 DEF ChatInductive, AskedWith
<1>8. QED
  BY <1>2, <1>3, <1>4, <1>5, <1>6, <1>7, HooksMove

\* A hook that keeps what it is asked with.
LEMMA Moved ==
    ASSUME ChatInductive, NEW k \in 1..Len(chat), NEW place \in HookPlaces, At(k, place)
    PROVE  \E e \in HookRec : e.at = place /\ e.seen = hook[k].seen /\ hook' = [hook EXCEPT ![k] = e]
<1> DEFINE e == [hook[k] EXCEPT !.at = place]
<1>1. hook[k] \in HookRec /\ hook \in Seq(HookRec)
  BY ChatTyped
<1>2. e \in HookRec /\ e.at = place /\ e.seen = hook[k].seen
  BY <1>1 DEF HookRec
<1>3. hook' = [hook EXCEPT ![k] = e]
  BY DEF At
<1>4. QED
  BY <1>2, <1>3

LEMMA EnabledOK == ASSUME ChatInductive, NEW k \in 1..Len(chat), Enabled(k) PROVE ChatInductive'
<1> DEFINE place == IF agent /\ ~chat[k].me THEN "looking" ELSE "done"
<1>1. hook[k].at = "new" /\ At(k, place) /\ UNCHANGED <<chat, rows, line>>
  BY DEF Enabled
<1>2. place \in {"looking", "done"} /\ place \in HookPlaces /\ (place = "looking" => ~chat[k].me)
  BY DEF HookPlaces
<1> HIDE DEF place
<1>3. PICK e \in HookRec : e.at = place /\ hook' = [hook EXCEPT ![k] = e]
  BY <1>1, <1>2, Moved
<1>4. QED
  BY <1>1, <1>2, <1>3, OneMoves DEF Active, Over

\* Whatever is read with a post that has its row, the post is in it, and what
\* it replies to if that came first.
LEMMA ContextHas ==
    ASSUME ChatInductive, NEW k \in 1..Len(chat)
    PROVE  With(k, Context(k)) /\ Context(k) \in SUBSET Nat
<1>1. /\ rows \in Seq(Nat) /\ DOMAIN rows = 1..Len(rows) /\ Len(rows) \in Nat /\ k \in Nat
      /\ \A a \in 1..Len(rows) : rows[a] \in Nat
  BY ChatTyped
<1>2. k \in Recent(k) /\ k \in Context(k)
  BY DEF Recent, Context
<1>3. \A n : Latest(n) \in SUBSET Nat
  BY <1>1 DEF Latest
<1>4. Context(k) \in SUBSET Nat
  BY <1>1, <1>3 DEF Context, Recent
<1>5. ASSUME NEW a \in 1..Len(rows), rows[a] = chat[k].reply
      PROVE  chat[k].reply \in Context(k)
  <2>1. rows[a] \in Latest(Len(rows))
    BY <1>1 DEF Latest
  <2>2. QED
    BY <1>2, <1>5, <2>1 DEF Context
<1>6. QED
  BY <1>2, <1>4, <1>5 DEF With

LEMMA AddressOK == ASSUME ChatInductive, NEW k \in 1..Len(chat), Address(k) PROVE ChatInductive'
<1>1. hook[k].at = "looking" /\ UNCHANGED <<chat, rows>> /\ ~chat[k].me
  BY DEF Address, ChatInductive, HooksCame, Active
<1>2. CASE ~Addressed(k)
  <2>1. At(k, "done") /\ line' = line /\ "done" \in HookPlaces
    BY <1>2 DEF Address, HookPlaces
  <2>2. PICK e \in HookRec : e.at = "done" /\ hook' = [hook EXCEPT ![k] = e]
    BY <2>1, Moved
  <2>3. QED
    BY <1>1, <2>1, <2>2, OneMoves DEF Active, Over
<1>3. CASE Addressed(k) /\ chat[k].media
  <2>1. At(k, "queued") /\ line' = Append(line, k) /\ "queued" \in HookPlaces
    BY <1>3 DEF Address, HookPlaces
  <2>2. PICK e \in HookRec : e.at = "queued" /\ hook' = [hook EXCEPT ![k] = e]
    BY <2>1, Moved
  <2>3. QED
    BY <1>1, <1>3, <2>1, <2>2, OneMoves DEF Active, Over
<1>4. CASE Addressed(k) /\ ~chat[k].media
  <2> DEFINE e == [at |-> "asking", seen |-> Context(k)]
  <2>1. hook' = [hook EXCEPT ![k] = e] /\ line' = line
    BY <1>4 DEF Address
  <2>2. With(k, Context(k)) /\ Context(k) \in SUBSET Nat
    BY ContextHas
  <2>3. e \in HookRec /\ e.at = "asking" /\ e.seen = Context(k)
    BY <2>2 DEF HookRec, HookPlaces
  <2> HIDE DEF e
  <2>4. QED
    BY <1>1, <2>1, <2>2, <2>3, OneMoves DEF Active, Over
<1>5. QED
  BY <1>2, <1>3, <1>4

LEMMA AskOK == ASSUME ChatInductive, NEW k \in 1..Len(chat), Ask(k) PROVE ChatInductive'
<1>1. /\ hook[k].at = "asking" /\ At(k, "queued") /\ line' = Append(line, k) /\ UNCHANGED <<chat, rows>>
      /\ ~chat[k].me /\ (~chat[k].media => With(k, hook[k].seen)) /\ "queued" \in HookPlaces
  BY DEF Ask, ChatInductive, HooksCame, AskedWith, Active, HookPlaces
<1>2. PICK e \in HookRec : e.at = "queued" /\ e.seen = hook[k].seen /\ hook' = [hook EXCEPT ![k] = e]
  BY <1>1, Moved
<1>3. QED
  BY <1>1, <1>2, OneMoves DEF Active, Over

LEMMA WaitOK == ASSUME ChatInductive, NEW k \in 1..Len(chat), Wait(k) PROVE ChatInductive'
<1>1. /\ line # <<>> /\ Head(line) = k /\ At(k, "sending") /\ line' = Tail(line) /\ UNCHANGED <<chat, rows>>
      /\ "sending" \in HookPlaces
  BY DEF Wait, HookPlaces
<1>2. hook[k].at = "queued"
  <2>1. line \in Seq(Nat)
    BY ChatTyped
  <2>2. k = line[1] /\ 1 \in 1..Len(line)
    BY <1>1, <2>1, TailIs
  <2>3. QED
    BY <2>2 DEF ChatInductive, InLine
<1>3. ~chat[k].me /\ (~chat[k].media => With(k, hook[k].seen))
  BY <1>2 DEF ChatInductive, HooksCame, AskedWith, Active
<1>4. PICK e \in HookRec : e.at = "sending" /\ e.seen = hook[k].seen /\ hook' = [hook EXCEPT ![k] = e]
  BY <1>1, Moved
<1>5. QED
  BY <1>1, <1>2, <1>3, <1>4, OneMoves DEF Active, Over

LEMMA LogOrFails ==
    ASSUME ChatInductive, NEW k \in 1..Len(chat), LogText(k) \/ AnswerFails(k) PROVE ChatInductive'
<1>1. PICK place \in {"done", "lost"} : At(k, place)
  BY DEF LogText, AnswerFails
<1>2. hook[k].at # "queued" /\ hook[k].at # "none" /\ UNCHANGED <<chat, rows, line>> /\ place \in HookPlaces
  BY <1>1 DEF LogText, AnswerFails, HookPlaces
<1>3. PICK e \in HookRec : e.at = place /\ hook' = [hook EXCEPT ![k] = e]
  BY <1>1, <1>2, Moved
<1>4. QED
  BY <1>1, <1>2, <1>3, OneMoves DEF Active, Over

LEMMA RestartsOK == ASSUME ChatInductive, ChatRestarts PROVE ChatInductive'
<1>1. /\ hook' = [k \in DOMAIN hook |->
                    IF hook[k].at \in {"none", "done"} THEN hook[k] ELSE [hook[k] EXCEPT !.at = "lost"]]
      /\ line' = <<>> /\ UNCHANGED <<chat, rows>>
  BY DEF ChatRestarts
<1>2. /\ DOMAIN hook = 1..Len(chat) /\ Len(chat) \in Nat
      /\ \A k \in 1..Len(chat) : hook[k] \in HookRec
  BY ChatTyped
<1>3. \A k \in 1..Len(chat) :
        /\ hook'[k] \in HookRec
        /\ hook'[k].at = hook[k].at \/ hook'[k].at = "lost"
        /\ hook'[k].at \in {"none", "done", "lost"} /\ (hook[k].at = "none" <=> hook'[k].at = "none")
  <2>1. SUFFICES ASSUME NEW k \in 1..Len(chat)
                 PROVE  /\ hook'[k] \in HookRec
                        /\ hook'[k].at = hook[k].at \/ hook'[k].at = "lost"
                        /\ hook'[k].at \in {"none", "done", "lost"}
                        /\ (hook[k].at = "none" <=> hook'[k].at = "none")
    OBVIOUS
  <2>2. CASE hook[k].at \in {"none", "done"}
    BY <1>1, <1>2, <2>2
  <2>3. CASE hook[k].at \notin {"none", "done"}
    <3>1. hook'[k] = [hook[k] EXCEPT !.at = "lost"] /\ hook[k] \in HookRec
      BY <1>1, <1>2, <2>3
    <3>2. QED
      BY <2>3, <3>1 DEF HookRec, HookPlaces
  <2>4. QED
    BY <2>2, <2>3
<1>4. hook' \in [1..Len(chat) -> HookRec]
  <2>1. DOMAIN hook' = 1..Len(chat) /\ hook' = [k \in 1..Len(chat) |-> hook'[k]]
    BY <1>1, <1>2
  <2>2. QED
    BY <1>3, <2>1
<1>5. hook' \in Seq(HookRec) /\ Len(hook') = Len(chat)
  BY <1>2, <1>4
<1>6. line' \in Seq(Nat) /\ InLine'
  BY <1>1 DEF InLine
<1>7. \A k \in 1..Len(chat) : hook[k].at \in Over => hook'[k].at \in Over
  BY <1>3 DEF Over
<1>8. QED
  BY <1>1, <1>3, <1>5, <1>6, <1>7, HooksMove DEF Active

-----------------------------------------------------------------------------
(* Rows and posts.                                                         *)

\* A post that has no row gets one.
LEMMA RowComes ==
    ASSUME ChatInductive, NEW k \in 1..Len(chat), Deliver(k) \/ Import(k) PROVE ChatInductive'
<1>1. /\ Unseen(k) /\ rows' = Append(rows, k) /\ UNCHANGED <<chat, line>>
      /\ hook' = hook \/ hook' = [hook EXCEPT ![k] = [at |-> "new", seen |-> {}]]
  BY DEF Deliver, Import
<1>2. /\ rows \in Seq(Nat) /\ k \in Nat /\ hook \in Seq(HookRec) /\ k \in 1..Len(hook)
      /\ Len(hook) = Len(chat) /\ Len(rows) \in Nat /\ DOMAIN rows = 1..Len(rows)
  BY ChatTyped
<1> DEFINE n == Len(rows) + 1
<1>3. /\ rows' \in Seq(Nat) /\ Len(rows') = n /\ rows'[n] = k
      /\ \A i \in 1..Len(rows) : rows'[i] = rows[i] /\ i \in 1..Len(rows')
      /\ \A i \in 1..Len(rows') : i \in 1..Len(rows) \/ i = n
      /\ n \in 1..Len(rows')
  BY <1>1, <1>2, AppendIs
<1>4. \A i \in 1..Len(rows) : rows[i] # k
  BY <1>1, <1>2 DEF Unseen
<1>5. hook[k].at = "none"
  BY <1>4 DEF ChatInductive, HooksCame
<1>6. /\ hook' \in Seq(HookRec) /\ Len(hook') = Len(chat)
      /\ \A i \in 1..Len(chat) : i # k => hook'[i] = hook[i]
      /\ hook'[k].at \in {"none", "new"}
  <2>1. [at |-> "new", seen |-> {}] \in HookRec
    BY DEF HookRec, HookPlaces
  <2>2. CASE hook' = hook
    BY <1>2, <1>5, <2>2
  <2>3. CASE hook' = [hook EXCEPT ![k] = [at |-> "new", seen |-> {}]]
    BY <1>2, <2>1, <2>3, ExceptIs
  <2>4. QED
    BY <1>1, <2>2, <2>3
<1>7. ChatTypeOK'
  BY <1>1, <1>3, <1>6 DEF ChatInductive, ChatTypeOK
<1> HIDE DEF n
<1>8. RowsOnce'
  BY <1>3, <1>4 DEF ChatInductive, RowsOnce
<1>9. HooksCame'
  BY <1>1, <1>3, <1>6 DEF ChatInductive, HooksCame, Active
<1>10. InLine'
  BY <1>1, <1>5, <1>6 DEF ChatInductive, InLine
<1>11. AnsweredOnce'
  <2>1. ASSUME NEW j \in 1..Len(chat), chat[j].me, chat[j].reply # 0
        PROVE  hook'[chat[j].reply].at \in Over
    <3>1. chat[j].reply \in 1..Len(chat) /\ hook[chat[j].reply].at \in Over
      BY <2>1 DEF ChatInductive, AnsweredOnce
    <3>2. chat[j].reply # k
      BY <1>5, <3>1 DEF Over
    <3>3. QED
      BY <1>6, <3>1, <3>2
  <2>2. QED
    BY <1>1, <2>1 DEF ChatInductive, AnsweredOnce
<1>12. AskedWith'
  <2>1. ASSUME NEW i \in 1..Len(chat), hook'[i].at \in {"asking", "queued", "sending"}, ~chat[i].media
        PROVE  With(i, hook[i].seen)'
    <3>1. i # k /\ hook'[i] = hook[i]
      BY <1>6, <2>1
    <3>2. With(i, hook[i].seen)
      BY <2>1, <3>1 DEF ChatInductive, AskedWith
    <3>3. ASSUME NEW a \in 1..Len(rows'), NEW b \in 1..Len(rows'),
                 a < b, rows'[a] = chat[i].reply, rows'[b] = i
          PROVE  chat[i].reply \in hook[i].seen
      <4>1. b # n
        BY <1>3, <3>1, <3>3
      <4>2. b \in 1..Len(rows)
        BY <1>3, <4>1
      <4>3. a \in 1..Len(rows)
        BY <1>2, <3>3, <4>2
      <4>4. QED
        BY <1>3, <3>2, <3>3, <4>2, <4>3 DEF With
    <3>4. QED
      BY <1>1, <3>1, <3>2, <3>3 DEF With
  <2>2. QED
    BY <1>1, <2>1 DEF AskedWith
<1>13. QED
  BY <1>7, <1>8, <1>9, <1>10, <1>11, <1>12 DEF ChatInductive

\* A post comes, with no hook yet, while at most one other hook goes on.
LEMMA PostComes ==
    ASSUME ChatInductive, NEW p \in Post, NEW hooks \in Seq(HookRec), PostedAs(p, hooks),
           Len(hooks) = Len(chat), UNCHANGED <<rows, line>>,
           \A k \in 1..Len(chat) : hooks[k] = hook[k] \/ (hooks[k].at = "logging" /\ hook[k].at = "sending"),
           p.me /\ p.reply # 0 =>
              p.reply \in 1..Len(chat) /\ hook[p.reply].at = "sending" /\ hooks[p.reply].at = "logging"
    PROVE  ChatInductive'
<1> DEFINE n == Len(chat) + 1
<1>1. /\ chat \in Seq(Post) /\ hook \in Seq(HookRec) /\ Len(hook) = Len(chat) /\ Len(chat) \in Nat
      /\ NoHook \in HookRec /\ NoHook.at = "none"
      /\ \A k \in 1..Len(chat) : chat[k].reply \in Nat
  BY ChatTyped DEF NoHook, HookRec, HookPlaces
<1>2. chat' = Append(chat, p) /\ hook' = Append(hooks, NoHook)
  BY DEF PostedAs
<1>3. /\ chat' \in Seq(Post) /\ Len(chat') = n /\ chat'[n] = p
      /\ \A i \in 1..Len(chat) : chat'[i] = chat[i] /\ i \in 1..Len(chat')
      /\ \A i \in 1..Len(chat') : i \in 1..Len(chat) \/ i = n
  BY <1>1, <1>2, AppendIs
<1>4. /\ hook' \in Seq(HookRec) /\ Len(hook') = n /\ hook'[n].at = "none"
      /\ \A i \in 1..Len(chat) : hook'[i] = hooks[i]
  BY <1>1, <1>2, AppendIs
<1>5. n \notin 1..Len(chat) /\ n \in 1..Len(chat')
  BY <1>1, <1>3
<1>6. ChatTypeOK' /\ RowsOnce'
  BY <1>3, <1>4 DEF ChatInductive, ChatTypeOK, RowsOnce
<1> HIDE DEF n
<1>7. HooksCame'
  <2>1. ASSUME NEW k \in 1..Len(chat')
        PROVE  /\ hook'[k].at # "none" => \E a \in 1..Len(rows) : rows[a] = k
               /\ hook'[k].at \in Active => ~chat'[k].me
    <3>1. CASE k = n
      BY <1>4, <3>1 DEF Active
    <3>2. CASE k \in 1..Len(chat)
      <4>1. hook'[k] = hooks[k] /\ chat'[k] = chat[k]
        BY <1>3, <1>4, <3>2
      <4>2. hook'[k].at # "none" => hook[k].at # "none"
        BY <3>2, <4>1
      <4>3. hook'[k].at \in Active => hook[k].at \in Active
        BY <3>2, <4>1 DEF Active
      <4>4. QED
        BY <3>2, <4>1, <4>2, <4>3 DEF ChatInductive, HooksCame
    <3>3. QED
      BY <1>3, <3>1, <3>2
  <2>2. QED
    BY <2>1 DEF HooksCame
<1>8. InLine'
  <2>1. \A i \in 1..Len(line) : line[i] \in 1..Len(chat) /\ hook[line[i]].at = "queued"
    BY DEF ChatInductive, InLine
  <2>2. \A i \in 1..Len(line) : line[i] \in 1..Len(chat') /\ hook'[line[i]].at = "queued"
    BY <1>3, <1>4, <2>1
  <2>3. QED
    BY <2>2 DEF ChatInductive, InLine
<1>9. \A k \in 1..Len(chat) : hook[k].at \in Over => hook'[k].at \in Over
  BY <1>4 DEF Over
<1>10. AnsweredOnce'
  <2>1. \A i \in 1..Len(chat) : chat[i].me /\ chat[i].reply # 0 =>
            /\ chat[i].reply \in 1..Len(chat) /\ ~chat[chat[i].reply].me /\ hook[chat[i].reply].at \in Over
            /\ \A j \in 1..Len(chat) : chat[j].me /\ chat[j].reply = chat[i].reply => i = j
    BY DEF ChatInductive, AnsweredOnce
  <2>2. p.me /\ p.reply # 0 =>
            /\ p.reply \in 1..Len(chat) /\ ~chat[p.reply].me /\ hook'[p.reply].at \in Over
            /\ \A i \in 1..Len(chat) : ~(chat[i].me /\ chat[i].reply = p.reply)
    <3> SUFFICES ASSUME p.me, p.reply # 0
                 PROVE  /\ p.reply \in 1..Len(chat) /\ ~chat[p.reply].me /\ hook'[p.reply].at \in Over
                        /\ \A i \in 1..Len(chat) : ~(chat[i].me /\ chat[i].reply = p.reply)
      OBVIOUS
    <3>1. p.reply \in 1..Len(chat) /\ hook[p.reply].at = "sending" /\ hook'[p.reply].at = "logging"
      BY <1>4
    <3>2. ~chat[p.reply].me
      BY <3>1 DEF ChatInductive, HooksCame, Active
    <3>3. ASSUME NEW i \in 1..Len(chat), chat[i].me, chat[i].reply = p.reply
          PROVE  FALSE
      BY <2>1, <3>1, <3>3 DEF Over
    <3>4. QED
      BY <3>1, <3>2, <3>3 DEF Over
  <2>3. ASSUME NEW j \in 1..Len(chat'), chat'[j].me, chat'[j].reply # 0
        PROVE  /\ chat'[j].reply \in 1..Len(chat) /\ ~chat[chat'[j].reply].me
               /\ hook'[chat'[j].reply].at \in Over
               /\ \A i \in 1..Len(chat') : chat'[i].me /\ chat'[i].reply = chat'[j].reply => i = j
    <3>1. CASE j = n
      <4>1. p.me /\ p.reply # 0 /\ chat'[j] = p
        BY <1>3, <2>3, <3>1
      <4>2. \A i \in 1..Len(chat') : chat'[i].me /\ chat'[i].reply = p.reply => i = n
        BY <1>3, <2>2, <4>1
      <4>3. QED
        BY <2>2, <3>1, <4>1, <4>2
    <3>2. CASE j \in 1..Len(chat)
      <4>1. chat'[j] = chat[j] /\ chat[j].me /\ chat[j].reply # 0
        BY <1>3, <2>3, <3>2
      <4>2. chat[j].reply \in 1..Len(chat) /\ ~chat[chat[j].reply].me /\ hook'[chat[j].reply].at \in Over
        BY <1>9, <2>1, <3>2, <4>1
      <4>3. ASSUME NEW i \in 1..Len(chat'), chat'[i].me, chat'[i].reply = chat[j].reply
            PROVE  i = j
        <5>1. i # n
          BY <1>3, <2>2, <3>2, <4>1, <4>3
        <5>2. i \in 1..Len(chat) /\ chat'[i] = chat[i]
          BY <1>3, <5>1
        <5>3. QED
          BY <2>1, <3>2, <4>1, <4>3, <5>2
      <4>4. QED
        BY <4>1, <4>2, <4>3
    <3>3. QED
      BY <1>3, <3>1, <3>2
  <2>4. ASSUME NEW k \in 1..Len(chat) PROVE k \in 1..Len(chat') /\ chat'[k] = chat[k]
    BY <1>3
  <2>5. QED
    BY <2>3, <2>4 DEF AnsweredOnce
<1>11. AskedWith'
  <2>1. ASSUME NEW i \in 1..Len(chat'), hook'[i].at \in {"asking", "queued", "sending"}, ~chat'[i].media
        PROVE  With(i, hook[i].seen)'
    <3>1. i \in 1..Len(chat) /\ i # n
      BY <1>3, <1>4, <2>1
    <3>2. hook'[i] = hook[i] /\ chat'[i] = chat[i]
      BY <1>3, <1>4, <2>1, <3>1
    <3>3. With(i, hook[i].seen)
      BY <2>1, <3>1, <3>2 DEF ChatInductive, AskedWith
    <3>4. QED
      BY <3>2, <3>3 DEF With
  <2>2. QED
    BY <2>1 DEF AskedWith
<1>12. QED
  BY <1>6, <1>7, <1>8, <1>10, <1>11 DEF ChatInductive

LEMMA SayOK == ASSUME ChatInductive, Say PROVE ChatInductive'
<1>1. PICK form \in {"text", "mention", "sticker"}, reply \in {0} \cup DOMAIN chat :
        PostedAs([me |-> FALSE, mention |-> form = "mention", media |-> form = "sticker", reply |-> reply], hook)
  BY DEF Say
<1> DEFINE p == [me |-> FALSE, mention |-> form = "mention", media |-> form = "sticker", reply |-> reply]
<1>2. reply \in Nat
  BY ChatTyped
<1>3. p \in Post /\ ~p.me
  BY <1>2 DEF Post
<1>4. hook \in Seq(HookRec) /\ Len(hook) = Len(chat) /\ UNCHANGED <<rows, line>> /\ PostedAs(p, hook)
  BY <1>1, ChatTyped DEF Say
<1> HIDE DEF p
<1>5. QED
  BY <1>3, <1>4, PostComes

LEMMA SendTextOK == ASSUME ChatInductive, NEW k \in 1..Len(chat), SendText(k) PROVE ChatInductive'
<1> DEFINE p == [me |-> TRUE, mention |-> TRUE, media |-> FALSE, reply |-> k]
           e == [at |-> "logging", seen |-> {}]
           hooks == [hook EXCEPT ![k] = e]
<1>1. hook[k].at = "sending" /\ PostedAs(p, hooks) /\ UNCHANGED <<rows, line>>
  BY DEF SendText
<1>2. hook \in Seq(HookRec) /\ Len(hook) = Len(chat) /\ k \in 1..Len(hook) /\ k \in Nat
  BY ChatTyped
<1>3. p \in Post /\ p.reply = k /\ e \in HookRec /\ e.at = "logging"
  BY <1>2 DEF Post, HookRec, HookPlaces
<1> HIDE DEF p, e
<1>4. /\ hooks \in Seq(HookRec) /\ Len(hooks) = Len(chat) /\ hooks[k] = e
      /\ \A i \in 1..Len(chat) : i # k => hooks[i] = hook[i]
  BY <1>2, <1>3, ExceptIs
<1> HIDE DEF hooks
<1>5. QED
  BY <1>1, <1>3, <1>4, PostComes

LEMMA ChatSteps == ChatInductive /\ [ChatNext]_chatVars => ChatInductive'
<1> SUFFICES ASSUME ChatInductive, [ChatNext]_chatVars PROVE ChatInductive'
  OBVIOUS
<1>1. DOMAIN chat = 1..Len(chat)
  BY ChatTyped
<1>2. CASE Say \/ ChatRestarts
  BY <1>2, SayOK, RestartsOK
<1>3. ASSUME NEW k \in 1..Len(chat), Deliver(k) \/ Import(k) \/ HookStep(k) \/ AnswerFails(k)
      PROVE  ChatInductive'
  BY <1>3, RowComes, EnabledOK, AddressOK, AskOK, WaitOK, SendTextOK, LogOrFails DEF HookStep
<1>4. CASE Toggle \/ UNCHANGED chatVars
  <2>1. UNCHANGED <<chat, rows, hook, line>>
    BY <1>4 DEF Toggle, chatVars
  <2>2. ChatTypeOK' /\ RowsOnce' /\ HooksCame' /\ InLine'
    BY <2>1 DEF ChatInductive, ChatTypeOK, RowsOnce, HooksCame, InLine
  <2>3. AnsweredOnce' /\ AskedWith'
    BY <2>1 DEF ChatInductive, AnsweredOnce, AskedWith, With
  <2>4. QED
    BY <2>2, <2>3 DEF ChatInductive
<1>5. QED
  BY <1>1, <1>2, <1>3, <1>4 DEF ChatNext

\* Each place of a message hook means of its post, its row, the limiter's line
\* and the answers in the chat what chat.py and gowa_client.py take it to mean.
THEOREM ChatInductiveHolds == ChatSpec => []ChatInductive
<1>1. ChatInit => ChatInductive
  BY ChatInits
<1>2. ChatInductive /\ [ChatNext]_chatVars => ChatInductive'
  BY ChatSteps
<1>3. QED
  BY <1>1, <1>2, PTL DEF ChatSpec

\* However often an event is delivered and whatever runs meanwhile, a post has
\* one answer at most, the bot's own have none, and what is sent was asked with
\* the post and what it replies to (ChatAgent.handle).
THEOREM OneAnswerOnly == ChatSpec => []OneAnswerEach
<1>1. ChatInductive => OneAnswerEach
  <2> SUFFICES ASSUME ChatInductive PROVE OneAnswerEach
    OBVIOUS
  <2>1. DOMAIN chat = 1..Len(chat) /\ DOMAIN rows = 1..Len(rows) /\ \A k \in 1..Len(chat) : chat[k].me \in BOOLEAN
    BY ChatTyped DEF Post
  <2>2. Of(TRUE) = {k \in 1..Len(chat) : chat[k].me}
    BY <2>1 DEF Of
  <2>3. \A j \in Of(TRUE) : chat[j].reply # 0 =>
          /\ ~chat[chat[j].reply].me
          /\ \A i \in Of(TRUE) : chat[i].reply = chat[j].reply => i = j
    BY <2>2 DEF ChatInductive, AnsweredOnce
  <2>4. \A k \in DOMAIN chat : hook[k].at = "sending" /\ ~chat[k].media => With(k, hook[k].seen)
    BY <2>1 DEF ChatInductive, AskedWith
  <2>5. QED
    BY <2>1, <2>3, <2>4 DEF OneAnswerEach, With
<1>2. QED
  BY <1>1, ChatInductiveHolds, PTL
=============================================================================
