---------------------------- MODULE InboxProofs ----------------------------
(***************************************************************************)
(* An inbox page shared by any number of writers implements the mailbox,   *)
(* and never holds two items about one thread. Over it, the Project Agent  *)
(* forgets nothing while the scheduler loop alone runs it and ingestion.   *)
(***************************************************************************)
EXTENDS ProjectAgent, TLAPS

USE ItemsAssumption, CallsAssumption, InboxAssumption

IInv == TypeOK /\ BaseIsSeen /\ Coalesced

Distinct(items) ==
    \A i, j \in items :
        i.kind = "thread_update" /\ j.kind = "thread_update" /\ i.subject = j.subject
            => i = j

-----------------------------------------------------------------------------
LEMMA MergeItem ==
    ASSUME NEW i \in Item, NEW p \in Post
    PROVE  /\ Merge(i, p) \in Item
           /\ Merge(i, p).id = i.id /\ Merge(i, p).kind = i.kind
           /\ Merge(i, p).subject = i.subject /\ Merge(i, p).since = i.since
           /\ i.trigger => Merge(i, p).trigger
  BY DEF Merge, Item, Post, Ids, Kinds

LEMMA FreshItem ==
    ASSUME NEW p \in Post, NEW n \in Nat
    PROVE  /\ Fresh(p, n) \in Item
           /\ Fresh(p, n).subject = p.subject
  BY DEF Fresh, Item, Post, Ids, Kinds

(* The three sorts of item a post leaves: untouched, merged and new.        *)
LEMMA PostedCases ==
    ASSUME NEW items \in SUBSET Item, NEW posts \in SUBSET Post, NEW n \in Nat,
           NEW k \in Posted(items, posts, n)
    PROVE  \/ k \in items /\ \A p \in posts : ~SameSubject(k, p)
           \/ \E i \in items, p \in posts : SameSubject(i, p) /\ k = Merge(i, p)
           \/ \E p \in posts : k = Fresh(p, n) /\ \A i \in items : ~SameSubject(i, p)
  BY DEF Posted

LEMMA PostedItems ==
    ASSUME NEW items \in SUBSET Item, NEW posts \in SUBSET Post, NEW n \in Nat
    PROVE  Posted(items, posts, n) \in SUBSET Item
  <1> SUFFICES ASSUME NEW k \in Posted(items, posts, n) PROVE k \in Item
    OBVIOUS
  <1>1. CASE k \in items
    BY <1>1
  <1>2. ASSUME NEW i \in items, NEW p \in posts, k = Merge(i, p)
        PROVE  k \in Item
    BY <1>2, MergeItem
  <1>3. ASSUME NEW p \in posts, k = Fresh(p, n)
        PROVE  k \in Item
    BY <1>3, FreshItem
  <1> QED BY <1>1, <1>2, <1>3, PostedCases

(* Posting keeps one item per thread.                                       *)
LEMMA PostedDistinct ==
    ASSUME NEW items \in SUBSET Item, NEW posts \in Calls, NEW n \in Nat,
           Distinct(items)
    PROVE  Distinct(Posted(items, posts, n))
  <1>0. posts \in SUBSET Post
    OBVIOUS
  <1> SUFFICES ASSUME NEW i \in Posted(items, posts, n), NEW j \in Posted(items, posts, n),
                      i.kind = "thread_update", j.kind = "thread_update",
                      i.subject = j.subject
               PROVE  i = j
    BY DEF Distinct
  <1> USE DEF SameSubject
  <1>1. CASE i \in items /\ \A p \in posts : ~SameSubject(i, p)
    <2>1. CASE j \in items
      BY <1>1, <2>1 DEF Distinct
    <2>2. ASSUME NEW x \in items, NEW p \in posts, SameSubject(x, p), j = Merge(x, p)
          PROVE  FALSE
      BY <1>0, <1>1, <2>2, MergeItem
    <2>3. ASSUME NEW p \in posts, j = Fresh(p, n)
          PROVE  FALSE
      BY <1>0, <1>1, <2>3, FreshItem
    <2> QED BY <1>0, <2>1, <2>2, <2>3, PostedCases
  <1>2. ASSUME NEW x \in items, NEW p \in posts, SameSubject(x, p), i = Merge(x, p)
        PROVE  i = j
    <2>0. i.subject = p.subject
      BY <1>0, <1>2, MergeItem
    <2>1. CASE j \in items /\ \A q \in posts : ~SameSubject(j, q)
      BY <2>0, <2>1
    <2>2. ASSUME NEW y \in items, NEW q \in posts, SameSubject(y, q), j = Merge(y, q)
          PROVE  i = j
      <3>1. y.subject = q.subject /\ j.subject = q.subject /\ y.kind = "thread_update"
        BY <1>0, <2>2, MergeItem
      <3>2. p = q
        BY <2>0, <3>1
      <3>3. x = y
        BY <1>2, <3>1, <3>2 DEF Distinct
      <3> QED BY <1>2, <2>2, <3>2, <3>3
    <2>3. ASSUME NEW q \in posts, j = Fresh(q, n), \A y \in items : ~SameSubject(y, q)
          PROVE  FALSE
      BY <1>0, <1>2, <2>0, <2>3, FreshItem
    <2> QED BY <1>0, <2>1, <2>2, <2>3, PostedCases
  <1>3. ASSUME NEW p \in posts, i = Fresh(p, n), \A x \in items : ~SameSubject(x, p)
        PROVE  i = j
    <2>0. i.subject = p.subject
      BY <1>0, <1>3, FreshItem
    <2>1. CASE j \in items
      BY <1>3, <2>0, <2>1
    <2>2. ASSUME NEW y \in items, NEW q \in posts, SameSubject(y, q), j = Merge(y, q)
          PROVE  FALSE
      BY <1>0, <1>3, <2>0, <2>2, MergeItem
    <2>3. ASSUME NEW q \in posts, j = Fresh(q, n)
          PROVE  i = j
      BY <1>0, <1>3, <2>0, <2>3, FreshItem
    <2> QED BY <1>0, <2>1, <2>2, <2>3, PostedCases
  <1> QED BY <1>0, <1>1, <1>2, <1>3, PostedCases

LEMMA AckedDistinct ==
    ASSUME NEW items, Distinct(items), NEW ids
    PROVE  Distinct(Acked(items, ids)) /\ Acked(items, ids) \subseteq items
  BY DEF Distinct, Acked

-----------------------------------------------------------------------------
LEMMA InitIInv == Init => IInv
  BY DEF Init, IInv, TypeOK, BaseIsSeen, Coalesced, Op, Idle, Started, Phases

(* A write that is accepted changes the page as it stands.                  *)
LEMMA WriteIsAtomic ==
    ASSUME IInv, NEW w \in Writers, NEW end, Write(w, end)
    PROVE  /\ revision' = revision + 1
           /\ \/ op[w].posts \in Calls /\ pending' = Posted(pending, op[w].posts, revision)
              \/ pending' = Acked(pending, op[w].ids)
  BY DEF IInv, TypeOK, BaseIsSeen, Write, Change, Op

LEMMA PendingStep ==
    ASSUME IInv, [Next]_vars
    PROVE  pending' \in SUBSET Item /\ Coalesced'
  <1>1. pending \in SUBSET Item /\ revision \in Nat /\ Distinct(pending)
    BY DEF IInv, TypeOK, Coalesced, Distinct
  <1> SUFFICES pending' \in SUBSET Item /\ Distinct(pending')
    BY DEF Coalesced, Distinct
  <1>2. CASE UNCHANGED pending
    BY <1>1, <1>2
  <1>3. ASSUME NEW w \in Writers, NEW end \in {"returned", "raised"}, Write(w, end)
        PROVE  pending' \in SUBSET Item /\ Distinct(pending')
    <2>1. CASE op[w].posts \in Calls /\ pending' = Posted(pending, op[w].posts, revision)
      BY <1>1, <2>1, PostedItems, PostedDistinct
    <2>2. CASE pending' = Acked(pending, op[w].ids)
      BY <1>1, <2>2, AckedDistinct
    <2> QED BY <1>3, <2>1, <2>2, WriteIsAtomic
  <1>4. CASE HumanEdits
    <2> DEFINE line == HumanLine(revision)
    <2>1. line \in Item /\ line.kind = "request"
      BY <1>1 DEF HumanLine, Item, Ids, Kinds
    <2>2. pending' = pending \/ pending' = pending \cup {line}
      BY <1>4 DEF HumanEdits
    <2> HIDE DEF line
    <2> QED BY <1>1, <2>1, <2>2 DEF Distinct
  <1>5. \/ UNCHANGED pending \/ HumanEdits
        \/ \E w \in Writers, end \in {"returned", "raised"} : Write(w, end)
    BY DEF Next, vars, CallPost, CallAck, Read, Conflict, LastTry, VaultError, Return
  <1> QED BY <1>2, <1>3, <1>4, <1>5

LEMMA TypeStep ==
    ASSUME IInv, [Next]_vars
    PROVE  TypeOK'
  <1>1. pending' \in SUBSET Item
    BY PendingStep
  <1>2. TypeOK
    BY DEF IInv
  <1>3. revision' \in Nat
    <2>1. revision' \in {revision, revision + 1}
      BY DEF Next, vars, CallPost, CallAck, Read, Write, Conflict, LastTry, VaultError, Return,
             HumanEdits
    <2> QED BY <1>2, <2>1 DEF TypeOK
  <1>4. \A w \in Writers : op[w] \in Op
    BY <1>2 DEF TypeOK
  <1> SUFFICES op' \in [Writers -> Op]
    BY <1>1, <1>3 DEF TypeOK
  <1> USE <1>2, <1>4 DEF TypeOK
  <1>5. CASE UNCHANGED vars
    BY <1>5 DEF vars
  <1>6. CASE HumanEdits
    BY <1>6 DEF HumanEdits
  <1>7. ASSUME NEW w \in Writers, NEW posts \in Calls, CallPost(w, posts)
        PROVE  op' \in [Writers -> Op]
    <2>1. Started("reading", posts, {}) \in Op
      BY DEF Started, Op, Phases
    <2> QED BY <1>7, <2>1 DEF CallPost
  <1>8. ASSUME NEW w \in Writers, NEW ids \in SUBSET {i.id : i \in pending}, CallAck(w, ids)
        PROVE  op' \in [Writers -> Op]
    <2>1. ids \in SUBSET Ids
      BY <1>8 DEF Item
    <2>2. Started("reading", {}, ids) \in Op
      BY <2>1 DEF Started, Op, Phases
    <2> QED BY <1>8, <2>2 DEF CallAck
  <1>9. ASSUME NEW w \in Writers, NEW end \in {"returned", "raised"}, Write(w, end)
        PROVE  op' \in [Writers -> Op]
    BY <1>9 DEF Write, Op, Phases
  <1>10. ASSUME NEW w \in Writers, Read(w)
         PROVE  op' \in [Writers -> Op]
    <2> DEFINE o == [op[w] EXCEPT !.phase = "writing", !.base = revision, !.seen = pending]
    <2>1. o \in Op
      BY DEF Op, Phases
    <2>2. op' = [op EXCEPT ![w] = o]
      BY <1>10 DEF Read, Op
    <2> QED BY <2>1, <2>2
  <1>11. ASSUME NEW w \in Writers, Conflict(w)
         PROVE  op' \in [Writers -> Op]
    BY <1>11 DEF Conflict, LastTry, Op, Phases
  <1>12. ASSUME NEW w \in Writers, VaultError(w)
         PROVE  op' \in [Writers -> Op]
    BY <1>12 DEF VaultError, Op, Phases
  <1>13. ASSUME NEW w \in Writers, Return(w)
         PROVE  op' \in [Writers -> Op]
    <2>1. Idle \in Op
      BY DEF Idle, Started, Op, Phases
    <2> QED BY <1>13, <2>1 DEF Return
  <1> QED BY <1>5, <1>6, <1>7, <1>8, <1>9, <1>10, <1>11, <1>12, <1>13 DEF Next

LEMMA BaseStep ==
    ASSUME IInv, [Next]_vars
    PROVE  BaseIsSeen'
  <1>1. revision \in Nat /\ op \in [Writers -> Op] /\ BaseIsSeen
    BY DEF IInv, TypeOK
  <1>2. \A w \in Writers : op[w].base \in Nat
    BY <1>1 DEF Op
  <1>3. CASE UNCHANGED vars
    BY <1>1, <1>3 DEF vars, BaseIsSeen
  <1>4. CASE HumanEdits
    BY <1>1, <1>2, <1>4 DEF HumanEdits, BaseIsSeen
  <1>5. ASSUME NEW w \in Writers,
               \/ \E posts \in Calls : CallPost(w, posts)
               \/ \E ids \in SUBSET {i.id : i \in pending} : CallAck(w, ids)
               \/ Conflict(w) \/ VaultError(w) \/ Return(w)
        PROVE  BaseIsSeen'
    <2>1. UNCHANGED <<pending, revision>> /\ op'[w].phase # "writing"
      BY <1>1, <1>5 DEF CallPost, CallAck, Conflict, LastTry, VaultError, Return, Started, Idle, Op
    <2>2. \A v \in Writers : v # w => op'[v] = op[v]
      BY <1>1, <1>5 DEF CallPost, CallAck, Conflict, LastTry, VaultError, Return
    <2> QED BY <1>1, <2>1, <2>2 DEF BaseIsSeen
  <1>6. ASSUME NEW w \in Writers, Read(w)
        PROVE  BaseIsSeen'
    BY <1>1, <1>2, <1>6 DEF Read, BaseIsSeen, Op
  <1>7. ASSUME NEW w \in Writers, NEW end \in {"returned", "raised"}, Write(w, end)
        PROVE  BaseIsSeen'
    BY <1>1, <1>2, <1>7 DEF Write, BaseIsSeen, Op
  <1> QED BY <1>3, <1>4, <1>5, <1>6, <1>7 DEF Next

LEMMA Inductive == ASSUME IInv, [Next]_vars PROVE IInv'
  BY PendingStep, TypeStep, BaseStep DEF IInv

LEMMA InvariantIInv == Spec => []IInv
  BY InitIInv, Inductive, PTL DEF Spec

(* Whatever the writers do, the page holds items and every call is well      *)
(* formed.                                                                   *)
THEOREM InboxTypeOK == Spec => []TypeOK
  <1>1. IInv => TypeOK
    BY DEF IInv
  <1> QED BY <1>1, InvariantIInv, PTL

(* post(): no two pending items are about the same thread.                   *)
THEOREM InboxCoalesces == Spec => []Coalesced
  <1>1. IInv => Coalesced
    BY DEF IInv
  <1> QED BY <1>1, InvariantIInv, PTL

-----------------------------------------------------------------------------
Kept(i) == \E j \in pending' : j.id = i.id /\ j.since <= i.since /\ (i.trigger => j.trigger)
AckedNow(i) == \E w \in Writers : op[w].phase = "writing" /\ i.id \in op[w].ids

LEMMA PostedKeeps ==
    ASSUME NEW items \in SUBSET Item, NEW posts \in SUBSET Post, NEW n \in Nat,
           NEW i \in items
    PROVE  \E j \in Posted(items, posts, n) :
              j.id = i.id /\ j.since <= i.since /\ (i.trigger => j.trigger)
  <1>0. i.since \in Nat
    BY DEF Item
  <1>1. CASE \A p \in posts : ~SameSubject(i, p)
    BY <1>0, <1>1 DEF Posted
  <1>2. ASSUME NEW p \in posts, SameSubject(i, p)
        PROVE  Merge(i, p) \in Posted(items, posts, n)
    <2>1. <<i, p>> \in {y \in items \X posts : SameSubject(y[1], y[2])}
      BY <1>2
    <2> QED BY <2>1 DEF Posted
  <1> QED BY <1>0, <1>1, <1>2, MergeItem

LEMMA KeepsStep ==
    ASSUME IInv, [Next]_vars, NEW i \in pending
    PROVE  Kept(i) \/ AckedNow(i)
  <1>1. pending \in SUBSET Item /\ revision \in Nat /\ i.since \in Nat
    BY DEF IInv, TypeOK, Item
  <1>2. CASE i \in pending'
    BY <1>1, <1>2 DEF Kept
  <1>3. ASSUME NEW w \in Writers, NEW end \in {"returned", "raised"}, Write(w, end)
        PROVE  Kept(i) \/ AckedNow(i)
    <2>1. CASE op[w].posts \in Calls /\ pending' = Posted(pending, op[w].posts, revision)
      BY <1>1, <2>1, PostedKeeps DEF Kept
    <2>2. CASE pending' = Acked(pending, op[w].ids)
      <3>1. i \in pending' \/ i.id \in op[w].ids
        BY <2>2 DEF Acked
      <3> QED BY <1>2, <1>3, <3>1 DEF Write, AckedNow
    <2> QED BY <1>3, <2>1, <2>2, WriteIsAtomic
  <1>4. \/ pending \subseteq pending'
        \/ \E w \in Writers, end \in {"returned", "raised"} : Write(w, end)
    BY DEF Next, vars, CallPost, CallAck, Read, Conflict, LastTry, VaultError, Return, HumanEdits
  <1> QED BY <1>2, <1>3, <1>4

(* A page write never drops another writer's item: an item leaves Pending    *)
(* only by an ack that names it.                                             *)
THEOREM InboxNeverOverwrites == Spec => NothingOverwritten
  <1>1. ASSUME IInv, [Next]_vars
        PROVE  [\A i \in pending :
                  \/ \E j \in pending' : j.id = i.id /\ j.since <= i.since
                                            /\ (i.trigger => j.trigger)
                  \/ \E w \in Writers : op[w].phase = "writing" /\ i.id \in op[w].ids]_vars
    BY <1>1, KeepsStep DEF Kept, AckedNow
  <1> QED BY <1>1, InvariantIInv, PTL DEF Spec, NothingOverwritten

-----------------------------------------------------------------------------
(* The mailbox's operators are the page's.                                   *)
LEMMA SameOperators ==
    ASSUME NEW items, NEW posts, NEW ids, NEW n
    PROVE  /\ M!Posted(items, posts, n) = Posted(items, posts, n)
           /\ M!Acked(items, ids) = Acked(items, ids)
           /\ M!HumanLine(n) = HumanLine(n)
  BY DEF M!Posted, Posted, M!Acked, Acked, M!HumanLine, HumanLine, M!SameSubject,
         SameSubject, M!Merge, Merge, M!Fresh, Fresh

LEMMA MailboxStep ==
    ASSUME IInv, [Next]_vars
    PROVE  [M!Next]_(<<pending, revision>>)
  <1>1. ASSUME NEW w \in Writers, NEW end \in {"returned", "raised"}, Write(w, end)
        PROVE  M!Next
    <2>1. CASE op[w].posts \in Calls /\ pending' = Posted(pending, op[w].posts, revision)
      <3>1. M!PostAll(op[w].posts)
        BY <1>1, <2>1, SameOperators DEF M!PostAll, Write
      <3> QED BY <2>1, <3>1 DEF M!Next
    <2>2. CASE pending' = Acked(pending, op[w].ids)
      <3> DEFINE ids == op[w].ids \cap {i.id : i \in pending}
      <3>1. Acked(pending, op[w].ids) = Acked(pending, ids)
        BY DEF Acked
      <3>2. M!Ack(ids)
        BY <1>1, <2>2, <3>1, SameOperators DEF M!Ack, Write
      <3>3. ids \in SUBSET {i.id : i \in pending}
        OBVIOUS
      <3> QED BY <3>2, <3>3 DEF M!Next
    <2> QED BY <1>1, <2>1, <2>2, WriteIsAtomic
  <1>2. ASSUME HumanEdits
        PROVE  M!Next
    BY <1>2, SameOperators DEF HumanEdits, M!Next, M!Type, M!Note
  <1>3. \/ UNCHANGED <<pending, revision>> \/ HumanEdits
        \/ \E w \in Writers, end \in {"returned", "raised"} : Write(w, end)
    BY DEF Next, vars, CallPost, CallAck, Read, Conflict, LastTry, VaultError, Return
  <1> QED BY <1>1, <1>2, <1>3

(* Revision-checked read-modify-write with retries implements a mailbox      *)
(* whose calls take effect at once.                                          *)
THEOREM InboxIsAMailbox == Spec => Implements
  <1>1. Init => M!Init
    BY DEF Init, M!Init
  <1>2. IInv /\ [Next]_vars => [M!Next]_(<<pending, revision>>)
    BY MailboxStep
  <1> QED BY <1>1, <1>2, InvariantIInv, PTL DEF Spec, Implements, M!Spec
-----------------------------------------------------------------------------
(* The Project Agent over its inbox, under the loop alone. A batch and a    *)
(* run take turns, so that nothing is merged into an item between the read  *)
(* of its thread and its ack (TakesTurns); what a run is about to ack is    *)
(* carried (AgentKnows); and the item of a thread reaches back to the first *)
(* message that is not (StillOwed).                                         *)

Applying == {"picking", "carrying", "status", "acking"}

AgentTypeOK ==
    /\ material \in [Subjects -> 0..MaxMaterial]
    /\ carried \in [Subjects -> 0..MaxMaterial]
    /\ touched \in [Subjects -> 0..MaxMaterial]
    /\ unposted \subseteq Subjects /\ unlinked \subseteq Subjects
    /\ at \in Applying \cup {"idle", "reading"}
    /\ \A d \in done : d \in Ids

Counted ==
    \A t \in Subjects : carried[t] <= material[t] /\ touched[t] \in {0, material[t]}

TakesTurns ==
    /\ at # "idle" => Batch = {}
    /\ op[ingest].phase # "idle" => Batch # {} /\ op[ingest].posts = Notices(touched)
    /\ op[agent].phase # "idle" => at = "acking" /\ op[agent].posts = {} /\ op[agent].ids = done

\* An item says in its id which thread it is about.
Named(i) == i.kind = "thread_update" /\ i.subject \in Subjects /\ i.id[2] = i.subject
Typed(i) == i.kind = "request" /\ i.subject = NoSubject /\ i.id[2] = NoSubject

ItemsAreNamed ==
    \A i \in pending : (Named(i) /\ i.since <= material[i.subject]) \/ Typed(i)

CarriedOver(t) == t \in unlinked \/ carried[t] = material[t]

AgentKnows ==
    /\ at \in Applying =>
          /\ \A d \in done : d[2] \in Subjects /\ CarriedOver(d[2])
          /\ todo \subseteq Item /\ \A i \in todo : Named(i)
    /\ at \in {"carrying", "status"} =>
          item \in Item /\ Named(item) /\ got = material[item.subject]
    /\ at = "status" => carried[item.subject] = material[item.subject]

\* Until its notice is posted, the last item of a thread of the batch is owed by the batch.
Due(t) == IF t \in Batch /\ op[ingest].phase # "returned" THEN material[t] - 1 ELSE material[t]

StillOwed ==
    \A t \in Subjects :
        carried[t] < Due(t) =>
            \/ t \in unposted \/ t \in unlinked
            \/ \E i \in pending : i.subject = t /\ i.since <= carried[t] + 1

\* Of the batch that is under way the answer of the post is taken care of in NoticesDone.
AgentInductive ==
    IInv /\ AgentTypeOK /\ Counted /\ TakesTurns /\ ItemsAreNamed /\ AgentKnows /\ StillOwed

-----------------------------------------------------------------------------
LEMMA TwoWriters == Writers = {ingest, agent} /\ ingest # agent
  BY AgentAssumption

LEMMA BatchHasNotices == Batch # {} => Notices(touched) # {}
  <1> SUFFICES ASSUME NEW t \in Batch PROVE Notices(touched) # {}
    OBVIOUS
  <1>1. [subject |-> t, since |-> touched[t], trigger |-> FALSE] \in Notices(touched)
    BY DEF Batch, Notices
  <1> QED BY <1>1

LEMMA NoticesArePosts ==
    ASSUME NEW since \in [Subjects -> 0..MaxMaterial]
    PROVE  Notices(since) \in Calls \cup {{}} /\ Notices(since) \in SUBSET Post
  BY AgentAssumption

LEMMA AgentInitInductive == AgentInit => AgentInductive
  <1> SUFFICES ASSUME AgentInit PROVE AgentInductive
    OBVIOUS
  <1> USE DEF AgentInit
  <1>1. IInv
    BY InitIInv
  <1>2. \A w \in Writers : op[w].phase = "idle"
    BY DEF Init, Idle, Started
  <1>3. MaxMaterial \in Nat
    BY AgentAssumption
  <1>4. AgentTypeOK
    BY <1>3 DEF AgentTypeOK, Applying
  <1>10. \A t \in Subjects : carried[t] = 0 /\ material[t] = 0 /\ touched[t] = 0
    <2>1. material = [t \in Subjects |-> 0] /\ carried = material /\ touched = material
      OBVIOUS
    <2>2. \A t \in Subjects : material[t] = 0
      BY <2>1
    <2> QED BY <2>1, <2>2
  <1>5. Counted
    <2> SUFFICES ASSUME NEW t \in Subjects
                 PROVE  carried[t] <= material[t] /\ touched[t] \in {0, material[t]}
      BY DEF Counted
    <2>1. carried[t] = 0 /\ material[t] = 0 /\ touched[t] = 0
      BY <1>10
    <2> QED BY <2>1
  <1>6. TakesTurns
    BY <1>2, TwoWriters DEF TakesTurns
  <1>7. ItemsAreNamed
    BY DEF Init, ItemsAreNamed
  <1>8. AgentKnows
    BY DEF AgentKnows, Applying
  <1>9. StillOwed
    <2> SUFFICES ASSUME NEW t \in Subjects PROVE ~(carried[t] < Due(t))
      BY DEF StillOwed
    <2>1. carried[t] = 0 /\ material[t] = 0 /\ touched[t] = 0
      BY <1>10
    <2>2. t \notin Batch
      BY <2>1 DEF Batch
    <2> QED BY <2>1, <2>2 DEF Due
  <1> QED BY <1>1, <1>4, <1>5, <1>6, <1>7, <1>8, <1>9 DEF AgentInductive

-----------------------------------------------------------------------------
(* What an action does to the page and its calls.                           *)
LEMMA OpReset ==
    ASSUME IInv, NEW w \in Writers, NEW o \in Op, o.phase # "writing",
           op' = [op EXCEPT ![w] = o], UNCHANGED <<pending, revision>>
    PROVE  IInv'
  <1>1. op \in [Writers -> Op] /\ TypeOK /\ BaseIsSeen /\ Coalesced
    BY DEF IInv, TypeOK
  <1>2. op' \in [Writers -> Op] /\ op'[w] = o /\ \A v \in Writers : v # w => op'[v] = op[v]
    BY <1>1
  <1>3. TypeOK'
    BY <1>1, <1>2 DEF TypeOK
  <1>4. BaseIsSeen'
    BY <1>1, <1>2 DEF BaseIsSeen
  <1>5. Coalesced'
    BY <1>1 DEF Coalesced
  <1> QED BY <1>3, <1>4, <1>5 DEF IInv

LEMMA PageKeeps ==
    ASSUME AgentInductive, [AgentNext]_allVars
    PROVE  IInv'
  <1> USE TwoWriters
  <1>0. IInv /\ TypeOK /\ op \in [Writers -> Op] /\ touched \in [Subjects -> 0..MaxMaterial]
    BY DEF AgentInductive, IInv, TypeOK, AgentTypeOK
  <1>1. CASE UNCHANGED vars
    BY <1>0, <1>1, Inductive
  <1>2. CASE PostNotices
    <2>1. Notices(touched) # {}
      BY <1>2, BatchHasNotices DEF PostNotices
    <2>2. Notices(touched) \in Calls
      BY <1>0, <2>1, NoticesArePosts
    <2>3. Next
      BY <1>2, <2>2 DEF PostNotices, Next
    <2> QED BY <1>0, <2>3, Inductive
  <1>3. CASE NoticesDone \/ Finish
    <2>1. Next
      BY <1>3 DEF NoticesDone, Finish, Next
    <2> QED BY <1>0, <2>1, Inductive
  <1>4. CASE CallAckDone
    <2>1. CASE UNCHANGED op
      BY <1>0, <1>1, <1>4, <2>1 DEF CallAckDone, vars
    <2>2. CASE op' = [op EXCEPT ![agent] = Started("reading", {}, done)]
      <3>1. Started("reading", {}, done) \in Op /\ Started("reading", {}, done).phase = "reading"
        BY DEF AgentInductive, AgentTypeOK, Started, Op, Phases
      <3> QED BY <1>0, <1>4, <2>2, <3>1, OpReset DEF CallAckDone
    <2> QED BY <1>4, <2>1, <2>2 DEF CallAckDone
  <1>5. CASE Restart
    <2>1. Idle \in Op /\ Idle.phase = "idle"
      BY DEF Idle, Started, Op, Phases
    <2> QED BY <1>0, <1>5, <2>1, OpReset DEF Restart
  <1>6. ASSUME NEW w \in Writers, InboxStep(w)
        PROVE  IInv'
    <2>1. Next
      BY <1>6 DEF InboxStep, Next
    <2> QED BY <1>0, <2>1, Inductive
  <1>7. CASE InboxFault
    <2>1. Next
      BY <1>7 DEF InboxFault, Next
    <2> QED BY <1>0, <2>1, Inductive
  <1>8. CASE Start \/ ReadPending \/ ReadInitiative \/ Carry \/ RewriteStatus \/ ApplyFails
             \/ ReadFails \/ (\E i \in todo : Skip(i) \/ ReadThread(i))
             \/ \E t \in Subjects : WriteThread(t) \/ Unlink(t)
    BY <1>1, <1>8 DEF Start, ReadPending, ReadInitiative, Carry, RewriteStatus, ApplyFails, ReadFails,
                   Skip, ReadThread, WriteThread, Unlink
  <1>9. CASE UNCHANGED allVars
    BY <1>1, <1>9 DEF allVars
  <1> QED BY <1>2, <1>3, <1>4, <1>5, <1>6, <1>7, <1>8, <1>9 DEF AgentNext, IngestStep, AgentStep

(* A call under way changes nothing of the other's, and stays what it is.   *)
LEMMA CallIs ==
    ASSUME IInv, NEW w \in Writers, NEW end \in {"returned", "raised"},
           Read(w) \/ Write(w, end) \/ Conflict(w) \/ VaultError(w)
    PROVE  /\ \A v \in Writers : v # w => op'[v] = op[v]
           /\ op[w].phase \in {"reading", "writing"} /\ op'[w].phase # "idle"
           /\ op'[w].posts = op[w].posts /\ op'[w].ids = op[w].ids
           /\ op'[w].phase = "returned" => Write(w, end)
           /\ UNCHANGED pending \/ Write(w, end)
  <1>1. op \in [Writers -> Op]
    BY DEF IInv, TypeOK
  <1>2. CASE Read(w)
    BY <1>1, <1>2 DEF Read, Op
  <1>3. CASE Write(w, end)
    BY <1>1, <1>3 DEF Write, Op
  <1>4. CASE Conflict(w)
    BY <1>1, <1>4 DEF Conflict, LastTry, Op
  <1>5. CASE VaultError(w)
    BY <1>1, <1>5 DEF VaultError, Op
  <1> QED BY <1>2, <1>3, <1>4, <1>5

(* What the two writers write.                                              *)
LEMMA NoticesWritten ==
    ASSUME AgentInductive, NEW end, Write(ingest, end)
    PROVE  pending' = Posted(pending, Notices(touched), revision)
  <1>1. op[ingest].phase = "writing" /\ op[ingest].posts = Notices(touched) /\ Batch # {}
    BY DEF AgentInductive, TakesTurns, Write
  <1>2. Notices(touched) # {}
    BY <1>1, BatchHasNotices
  <1>3. op[ingest].seen = pending /\ op[ingest].base = revision
    BY TwoWriters DEF AgentInductive, IInv, BaseIsSeen, Write
  <1> QED BY <1>1, <1>2, <1>3 DEF Write, Change

LEMMA AckWritten ==
    ASSUME AgentInductive, NEW end, Write(agent, end)
    PROVE  pending' = Acked(pending, done) /\ at = "acking"
  <1>1. op[agent].phase = "writing" /\ op[agent].posts = {} /\ op[agent].ids = done /\ at = "acking"
    BY DEF AgentInductive, TakesTurns, Write
  <1>3. op[agent].seen = pending
    BY TwoWriters DEF AgentInductive, IInv, BaseIsSeen, Write
  <1> QED BY <1>1, <1>3 DEF Write, Change

-----------------------------------------------------------------------------
LEMMA AgentTypeKeeps ==
    ASSUME AgentInductive, [AgentNext]_allVars
    PROVE  AgentTypeOK'
  <1>0. /\ AgentTypeOK /\ Counted /\ AgentKnows /\ MaxMaterial \in Nat
        /\ \A t \in Subjects : material[t] \in 0..MaxMaterial /\ carried[t] \in 0..MaxMaterial
    BY AgentAssumption DEF AgentInductive, AgentTypeOK
  <1>1. CASE UNCHANGED <<ingestVars, at, done, carried, unlinked>>
    BY <1>0, <1>1 DEF ingestVars, AgentTypeOK
  <1>2. ASSUME NEW t \in Subjects, WriteThread(t)
        PROVE  AgentTypeOK'
    <2>1. material[t] + 1 \in 0..MaxMaterial
      BY <1>0, <1>2 DEF WriteThread
    <2> QED BY <1>0, <1>2, <2>1 DEF WriteThread, FirstNew, AgentTypeOK, agentVars
  <1>3. ASSUME NEW t \in Subjects, Unlink(t)
        PROVE  AgentTypeOK'
    BY <1>0, <1>3 DEF Unlink, AgentTypeOK, ingestVars, agentVars
  <1>4. CASE NoticesDone
    BY <1>0, <1>4 DEF NoticesDone, AgentTypeOK, agentVars, Batch
  <1>5. CASE Start \/ ReadPending \/ ReadFails \/ CallAckDone \/ Finish \/ Restart \/ ApplyFails
    BY <1>0, <1>5 DEF Start, ReadPending, ReadFails, CallAckDone, Finish, Restart, ApplyFails, AgentTypeOK, ingestVars, Applying
  <1>6. ASSUME NEW i \in todo, Skip(i) \/ ReadThread(i)
        PROVE  AgentTypeOK'
    <2>1. i.id \in Ids
      BY <1>0, <1>6 DEF Skip, ReadThread, AgentKnows, Applying, Item
    <2> QED BY <1>0, <1>6, <2>1 DEF Skip, ReadThread, AgentTypeOK, ingestVars, Applying
  <1>7. CASE Carry
    <2>1. item.subject \in Subjects /\ got = material[item.subject]
      BY <1>0, <1>7 DEF Carry, AgentKnows, Named
    <2>2. carried' \in [Subjects -> 0..MaxMaterial]
      BY <1>0, <1>7, <2>1 DEF Carry, AgentTypeOK
    <2> QED BY <1>0, <1>7, <2>2 DEF Carry, AgentTypeOK, ingestVars, Applying
  <1>8. CASE RewriteStatus
    <2>1. item.id \in Ids
      BY <1>0, <1>8 DEF RewriteStatus, AgentKnows, Item
    <2> QED BY <1>0, <1>8, <2>1 DEF RewriteStatus, AgentTypeOK, ingestVars, Applying
  <1>9. CASE ReadInitiative \/ PostNotices \/ InboxFault \/ (\E w \in Writers : InboxStep(w)) \/ UNCHANGED allVars
    BY <1>1, <1>9 DEF ReadInitiative, PostNotices, InboxFault, InboxStep, allVars, agentVars
  <1> QED BY <1>2, <1>3, <1>4, <1>5, <1>6, <1>7, <1>8, <1>9, TwoWriters DEF AgentNext, IngestStep, AgentStep

LEMMA CountedKeeps ==
    ASSUME AgentInductive, [AgentNext]_allVars
    PROVE  Counted'
  <1>0. /\ Counted /\ AgentKnows /\ AgentTypeOK /\ MaxMaterial \in Nat
        /\ \A t \in Subjects : material[t] \in Nat /\ carried[t] \in Nat
    BY AgentAssumption DEF AgentInductive, AgentTypeOK
  <1>1. CASE UNCHANGED <<material, touched, carried>>
    BY <1>0, <1>1 DEF Counted
  <1>2. ASSUME NEW t \in Subjects, WriteThread(t)
        PROVE  Counted'
    <2>1. material' = [material EXCEPT ![t] = @ + 1] /\ touched' = [touched EXCEPT ![t] = material[t] + 1] /\ carried' = carried
      BY <1>2 DEF WriteThread, FirstNew
    <2> SUFFICES ASSUME NEW u \in Subjects
                 PROVE  carried'[u] <= material'[u] /\ touched'[u] \in {0, material'[u]}
      BY DEF Counted
    <2>2. CASE u = t
      BY <1>0, <2>1, <2>2 DEF Counted, AgentTypeOK
    <2>3. CASE u # t
      BY <1>0, <2>1, <2>3 DEF Counted, AgentTypeOK
    <2> QED BY <2>2, <2>3
  <1>3. CASE NoticesDone
    BY <1>0, <1>3 DEF NoticesDone, Counted
  <1>4. CASE Carry
    <2>1. item.subject \in Subjects /\ got = material[item.subject]
      BY <1>0, <1>4 DEF Carry, AgentKnows, Named
    <2> QED BY <1>0, <1>4, <2>1 DEF Carry, Counted, AgentTypeOK, ingestVars
  <1>5. \/ UNCHANGED <<material, touched, carried>> \/ NoticesDone \/ Carry
        \/ \E t \in Subjects : WriteThread(t)
    BY DEF AgentNext, IngestStep, AgentStep, PostNotices, InboxStep, Start, ReadPending, ReadInitiative,
           RewriteStatus, CallAckDone, Finish, Skip, ReadThread, ApplyFails, ReadFails, Restart, InboxFault,
           Unlink, ingestVars, allVars
  <1> QED BY <1>1, <1>2, <1>3, <1>4, <1>5

LEMMA TakesTurnsKeeps ==
    ASSUME AgentInductive, ~OnDemand, [AgentNext]_allVars
    PROVE  TakesTurns'
  <1> USE TwoWriters
  <1>0. /\ TakesTurns /\ IInv /\ op \in [Writers -> Op]
        /\ AgentTypeOK /\ MaxMaterial \in Nat
        /\ \A t \in Subjects : touched[t] \in Nat /\ material[t] \in Nat
    BY AgentAssumption DEF AgentInductive, IInv, TypeOK, AgentTypeOK
  <1>1. CASE UNCHANGED <<touched, op, at, done>>
    BY <1>0, <1>1 DEF TakesTurns, Batch
  <1>2. ASSUME NEW t \in Subjects, WriteThread(t)
        PROVE  TakesTurns'
    <2>1. op' = op /\ op[ingest].phase = "idle" /\ at' = at /\ done' = done /\ at = "idle"
      BY <1>0, <1>2 DEF WriteThread, vars, agentVars, TakesTurns
    <2> QED BY <1>0, <2>1 DEF TakesTurns
  <1>3. CASE PostNotices
    <2>1. Batch # {} /\ op' = [op EXCEPT ![ingest] = Started("reading", Notices(touched), {})]
          /\ UNCHANGED <<touched, at, done>>
      BY <1>3 DEF PostNotices, CallPost, ingestVars, agentVars
    <2>2. op'[ingest].posts = Notices(touched) /\ op'[agent] = op[agent] /\ Batch' = Batch
      BY <1>0, <2>1 DEF Started, Batch
    <2>3. at' = "idle"
      BY <1>0, <2>1 DEF TakesTurns
    <2> QED BY <1>0, <2>1, <2>2, <2>3 DEF TakesTurns
  <1>4. CASE NoticesDone
    <2>1. op'[ingest].phase = "idle" /\ op'[agent] = op[agent] /\ UNCHANGED <<at, done>>
      BY <1>0, <1>4 DEF NoticesDone, Return, Idle, Started, agentVars
    <2>2. Batch' = {}
      BY <1>4 DEF NoticesDone, Batch
    <2> QED BY <1>0, <2>1, <2>2 DEF TakesTurns
  <1>5. CASE Start
    BY <1>0, <1>5 DEF Start, TakesTurns, vars, ingestVars, Batch
  <1>6. CASE ReadPending \/ ReadInitiative \/ Carry \/ RewriteStatus \/ ApplyFails
             \/ ReadFails \/ (\E i \in todo : Skip(i) \/ ReadThread(i))
    <2>1. UNCHANGED <<op, touched>> /\ at \notin {"idle", "acking"}
      BY <1>6 DEF ReadPending, ReadInitiative, Carry, RewriteStatus, ApplyFails, ReadFails, Skip,
                  ReadThread, vars, ingestVars
    <2>2. op[agent].phase = "idle" /\ Batch = {} /\ Batch' = Batch
      BY <1>0, <2>1 DEF TakesTurns, Batch
    <2> QED BY <1>0, <2>1, <2>2 DEF TakesTurns
  <1>7. CASE CallAckDone
    <2>1. at = "picking" /\ UNCHANGED <<touched, done>> /\ op'[ingest] = op[ingest] /\ Batch' = Batch
      BY <1>0, <1>7 DEF CallAckDone, ingestVars, Batch
    <2>2. Batch = {}
      BY <1>0, <2>1 DEF TakesTurns
    <2>3. \/ op' = op
          \/ at' = "acking" /\ op'[agent].posts = {} /\ op'[agent].ids = done
      BY <1>0, <1>7 DEF CallAckDone, Started
    <2> QED BY <1>0, <2>1, <2>2, <2>3 DEF TakesTurns
  <1>8. CASE Finish \/ Restart
    <2>1. at # "idle" /\ UNCHANGED touched /\ op'[ingest] = op[ingest] /\ op'[agent] = Idle
      BY <1>0, <1>8 DEF Finish, Restart, Return, ingestVars
    <2>2. Batch = {} /\ Batch' = Batch /\ op'[agent].phase = "idle"
      BY <1>0, <2>1 DEF TakesTurns, Batch, Idle, Started
    <2> QED BY <1>0, <2>1, <2>2 DEF TakesTurns
  <1>9. ASSUME UNCHANGED <<touched, at, done>>, NEW w \in Writers, NEW end \in {"returned", "raised"},
               Read(w) \/ Write(w, end) \/ Conflict(w) \/ VaultError(w)
        PROVE  TakesTurns'
    <2>1. Batch' = Batch
      BY <1>9 DEF Batch
    <2>2. op[w].phase # "idle" /\ op'[w].posts = op[w].posts /\ op'[w].ids = op[w].ids
          /\ \A v \in Writers : v # w => op'[v] = op[v]
      BY <1>0, <1>9, CallIs
    <2>3. CASE w = ingest
      BY <1>0, <1>9, <2>1, <2>2, <2>3 DEF TakesTurns
    <2>4. CASE w = agent
      BY <1>0, <1>9, <2>1, <2>2, <2>4 DEF TakesTurns
    <2> QED BY <2>3, <2>4
  <1>10. CASE InboxFault \/ \E w \in Writers : InboxStep(w)
    <2>1. UNCHANGED <<touched, at, done>>
      BY <1>10 DEF InboxFault, InboxStep, ingestVars, agentVars
    <2>2. \/ HumanEdits
          \/ \E w \in Writers, end \in {"returned", "raised"} :
                 Read(w) \/ Write(w, end) \/ Conflict(w) \/ VaultError(w)
      BY <1>10 DEF InboxFault, InboxStep
    <2>3. CASE HumanEdits
      BY <1>1, <2>1, <2>3 DEF HumanEdits
    <2> QED BY <1>9, <2>1, <2>2, <2>3
  <1>11. CASE (\E t \in Subjects : Unlink(t)) \/ UNCHANGED allVars
    BY <1>1, <1>11 DEF Unlink, allVars, vars, ingestVars, agentVars
  <1> QED BY <1>2, <1>3, <1>4, <1>5, <1>6, <1>7, <1>8, <1>10, <1>11 DEF AgentNext, IngestStep, AgentStep

LEMMA NamesKeep ==
    ASSUME AgentInductive, ~OnDemand, [AgentNext]_allVars
    PROVE  ItemsAreNamed'
  <1> USE TwoWriters
  <1>0. /\ ItemsAreNamed /\ IInv /\ Counted /\ TakesTurns /\ revision \in Nat /\ pending \in SUBSET Item
        /\ AgentTypeOK /\ MaxMaterial \in Nat /\ touched \in [Subjects -> 0..MaxMaterial]
        /\ \A t \in Subjects : touched[t] \in Nat /\ material[t] \in Nat
    BY AgentAssumption DEF AgentInductive, IInv, TypeOK, AgentTypeOK
  <1>01. \A i \in Item : i.since \in Nat
    BY DEF Item
  <1>1. CASE UNCHANGED <<pending, material>>
    BY <1>0, <1>1 DEF ItemsAreNamed, Named, Typed
  <1>2. ASSUME NEW t \in Subjects, WriteThread(t)
        PROVE  ItemsAreNamed'
    <2>1. pending' = pending /\ \A u \in Subjects : material[u] <= material'[u] /\ material'[u] \in Nat
      BY <1>0, <1>2 DEF WriteThread, vars, AgentTypeOK
    <2> QED BY <1>0, <1>01, <2>1 DEF ItemsAreNamed, Named, Typed
  <1>3. ASSUME NEW end, Write(ingest, end), material' = material
        PROVE  ItemsAreNamed'
    <2> DEFINE posts == Notices(touched)
    <2>1. pending' = Posted(pending, posts, revision)
      BY <1>0, <1>3, NoticesWritten
    <2>2. posts \in SUBSET Post
      BY <1>0, NoticesArePosts
    <2>3. \A p \in posts : p.subject \in Subjects /\ p.since <= material[p.subject]
      <3> SUFFICES ASSUME NEW t \in Subjects, touched[t] > 0
                   PROVE  touched[t] <= material[t]
        BY DEF Notices
      <3> QED BY <1>0 DEF Counted
    <2> HIDE DEF posts
    <2> SUFFICES ASSUME NEW k \in pending'
                 PROVE  (Named(k) /\ k.since <= material[k.subject]) \/ Typed(k)
      BY <1>3 DEF ItemsAreNamed, Named, Typed
    <2>4. CASE k \in pending
      BY <1>0, <2>4 DEF ItemsAreNamed
    <2>5. ASSUME NEW i \in pending, NEW p \in posts, SameSubject(i, p), k = Merge(i, p)
          PROVE  Named(k) /\ k.since <= material[k.subject]
      <3>1. k.id = i.id /\ k.kind = i.kind /\ k.subject = i.subject /\ k.since = i.since
        BY <1>0, <2>2, <2>5, MergeItem
      <3>2. Named(i) /\ i.since <= material[i.subject]
        BY <1>0, <2>5 DEF ItemsAreNamed, Typed, SameSubject
      <3> QED BY <3>1, <3>2 DEF Named
    <2>6. ASSUME NEW p \in posts, k = Fresh(p, revision)
          PROVE  Named(k) /\ k.since <= material[k.subject]
      BY <2>3, <2>6 DEF Named, Fresh
    <2> QED BY <1>0, <2>1, <2>2, <2>4, <2>5, <2>6, PostedCases
  <1>4. ASSUME NEW end, Write(agent, end), material' = material
        PROVE  ItemsAreNamed'
    <2>1. pending' \subseteq pending
      BY <1>0, <1>4, AckWritten DEF Acked
    <2> QED BY <1>0, <1>4, <2>1 DEF ItemsAreNamed, Named, Typed
  <1>5. ASSUME HumanEdits, material' = material
        PROVE  ItemsAreNamed'
    <2>1. pending' \subseteq pending \cup {HumanLine(revision)}
      BY <1>5 DEF HumanEdits
    <2>2. Typed(HumanLine(revision))
      BY DEF Typed, HumanLine
    <2>3. \A i \in pending' : i \in pending \/ Typed(i)
      BY <2>1, <2>2
    <2> QED BY <1>0, <1>5, <2>3 DEF ItemsAreNamed, Named, Typed
  <1>6. CASE InboxFault \/ \E w \in Writers : InboxStep(w)
    <2>1. material' = material
      BY <1>6 DEF InboxFault, InboxStep, ingestVars
    <2>2. \/ HumanEdits
          \/ \E w \in Writers, end \in {"returned", "raised"} :
                 Read(w) \/ Write(w, end) \/ Conflict(w) \/ VaultError(w)
      BY <1>6 DEF InboxFault, InboxStep
    <2>3. HumanEdits \/ UNCHANGED pending
          \/ \E w \in Writers, end \in {"returned", "raised"} : Write(w, end)
      BY <1>0, <2>2, CallIs
    <2> QED BY <1>1, <1>3, <1>4, <1>5, <2>1, <2>3
  <1>7. \/ UNCHANGED <<pending, material>> \/ InboxFault \/ (\E w \in Writers : InboxStep(w))
        \/ \E t \in Subjects : WriteThread(t)
    BY DEF AgentNext, IngestStep, AgentStep, PostNotices, CallPost, NoticesDone, Return, Start, ReadPending,
           ReadInitiative, Carry, RewriteStatus, CallAckDone, Finish, Skip, ReadThread, ApplyFails, ReadFails,
           Restart, Unlink, ingestVars, vars, allVars
  <1> QED BY <1>1, <1>2, <1>6, <1>7

LEMMA KnowsKeeps ==
    ASSUME AgentInductive, ~OnDemand, [AgentNext]_allVars
    PROVE  AgentKnows'
  <1>0. /\ AgentKnows /\ ItemsAreNamed /\ Counted /\ TakesTurns /\ pending \in SUBSET Item
        /\ AgentTypeOK /\ carried \in [Subjects -> 0..MaxMaterial]
        /\ MaxMaterial \in Nat
        /\ \A t \in Subjects : carried[t] \in Nat /\ material[t] \in Nat /\ carried[t] <= material[t]
    BY AgentAssumption DEF AgentInductive, IInv, TypeOK, AgentTypeOK, Counted
  <1> USE DEF Applying
  <1>1. CASE UNCHANGED <<material, carried, unlinked, at, done, todo, item, got>>
    BY <1>0, <1>1 DEF AgentKnows, Named, CarriedOver
  <1>2. CASE at' \in {"idle", "reading"}
    BY <1>2 DEF AgentKnows
  <1>3. ASSUME NEW t \in Subjects, WriteThread(t)
        PROVE  AgentKnows'
    <2>1. at = "idle" /\ at' = at
      BY <1>0, <1>3 DEF WriteThread, TakesTurns, agentVars
    <2> QED BY <1>2, <2>1
  <1>4. ASSUME NEW t \in Subjects, Unlink(t)
        PROVE  AgentKnows'
    <2>1. UNCHANGED <<material, carried, at, done, todo, item, got>> /\ unlinked \subseteq unlinked'
      BY <1>4 DEF Unlink, ingestVars, agentVars
    <2> QED BY <1>0, <2>1 DEF AgentKnows, Named, CarriedOver
  <1>5. CASE ReadPending
    <2>1. at' = "picking" /\ done' = {} /\ todo' = {i \in pending : i.kind = "thread_update"}
      BY <1>5 DEF ReadPending
    <2>2. todo' \subseteq Item /\ \A i \in todo' : Named(i)
      BY <1>0, <2>1 DEF ItemsAreNamed, Typed
    <2> QED BY <2>1, <2>2 DEF AgentKnows, Named
  <1>6. ASSUME NEW i \in todo, Skip(i)
        PROVE  AgentKnows'
    <2>1. /\ at = "picking" /\ i.subject \in unlinked /\ todo' = todo \ {i} /\ done' = done \cup {i.id}
          /\ UNCHANGED <<material, carried, unlinked, at>>
      BY <1>6 DEF Skip, ingestVars
    <2>2. i.id[2] = i.subject /\ i.subject \in Subjects
      BY <1>0, <2>1 DEF AgentKnows, Named
    <2>3. \A d \in done' : d[2] \in Subjects /\ (d[2] \in unlinked \/ carried[d[2]] = material[d[2]])
      BY <1>0, <2>1, <2>2 DEF AgentKnows, CarriedOver
    <2>4. todo' \subseteq Item /\ \A j \in todo' : Named(j)
      BY <1>0, <2>1 DEF AgentKnows
    <2> QED BY <2>1, <2>3, <2>4 DEF AgentKnows, Named, CarriedOver
  <1>7. ASSUME NEW i \in todo, ReadThread(i)
        PROVE  AgentKnows'
    <2>1. /\ at = "picking" /\ todo' = todo \ {i} /\ item' = i /\ got' = material[i.subject]
          /\ at' = "carrying" /\ UNCHANGED <<material, carried, unlinked, done>>
      BY <1>7 DEF ReadThread, ingestVars
    <2>2. i \in Item /\ Named(i)
      BY <1>0, <2>1 DEF AgentKnows
    <2>3. \A d \in done' : d[2] \in Subjects /\ (d[2] \in unlinked \/ carried[d[2]] = material[d[2]])
      BY <1>0, <2>1 DEF AgentKnows, CarriedOver
    <2>4. todo' \subseteq Item /\ \A j \in todo' : Named(j)
      BY <1>0, <2>1 DEF AgentKnows
    <2> QED BY <2>1, <2>2, <2>3, <2>4 DEF AgentKnows, Named, CarriedOver
  <1>8. CASE Carry
    <2>0. /\ at = "carrying" /\ at' = "status" /\ UNCHANGED <<material, unlinked, done, todo, item, got>>
          /\ carried' = [carried EXCEPT ![item.subject] = IF @ < got THEN got ELSE @]
      BY <1>8 DEF Carry, ingestVars
    <2>1. item \in Item /\ Named(item) /\ item.subject \in Subjects /\ got = material[item.subject]
      BY <1>0, <2>0 DEF AgentKnows, Named
    <2>2. carried'[item.subject] = material[item.subject]
      BY <1>0, <2>0, <2>1
    <2>3. \A t \in Subjects : t # item.subject => carried'[t] = carried[t]
      BY <1>0, <2>0
    <2>4. \A t \in Subjects : carried[t] = material[t] => carried'[t] = material[t]
      BY <2>2, <2>3
    <2>5. \A d \in done' : d[2] \in Subjects /\ (d[2] \in unlinked \/ carried'[d[2]] = material[d[2]])
      BY <1>0, <2>0, <2>4 DEF AgentKnows, CarriedOver
    <2>6. todo' \subseteq Item /\ \A j \in todo' : Named(j)
      BY <1>0, <2>0 DEF AgentKnows
    <2> QED BY <2>0, <2>1, <2>2, <2>5, <2>6 DEF AgentKnows, Named, CarriedOver
  <1>9. CASE RewriteStatus
    <2>1. /\ at = "status" /\ at' = "picking" /\ done' = done \cup {item.id}
          /\ UNCHANGED <<material, carried, unlinked, todo>>
      BY <1>9 DEF RewriteStatus, ingestVars
    <2>2. item.id[2] = item.subject /\ item.subject \in Subjects /\ carried[item.subject] = material[item.subject]
      BY <1>0, <2>1 DEF AgentKnows, Named
    <2>3. \A d \in done' : d[2] \in Subjects /\ (d[2] \in unlinked \/ carried[d[2]] = material[d[2]])
      BY <1>0, <2>1, <2>2 DEF AgentKnows, CarriedOver
    <2>4. todo' \subseteq Item /\ \A j \in todo' : Named(j)
      BY <1>0, <2>1 DEF AgentKnows
    <2> QED BY <2>1, <2>3, <2>4 DEF AgentKnows, Named, CarriedOver
  <1>10. CASE ApplyFails
    <2>1. /\ at \in {"carrying", "status"} /\ at' = "picking"
          /\ UNCHANGED <<material, carried, unlinked, todo, done>>
      BY <1>10 DEF ApplyFails, ingestVars
    <2>3. \A d \in done' : d[2] \in Subjects /\ (d[2] \in unlinked \/ carried[d[2]] = material[d[2]])
      BY <1>0, <2>1 DEF AgentKnows, CarriedOver
    <2>4. todo' \subseteq Item /\ \A j \in todo' : Named(j)
      BY <1>0, <2>1 DEF AgentKnows
    <2> QED BY <2>1, <2>3, <2>4 DEF AgentKnows, Named, CarriedOver
  <1>11. CASE CallAckDone
    <2>1. /\ at = "picking" /\ at' \in {"idle", "acking"}
          /\ UNCHANGED <<material, carried, unlinked, todo, done>>
      BY <1>11 DEF CallAckDone, ingestVars
    <2>3. \A d \in done' : d[2] \in Subjects /\ (d[2] \in unlinked \/ carried[d[2]] = material[d[2]])
      BY <1>0, <2>1 DEF AgentKnows, CarriedOver
    <2>4. todo' \subseteq Item /\ \A j \in todo' : Named(j)
      BY <1>0, <2>1 DEF AgentKnows
    <2> QED BY <2>1, <2>3, <2>4 DEF AgentKnows, Named, CarriedOver
  <1>12. CASE Start \/ ReadFails \/ Finish \/ Restart
    BY <1>2, <1>12 DEF Start, ReadFails, Finish, Restart
  <1>13. CASE ReadInitiative \/ PostNotices \/ NoticesDone \/ InboxFault \/ (\E w \in Writers : InboxStep(w))
              \/ UNCHANGED allVars
    BY <1>1, <1>13 DEF ReadInitiative, PostNotices, NoticesDone, InboxFault, InboxStep, ingestVars, agentVars, allVars
  <1> QED BY <1>3, <1>4, <1>5, <1>6, <1>7, <1>8, <1>9, <1>10, <1>11, <1>12, <1>13, TwoWriters
          DEF AgentNext, IngestStep, AgentStep

(* A post leaves an item about its thread, no later than it and what was    *)
(* pending about the thread.                                                *)
LEMMA PostedReaches ==
    ASSUME NEW items \in SUBSET Item, NEW posts \in SUBSET Post, NEW n \in Nat,
           NEW p \in posts, NEW m \in Nat, p.since <= m,
           \A i \in items : SameSubject(i, p) => i.since <= m
    PROVE  \E j \in Posted(items, posts, n) : j.subject = p.subject /\ j.since <= m
  <1>1. ASSUME NEW i \in items, SameSubject(i, p)
        PROVE  \E j \in Posted(items, posts, n) : j.subject = p.subject /\ j.since <= m
    <2>1. <<i, p>> \in {y \in items \X posts : SameSubject(y[1], y[2])}
      BY <1>1
    <2>2. Merge(i, p) \in Posted(items, posts, n)
      BY <2>1 DEF Posted
    <2>3. Merge(i, p).subject = p.subject /\ Merge(i, p).since <= m
      BY <1>1, MergeItem DEF SameSubject
    <2> QED BY <2>2, <2>3
  <1>2. ASSUME \A i \in items : ~SameSubject(i, p)
        PROVE  \E j \in Posted(items, posts, n) : j.subject = p.subject /\ j.since <= m
    <2>1. Fresh(p, n) \in Posted(items, posts, n)
      BY <1>2 DEF Posted
    <2>2. Fresh(p, n).subject = p.subject /\ Fresh(p, n).since = p.since
      BY DEF Fresh
    <2> QED BY <2>1, <2>2
  <1> QED BY <1>1, <1>2

LEMMA OwedKeeps ==
    ASSUME AgentInductive, ~OnDemand, [AgentNext]_allVars
    PROVE  StillOwed'
  <1> USE TwoWriters
  <1>0. /\ StillOwed /\ IInv /\ AgentKnows /\ ItemsAreNamed /\ Counted /\ TakesTurns
        /\ pending \in SUBSET Item /\ revision \in Nat
        /\ AgentTypeOK /\ MaxMaterial \in Nat /\ touched \in [Subjects -> 0..MaxMaterial]
        /\ carried \in [Subjects -> 0..MaxMaterial] /\ op \in [Writers -> Op]
    BY AgentAssumption DEF AgentInductive, IInv, TypeOK, AgentTypeOK
  <1>01. \A t \in Subjects : /\ carried[t] \in Nat /\ material[t] \in Nat /\ touched[t] \in Nat
                             /\ carried[t] <= material[t] /\ touched[t] \in {0, material[t]}
                             /\ t \in Batch <=> touched[t] > 0
    BY <1>0 DEF AgentTypeOK, Counted, Batch
  <1>02. /\ \A i \in Item : i.since \in Nat
         /\ \A i \in pending : i.id[2] = i.subject
         /\ ItemsAreNamed'
    BY <1>0, NamesKeep DEF Item, ItemsAreNamed, Named, Typed
  <1>03. \A t \in Subjects : Due(t) \in Nat /\ Due(t) <= material[t]
    BY <1>01 DEF Due
  <1> DEFINE Reached(u, items) == \E i \in items : i.subject = u /\ i.since <= carried[u] + 1
  <1>1. CASE UNCHANGED <<material, carried, touched, pending, op>> /\ unposted \subseteq unposted' /\ unlinked \subseteq unlinked'
    <2>1. \A t \in Subjects : Due(t)' = Due(t)
      BY <1>1 DEF Due, Batch
    <2> QED BY <1>0, <1>1, <2>1 DEF StillOwed
  <1>2. CASE UNCHANGED <<material, carried, touched, pending, unposted, unlinked>> /\ op'[ingest] = op[ingest]
    <2>1. \A t \in Subjects : Due(t)' = Due(t)
      BY <1>2 DEF Due, Batch
    <2> QED BY <1>0, <1>2, <2>1 DEF StillOwed
  <1>3. ASSUME NEW t \in Subjects, WriteThread(t)
        PROVE  StillOwed'
    <2>1. /\ op' = op /\ op[ingest].phase = "idle" /\ touched[t] = 0
          /\ UNCHANGED <<carried, pending, unposted, unlinked>>
          /\ material' = [material EXCEPT ![t] = @ + 1] /\ touched' = [touched EXCEPT ![t] = material[t] + 1]
      BY <1>3 DEF WriteThread, vars, FirstNew
    <2>2. ASSUME NEW u \in Subjects
          PROVE  Due(u)' = Due(u)
      <3>1. u \in Batch' <=> touched'[u] > 0
        BY DEF Batch
      <3>2. CASE u = t
        <4>1. material'[u] = material[u] + 1 /\ touched'[u] > 0 /\ u \notin Batch
          BY <1>0, <1>01, <2>1, <3>2 DEF AgentTypeOK
        <4> QED BY <1>01, <2>1, <3>1, <4>1 DEF Due
      <3>3. CASE u # t
        <4>1. material'[u] = material[u] /\ touched'[u] = touched[u]
          BY <1>0, <2>1, <3>3 DEF AgentTypeOK
        <4> QED BY <1>01, <2>1, <3>1, <4>1 DEF Due
      <3> QED BY <3>2, <3>3
    <2> QED BY <1>0, <2>1, <2>2 DEF StillOwed
  <1>4. CASE PostNotices
    <2>1. /\ op[ingest].phase = "idle" /\ op'[ingest].phase = "reading"
          /\ UNCHANGED <<material, carried, touched, pending, unposted, unlinked>>
      BY <1>0, <1>4 DEF PostNotices, CallPost, Started, ingestVars
    <2>2. \A t \in Subjects : Due(t)' = Due(t)
      BY <2>1 DEF Due, Batch
    <2> QED BY <1>0, <2>1, <2>2 DEF StillOwed
  <1>5. CASE NoticesDone
    <2>1. /\ op[ingest].phase \in {"returned", "raised"} /\ UNCHANGED <<material, carried, pending, unlinked>>
          /\ unposted' = IF op[ingest].phase = "raised" THEN unposted \cup Batch ELSE unposted
          /\ touched' = [t \in Subjects |-> 0]
      BY <1>5 DEF NoticesDone, Return
    <2>3. \A t \in Subjects : Due(t)' = material[t]
      BY <2>1 DEF Due, Batch
    <2> SUFFICES ASSUME NEW t \in Subjects, carried[t] < material[t], t \notin unposted', t \notin unlinked
                 PROVE  Reached(t, pending)
      BY <2>1, <2>3 DEF StillOwed
    <2>2. Due(t) = material[t] /\ t \notin unposted
      BY <2>1 DEF Due
    <2> QED BY <1>0, <2>2 DEF StillOwed
  <1>6. CASE Carry
    <2>0. /\ at = "carrying" /\ UNCHANGED <<material, touched, pending, op, unposted, unlinked>>
          /\ carried' = [carried EXCEPT ![item.subject] = IF @ < got THEN got ELSE @]
      BY <1>6 DEF Carry, ingestVars, vars
    <2>1. item.subject \in Subjects /\ got = material[item.subject]
      BY <1>0, <2>0 DEF AgentKnows, Named
    <2>2. carried'[item.subject] = material[item.subject]
      BY <1>0, <1>01, <2>0, <2>1
    <2>3. \A t \in Subjects : Due(t)' = Due(t)
      BY <2>0 DEF Due, Batch
    <2> SUFFICES ASSUME NEW t \in Subjects, carried'[t] < Due(t), t \notin unposted, t \notin unlinked
                 PROVE  \E i \in pending : i.subject = t /\ i.since <= carried'[t] + 1
      BY <2>0, <2>3 DEF StillOwed
    <2>4. t # item.subject
      BY <1>01, <1>03, <2>2
    <2>5. carried'[t] = carried[t]
      BY <1>0, <2>0, <2>4
    <2> QED BY <1>0, <2>5 DEF StillOwed
  <1>7. ASSUME UNCHANGED <<material, carried, touched, unposted, unlinked>>, HumanEdits
        PROVE  StillOwed'
    <2>1. op' = op /\ pending \subseteq pending'
      BY <1>7 DEF HumanEdits
    <2>2. \A t \in Subjects : Due(t)' = Due(t)
      BY <1>7, <2>1 DEF Due, Batch
    <2> QED BY <1>0, <1>7, <2>1, <2>2 DEF StillOwed
  <1>8. ASSUME UNCHANGED <<material, carried, touched, unposted, unlinked>>,
               NEW end \in {"returned", "raised"},
               Read(agent) \/ Write(agent, end) \/ Conflict(agent) \/ VaultError(agent)
        PROVE  StillOwed'
    <2>1. op'[ingest] = op[ingest] /\ (UNCHANGED pending \/ Write(agent, end))
      BY <1>0, <1>8, CallIs
    <2>2. CASE UNCHANGED pending
      BY <1>2, <1>8, <2>1, <2>2
    <2>3. CASE Write(agent, end)
      <3>1. pending' = Acked(pending, done) /\ at = "acking"
        BY <2>3, AckWritten
      <3>2. \A t \in Subjects : Due(t)' = Due(t)
        BY <1>8, <2>1 DEF Due, Batch
      <3> SUFFICES ASSUME NEW t \in Subjects, carried[t] < Due(t), t \notin unposted, t \notin unlinked
                   PROVE  Reached(t, pending')
        BY <1>8, <3>2 DEF StillOwed
      <3>3. PICK i \in pending : i.subject = t /\ i.since <= carried[t] + 1
        BY <1>0 DEF StillOwed
      <3>4. i.id \notin done
        <4>1. carried[t] # material[t]
          BY <1>01, <1>03
        <4>2. i.id[2] = t
          BY <1>02, <3>3
        <4> QED BY <1>0, <3>1, <4>1, <4>2 DEF AgentKnows, CarriedOver, Applying
      <3> QED BY <3>1, <3>3, <3>4 DEF Acked
    <2> QED BY <2>1, <2>2, <2>3
  <1>9. ASSUME UNCHANGED <<material, carried, touched, unposted, unlinked>>,
               NEW end \in {"returned", "raised"},
               Read(ingest) \/ Write(ingest, end) \/ Conflict(ingest) \/ VaultError(ingest)
        PROVE  StillOwed'
    <2>1. /\ op[ingest].phase \in {"reading", "writing"}
          /\ op'[ingest].phase = "returned" => Write(ingest, end)
          /\ UNCHANGED pending \/ Write(ingest, end)
      BY <1>0, <1>9, CallIs
    <2>2. CASE ~Write(ingest, end)
      <3>1. \A t \in Subjects : Due(t)' = Due(t)
        BY <1>9, <2>1, <2>2 DEF Due, Batch
      <3> QED BY <1>0, <1>9, <2>1, <2>2, <3>1 DEF StillOwed
    <2>3. CASE Write(ingest, end)
      <3> DEFINE posts == Notices(touched)
      <3>1. pending' = Posted(pending, posts, revision)
        BY <2>3, NoticesWritten
      <3>2. posts \in SUBSET Post
        BY <1>0, NoticesArePosts
      <3>3. \A t \in Batch : [subject |-> t, since |-> touched[t], trigger |-> FALSE] \in posts
        BY DEF Batch, Notices
      <3> HIDE DEF posts
      <3>4. \A t \in Subjects : Due(t)' <= material[t]
        BY <1>01, <1>9 DEF Due
      <3>5. \A t \in Subjects : t \in Batch \/ Due(t) = material[t]
        BY DEF Due
      <3> SUFFICES ASSUME NEW t \in Subjects, carried[t] < Due(t)', t \notin unposted, t \notin unlinked
                   PROVE  Reached(t, pending')
        BY <1>9 DEF StillOwed
      <3>6. Due(t)' \in Nat
        BY <1>01, <1>9 DEF Due
      <3>7. CASE carried[t] < Due(t)
        <4>1. PICK i \in pending : i.subject = t /\ i.since <= carried[t] + 1
          BY <1>0, <3>7 DEF StillOwed
        <4>2. PICK j \in Posted(pending, posts, revision) : j.id = i.id /\ j.since <= i.since
          BY <1>0, <3>2, PostedKeeps
        <4>3. j.subject = t
          BY <1>02, <3>1, <4>1, <4>2 DEF ItemsAreNamed, Named, Typed
        <4>4. j.since \in Nat /\ i.since \in Nat
          BY <1>0, <1>02, <3>2, <4>2, PostedItems
        <4> QED BY <1>01, <3>1, <4>1, <4>2, <4>3, <4>4
      <3>8. CASE ~(carried[t] < Due(t))
        <4>1. t \in Batch
          BY <1>01, <3>4, <3>5, <3>6, <3>8
        <4>2. touched[t] = material[t] /\ material[t] <= carried[t] + 1
          <5>1. op[ingest].phase # "returned"
            BY <2>1
          <5>2. Due(t) = material[t] - 1
            BY <4>1, <5>1 DEF Due
          <5> QED BY <1>01, <3>8, <4>1, <5>2
        <4> DEFINE p == [subject |-> t, since |-> touched[t], trigger |-> FALSE]
        <4>3. p \in posts /\ p.subject = t /\ p.since <= carried[t] + 1
          BY <1>01, <3>3, <4>1, <4>2
        <4>4. \A i \in pending : SameSubject(i, p) => i.since <= carried[t] + 1
          <5> SUFFICES ASSUME NEW i \in pending, SameSubject(i, p)
                       PROVE  i.since <= carried[t] + 1
            OBVIOUS
          <5>1. i.kind = "thread_update" /\ i.subject = t
            BY DEF SameSubject
          <5>2. i.since <= material[t]
            BY <1>0, <5>1 DEF ItemsAreNamed, Typed
          <5>3. i.since \in Nat
            BY <1>0, <1>02
          <5> QED BY <1>01, <4>2, <5>2, <5>3
        <4> HIDE DEF p
        <4>5. carried[t] + 1 \in Nat
          BY <1>01
        <4>6. \E j \in Posted(pending, posts, revision) : j.subject = p.subject /\ j.since <= carried[t] + 1
          BY <1>0, <3>2, <4>3, <4>4, <4>5, PostedReaches
        <4> QED BY <3>1, <4>3, <4>6
      <3> QED BY <3>7, <3>8
    <2> QED BY <2>2, <2>3
  <1>10. CASE InboxFault \/ \E w \in Writers : InboxStep(w)
    <2>1. UNCHANGED <<material, carried, touched, unposted, unlinked>>
      BY <1>10 DEF InboxFault, InboxStep, ingestVars
    <2>2. \/ HumanEdits
          \/ \E w \in Writers, end \in {"returned", "raised"} :
                 Read(w) \/ Write(w, end) \/ Conflict(w) \/ VaultError(w)
      BY <1>10 DEF InboxFault, InboxStep
    <2> QED BY <1>7, <1>8, <1>9, <2>1, <2>2
  <1>11. CASE CallAckDone \/ Finish \/ Restart
    <2>1. UNCHANGED <<material, carried, touched, pending, unposted, unlinked>> /\ op'[ingest] = op[ingest]
      BY <1>0, <1>11 DEF CallAckDone, Finish, Restart, Return, ingestVars
    <2> QED BY <1>2, <2>1
  <1>12. CASE Start \/ ReadPending \/ ReadInitiative \/ RewriteStatus \/ ApplyFails \/ ReadFails
              \/ (\E i \in todo : Skip(i) \/ ReadThread(i)) \/ (\E t \in Subjects : Unlink(t)) \/ UNCHANGED allVars
    <2>1. UNCHANGED <<material, carried, touched, pending, op, unposted>> /\ unlinked \subseteq unlinked'
      BY <1>12 DEF Start, ReadPending, ReadInitiative, RewriteStatus, ApplyFails, ReadFails, Skip, ReadThread,
                   Unlink, ingestVars, vars, allVars
    <2> QED BY <1>1, <2>1
  <1> QED BY <1>3, <1>4, <1>5, <1>6, <1>10, <1>11, <1>12 DEF AgentNext, IngestStep, AgentStep

(* Under the loop alone, what the agent has read, carried and is about to    *)
(* ack is true of the pages, and every item of a thread that is not carried  *)
(* has a notice, whatever fails and wherever a restart falls.                *)
THEOREM AgentInductiveHolds == ASSUME ~OnDemand PROVE AgentSpec => []AgentInductive
  <1>1. AgentInductive /\ [AgentNext]_allVars => AgentInductive'
    BY PageKeeps, AgentTypeKeeps, CountedKeeps, TakesTurnsKeeps, NamesKeep, KnowsKeeps, OwedKeeps
    DEF AgentInductive
  <1> QED BY <1>1, AgentInitInductive, PTL DEF AgentSpec

(* run_once acks only what it has applied, and an item that was merged into  *)
(* keeps its earlier since: no message is forgotten, for any number of       *)
(* threads, faults and human edits.                                          *)
THEOREM NothingIsForgotten == ASSUME ~OnDemand PROVE AgentSpec => []NothingForgotten
  <1>1. ASSUME AgentInductive PROVE NothingForgotten
    <2> SUFFICES ASSUME NEW t \in Subjects, carried[t] < material[t], t \notin Batch,
                        t \notin unposted, t \notin unlinked
                 PROVE  \E i \in pending : i.subject = t /\ i.since <= carried[t] + 1
      BY DEF NothingForgotten
    <2>1. Due(t) = material[t]
      BY DEF Due
    <2> QED BY <1>1, <2>1 DEF AgentInductive, StillOwed
  <1> QED BY <1>1, AgentInductiveHolds, PTL
=============================================================================
