----------------------------- MODULE InboxItems -----------------------------
(***************************************************************************)
(* Inbox Items and what posting and acking do to the Pending list          *)
(* (shared/inbox/interface.py). Pending is kept as a set: its order is the *)
(* order of the ids, which are handed out in increasing stamps. Titles and *)
(* links are left out; Done is a log that nothing reads back.              *)
(***************************************************************************)
EXTENDS Naturals

CONSTANTS
    Subjects,   \* (channel, thread slug) pairs
    Messages,   \* message numbers, in the order of the chat
    Calls,      \* the sets of posts that callers post in one call
    NoSubject   \* a line typed by a human names no thread

ASSUME ItemsAssumption == NoSubject \notin Subjects /\ Messages \in SUBSET Nat

Kinds == {"thread_update", "request"}

(* A post carries the first message with new material.                      *)
Post == [subject : Subjects, since : Messages, trigger : BOOLEAN]

(* The posts of one call are about different threads: a batch has one bucket *)
(* per thread.                                                               *)
ASSUME CallsAssumption ==
    \A posts \in Calls :
        /\ posts # {} /\ posts \subseteq Post
        /\ \A p, q \in posts : p.subject = q.subject => p = q

(* The id is minted from the subject and the time of the post.              *)
Ids == Nat \X (Subjects \cup {NoSubject})
Item == [id : Ids, kind : Kinds, subject : Subjects \cup {NoSubject},
         since : Nat, trigger : BOOLEAN]

SameSubject(item, post) ==
    item.kind = "thread_update" /\ item.subject = post.subject

Fresh(post, stamp) ==
    [id |-> <<stamp, post.subject>>, kind |-> "thread_update",
     subject |-> post.subject, since |-> post.since, trigger |-> post.trigger]

(* An item already pending keeps its id and its earlier since.              *)
MergeMutant(item, post) == [item EXCEPT !.since = post.since]  \* the latest since wins
Merge(item, post) == [item EXCEPT !.trigger = item.trigger \/ post.trigger]

(* The change post() makes to what it read.                                 *)
Posted(pending, posts, stamp) ==
    {i \in pending : \A p \in posts : ~SameSubject(i, p)}
    \cup {Merge(x[1], x[2]) : x \in {y \in pending \X posts : SameSubject(y[1], y[2])}}
    \cup {Fresh(p, stamp) : p \in {q \in posts : \A i \in pending : ~SameSubject(i, q)}}

(* The change ack() makes.                                                  *)
Acked(pending, ids) == {i \in pending : i.id \notin ids}

(* A line a human types into Pending is read as a request.                  *)
HumanLine(stamp) ==
    [id |-> <<stamp, NoSubject>>, kind |-> "request", subject |-> NoSubject,
     since |-> 0, trigger |-> FALSE]

=============================================================================
