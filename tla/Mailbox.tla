------------------------------ MODULE Mailbox ------------------------------
(***************************************************************************)
(* What an Inbox promises its users (ADR-0014): a list where each call of  *)
(* post and ack takes effect at once, on everything posted before it, or   *)
(* not at all.                                                             *)
(***************************************************************************)
EXTENDS InboxItems

VARIABLES items, stamp

Init == items = {} /\ stamp = 0

PostAll(posts) ==
    /\ items' = Posted(items, posts, stamp)
    /\ stamp' = stamp + 1

Ack(ids) ==
    /\ items' = Acked(items, ids)
    /\ stamp' = stamp + 1

Type ==
    /\ items' = items \cup {HumanLine(stamp)}
    /\ stamp' = stamp + 1

Note == UNCHANGED items /\ stamp' = stamp + 1

Next ==
    \/ \E posts \in Calls : PostAll(posts)
    \/ \E ids \in SUBSET {i.id : i \in items} : Ack(ids)
    \/ Type
    \/ Note

Spec == Init /\ [][Next]_<<items, stamp>>
=============================================================================
