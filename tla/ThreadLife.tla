----------------------------- MODULE ThreadLife -----------------------------
(***************************************************************************)
(* What the wiki promises of a Channel's Threads (threads.py:8-12, Spec    *)
(* l.107): an id is one Thread for ever; it takes messages only while it   *)
(* is open, and is active then; it falls stale only when nothing in it is  *)
(* young; a human ends it for good; and it moves to the archive at once,   *)
(* with all its messages.                                                  *)
(*                                                                         *)
(* A vault that merges breaks this for the messages of the merge, and only *)
(* for those: they may come to be in a Thread that is stale or ended, and  *)
(* an ended one may be archived without them.                              *)
(***************************************************************************)
EXTENDS Naturals

CONSTANTS
    Ids,
    Merges   \* whether the vault merges what is written over a stale copy

VARIABLES
    phase,    \* how far each Thread has come
    kept,     \* the buckets of messages in it
    written,  \* buckets so far
    old,      \* those of more than thread_stale_days ago
    merged    \* those of a merge that left the Thread stale, or ended

vars == <<phase, kept, written, old, merged>>

Init ==
    /\ phase = [s \in Ids |-> "none"] /\ kept = [s \in Ids |-> {}]
    /\ written = 0 /\ old = 0
    /\ merged = [state \in {"stale", "ended"} |-> {}]

Moves(s, from, to) == phase[s] \in from /\ phase' = [phase EXCEPT ![s] = to]
Keeps(s) == kept' = [kept EXCEPT ![s] = @ \cup {written + 1}]

\* A new Thread begins with a bucket, an open one goes on with it.
Takes(s) ==
    /\ Moves(s, {"none", "active", "stale"}, "active") /\ Keeps(s)
    /\ written' = written + 1
    /\ UNCHANGED <<old, merged>>

\* A merge leaves the bucket with a Thread that is not active; the archive's
\* copy does not get it.
TakesMerged(s, state) ==
    /\ Merges
    /\ \/ phase[s] = state /\ Keeps(s)
       \/ phase[s] = "archived" /\ state = "ended" /\ UNCHANGED kept
    /\ written' = written + 1
    /\ merged' = [merged EXCEPT ![state] = @ \cup {written + 1}]
    /\ UNCHANGED <<phase, old>>

\* The mark may be merged with young buckets.
FallsSilent(s) ==
    /\ Moves(s, {"active"}, "stale")
    /\ \E young \in SUBSET kept[s] :
         /\ young # {} => Merges
         /\ \A b \in kept[s] \ young : b <= old
         /\ merged' = [merged EXCEPT !["stale"] = @ \cup young]
    /\ UNCHANGED <<kept, written, old>>

Ends(s) == Moves(s, {"active", "stale"}, "ended") /\ UNCHANGED <<kept, written, old, merged>>

Retires(s) ==
    /\ Moves(s, {"ended"}, "archived")
    /\ \E lost \in SUBSET (kept[s] \cap merged["ended"]) : kept' = [kept EXCEPT ![s] = @ \ lost]
    /\ UNCHANGED <<written, old, merged>>

Days == old' = written /\ UNCHANGED <<phase, kept, written, merged>>

Next ==
    \/ Days
    \/ \E s \in Ids : Takes(s) \/ FallsSilent(s) \/ Ends(s) \/ Retires(s)
    \/ \E s \in Ids, state \in {"stale", "ended"} : TakesMerged(s, state)

Spec == Init /\ [][Next]_vars
=============================================================================
