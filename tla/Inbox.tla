------------------------------- MODULE Inbox -------------------------------
(***************************************************************************)
(* The Inbox page of an agent and its writers: every post and ack reads    *)
(* the page, computes the new Pending from what it read, and writes it     *)
(* against the revision it read; a conflict is retried from a fresh read,  *)
(* _WRITE_ATTEMPTS times in all. Humans edit the same page.                *)
(***************************************************************************)
EXTENDS InboxItems

CONSTANTS
    Writers,        \* tasks that call post or ack
    WriteAttempts,  \* _WRITE_ATTEMPTS
    MaxRevision     \* bound on page writes

ASSUME InboxAssumption ==
    /\ WriteAttempts \in Nat \ {0} /\ MaxRevision \in Nat

VARIABLES
    pending,   \* the Pending section
    revision,  \* the page's revision; 0 before the page exists
    op         \* the call each writer is in

Phases == {"idle", "reading", "writing", "returned", "raised"}
Op == [phase : Phases, posts : Calls \cup {{}}, ids : SUBSET Ids,
       tries : 0..WriteAttempts, base : Nat, seen : SUBSET Item]

Started(phase, posts, ids) ==
    [phase |-> phase, posts |-> posts, ids |-> ids, tries |-> 0, base |-> 0, seen |-> {}]
Idle == Started("idle", {}, {})

TypeOK ==
    /\ pending \in SUBSET Item
    /\ revision \in Nat
    /\ op \in [Writers -> Op]

Init == pending = {} /\ revision = 0 /\ op = [w \in Writers |-> Idle]

-----------------------------------------------------------------------------
CallPost(w, posts) ==
    /\ op[w].phase = "idle"
    /\ op' = [op EXCEPT ![w] = Started("reading", posts, {})]
    /\ UNCHANGED <<pending, revision>>

CallAck(w, ids) ==
    /\ op[w].phase = "idle" /\ ids # {}
    /\ op' = [op EXCEPT ![w] = Started("reading", {}, ids)]
    /\ UNCHANGED <<pending, revision>>

(* _read: the items on the page and its revision (none when there is no     *)
(* page: then the write is a create, which a page made meanwhile refuses).  *)
Read(w) ==
    /\ op[w].phase = "reading"
    /\ op' = [op EXCEPT ![w].phase = "writing", ![w].base = revision,
                        ![w].seen = pending]
    /\ UNCHANGED <<pending, revision>>

Change(o) == IF o.posts # {} THEN Posted(o.seen, o.posts, o.base) ELSE Acked(o.seen, o.ids)

WriteMutant(w, end) ==  \* the base revision is not sent
    /\ op[w].phase = "writing" /\ revision < MaxRevision
    /\ pending' = Change(op[w])
    /\ revision' = revision + 1
    /\ op' = [op EXCEPT ![w].phase = end]

(* The write is accepted. Its answer may still be lost on the way back.     *)
Write(w, end) ==
    /\ op[w].phase = "writing" /\ revision < MaxRevision
    /\ op[w].base = revision
    /\ pending' = Change(op[w])
    /\ revision' = revision + 1
    /\ op' = [op EXCEPT ![w].phase = end]

LastTry(o) == o.tries = WriteAttempts - 1

(* ConflictError or PageExists: read again, or raise on the last attempt.   *)
Conflict(w) ==
    /\ op[w].phase = "writing"
    /\ op[w].base # revision
    /\ op' = [op EXCEPT ![w].tries = @ + 1,
                        ![w].phase = IF LastTry(op[w]) THEN "raised" ELSE "reading"]
    /\ UNCHANGED <<pending, revision>>

(* The vault cannot be reached: the error goes to the caller.               *)
VaultError(w) ==
    /\ op[w].phase \in {"reading", "writing"}
    /\ op' = [op EXCEPT ![w].phase = "raised"]
    /\ UNCHANGED <<pending, revision>>

Return(w) ==
    /\ op[w].phase \in {"returned", "raised"}
    /\ op' = [op EXCEPT ![w] = Idle]
    /\ UNCHANGED <<pending, revision>>

(* A human adds a line to Pending, or edits the Notes.                      *)
HumanEdits ==
    /\ revision \in 1..(MaxRevision - 1)
    /\ revision' = revision + 1
    /\ pending' \in {pending, pending \cup {HumanLine(revision)}}
    /\ UNCHANGED op

Next ==
    \/ HumanEdits
    \/ \E w \in Writers :
        \/ \E posts \in Calls : CallPost(w, posts)
        \/ \E ids \in SUBSET {i.id : i \in pending} : CallAck(w, ids)
        \/ \E end \in {"returned", "raised"} : Write(w, end)
        \/ Read(w) \/ Conflict(w) \/ VaultError(w) \/ Return(w)

vars == <<pending, revision, op>>
Spec == Init /\ [][Next]_vars

-----------------------------------------------------------------------------
(* "An item about the same thing as one already pending is merged into it    *)
(* instead of queued twice", however the calls interleave.                   *)
Coalesced ==
    \A i, j \in pending :
        i.kind = "thread_update" /\ j.kind = "thread_update" /\ i.subject = j.subject
            => i = j

(* A writer about to write with the current revision holds the current page: *)
(* what makes read-modify-write atomic.                                      *)
BaseIsSeen ==
    \A w \in Writers :
        op[w].phase = "writing" => /\ op[w].base <= revision
                                   /\ op[w].base = revision => op[w].seen = pending

(* "a conflict ... is retried from a fresh read and never overwrites": an    *)
(* item leaves Pending only by an ack that names it, and while it is there   *)
(* its since never moves later and its trigger is never dropped.             *)
NothingOverwritten ==
    [][\A i \in pending :
          \/ \E j \in pending' : j.id = i.id /\ j.since <= i.since /\ (i.trigger => j.trigger)
          \/ \E w \in Writers : op[w].phase = "writing" /\ i.id \in op[w].ids
      ]_vars

(* The page implements the mailbox.                                          *)
M == INSTANCE Mailbox WITH items <- pending, stamp <- revision
Implements == M!Spec
=============================================================================
