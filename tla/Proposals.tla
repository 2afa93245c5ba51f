----------------------------- MODULE Proposals -----------------------------
(***************************************************************************)
(* Proposals (agents/wa_agent/proposals.py over shared/gateway/proposals.  *)
(* py): a change the bot holds back until a Bot Admin reacts to its message *)
(* with a thumbs up, or until it expires.                                   *)
(*                                                                         *)
(* Each reaction is a webhook task of its own and the expiry is a          *)
(* scheduled job, so all of them interleave at their awaits. One wiki page *)
(* is written by the wiki_write proposals; it is the sequence of the lines *)
(* added to it, and stands for its own revision.                           *)
(***************************************************************************)
EXTENDS Naturals, Sequences

CONSTANTS
    Ids,        \* proposals rows
    Tasks,      \* webhook tasks handling a Bot Admin's thumbs up
    Human,      \* a line of the page no proposal added
    Mixes,      \* the kinds the proposals have together
    Merges,     \* the vault may merge a stale write (Lapis), or refuses it (a directory)
    MaxFaults   \* bound on calls that fail and on a human's edits of the page

Kinds == {"link_member", "create_member", "wiki_write"}

ASSUME ProposalsAssumption ==
    /\ Human \notin Ids
    /\ Mixes \subseteq [Ids -> Kinds]
    /\ Merges \in BOOLEAN /\ MaxFaults \in Nat

VARIABLES
    status,   \* proposals.status
    kind,     \* proposals.kind
    message,  \* how far the proposal's message is
    late,     \* proposals past expires_at
    task,     \* the reaction tasks
    page, linked, created,  \* what the executors have written
    sweep,    \* rows expire_due has selected and not yet committed
    notices,  \* expired proposals expire_stale is still to tell of
    faults

wiki == <<page, linked, created>>
expiry == <<sweep, notices>>
vars == <<status, kind, message, late, task, wiki, expiry, faults>>

\* "unsent" also when there is no Channel to post to; "shown": in the chat,
\* its message_id not in the row.
Messages == {"none", "unsent", "sending", "shown", "stored"}

Idle == [at |-> "idle"]

Init ==
    /\ status = [p \in Ids |-> "none"] /\ kind \in Mixes
    /\ message = [p \in Ids |-> "none"] /\ late = {}
    /\ task = [a \in Tasks |-> Idle]
    /\ page = <<>> /\ linked = {} /\ created = {}
    /\ sweep = {} /\ notices = {}
    /\ faults = 0

Fault == faults < MaxFaults /\ faults' = faults + 1

-----------------------------------------------------------------------------
(* propose: the row, then the message, then the message's id in the row. *)

\* An identity link has no Channel to go to until there is a coordis Channel.
Create(p) ==
    /\ status[p] = "none"
    /\ status' = [status EXCEPT ![p] = "pending"]
    /\ \E m \in {"sending"} \cup (IF kind[p] = "wiki_write" THEN {} ELSE {"unsent"}) :
          message' = [message EXCEPT ![p] = m]
    /\ UNCHANGED <<kind, late, task, wiki, expiry, faults>>

Send(p) ==
    /\ message[p] = "sending"
    /\ message' = [message EXCEPT ![p] = "shown"]
    /\ UNCHANGED <<status, kind, late, task, wiki, expiry, faults>>

SetMessageId(p) ==
    /\ message[p] = "shown"
    /\ message' = [message EXCEPT ![p] = "stored"]
    /\ UNCHANGED <<status, kind, late, task, wiki, expiry, faults>>

\* gowa refuses, or the process stops, before the id is stored: the row waits
\* for a thumbs up that cannot find it.
SendFails(p) ==
    /\ message[p] \in {"sending", "shown"} /\ Fault
    /\ message' = [message EXCEPT ![p] = "unsent"]
    /\ UNCHANGED <<status, kind, late, task, wiki, expiry>>

\* proposal_expiry_hours have passed.
Ages(p) ==
    /\ status[p] # "none" /\ p \notin late
    /\ late' = late \cup {p}
    /\ UNCHANGED <<status, kind, message, task, wiki, expiry, faults>>

-----------------------------------------------------------------------------
(* handle_reaction and confirm. *)

Goes(a, place) == task' = [task EXCEPT ![a] = [at |-> place, p |-> @.p]]
Ends(a) == task' = [task EXCEPT ![a] = Idle]

\* get_pending_by_message; a thumbs up for any other message does nothing.
React(a, p) ==
    /\ task[a].at = "idle"
    /\ message[p] = "stored" /\ status[p] = "pending"
    /\ task' = [task EXCEPT ![a] = [at |-> "found", p |-> p]]
    /\ UNCHANGED <<status, kind, message, late, wiki, expiry, faults>>

\* confirm reads the row again, and the clock.
Look(a) ==
    /\ task[a].at = "found"
    /\ LET p == task[a].p IN
       IF status[p] # "pending" THEN Ends(a)
       ELSE Goes(a, IF p \in late THEN "expiring" ELSE "executing")
    /\ UNCHANGED <<status, kind, message, late, wiki, expiry, faults>>

\* mark_expired writes the status whatever it is by now. The reply of confirm
\* is dropped by _dispatch_reaction.
MarkExpired(a) ==
    /\ task[a].at = "expiring"
    /\ status' = [status EXCEPT ![task[a].p] = "expired"]
    /\ Ends(a)
    /\ UNCHANGED <<kind, message, late, wiki, expiry, faults>>

\* execute_create_member: a member page that is already there is as good.
CreateMember(a) ==
    /\ task[a].at = "executing" /\ kind[task[a].p] = "create_member"
    /\ created' = created \cup {task[a].p}
    /\ Goes(a, "linking")
    /\ UNCHANGED <<status, kind, message, late, page, linked, expiry, faults>>

LinkMember(a) ==
    /\ \/ task[a].at = "linking"
       \/ task[a].at = "executing" /\ kind[task[a].p] = "link_member"
    /\ linked' = linked \cup {task[a].p}
    /\ Goes(a, "marking")
    /\ UNCHANGED <<status, kind, message, late, page, created, expiry, faults>>

\* execute_wiki_write
ReadPage(a) ==
    /\ task[a].at = "executing" /\ kind[task[a].p] = "wiki_write"
    /\ task' = [task EXCEPT ![a] = [at |-> "writing", p |-> @.p, base |-> page]]
    /\ UNCHANGED <<status, kind, message, late, wiki, expiry, faults>>

\* BUG: the page is written without its base revision.
WritePageMutant(a) ==
    /\ task[a].at = "writing"
    /\ page' = Append(task[a].base, task[a].p)
    /\ Goes(a, "marking")
    /\ UNCHANGED <<status, kind, message, late, linked, created, expiry, faults>>

Accepted(a) == task[a].base = page \/ Merges

WritePage(a) ==
    /\ task[a].at = "writing" /\ Accepted(a)
    /\ page' = Append(page, task[a].p)
    /\ Goes(a, "marking")
    /\ UNCHANGED <<status, kind, message, late, linked, created, expiry, faults>>

\* The page changed since it was read: the exception ends the task, and the
\* proposal stays pending for another thumbs up.
WriteConflicts(a) ==
    /\ task[a].at = "writing" /\ task[a].base # page
    /\ Ends(a)
    /\ UNCHANGED <<status, kind, message, late, wiki, expiry, faults>>

\* mark_confirmed, too, writes over whatever status there is.
MarkConfirmed(a) ==
    /\ task[a].at = "marking"
    /\ status' = [status EXCEPT ![task[a].p] = "confirmed"]
    /\ Ends(a)
    /\ UNCHANGED <<kind, message, late, wiki, expiry, faults>>

\* Any call of the task fails, or a write takes effect and its answer is lost.
TaskFails(a) ==
    /\ task[a].at # "idle" /\ Fault
    /\ Ends(a)
    /\ page' \in {page} \cup (IF task[a].at = "writing" /\ Accepted(a)
                              THEN {Append(page, task[a].p)} ELSE {})
    /\ UNCHANGED <<status, kind, message, late, linked, created, expiry>>

HumanEdits ==
    /\ Fault
    /\ page' = Append(page, Human)
    /\ UNCHANGED <<status, kind, message, late, task, linked, created, expiry>>

-----------------------------------------------------------------------------
(* expire_stale, the body of expire_proposals_tick. *)

Due == {p \in late : status[p] = "pending"}
Quiet == sweep = {} /\ notices = {}

\* BUG: only what was posted expires.
ExpireSelectMutant ==
    /\ Quiet
    /\ sweep' = {p \in Due : message[p] = "stored"} /\ sweep' # {}
    /\ UNCHANGED <<status, kind, message, late, task, wiki, notices, faults>>

ExpireSelect ==
    /\ Quiet /\ Due # {}
    /\ sweep' = Due
    /\ UNCHANGED <<status, kind, message, late, task, wiki, notices, faults>>

\* What was selected is written back: a confirmation in between is overwritten.
ExpireCommit ==
    /\ sweep # {}
    /\ status' = [p \in Ids |-> IF p \in sweep THEN "expired" ELSE status[p]]
    /\ notices' = sweep /\ sweep' = {}
    /\ UNCHANGED <<kind, message, late, task, wiki, faults>>

Notify(p) ==
    /\ p \in notices
    /\ notices' = notices \ {p}
    /\ UNCHANGED <<status, kind, message, late, task, wiki, sweep, faults>>

\* The job fails, or the process stops, before the commit or before a notice:
\* the rows are selected again in the first case only.
ExpireFails ==
    /\ ~Quiet /\ Fault
    /\ sweep' = {} /\ notices' = {}
    /\ UNCHANGED <<status, kind, message, late, task, wiki>>

ExpireStep == ExpireSelect \/ ExpireCommit \/ \E p \in Ids : Notify(p)

TaskStep(a) ==
    \/ Look(a) \/ MarkExpired(a) \/ CreateMember(a) \/ LinkMember(a)
    \/ ReadPage(a) \/ WritePage(a) \/ WriteConflicts(a) \/ MarkConfirmed(a)

Next ==
    \/ \E p \in Ids : Create(p) \/ Send(p) \/ SetMessageId(p) \/ SendFails(p) \/ Ages(p)
    \/ \E a \in Tasks : TaskStep(a) \/ TaskFails(a) \/ \E p \in Ids : React(a, p)
    \/ HumanEdits
    \/ ExpireStep \/ ExpireFails

Spec == Init /\ [][Next]_vars

\* Time passes and the scheduler runs the job again and again; reactions may
\* never come, and a task of the webhook ends.
Fairness ==
    /\ WF_vars(ExpireStep)
    /\ \A p \in Ids : WF_vars(Ages(p))
    /\ \A a \in Tasks : WF_vars(TaskStep(a))

FairSpec == Spec /\ Fairness

-----------------------------------------------------------------------------
(* Properties. *)

\* A confirmed proposal has happened: its line is on the page and no other
\* executor's write has removed it, its member page exists and its link is
\* made, also when an earlier attempt failed half-way (proposals.py:130-131).
ConfirmedIsThere ==
    \A p \in Ids : status[p] = "confirmed" =>
        CASE kind[p] = "wiki_write"    -> \E k \in DOMAIN page : page[k] = p
          [] kind[p] = "link_member"   -> p \in linked
          [] kind[p] = "create_member" -> p \in linked /\ p \in created

\* Whatever fails, and whether or not it was ever posted, a proposal is
\* confirmed or expires in the end: waits are rows (ADR 7).
Settles ==
    \A p \in Ids : status[p] = "pending" ~> status[p] \in {"confirmed", "expired"}
=============================================================================
