---------------------------- MODULE ProjectAgent ----------------------------
(***************************************************************************)
(* The Project Agent's run (agents/project_agent/agent.py) over its Inbox, *)
(* with the ingestion that posts to it. The scheduler loop runs its jobs   *)
(* one after another, so the ingest job never overlaps the agent's; an     *)
(* on-demand ingest runs in a webhook task and does.                       *)
(***************************************************************************)
EXTENDS Inbox

CONSTANTS
    ingest, agent,   \* the two writers of the inbox page
    OnDemand,        \* whether an ingest may overlap the agent's run
    NoItem,
    MaxMaterial,     \* bound on the items of a thread
    MaxFaults        \* bound on errors and human edits

(* What ingestion posts of the threads whose first new item is known.       *)
Notices(since) ==
    {[subject |-> t, since |-> since[t], trigger |-> FALSE] : t \in {u \in Subjects : since[u] > 0}}

ASSUME AgentAssumption ==
    /\ ingest # agent /\ Writers = {ingest, agent}
    /\ OnDemand \in BOOLEAN /\ MaxMaterial \in Nat /\ MaxFaults \in Nat
    /\ Messages = 1..MaxMaterial
    /\ \A since \in [Subjects -> 0..MaxMaterial] : Notices(since) \in Calls \cup {{}}

VARIABLES
    material,  \* how many items each thread page has
    carried,   \* how many of them the initiative page has
    touched,   \* the batch's notices: thread -> first new item, 0 for none
    unposted,  \* threads with a notice that could not be posted, as reported to the logs
    unlinked,  \* threads whose channel no longer belongs to an initiative
    at,        \* where the agent's run is
    todo,      \* the items of pending() still to be looked at
    item,      \* the one being applied
    done,      \* the ids to ack
    got,       \* the items read from the current thread's page
    current,   \* nobody has edited the initiative page since the agent read it
    owed,      \* history: the thread pages when pending() was read
    faults

agentVars == <<at, todo, item, done, got, current, owed>>
ingestVars == <<material, touched, unposted>>
allVars == <<vars, ingestVars, agentVars, carried, unlinked, faults>>

AgentInit ==
    /\ Init
    /\ material = [t \in Subjects |-> 0] /\ carried = material
    /\ touched = material /\ owed = material
    /\ unposted = {} /\ unlinked = {} /\ at = "idle"
    /\ todo = {} /\ item = NoItem /\ done = {} /\ got = 0 /\ current = FALSE /\ faults = 0

Fault == faults < MaxFaults /\ faults' = faults + 1

-----------------------------------------------------------------------------
(* Ingestion: the thread pages are written first, the notices posted last.  *)
Batch == {t \in Subjects : touched[t] > 0}

FirstNew(t) == material[t] + 1

WriteThread(t) ==
    /\ op[ingest].phase = "idle"
    /\ Batch = {} => OnDemand \/ at = "idle"
    /\ material[t] < MaxMaterial /\ touched[t] = 0
    /\ material' = [material EXCEPT ![t] = @ + 1]
    /\ touched' = [touched EXCEPT ![t] = FirstNew(t)]
    /\ UNCHANGED <<vars, unposted, agentVars, carried, unlinked, faults>>

PostNotices ==
    /\ Batch # {}
    /\ CallPost(ingest, Notices(touched))
    /\ UNCHANGED <<ingestVars, agentVars, carried, unlinked, faults>>

(* An exception of the inbox is reported and swallowed.                     *)
NoticesDone ==
    /\ Return(ingest)
    /\ unposted' = IF op[ingest].phase = "raised" THEN unposted \cup Batch ELSE unposted
    /\ touched' = [t \in Subjects |-> 0]
    /\ UNCHANGED <<material, agentVars, carried, unlinked, faults>>

-----------------------------------------------------------------------------
(* run_once.                                                                *)
Start ==
    /\ at = "idle" /\ (OnDemand \/ Batch = {})
    /\ at' = "reading"
    /\ UNCHANGED <<vars, ingestVars, todo, item, done, got, current, owed, carried, unlinked, faults>>

ReadPending ==
    /\ at = "reading"
    /\ todo' = {i \in pending : i.kind = "thread_update"}
    /\ done' = {} /\ owed' = material
    /\ at' = "picking"
    /\ UNCHANGED <<vars, ingestVars, item, got, current, carried, unlinked, faults>>

Oldest(i) == i \in todo /\ \A j \in todo : i.id[1] <= j.id[1]

(* _apply_update finds no initiative to write: the item counts as done.     *)
Skip(i) ==
    /\ at = "picking" /\ Oldest(i) /\ i.subject \in unlinked
    /\ todo' = todo \ {i} /\ done' = done \cup {i.id}
    /\ UNCHANGED <<vars, ingestVars, at, item, got, current, owed, carried, unlinked, faults>>

ReadThread(i) ==
    /\ at = "picking" /\ Oldest(i) /\ i.subject \notin unlinked
    /\ todo' = todo \ {i} /\ item' = i
    /\ got' = material[i.subject]
    /\ at' = "carrying"
    /\ UNCHANGED <<vars, ingestVars, done, current, owed, carried, unlinked, faults>>

(* apply_thread_items_to_initiative reads the initiative page, and so does  *)
(* rewrite_status after it, before asking the model for the new text.       *)
ReadInitiative ==
    /\ at \in {"carrying", "status"} /\ ~current
    /\ current' = TRUE
    /\ UNCHANGED <<vars, ingestVars, at, todo, item, done, got, owed, carried, unlinked, faults>>

(* Items go by block id: those already on the page stay as they are.        *)
Carry ==
    /\ at = "carrying" /\ current
    /\ carried' = [carried EXCEPT ![item.subject] = IF @ < got THEN got ELSE @]
    /\ at' = "status" /\ current' = FALSE
    /\ UNCHANGED <<vars, ingestVars, todo, item, done, got, owed, unlinked, faults>>

RewriteStatus ==
    /\ at = "status" /\ current
    /\ done' = done \cup {item.id}
    /\ at' = "picking" /\ item' = NoItem /\ got' = 0 /\ current' = FALSE
    /\ UNCHANGED <<vars, ingestVars, todo, owed, carried, unlinked, faults>>

(* The item failed - a human edited the initiative page between a read and  *)
(* its write, or the model or the vault gave an error. It stays pending.    *)
ApplyFailsMutant ==  \* a failed item is acked with the rest
    /\ at \in {"carrying", "status"}
    /\ Fault
    /\ done' = done \cup {item.id}
    /\ at' = "picking" /\ item' = NoItem /\ got' = 0 /\ current' = FALSE
    /\ UNCHANGED <<vars, ingestVars, todo, owed, carried, unlinked>>

ApplyFails ==
    /\ at \in {"carrying", "status"}
    /\ Fault
    /\ at' = "picking" /\ item' = NoItem /\ got' = 0 /\ current' = FALSE
    /\ UNCHANGED <<vars, ingestVars, todo, done, owed, carried, unlinked>>

(* pending() itself fails: the run ends there.                              *)
ReadFails ==
    /\ at = "reading" /\ Fault
    /\ at' = "idle"
    /\ UNCHANGED <<vars, ingestVars, todo, item, done, got, current, owed, carried, unlinked>>

CallAckDone ==
    /\ at = "picking" /\ todo = {}
    /\ IF done = {}
       THEN at' = "idle" /\ UNCHANGED op
       ELSE at' = "acking" /\ op' = [op EXCEPT ![agent] = Started("reading", {}, done)]
    /\ UNCHANGED <<pending, revision, ingestVars, todo, item, done, got, current,
                   owed, carried, unlinked, faults>>

(* run_once ends when its ack returns or raises.                            *)
Finish ==
    /\ at = "acking" /\ Return(agent)
    /\ at' = "idle" /\ done' = {}
    /\ UNCHANGED <<ingestVars, todo, item, got, current, owed, carried, unlinked, faults>>

(* A restart in the middle of the run, with no ingestion under way.         *)
Restart ==
    /\ at # "idle" /\ Batch = {}
    /\ Fault
    /\ at' = "idle" /\ todo' = {} /\ item' = NoItem /\ done' = {} /\ got' = 0
    /\ current' = FALSE
    /\ op' = [op EXCEPT ![agent] = Idle]
    /\ UNCHANGED <<pending, revision, ingestVars, owed, carried, unlinked>>

-----------------------------------------------------------------------------
(* /unwatch, or a new /setup of the channel as another kind.                *)
Unlink(t) ==
    /\ Fault
    /\ unlinked' = unlinked \cup {t}
    /\ UNCHANGED <<vars, ingestVars, agentVars, carried>>

InboxStep(w) ==
    /\ Read(w) \/ Write(w, "returned") \/ Conflict(w)
    /\ UNCHANGED <<ingestVars, agentVars, carried, unlinked, faults>>

InboxFault ==
    /\ Fault
    /\ HumanEdits \/ \E w \in Writers : VaultError(w) \/ Write(w, "raised")
    /\ UNCHANGED <<ingestVars, agentVars, carried, unlinked>>

IngestStep == PostNotices \/ NoticesDone \/ InboxStep(ingest)

AgentStep ==
    \/ ReadPending \/ ReadInitiative \/ Carry \/ RewriteStatus
    \/ CallAckDone \/ Finish \/ InboxStep(agent)
    \/ \E i \in todo : Skip(i) \/ ReadThread(i)

AgentNext ==
    \/ IngestStep \/ Start \/ AgentStep \/ ApplyFails \/ ReadFails \/ Restart \/ InboxFault
    \/ \E t \in Subjects : WriteThread(t) \/ Unlink(t)

AgentSpec == AgentInit /\ [][AgentNext]_allVars

(* The scheduler starts the agent every two minutes, and started work ends.  *)
AgentFairSpec ==
    /\ AgentSpec
    /\ WF_allVars(IngestStep) /\ WF_allVars(AgentStep)
    /\ SF_allVars(Start)

-----------------------------------------------------------------------------
(* "an item that isn't acked is still pending on the next run, so a failed   *)
(* apply is retried, never lost": items of a thread that are not on the      *)
(* initiative page yet have a pending item that reaches back to the first of *)
(* them, unless their batch is still under way or its notice was reported.   *)
NothingForgotten ==
    \A t \in Subjects :
        carried[t] < material[t] =>
            \/ t \in Batch \/ t \in unposted \/ t \in unlinked
            \/ \E i \in pending : i.subject = t /\ i.since <= carried[t] + 1

(* Everything discussed reaches the initiative page in the end.              *)
Delivered ==
    \A t \in Subjects :
        material[t] = MaxMaterial
            ~> carried[t] = MaxMaterial \/ t \in unposted \/ t \in unlinked

=============================================================================
