--------------------------- MODULE MessageBuffer ---------------------------
(***************************************************************************)
(* The messages_buffer rows of one Channel (shared/gateway/buffer.py) as   *)
(* the webhook intake (shared/gateway/webhook.py) fills them, and the      *)
(* admin commands of that Channel, each of which is a row too while its    *)
(* handler runs.                                                           *)
(*                                                                         *)
(* A row is known by its place in the table. Its text is a version number: *)
(* 0 as first sent, one more with each edit. How long ago it was received  *)
(* is an age in ticks, not counted past OldAge.                            *)
(***************************************************************************)
EXTENDS Naturals, Sequences, FiniteSets

CONSTANTS
    Verbs,       \* what the admin commands of this run do
    Lively,      \* the event types gowa sends in this run
    MaxRows,     \* bound on buffered rows
    MaxEdits,    \* bound on edits and revokes
    MaxCommands, \* bound on commands
    OldAge       \* ages above this are not told apart

AllVerbs == {"watch", "logs", "unwatch", "ingest", "other"}

ASSUME BufferAssumption ==
    /\ Verbs \subseteq AllVerbs
    /\ Lively \subseteq {"message", "reaction"}
    /\ MaxRows \in Nat /\ MaxEdits \in Nat /\ MaxCommands \in Nat
    /\ OldAge \in Nat

VARIABLES
    rows,      \* messages_buffer, in id order
    kind,      \* Channel.kind, "none" before there is a channels row
    cmds,      \* rows of the commands whose handlers run, with how far each is
    backfill,  \* the Channel is in the WatchedChannelQueue
    edits, commands

bufferVars == <<rows, kind, cmds, backfill, edits, commands>>

Ingested == {"message", "backfill", "edited"}
Types    == Ingested \cup {"revoked", "reaction"}
Kinds    == {"none", "unset", "watched", "logs"}
Phases   == {"started", "importing", "serving", "served"}

Row == [id : Nat, type : Types, version : Nat, consumed : BOOLEAN,
        cmd : BOOLEAN, age : 0..OldAge]

BufferTypeOK ==
    /\ rows \in Seq(Row)
    /\ kind \in Kinds
    /\ cmds \in SUBSET [row : Nat, verb : AllVerbs, phase : Phases]
    /\ backfill \in BOOLEAN
    /\ edits \in 0..MaxEdits /\ commands \in 0..MaxCommands

\* The Channel may be watched or not; what it buffered before is long consumed.
BufferInit ==
    /\ rows = <<>> /\ kind \in Kinds /\ cmds = {} /\ backfill = FALSE
    /\ edits = 0 /\ commands = 0

-----------------------------------------------------------------------------
Allowlisted == kind \notin {"none", "unset"}

Pending == {r \in DOMAIN rows : ~rows[r].consumed}
Ingestible == {r \in Pending : rows[r].type \in Ingested}

Consuming(S) ==
    [r \in DOMAIN rows |-> IF r \in S THEN [rows[r] EXCEPT !.consumed = TRUE] ELSE rows[r]]

\* BUG: only unprocessed rows are looked up: a redelivery is a second row.
BufferedMutant(i) == \E r \in DOMAIN rows : rows[r].id = i /\ ~rows[r].consumed
Buffered(i) == \E r \in DOMAIN rows : rows[r].id = i

Insert(i, type, cmd) ==
    /\ Len(rows) < MaxRows
    /\ ~Buffered(i)
    /\ rows' = Append(rows, [id |-> i, type |-> type, version |-> 0, consumed |-> FALSE,
                             cmd |-> cmd, age |-> 0])

\* gowa may send an id twice, out of order, or an edit before its message.
MessageIds == 1..(Len(rows) + 1)

\* receive_webhook of a message or a reaction: a second delivery changes nothing.
Deliver ==
    /\ Allowlisted
    /\ \E i \in MessageIds, type \in Lively : Insert(i, type, FALSE)
    /\ UNCHANGED <<kind, cmds, backfill, edits, commands>>

Rewritten(row, type) == [row EXCEPT !.type = type, !.age = 0, !.version = row.version + 1]

\* message.edited and message.revoked: a processed row is left alone, an
\* unprocessed one is rewritten, and a message never seen becomes a row.
Rewrite(type) ==
    /\ Allowlisted /\ edits < MaxEdits
    /\ edits' = edits + 1
    /\ \E i \in MessageIds :
        \/ Insert(i, type, FALSE)
        \/ \E r \in DOMAIN rows :
            /\ rows[r].id = i
            /\ rows' = IF rows[r].consumed THEN rows
                       ELSE [rows EXCEPT ![r] = Rewritten(rows[r], type)]
    /\ UNCHANGED <<kind, cmds, backfill, commands>>

Edit == Rewrite("edited")
Revoke == Rewrite("revoked")

Tick ==
    /\ \E r \in DOMAIN rows : rows[r].age < OldAge
    /\ rows' = [r \in DOMAIN rows |-> [rows[r] EXCEPT !.age = IF @ < OldAge THEN @ + 1 ELSE @]]
    /\ UNCHANGED <<kind, cmds, backfill, edits, commands>>

-----------------------------------------------------------------------------
(* Admin commands. A Bot Admin's command is let in whatever the Channel's   *)
(* kind; its row stays unprocessed until the handler is done.               *)

Moves(c, phase) == cmds' = (cmds \ {c}) \cup {[c EXCEPT !.phase = phase]}

Command ==
    /\ commands < MaxCommands
    /\ commands' = commands + 1
    /\ \E i \in MessageIds, v \in Verbs :
        /\ Insert(i, "message", TRUE)
        /\ cmds' = cmds \cup {[row |-> Len(rows) + 1, verb |-> v, phase |-> "started"]}
    /\ UNCHANGED <<kind, backfill, edits>>

\* /setup: register_channel, then the Channel's history is read, logs apart.
SetUp(c) ==
    /\ c \in cmds /\ c.phase = "started" /\ c.verb \in {"watch", "logs"}
    /\ kind' = IF c.verb = "logs" THEN "logs" ELSE "watched"
    /\ Moves(c, IF c.verb = "logs" THEN "served" ELSE "importing")
    /\ UNCHANGED <<rows, backfill, edits, commands>>

ImportMessage(c) ==
    /\ c \in cmds /\ c.phase = "importing"
    /\ \E i \in MessageIds : Insert(i, "backfill", FALSE)
    /\ UNCHANGED <<kind, cmds, backfill, edits, commands>>

\* on_channel_watched: with nothing added, or gowa failing half-way, no hook
\* is told and the ingest tick is left to find what was buffered.
ImportEnds(c) ==
    /\ c \in cmds /\ c.phase = "importing"
    /\ \E added \in BOOLEAN :
        /\ added => \E r \in DOMAIN rows : rows[r].type = "backfill"
        /\ backfill' = (backfill \/ added)
    /\ Moves(c, "served")
    /\ UNCHANGED <<rows, kind, edits, commands>>

Unwatch(c) ==
    /\ c \in cmds /\ c.phase = "started" /\ c.verb = "unwatch"
    /\ kind' = IF kind = "none" THEN kind ELSE "unset"
    /\ Moves(c, "served")
    /\ UNCHANGED <<rows, backfill, edits, commands>>

\* _dispatch_admin_command: the reply is out or has failed; the row is processed.
CommandDone(c) ==
    /\ c \in cmds
    /\ c.phase = "served" \/ (c.phase = "started" /\ c.verb = "other")
    /\ cmds' = cmds \ {c}
    /\ rows' = Consuming({c.row})
    /\ UNCHANGED <<kind, backfill, edits, commands>>

Intake ==
    \/ Deliver \/ Edit \/ Revoke \/ Tick \/ Command
    \/ \E c \in cmds : SetUp(c) \/ ImportMessage(c) \/ ImportEnds(c) \/ Unwatch(c) \/ CommandDone(c)
=============================================================================
