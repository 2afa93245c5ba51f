-------------------------------- MODULE Chat --------------------------------
(***************************************************************************)
(* The Chat Agent (agents/wa_agent/chat.py) in one Channel: a member's post *)
(* comes as a webhook event into the buffer (shared/gateway/webhook.py),   *)
(* its message hook looks whether it addresses the bot, asks the model with *)
(* the last messages as context, and sends the answer through the rate     *)
(* limiter all of gowa's texts share (gowa_client.py). Every event is a    *)
(* task of its own.                                                        *)
(*                                                                         *)
(* A post is known by its place in the chat. What the model says and looks *)
(* up is left out (its on-demand ingest is Demand of Sweep), and so is how *)
(* long the limiter sleeps.                                                *)
(***************************************************************************)
EXTENDS Naturals, Sequences, FiniteSets

CONSTANTS
    Window,         \* CONTEXT_LIMIT
    MaxSaid,        \* bound on members' posts
    MaxRows,        \* bound on posts that get into the buffer
    MaxChatFaults   \* bound on calls that fail, on restarts and on /toggle-agent

ASSUME ChatAssumption ==
    /\ Window \in Nat \ {0}
    /\ {MaxSaid, MaxRows, MaxChatFaults} \subseteq Nat

VARIABLES
    chat,    \* the posts of the chat, in order
    rows,    \* those in messages_buffer, in the order they came
    log,     \* those in outbound_log
    agent,   \* whether the Chat Agent is on
    hook,    \* of each post, how far its message hook is, and with what context
    line,    \* the posts whose answers wait for the rate limiter's lock
    chatFaults

chatVars == <<chat, rows, log, agent, hook, line, chatFaults>>

NoHook == [at |-> "none", seen |-> {}]

\* What the bot has posted by itself: a report, a question. The log lacks it if
\* a restart came before the commit.
Report == [me |-> TRUE, mention |-> FALSE, media |-> FALSE, reply |-> 0]

ChatInit ==
    /\ chat = <<Report>> /\ log \in SUBSET {1} /\ hook = <<NoHook>>
    /\ rows = <<>> /\ agent \in BOOLEAN /\ line = <<>> /\ chatFaults = 0

ChatFault == chatFaults < MaxChatFaults /\ chatFaults' = chatFaults + 1

Of(me) == {k \in DOMAIN chat : chat[k].me = me}

-----------------------------------------------------------------------------
(* The chat.                                                               *)

PostedAs(post, hooks) == chat' = Append(chat, post) /\ hook' = Append(hooks, NoHook)

\* A member posts a text, which may mention the bot, or a sticker; either may
\* reply to a post.
Say ==
    /\ Cardinality(Of(FALSE)) < MaxSaid
    /\ \E form \in {"text", "mention", "sticker"}, reply \in {0} \cup DOMAIN chat :
         /\ form = "sticker" => reply # 0
         /\ PostedAs([me |-> FALSE, mention |-> form = "mention", media |-> form = "sticker", reply |-> reply], hook)
    /\ UNCHANGED <<rows, log, agent, line, chatFaults>>

\* BUG: an event that comes again is handled again.
UnseenMutant(k) == TRUE

\* The id of a row is unique.
Unseen(k) == \A i \in DOMAIN rows : rows[i] # k

\* receive_webhook, also of the bot's own posts, and again and again.
Deliver(k) ==
    /\ Unseen(k) /\ Len(rows) < MaxRows
    /\ rows' = Append(rows, k)
    /\ hook' = [hook EXCEPT ![k] = [at |-> "new", seen |-> {}]]
    /\ UNCHANGED <<chat, log, agent, line, chatFaults>>

\* request_history: a row, and no hook.
Import(k) ==
    /\ Unseen(k) /\ Len(rows) < MaxRows
    /\ rows' = Append(rows, k)
    /\ UNCHANGED <<chat, log, agent, hook, line, chatFaults>>

\* /toggle-agent. Of two at once, one may be lost.
Toggle ==
    /\ ChatFault
    /\ agent' = ~agent
    /\ UNCHANGED <<chat, rows, log, hook, line>>

-----------------------------------------------------------------------------
(* The message hook of one post. *)

At(k, place) == hook' = [hook EXCEPT ![k].at = place]

Enabled(k) ==
    /\ hook[k].at = "new"
    /\ At(k, IF agent /\ ~chat[k].me THEN "looking" ELSE "done")
    /\ UNCHANGED <<chat, rows, log, agent, line, chatFaults>>

\* BUG: only a mention addresses the bot.
AddressedMutant(k) == chat[k].mention

\* mentions_bot, or a reply to what is in outbound_log by now.
Addressed(k) == chat[k].mention \/ chat[k].reply \in log

\* recent_messages
Latest(n) == {rows[i] : i \in {j \in DOMAIN rows : j + n > Len(rows)}}

\* _recent_window: those before it and the message itself.
Recent(k) == {k} \cup Latest(IF k \in Latest(Window) THEN Window ELSE Window - 1)

\* The window, and what its messages reply to (which the code looks up a little
\* later, and may find more of).
Context(k) == Recent(k) \cup {j \in Latest(Len(rows)) : \E i \in Recent(k) : chat[i].reply = j}

\* A sticker gets a canned text.
Address(k) ==
    /\ hook[k].at = "looking"
    /\ IF ~Addressed(k) THEN At(k, "done") /\ UNCHANGED line
       ELSE IF chat[k].media THEN At(k, "queued") /\ line' = Append(line, k)
       ELSE hook' = [hook EXCEPT ![k] = [at |-> "asking", seen |-> Context(k)]] /\ UNCHANGED line
    /\ UNCHANGED <<chat, rows, log, agent, chatFaults>>

Ask(k) ==
    /\ hook[k].at = "asking"
    /\ At(k, "queued") /\ line' = Append(line, k)
    /\ UNCHANGED <<chat, rows, log, agent, chatFaults>>

\* The lock is granted in turn, and left when the gap to the last text is over.
Wait(k) ==
    /\ line # <<>> /\ Head(line) = k
    /\ At(k, "sending") /\ line' = Tail(line)
    /\ UNCHANGED <<chat, rows, log, agent, chatFaults>>

\* The worst an answer may do is to name the bot.
SendText(k) ==
    /\ hook[k].at = "sending"
    /\ PostedAs([me |-> TRUE, mention |-> TRUE, media |-> FALSE, reply |-> k],
              [hook EXCEPT ![k] = [at |-> "logging", seen |-> {}]])
    /\ UNCHANGED <<rows, log, agent, line, chatFaults>>

LogText(k) ==
    /\ hook[k].at = "logging"
    /\ log' = log \cup {j \in Of(TRUE) : chat[j].reply = k}
    /\ At(k, "done")
    /\ UNCHANGED <<chat, rows, agent, line, chatFaults>>

\* A call of the hook fails, or gowa's answer to a text that it did send is
\* lost: nobody tries again.
AnswerFails(k) ==
    /\ hook[k].at \notin {"none", "queued", "done", "lost"} /\ ChatFault
    /\ At(k, "lost")
    /\ UNCHANGED <<chat, rows, log, agent, line>>

ChatRestarts ==
    /\ ChatFault
    /\ hook' = [k \in DOMAIN hook |->
                  IF hook[k].at \in {"none", "done"} THEN hook[k] ELSE [hook[k] EXCEPT !.at = "lost"]]
    /\ line' = <<>>
    /\ UNCHANGED <<chat, rows, log, agent>>

HookStep(k) == Enabled(k) \/ Address(k) \/ Ask(k) \/ Wait(k) \/ SendText(k) \/ LogText(k)

ChatNext ==
    \/ Say \/ Toggle \/ ChatRestarts
    \/ \E k \in DOMAIN chat : Deliver(k) \/ Import(k) \/ HookStep(k) \/ AnswerFails(k)

\* Every task that can go on does: the model and gowa answer or fail.
ChatFairness ==
    \A k \in 1..(2 * MaxSaid + 1) : WF_chatVars(k \in DOMAIN chat /\ HookStep(k))

ChatSpec == ChatInit /\ [][ChatNext]_chatVars /\ ChatFairness

-----------------------------------------------------------------------------
\* However often gowa delivers an event, a post has one answer at most, and
\* never one of the bot's own has; what is sent was asked for with the message
\* it answers, and the one that replies to if it had come before.
OneAnswerEach ==
    /\ \A j \in Of(TRUE) : LET k == chat[j].reply IN
          k # 0 => ~chat[k].me /\ \A i \in Of(TRUE) : chat[i].reply = k => i = j
    /\ \A k \in DOMAIN chat :
          hook[k].at = "sending" /\ ~chat[k].media =>
             k \in hook[k].seen
             /\ \A a, b \in DOMAIN rows :
                   a < b /\ rows[a] = chat[k].reply /\ rows[b] = k => chat[k].reply \in hook[k].seen

\* "Trigger: the message @mentions the bot or replies to a bot message ...
\* from any member" (Spec l.111): what reaches the webhook while the agent is
\* on is answered in the end, unless the agent is switched off or a call fails.
Heard ==
    \A k \in 2..(2 * MaxSaid) :
        (k \in DOMAIN chat /\ hook[k].at = "new" /\ ~chat[k].me /\ agent
         /\ (chat[k].mention \/ chat[k].reply \in log))
        ~> (k \in DOMAIN chat /\ (hook[k].at = "lost" \/ ~agent \/ \E j \in Of(TRUE) : chat[j].reply = k))
=============================================================================
