------------------------------ MODULE MCInbox ------------------------------
(* Two tasks that post and ack, two threads, and a human at the same page;   *)
(* beside them the chat of a Channel in which the bot has posted before.     *)
EXTENDS Inbox, Chat

CONSTANTS t1, t2

Notice(t, m, now) == [subject |-> t, since |-> m, trigger |-> now]
MCCalls == {{Notice(t1, 1, FALSE)}, {Notice(t1, 2, TRUE), Notice(t2, 2, FALSE)}}

VARIABLE who

\* The inbox and the chat share no state: in a behaviour one of them moves and
\* the other stays where it begins.
MCInit ==
    /\ who \in {"inbox", "chat"} /\ Init /\ ChatInit
    /\ who = "inbox" => log = {} /\ ~agent

MCNext ==
    \/ who = "inbox" /\ Next /\ UNCHANGED <<who, chatVars>>
    \/ who = "chat" /\ ChatNext /\ UNCHANGED <<who, vars>>

MCSpec == MCInit /\ [][MCNext]_<<who, vars, chatVars>> /\ ChatFairness
=============================================================================
