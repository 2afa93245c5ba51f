----------------------------- MODULE Onboarding -----------------------------
(***************************************************************************)
(* Channel onboarding (shared/gateway/onboarding.py): /setup, the dialogue *)
(* it opens when the initiative's page is missing, and /unwatch.           *)
(*                                                                         *)
(* Every webhook delivery is a task of its own, so the handlers of two     *)
(* admins, or of one impatient one, interleave at every await: each action *)
(* below is the code between two of them. Rows and pages survive a crash,  *)
(* the tasks do not. What the answers of a dialogue say is left out: only  *)
(* that they came, and in which order.                                     *)
(***************************************************************************)
EXTENDS Naturals, Sequences

CONSTANTS
    Chans,      \* WhatsApp groups
    Admins,     \* bot admins
    Tasks,      \* webhook deliveries being handled
    Titles,     \* titles an admin may give
    Slug,       \* slugify: the directory name of a title
    Kinds,      \* the kinds a /setup may ask for
    Start,      \* the channels table at the start
    None,       \* no row, no title, no page
    MaxSetups,  \* bound on /setup and /unwatch commands
    MaxReplies, \* bound on other deliveries
    MaxFaults   \* bound on handlers that die on the way

InitKinds == {"project", "event"}
Singletons == {"coordis", "exes", "research", "all", "logs"}

\* _DEFAULT_KIND_TITLES
DefaultTitle(k) == CASE k = "coordis" -> "Coordis" [] k = "exes" -> "Exes"
                     [] k = "research" -> "Research" [] k = "all" -> "All"
                     [] k = "logs" -> "Logs" [] OTHER -> "Other"

AllTitles == Titles \cup {DefaultTitle(k) : k \in Kinds \ InitKinds}

\* Channel, the columns /setup writes: "unset" is what /unwatch leaves.
Row == [kind : InitKinds \cup Singletons \cup {"other", "unset"}, title : AllTitles,
        initiative : AllTitles \cup {None}]

\* The table to start with is one that handlers without overlap have left.
ASSUME OnboardingAssumption ==
    /\ Kinds \subseteq InitKinds \cup Singletons \cup {"other"}
    /\ None \notin AllTitles \cup Chans \cup Kinds \cup Row
    /\ DOMAIN Slug = AllTitles
    /\ Start \in [Chans -> Row \cup {None}]
    /\ \A c \in Chans : Start[c] # None /\ Start[c].initiative # None => Start[c].kind \in InitKinds
    /\ \A c, d \in Chans :
          Start[c] # None /\ Start[d] # None /\ Start[c].kind \in Singletons /\ Start[c].kind = Start[d].kind
          => c = d
    /\ MaxSetups \in Nat /\ MaxReplies \in Nat /\ MaxFaults \in Nat

VARIABLES
    channels,    \* the channels table, by jid
    sessions,    \* the setup_sessions table, oldest first
    initiatives, \* projects/ and events/ pages there are, as <<kind, title's slug>>
    pages,       \* channel pages and thread pages: place -> whose text is there
    task,        \* the handlers
    raced,       \* channels and kinds that had two handlers at once (for the properties)
    crossed,     \* places whose page two handlers moved at once (for the properties)
    setups, replies, faults

counters == <<setups, replies, faults>>
history == <<raced, crossed>>
vault == <<initiatives, pages>>
vars == <<channels, sessions, vault, task, history, counters>>

Dirs == {Slug[ti] : ti \in AllTitles}

\* channels/<dir>.md, the pages under channels/<dir>/ and channels/archive/<dir>/
Parts == {"page", "thread", "archive"}
Places == Parts \X Dirs

Fresh == "fresh"   \* a channel page as the template renders it

\* SETUP_STEPS, in order; the last step is followed by "done".
Open == {"lead", "brief", "timeline"}

StepAfter(s) == CASE s = "lead" -> "brief" [] s = "brief" -> "timeline" [] OTHER -> "done"

Idle == [at |-> "idle", chan |-> None, by |-> None, kind |-> None, title |-> None,
         initiative |-> None, sid |-> 0, old |-> None, row |-> None, todo |-> <<>>, held |-> None]

\* initiative_page_path
InitiativePage(k, ti) == <<k, Slug[ti]>>

\* The text a directory begins with: of a channel that has it, if one does.
Begun(d) ==
    LET owners == {c \in Chans : Start[c] # None /\ Slug[Start[c].title] = d} IN
    IF owners = {} THEN None ELSE CHOOSE c \in owners : TRUE

Init ==
    /\ channels = Start
    /\ sessions = <<>>
    /\ initiatives = {InitiativePage(Start[c].kind, Start[c].initiative) :
                         c \in {d \in Chans : Start[d] # None /\ Start[d].initiative # None}}
    /\ pages = [p \in Places |-> Begun(p[2])]
    /\ task = [t \in Tasks |-> Idle]
    /\ raced = {} /\ crossed = {}
    /\ setups = 0 /\ replies = 0 /\ faults = 0

-----------------------------------------------------------------------------
(* receive_webhook lets a delivery in, and handle_command routes it.       *)

InFlight(t) == {u \in Tasks \ {t} : task[u].at # "idle"}
Meets(t, c, k) ==
    {x \in {c, k} : \E u \in InFlight(t) : x \in {task[u].chan, task[u].kind}} \cap (Chans \cup Kinds)

Active(c) == {i \in DOMAIN sessions : sessions[i].chan = c /\ sessions[i].step \in Open}

\* The newest dialogue still waiting in c: by created_at, then id.
Newest(c) == CHOOSE i \in Active(c) : \A j \in Active(c) : j <= i

HasSetupSession(c, a) == Active(c) # {} /\ sessions[Newest(c)].by = a

\* "/setup [kind] [<Title>]" from a bot admin.
Setup(t, c, a, k, ti) ==
    /\ task[t] = Idle /\ setups < MaxSetups
    /\ setups' = setups + 1
    /\ raced' = raced \cup Meets(t, c, k)
    /\ task' = [task EXCEPT ![t] = [Idle EXCEPT !.at = "cancel", !.chan = c, !.by = a, !.kind = k,
                     !.title = IF ti = None /\ k \notin InitKinds THEN DefaultTitle(k) ELSE ti,
                     !.initiative = IF k \in InitKinds THEN ti ELSE None]]
    /\ UNCHANGED <<channels, sessions, vault, crossed, replies, faults>>

\* "/unwatch [jid]": c is the channel to unwatch, this one or another.
Unwatch(t, c, a) ==
    /\ task[t] = Idle /\ setups < MaxSetups
    /\ setups' = setups + 1
    /\ raced' = raced \cup Meets(t, c, None)
    /\ task' = [task EXCEPT ![t] = [Idle EXCEPT !.at = "unload", !.chan = c, !.by = a]]
    /\ UNCHANGED <<channels, sessions, vault, crossed, replies, faults>>

\* Plain chat of the admin a dialogue waits for; or a "/..." of any admin
\* that is no command, which handle_command takes for an answer too.
Reply(t, c, a, slash) ==
    /\ task[t] = Idle /\ replies < MaxReplies
    /\ slash \/ HasSetupSession(c, a)
    /\ replies' = replies + 1
    /\ raced' = raced \cup Meets(t, c, None)
    /\ task' = [task EXCEPT ![t] = [Idle EXCEPT !.at = "find", !.chan = c, !.by = a]]
    /\ UNCHANGED <<channels, sessions, vault, crossed, setups, faults>>

-----------------------------------------------------------------------------
(* setup                                                                   *)

\* Where a task goes next, with nothing else of it changed.
Goes(t, place) == task' = [task EXCEPT ![t].at = place]
Ends(t) == task' = [task EXCEPT ![t] = Idle]

\* A new /setup supersedes any dialogue of the channel, in one UPDATE. An
\* initiative without a title goes no further.
CancelDialogues(t) ==
    /\ task[t].at = "cancel"
    /\ sessions' = [i \in DOMAIN sessions |->
                      IF i \in Active(task[t].chan)
                      THEN [sessions[i] EXCEPT !.step = "cancelled"] ELSE sessions[i]]
    /\ CASE task[t].kind = "other" -> Goes(t, "old")
         [] task[t].kind \in Singletons -> Goes(t, "kind")
         [] task[t].title = None -> Ends(t)
         [] OTHER -> Goes(t, "look")
    /\ UNCHANGED <<channels, vault, history, counters>>

OfKind(k) == {c \in Chans : channels[c] # None /\ channels[c].kind = k}

\* BUG: a channel that is the kind already is refused, others are not.
FindKindMutant(t) ==
    /\ task[t].at = "kind"
    /\ IF OfKind(task[t].kind) = {} THEN Goes(t, "old")
       ELSE \E c \in OfKind(task[t].kind) : IF c = task[t].chan THEN Ends(t) ELSE Goes(t, "old")
    /\ UNCHANGED <<channels, sessions, vault, history, counters>>

\* get_channel_by_kind returns some row of the kind: another channel's is a
\* refusal, this channel's own is not.
FindKind(t) ==
    /\ task[t].at = "kind"
    /\ IF OfKind(task[t].kind) = {} THEN Goes(t, "old")
       ELSE \E c \in OfKind(task[t].kind) : IF c = task[t].chan THEN Goes(t, "old") ELSE Ends(t)
    /\ UNCHANGED <<channels, sessions, vault, history, counters>>

LookForPage(t) ==
    /\ task[t].at = "look"
    /\ Goes(t, IF InitiativePage(task[t].kind, task[t].title) \in initiatives THEN "old" ELSE "open")
    /\ UNCHANGED <<channels, sessions, vault, history, counters>>

OpenDialogue(t) ==
    /\ task[t].at = "open"
    /\ sessions' = Append(sessions, [chan |-> task[t].chan, kind |-> task[t].kind,
                                     title |-> task[t].title, by |-> task[t].by, step |-> "lead"])
    /\ Ends(t)
    /\ UNCHANGED <<channels, vault, history, counters>>

-----------------------------------------------------------------------------
(* continue_setup_session                                                  *)

FindDialogue(t) ==
    /\ task[t].at = "find"
    /\ IF Active(task[t].chan) = {} THEN Ends(t)
       ELSE task' = [task EXCEPT ![t].at = "answer", ![t].sid = Newest(task[t].chan)]
    /\ UNCHANGED <<channels, sessions, vault, history, counters>>

\* The row is read again after the roster was; a dialogue that has ended in
\* between has no step to answer (ValueError, caught by the webhook).
LoadDialogue(t) ==
    /\ task[t].at = "answer"
    /\ LET s == sessions[task[t].sid] IN
       IF s.step \notin Open THEN Ends(t)
       ELSE task' = [task EXCEPT ![t].at = "commit", ![t].row = s]
    /\ UNCHANGED <<channels, sessions, vault, history, counters>>

\* BUG: the channel is watched before the page is made.
CommitDialogueMutant(t) ==
    /\ task[t].at = "commit"
    /\ LET s == task[t].row IN
       /\ sessions' = [sessions EXCEPT ![task[t].sid].step = StepAfter(s.step)]
       /\ IF s.step # "timeline" THEN Ends(t)
          ELSE task' = [task EXCEPT ![t] = [Idle EXCEPT !.at = "old", !.chan = task[t].chan,
                            !.kind = s.kind, !.title = s.title, !.initiative = s.title]]
    /\ UNCHANGED <<channels, vault, history, counters>>

\* The answer and the next step, over whatever the row has become meanwhile.
CommitDialogue(t) ==
    /\ task[t].at = "commit"
    /\ LET s == task[t].row IN
       /\ sessions' = [sessions EXCEPT ![task[t].sid].step = StepAfter(s.step)]
       /\ IF s.step # "timeline" THEN Ends(t)
          ELSE task' = [task EXCEPT ![t] = [Idle EXCEPT !.at = "create", !.chan = task[t].chan,
                            !.kind = s.kind, !.title = s.title, !.initiative = s.title]]
    /\ UNCHANGED <<channels, vault, history, counters>>

\* A page that is there already will do.
CreateInitiative(t) ==
    /\ task[t].at = "create"
    /\ initiatives' = initiatives \cup {InitiativePage(task[t].kind, task[t].title)}
    /\ Goes(t, "old")
    /\ UNCHANGED <<channels, sessions, pages, history, counters>>

-----------------------------------------------------------------------------
(* register_channel: the row first, then the pages after it                *)

ReadOld(t) ==
    /\ task[t].at = "old"
    /\ task' = [task EXCEPT ![t].at = "load", ![t].old = channels[task[t].chan]]
    /\ UNCHANGED <<channels, sessions, vault, history, counters>>

LoadChannel(t) ==
    /\ task[t].at = "load"
    /\ task' = [task EXCEPT ![t].at = "upsert", ![t].row = channels[task[t].chan]]
    /\ UNCHANGED <<channels, sessions, vault, history, counters>>

Wanted(t) == [kind |-> task[t].kind, title |-> task[t].title, initiative |-> task[t].initiative]

\* An ORM row writes back only the attributes that were assigned a value
\* other than the one it was loaded with.
Flushed(stored, loaded, wanted) ==
    [f \in {"kind", "title", "initiative"} |-> IF wanted[f] = loaded[f] THEN stored[f] ELSE wanted[f]]

\* Two first inserts of one jid collide: the second handler fails.
UpsertChannel(t) ==
    LET c == task[t].chan IN
    /\ task[t].at = "upsert"
    /\ IF task[t].row = None /\ channels[c] # None
       THEN Ends(t) /\ UNCHANGED channels
       ELSE /\ channels' = [channels EXCEPT ![c] =
                              IF task[t].row = None THEN Wanted(t)
                              ELSE Flushed(channels[c], task[t].row, Wanted(t))]
            /\ Goes(t, "relocate")
    /\ UNCHANGED <<sessions, vault, history, counters>>

\* The new row is read back; with another directory the pages move, the
\* channel page first. The listings of the two folders are taken together.
Relocate(t) ==
    LET new == channels[task[t].chan]
        from == IF task[t].old = None THEN Slug[new.title] ELSE Slug[task[t].old.title]
        found(p) == IF pages[<<p, from>>] = None THEN <<>> ELSE <<p>>
    IN
    /\ task[t].at = "relocate"
    /\ IF from = Slug[new.title]
       THEN task' = [task EXCEPT ![t].at = "ensure", ![t].row = new]
       ELSE task' = [task EXCEPT ![t].at = "read", ![t].row = new,
                                 ![t].todo = <<"page">> \o found("thread") \o found("archive")]
    /\ UNCHANGED <<channels, sessions, vault, history, counters>>

Source(t) == <<Head(task[t].todo), Slug[task[t].old.title]>>
Target(t) == <<Head(task[t].todo), Slug[task[t].row.title]>>

\* The handlers between the read of a page and its deletion.
Moving == {t \in Tasks : task[t].at \in {"put", "delete"}}

\* On to the next page, or to the channel page when none is left.
NextPage(t) ==
    task' = [task EXCEPT ![t].at = IF Len(task[t].todo) = 1 THEN "ensure" ELSE "read",
                         ![t].todo = Tail(task[t].todo), ![t].held = None]

ReadPage(t) ==
    /\ task[t].at = "read"
    /\ IF pages[Source(t)] = None
       THEN NextPage(t) /\ UNCHANGED crossed
       ELSE /\ task' = [task EXCEPT ![t].at = "put", ![t].held = pages[Source(t)]]
            /\ crossed' = crossed \cup {p \in {Source(t)} : \E u \in Moving \ {t} : Source(u) = p}
    /\ UNCHANGED <<channels, sessions, vault, raced, counters>>

\* BUG: the old page goes even when the target was taken.
PutPageMutant(t) ==
    /\ task[t].at = "put"
    /\ pages' = IF pages[Target(t)] = None THEN [pages EXCEPT ![Target(t)] = task[t].held] ELSE pages
    /\ Goes(t, "delete")
    /\ UNCHANGED <<channels, sessions, initiatives, history, counters>>

\* A page at the target is never overwritten: the old one is left behind.
PutPage(t) ==
    /\ task[t].at = "put"
    /\ IF pages[Target(t)] # None THEN NextPage(t) /\ UNCHANGED pages
       ELSE pages' = [pages EXCEPT ![Target(t)] = task[t].held] /\ Goes(t, "delete")
    /\ UNCHANGED <<channels, sessions, initiatives, history, counters>>

\* delete does not look at what it deletes.
DeletePage(t) ==
    /\ task[t].at = "delete"
    /\ pages' = [pages EXCEPT ![Source(t)] = None]
    /\ NextPage(t)
    /\ UNCHANGED <<channels, sessions, initiatives, history, counters>>

\* ensure_channel_page never replaces a page; then the reply, and the history
\* import, which has its own model.
EnsureChannelPage(t) ==
    LET place == <<"page", Slug[task[t].row.title]>> IN
    /\ task[t].at = "ensure"
    /\ pages' = IF pages[place] = None THEN [pages EXCEPT ![place] = Fresh] ELSE pages
    /\ Ends(t)
    /\ UNCHANGED <<channels, sessions, initiatives, history, counters>>

-----------------------------------------------------------------------------
(* unwatch_channel                                                         *)

LoadWatched(t) ==
    LET c == task[t].chan IN
    /\ task[t].at = "unload"
    /\ IF channels[c] = None \/ channels[c].kind = "unset" THEN Ends(t)
       ELSE task' = [task EXCEPT ![t].at = "unset", ![t].row = channels[c]]
    /\ UNCHANGED <<channels, sessions, vault, history, counters>>

\* The title stays, so a later /setup knows the directory.
Unset(t) ==
    LET c == task[t].chan
        wanted == [task[t].row EXCEPT !.kind = "unset", !.initiative = None]
    IN
    /\ task[t].at = "unset"
    /\ channels' = [channels EXCEPT ![c] = Flushed(channels[c], task[t].row, wanted)]
    /\ Ends(t)
    /\ UNCHANGED <<sessions, vault, history, counters>>

-----------------------------------------------------------------------------
\* A handler dies: the vault or the database fails, which the webhook logs,
\* or the process stops, which takes every handler (MaxFaults of them here).
Fails(t) ==
    /\ task[t].at # "idle" /\ faults < MaxFaults
    /\ faults' = faults + 1
    /\ Ends(t)
    /\ UNCHANGED <<channels, sessions, vault, history, setups, replies>>

SetupStep(t) == CancelDialogues(t) \/ FindKind(t) \/ LookForPage(t) \/ OpenDialogue(t)
DialogueStep(t) == FindDialogue(t) \/ LoadDialogue(t) \/ CommitDialogue(t) \/ CreateInitiative(t)
RegisterStep(t) ==
    \/ ReadOld(t) \/ LoadChannel(t) \/ UpsertChannel(t) \/ Relocate(t)
    \/ ReadPage(t) \/ PutPage(t) \/ DeletePage(t) \/ EnsureChannelPage(t)

Next ==
    \E t \in Tasks :
        \/ \E c \in Chans, a \in Admins :
              \/ \E k \in Kinds, ti \in Titles \cup {None} : Setup(t, c, a, k, ti)
              \/ Unwatch(t, c, a)
              \/ \E slash \in BOOLEAN : Reply(t, c, a, slash)
        \/ SetupStep(t) \/ DialogueStep(t) \/ RegisterStep(t)
        \/ LoadWatched(t) \/ Unset(t)
        \/ Fails(t)

Spec == Init /\ [][Next]_vars

-----------------------------------------------------------------------------
\* "A second /setup of one is refused" (_setup_singleton_or_other): no two
\* channels are of one singleton kind, unless two handlers asked for the kind
\* at once and both found none. A failure between the steps changes nothing.
OneOfAKind ==
    \A c, d \in Chans, k \in (Kinds \cap Singletons) \ raced :
        c \in OfKind(k) /\ d \in OfKind(k) => c = d

\* "A new /setup supersedes any dialogue" (setup): a channel waits for the
\* answers of at most one, wherever that /setup or an answer failed, unless
\* two handlers of the channel ran at once.
OneDialogue == \A c \in Chans \ raced : \A i, j \in Active(c) : i = j

\* What nothing in the tables makes unique stays so: a kind has one channel and
\* a channel one dialogue, for handlers that do not overlap and whatever fails.
AtMostOne == OneOfAKind /\ OneDialogue

\* onboarding.py creates the initiative's page "and only then watches the
\* channel": whatever handlers overlap and whichever of them dies, a channel
\* is never linked to an initiative without a page.
InitiativeHasPage ==
    \A c \in Chans :
        channels[c] # None /\ channels[c].initiative # None
        => \E k \in InitKinds : InitiativePage(k, channels[c].initiative) \in initiatives

\* ThreadStore.relocate moves a page by creating and then deleting it: a text
\* that was there at the start is always at some place, whichever handler dies
\* and whichever handlers overlap, unless two of them had read one page to move
\* it: then the later delete takes what a third move may have brought there.
NoPageLost ==
    \A p \in Parts, d \in Dirs :
        Begun(d) # None /\ (\A e \in Dirs : <<p, e>> \notin crossed)
        => \E e \in Dirs : pages[<<p, e>>] = Begun(d)
=============================================================================
