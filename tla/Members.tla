------------------------------ MODULE Members ------------------------------
(***************************************************************************)
(* Who is who (shared/gateway/command_handlers.py over channels.py and     *)
(* shared/cms): the members_registry table links a WhatsApp identity to a  *)
(* member. An admin links one with /link, and /setup-members matches all   *)
(* participants of a group to the roster.                                  *)
(*                                                                         *)
(* Every command is a webhook task of its own, which awaits the bridge, the *)
(* roster and each query, so commands overlap. A person has a phone        *)
(* identity and may have a second one (lid). A row is flushed by the ORM,  *)
(* which writes the columns that differ from what was loaded.              *)
(***************************************************************************)
EXTENDS Naturals, Sequences

CONSTANTS
    Persons,      \* participants of the group, the bot not among them
    HasLid,       \* those the bridge lists with a lid
    RosterIds,    \* members of the CMS; each has a title of its own
    Nobody,       \* no row, no record, no CMS id
    Handlers,     \* webhook tasks
    MaxCommands,  \* bound on commands
    MaxOutages    \* bound on calls that fail

\* MembersRegistry, the columns link_member writes.
LinkRow == [title : RosterIds, id : RosterIds \cup {Nobody}]

ASSUME MembersAssumption ==
    /\ HasLid \subseteq Persons /\ Nobody \notin RosterIds \cup LinkRow
    /\ MaxCommands \in Nat /\ MaxOutages \in Nat

VARIABLES
    registry,  \* members_registry, by wa_identity
    handler,   \* the commands being handled
    overtaken, \* identities another handler has written in this one's turn
    blind,     \* persons linked by a title the roster did not resolve
    commands, outages

mvars == <<registry, handler, overtaken, blind, commands, outages>>

\* The identities /setup-members looks up for a participant, in this order.
IdentitiesOf(p) == IF p \in HasLid THEN <<<<p, "jid">>, <<p, "lid">>>> ELSE <<<<p, "jid">>>>
Identities == {<<p, "jid">> : p \in Persons} \cup {<<p, "lid">> : p \in HasLid}

\* A registry row. A member's title goes by the id the roster has for it.
Link(title, id) == [title |-> title, id |-> id]
Agrees(row) == row.id = row.title

Free == [at |-> "free", cmd |-> "none", todo |-> {}, left |-> <<>>, row |-> Nobody, loaded |-> Nobody]

MembersInit ==
    /\ registry = [i \in Identities |-> Nobody]
    /\ handler = [h \in Handlers |-> Free]
    /\ overtaken = [h \in Handlers |-> {}] /\ blind = {}
    /\ commands = 0 /\ outages = 0

Outage == outages < MaxOutages /\ outages' = outages + 1

-----------------------------------------------------------------------------
(* link_member: the row is loaded, changed and flushed.                    *)

LoadLink(h) ==
    /\ handler[h].at = "load"
    /\ handler' = [handler EXCEPT ![h].at = "flush", ![h].loaded = registry[Head(handler[h].left)]]
    /\ UNCHANGED <<registry, overtaken, blind, commands, outages>>

\* BUG: only a row that has no CMS id yet gets one.
FlushedLinkMutant(old, loaded, new) ==
    [title |-> IF new.title = loaded.title THEN old.title ELSE new.title,
     id |-> IF loaded.id # Nobody \/ new.id = Nobody THEN old.id ELSE new.id]

\* What becomes of the row there is by now; an unknown CMS id is not written.
FlushedLink(old, loaded, new) ==
    [title |-> IF new.title = loaded.title THEN old.title ELSE new.title,
     id |-> IF new.id \in {Nobody, loaded.id} THEN old.id ELSE new.id]

\* The next identity of this person, or the next person.
Onward(c) ==
    IF Len(c.left) > 1 THEN [c EXCEPT !.at = IF c.cmd = "copy" THEN "check" ELSE "load", !.left = Tail(@)]
    ELSE [c EXCEPT !.at = IF c.cmd = "link" THEN "free" ELSE "next", !.left = <<>>]

Done(h, c) == handler' = [handler EXCEPT ![h] = IF c.at = "free" THEN Free ELSE [c EXCEPT !.loaded = Nobody]]

\* Two inserts of one key: the second commit raises, and ends its command.
CommitLink(h) ==
    LET c == handler[h]
        i == Head(c.left) IN
    /\ c.at = "flush"
    /\ IF c.loaded = Nobody /\ registry[i] # Nobody
       THEN /\ handler' = [handler EXCEPT ![h] = Free]
            /\ UNCHANGED <<registry, overtaken, blind>>
       ELSE /\ registry' = [registry EXCEPT ![i] =
                  IF c.loaded = Nobody THEN c.row ELSE FlushedLink(@, c.loaded, c.row)]
            /\ overtaken' = [o \in Handlers |-> IF o = h THEN overtaken[o] ELSE overtaken[o] \cup {i}]
            /\ blind' = IF c.row.id = Nobody THEN blind \cup {i[1]} ELSE blind
            /\ Done(h, Onward(c))
    /\ UNCHANGED <<commands, outages>>

-----------------------------------------------------------------------------
(* /link                                                                   *)

Begins(h, c) ==
    /\ handler[h].at = "free" /\ commands < MaxCommands
    /\ commands' = commands + 1
    /\ handler' = [handler EXCEPT ![h] = c]
    /\ overtaken' = [overtaken EXCEPT ![h] = {}]
    /\ UNCHANGED <<registry, blind>>

\* get_member: the record of a title, or none when the roster is down or does
\* not have it. A client, with its cache, is made for each call.
RecordIds(title) == {title, Nobody}

\* "/link @mention [[Title]]", the identity from the mentions. Without a record
\* the link stands with the title that was typed, and no id; a confirmed
\* proposal links the same way.
LinkCommand(h, i, title) ==
    \E id \in RecordIds(title) :
        /\ IF id = Nobody THEN Outage ELSE UNCHANGED outages
        /\ Begins(h, [Free EXCEPT !.at = "load", !.cmd = "link", !.left = <<i>>, !.row = Link(title, id)])

-----------------------------------------------------------------------------
(* /setup-members                                                          *)

\* The participants and the roster are there; a failure of either only replies.
SetupMembers(h) ==
    /\ Begins(h, [Free EXCEPT !.at = "next", !.cmd = "match", !.todo = Persons])
    /\ UNCHANGED outages

NextPerson(h) ==
    /\ handler[h].at = "next"
    /\ IF handler[h].todo = {} THEN handler' = [handler EXCEPT ![h] = Free]
       ELSE \E p \in handler[h].todo :
              handler' = [handler EXCEPT ![h] = [Free EXCEPT !.at = "resolve", !.cmd = "match",
                            !.todo = handler[h].todo \ {p}, !.left = IdentitiesOf(p)]]
    /\ overtaken' = [overtaken EXCEPT ![h] = {}]
    /\ UNCHANGED <<registry, blind, commands, outages>>

\* rank_member: the nearest member if near enough, or nobody.
Ranked == RosterIds \cup {Nobody}

All(c) == IdentitiesOf(Head(c.left)[1])

\* BUG: a person one of whose identities is linked is left as is.
FoundMutant(c, row) == [c EXCEPT !.at = "next", !.left = <<>>]

\* Linked by one identity: the others get the same row.
Found(c, row) == [c EXCEPT !.at = "check", !.cmd = "copy", !.left = All(c), !.row = row]

\* resolve_sender of one identity after the other; nobody is linked: rank.
Resolve(h) ==
    LET c == handler[h] IN
    /\ c.at = "resolve"
    /\ \/ /\ registry[Head(c.left)] # Nobody
          /\ Done(h, Found(c, registry[Head(c.left)]))
       \/ /\ registry[Head(c.left)] = Nobody /\ Len(c.left) > 1
          /\ Done(h, [c EXCEPT !.left = Tail(@)])
       \/ /\ registry[Head(c.left)] = Nobody /\ Len(c.left) = 1
          /\ \E m \in Ranked :
               Done(h, IF m = Nobody THEN [c EXCEPT !.at = "next", !.left = <<>>]
                       ELSE [c EXCEPT !.at = "load", !.left = All(c), !.row = Link(m, m)])
    /\ UNCHANGED <<registry, overtaken, blind, commands, outages>>

\* BUG: a linked identity is linked again.
UnlinkedMutant(i) == TRUE

Unlinked(i) == registry[i] = Nobody

\* _link_identity: what is linked already is left.
Check(h) ==
    LET c == handler[h] IN
    /\ c.at = "check"
    /\ Done(h, IF Unlinked(Head(c.left)) THEN [c EXCEPT !.at = "load"] ELSE Onward(c))
    /\ UNCHANGED <<registry, overtaken, blind, commands, outages>>

\* A query fails or the process stops; what is committed stays.
HandlerFails(h) ==
    /\ handler[h].at # "free" /\ Outage
    /\ handler' = [handler EXCEPT ![h] = Free]
    /\ UNCHANGED <<registry, overtaken, blind, commands>>

MembersNext ==
    \E h \in Handlers :
        \/ \E i \in Identities, title \in RosterIds : LinkCommand(h, i, title)
        \/ SetupMembers(h) \/ NextPerson(h) \/ Resolve(h) \/ Check(h)
        \/ LoadLink(h) \/ CommitLink(h) \/ HandlerFails(h)

MembersSpec == MembersInit /\ [][MembersNext]_mvars

-----------------------------------------------------------------------------
\* "As a Bot Admin, I want /link to attach an unknown sender to a member page
\* when the fuzzy match is wrong, so that identity is correctable": no
\* /setup-members takes back a link, but for one that was made after it had
\* come to the person.
LinksStand ==
    [][\A h \in Handlers, i \in Identities :
         (handler[h].at = "flush" /\ handler[h].cmd # "link" /\ handler'[h] # handler[h]
          /\ registry[i] # Nobody /\ registry'[i] # registry[i])
            => i \in overtaken[h]]_mvars

\* When /setup-members is through with a person, all the identities of that
\* person are linked or none is, also if a command that stopped half-way had
\* linked one, unless a /link came in between.
WholePerson ==
    [][\A h \in Handlers, p \in Persons :
         (handler[h].at \notin {"free", "next"} /\ handler[h].cmd # "link"
          /\ handler'[h].at = "next" /\ Head(handler[h].left)[1] = p /\ overtaken'[h] = {})
            => \A i, j \in Identities : i[1] = p /\ j[1] = p => (registry'[i] = Nobody <=> registry'[j] = Nobody)]_mvars

\* The title and the CMS id of a row are one member's ("keyed on CMS member
\* id", shared/db.py), but for those of a person who was once linked while the
\* roster did not answer: such a link keeps the id of the member before.
RowsAgree ==
    \A i \in Identities : registry[i] # Nobody /\ i[1] \notin blind => Agrees(registry[i])
=============================================================================
