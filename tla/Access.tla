------------------------------- MODULE Access -------------------------------
(***************************************************************************)
(* Who may read which wiki page (shared/security/access.py): the policy    *)
(* with its cached memberships and its resolver of Channel paths. Nothing  *)
(* in main.py asks it yet.                                                 *)
(*                                                                         *)
(* Checks run as tasks and await the Channels and the memberships, while   *)
(* people join and leave, answers of the provider come late and out of     *)
(* order, and the cache entries grow old. A page is its area: of a Channel *)
(* it is the name the path has for it, also in the archive. A person whose *)
(* identities are all blank is a member of nothing.                        *)
(***************************************************************************)
EXTENDS Naturals, FiniteSets

CONSTANTS
    Groups,      \* Channels with a WhatsApp JID
    Coordis,     \* the one of kind coordis, or Nowhere
    DirsOf,      \* of each, what a page path may call it: its channel_dir, its JID's slug
    Readers,     \* people who ask, no admins
    Privileged,  \* those with the is_privileged flag
    Areas,       \* pages that may be asked for: an area or the name of a Channel
    Nowhere,     \* no Channel
    Checks,      \* checks being made
    TTL,         \* how long an entry of the cache lives
    MaxTime, MaxMoves, MaxLookupFaults  \* bounds on time, on joining and leaving, on failures

OpenAreas == {"people", "projects", "events", "resources", "ideas"}
Refused == {"invalid", "inbox", "meta"}

\* The name of a Channel is told from an area: its pages are under channels/.
ASSUME AccessAssumption ==
    /\ Coordis \in Groups \cup {Nowhere} /\ Nowhere \notin Groups /\ IsFiniteSet(Groups)
    /\ Privileged \subseteq Readers
    /\ DOMAIN DirsOf = Groups /\ \A g \in Groups : DirsOf[g] \cap (OpenAreas \cup Refused) = {}
    /\ TTL \in Nat /\ MaxTime \in Nat /\ MaxMoves \in Nat /\ MaxLookupFaults \in Nat

VARIABLES
    members,  \* of each group, as WhatsApp has it
    changed,  \* when each reader last joined or left a group (for the properties)
    cache,    \* CachedMembership: what it holds for a group, and until when
    check,    \* the checks
    clock, moves, lookupFaults

avars == <<members, changed, cache, check, clock, moves, lookupFaults>>

NoEntry == [until |-> 0, who |-> {}]

\* A check: where it is, who asks for what since when, the group it looks up,
\* how far that is, the lookups that failed, and what came out.
Unasked == [at |-> "unasked", who |-> Nowhere, area |-> "none", since |-> 0, group |-> Nowhere,
            lookup |-> "none", asked |-> 0, answer |-> {}, failed |-> {}, verdict |-> "none"]

AccessInit ==
    /\ members \in {[g \in Groups |-> {}], [g \in Groups |-> Readers]}
    /\ changed = [g \in Groups |-> [r \in Readers |-> 0]]
    /\ cache = [g \in Groups |-> NoEntry]
    /\ check = [k \in Checks |-> Unasked]
    /\ clock = TTL /\ moves = 0 /\ lookupFaults = 0

-----------------------------------------------------------------------------
(* The world                                                               *)

Tick ==
    /\ clock < MaxTime /\ clock' = clock + 1
    /\ UNCHANGED <<members, changed, cache, check, moves, lookupFaults>>

JoinOrLeave(g, r) ==
    /\ moves < MaxMoves /\ moves' = moves + 1
    /\ members' = [members EXCEPT ![g] = IF r \in @ THEN @ \ {r} ELSE @ \cup {r}]
    /\ changed' = [changed EXCEPT ![g][r] = clock]
    /\ UNCHANGED <<cache, check, clock, lookupFaults>>

-----------------------------------------------------------------------------
(* can_read                                                                *)

Move(k, to) == check' = [check EXCEPT ![k] = to]
Verdict(v) == [Unasked EXCEPT !.at = "done", !.verdict = v]

\* resolve: the one Channel with that directory or whose JID has that slug, or
\* UnknownChannel.
Resolved(area) ==
    LET matching == {g \in Groups : area \in DirsOf[g]}
    IN IF Cardinality(matching) = 1 THEN CHOOSE g \in matching : TRUE ELSE Nowhere

\* inbox/ and what is not an area is denied, areas in common are open, and of
\* a Channel's page the members are looked up.
Decided(c) ==
    LET g == Resolved(c.area) IN
    IF c.area \in OpenAreas THEN Verdict("allow")
    ELSE IF c.area \in Refused \/ g = Nowhere THEN Verdict("deny")
    ELSE [c EXCEPT !.at = "channel", !.group = g, !.asked = 0]

\* normalize_path refuses before anything is asked, and the flag settles it.
\* Else the Channels are read for the one of kind coordis.
Ask(k, r, a) ==
    LET c == [Unasked EXCEPT !.who = r, !.area = a, !.since = clock] IN
    /\ check[k].at \in {"unasked", "done"}
    /\ Move(k, IF a = "invalid" THEN Verdict("deny")
               ELSE IF r \in Privileged THEN Verdict("allow")
               ELSE IF Coordis = Nowhere THEN Decided(c)
               ELSE [c EXCEPT !.at = "coordis", !.group = Coordis])
    /\ UNCHANGED <<members, changed, cache, clock, moves, lookupFaults>>

\* The group did not grant: the order of the policy goes on.
AfterCoordis(c) == Decided(c)

\* What the policy makes of the members of a group.
Judge(c, who) ==
    IF c.who \in who THEN Verdict("allow")
    ELSE IF c.at = "coordis" THEN AfterCoordis(c)
    ELSE Verdict("deny")

\* BUG: an entry is good for as long as it is asked for.
HeldMutant(g) == cache' = [cache EXCEPT ![g].until = clock + TTL]

\* An entry keeps its deadline when it is used.
Held(g) == UNCHANGED cache

\* members: from the cache while the entry lives, else the provider is asked.
Lookup(k) ==
    LET c == check[k] IN
    /\ c.at \in {"coordis", "channel"} /\ c.lookup = "none"
    /\ IF clock < cache[c.group].until
       THEN Move(k, Judge(c, cache[c.group].who)) /\ Held(c.group)
       ELSE Move(k, [c EXCEPT !.lookup = "asked", !.asked = clock]) /\ UNCHANGED cache
    /\ UNCHANGED <<members, changed, clock, moves, lookupFaults>>

\* The provider looks; its answer is on the way.
Provide(k) ==
    /\ check[k].lookup = "asked"
    /\ Move(k, [check[k] EXCEPT !.lookup = "answered", !.answer = members[check[k].group]])
    /\ UNCHANGED <<members, changed, cache, clock, moves, lookupFaults>>

Back(c) == [c EXCEPT !.lookup = "none", !.answer = {}]

\* Its answer is in the cache from when it was asked for, whoever was faster.
Receive(k) ==
    LET c == check[k] IN
    /\ c.lookup = "answered"
    /\ cache' = [cache EXCEPT ![c.group] = [until |-> c.asked + TTL, who |-> c.answer]]
    /\ Move(k, Judge(Back(c), c.answer))
    /\ UNCHANGED <<members, changed, clock, moves, lookupFaults>>

\* MembershipUnavailable: the coordis group grants nothing, a Channel denies.
LookupFails(k) ==
    LET c == check[k] IN
    /\ c.lookup # "none"
    /\ lookupFaults < MaxLookupFaults /\ lookupFaults' = lookupFaults + 1
    /\ Move(k, Judge([Back(c) EXCEPT !.failed = @ \cup {c.group}], {}))
    /\ UNCHANGED <<members, changed, cache, clock, moves>>

AccessNext ==
    \/ Tick \/ \E g \in Groups, r \in Readers : JoinOrLeave(g, r)
    \/ \E k \in Checks :
         \/ \E r \in Readers, a \in Areas : Ask(k, r, a)
         \/ Lookup(k) \/ Provide(k) \/ Receive(k) \/ LookupFails(k)

-----------------------------------------------------------------------------
\* Whether r was a member of g, or none, at some time from t on.
WasIn(g, r, t) == r \in members[g] \/ changed[g][r] >= t
WasOut(g, r, t) == r \notin members[g] \/ changed[g][r] >= t

\* When an entry that is still used at t was asked for, at the earliest.
Oldest(t) == IF TTL = 0 THEN t ELSE (t + 1) - TTL

Failing(c) == IF lookupFaults' # lookupFaults THEN {c.group} ELSE {}

\* Who is no privileged reader sees a page of a Channel, or the inbox, only as
\* a member of coordis or of the one Channel of that name, and has been
\* one less than a TTL ago or while the lookup ran, however old the entry of
\* the cache is that several checks share (access.py:70-84, 226-231).
Granted(k) ==
    LET c == check[k] IN
    (check'[k].verdict = "allow" /\ c.at \notin {"done", "unasked"} /\ c.area \notin OpenAreas) =>
       /\ c.group = Coordis \/ {g \in Groups : c.area \in DirsOf[g]} = {c.group}
       /\ WasIn(c.group, c.who, IF c.lookup = "none" THEN Oldest(clock) ELSE c.asked)

\* Who is denied a page of a Channel was outside it, and outside coordis, less
\* than a TTL before the check began or since: a failed lookup of one group
\* takes nothing from the members of the other (access.py:280-282).
Denied(k) ==
    LET c == check[k] IN
    (check'[k].verdict = "deny" /\ c.at \notin {"done", "unasked"} /\ Resolved(c.area) # Nowhere) =>
       \A g \in {Resolved(c.area), Coordis} \ (c.failed \cup Failing(c) \cup {Nowhere}) :
          WasOut(g, c.who, Oldest(c.since))

\* Whatever a check finds in the cache and in whatever order the lookups of
\* several come back, its verdict was right not long ago: never granted to one
\* who had left, never denied to one who was there (Granted, Denied).
VerdictIsRecent == [][\A k \in Checks : Granted(k) /\ Denied(k)]_avars

AccessSpec == AccessInit /\ [][AccessNext]_avars
=============================================================================
