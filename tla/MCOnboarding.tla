---------------------------- MODULE MCOnboarding ----------------------------
EXTENDS Onboarding, Members, TLC

CONSTANTS c1, c2, a1, t1, t2, x, y, h1, h2

MCTitles == {"B"}
MCSlug == [ti \in AllTitles |-> ti]
\* One channel with its pages, one group the bot has never seen.
MCStart == (c1 :> [kind |-> "other", title |-> "Other", initiative |-> None]) @@ (c2 :> None)

Symmetric == Permutations(Tasks) \cup Permutations(Handlers)

VARIABLE who

\* Onboarding and the registry share no state: in a behaviour one of them moves
\* and the other stays where it begins.
MCInit == who \in {"onboarding", "members"} /\ Init /\ MembersInit

MCNext ==
    \/ who = "onboarding" /\ Next /\ UNCHANGED <<who, mvars>>
    \/ who = "members" /\ MembersNext /\ UNCHANGED <<who, vars>>

MCSpec == MCInit /\ [][MCNext]_<<who, vars, mvars>>
=============================================================================
