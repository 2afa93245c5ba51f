------------------------------ MODULE MCPages ------------------------------
EXTENDS Pages, Revision, MCAssignment, Access

CONSTANTS h1, h2, i1, i2, co, g1, g2, k1, k2

\* A type with a section of each way of writing, and an alias for the first.
MCOrder == <<"Open tasks", "Log", "Notes">>
MCOwner == [ti \in Titles |-> CASE ti = "Open tasks" -> "managed" [] ti = "Log" -> "append" [] OTHER -> "shared"]
MCAlias == [a \in {"Tasks"} |-> "Open tasks"]

\* The shortest prefixes of all items are the same, the longer ones differ.
MCDigest == [d \in Kinds \X Texts \X {4, 6, 8, 12} |->
                IF d[3] = 4 THEN 0 ELSE IF d[2] = "t" THEN 1 ELSE 2]

\* The coordis group's directory is also that of another Channel; the third is
\* asked for by the slug of its JID.
MCDirsOf == (co :> {"e"}) @@ (g1 :> {"d", "j"}) @@ (g2 :> {"e"})

Symmetric == Permutations(Checks)

VARIABLE who

\* The page, the list of items, the batch and the access policy know nothing of
\* each other: in a behaviour one of them moves and the others stay where they
\* begin.
MCInit ==
    /\ who \in {"page", "items", "batch", "access"}
    /\ Init /\ RevInit /\ AssignInit /\ AccessInit
    /\ who # "batch" => call = <<CHOOSE b \in Batches : TRUE, "jev", DOMAIN batch>>
    /\ who # "access" => members = [g \in Groups |-> {}]

MCNext ==
    \/ who = "page" /\ Next /\ UNCHANGED <<who, rvars, assignVars, avars>>
    \/ who = "items" /\ RevNext /\ UNCHANGED <<who, vars, assignVars, avars>>
    \/ who = "batch" /\ AssignNext /\ UNCHANGED <<who, vars, rvars, avars>>
    \/ who = "access" /\ AccessNext /\ UNCHANGED <<who, vars, rvars, assignVars>>

MCSpec == MCInit /\ [][MCNext]_<<who, vars, rvars, assignVars, avars>>
=============================================================================
