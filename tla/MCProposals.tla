---------------------------- MODULE MCProposals ----------------------------
(* Two proposals for one page, or two that make different links.             *)
EXTENDS Proposals

CONSTANTS p1, p2

MCMixes == {[p \in Ids |-> "wiki_write"],
            [p \in Ids |-> IF p = p1 THEN "link_member" ELSE "create_member"]}
=============================================================================
