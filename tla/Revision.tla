------------------------------ MODULE Revision ------------------------------
(***************************************************************************)
(* The identity of the items of a thread page (agents/wa_agent/assign.py,  *)
(* update_thread and render_items): each batch that touches the thread has *)
(* a model list all its items anew, and code gives each line its block id. *)
(*                                                                         *)
(* The model may drop items, add them, repeat them, forget their ids and   *)
(* mix them up; between two revisions a human may reword an item. Sources, *)
(* owners and dates decide nothing here: an item without a source that     *)
(* exists is dropped, as if the model had not listed it.                   *)
(***************************************************************************)
EXTENDS Naturals, Sequences, FiniteSets

CONSTANTS
    Kinds, Texts, \* of items; texts as normalised for comparison
    Digest,       \* [kind, text, width] -> that prefix of its sha1
    Forgotten,    \* the block id of an item the model gives none
    MaxItems,     \* bound on the items of an answer
    MaxRevisions  \* bound on the revisions of the page

Widths == {4, 6, 8} \* of the ids that are looked up; the fourth is 12

IdOf(kind, text, width) == <<width, Digest[kind, text, width]>>

ASSUME RevisionAssumption ==
    /\ MaxItems \in Nat /\ MaxRevisions \in Nat
    /\ DOMAIN Digest = Kinds \X Texts \X (Widths \cup {12})
    /\ \A k \in Kinds, t \in Texts, w \in Widths \cup {12} : Forgotten # IdOf(k, t, w)

VARIABLES
    items,    \* the page's Items section
    rendered, \* lines made so far of this revision's answer
    echoes,   \* the block id the answer gave for each
    revision  \* 0 before the first

rvars == <<items, rendered, echoes, revision>>

RevInit == items = <<>> /\ rendered = <<>> /\ echoes = <<>> /\ revision = 0

IdsIn(s) == {s[i].id : i \in DOMAIN s}
Taken == IdsIn(items) \cup IdsIn(rendered)

\* The list is written, a human may reword an item of it, and the next batch
\* has the model list the items again.
Revise ==
    /\ revision < MaxRevisions
    /\ \/ items' = rendered
       \/ \E i \in DOMAIN rendered, text \in Texts :
            items' = [rendered EXCEPT ![i].text = text]
    /\ rendered' = <<>> /\ echoes' = <<>> /\ revision' = revision + 1

\* The id of the last item of the page with this text, if any.
ByText(text) ==
    LET same == {i \in DOMAIN items : items[i].text = text}
    IN IF same = {} THEN Forgotten
       ELSE items[CHOOSE i \in same : \A j \in same : j <= i].id

\* BUG: the id of an item the answer has yet to come to counts as free.
MintMutant(kind, text) ==
    LET free == {w \in Widths : IdOf(kind, text, w) \notin IdsIn(rendered)}
    IN IdOf(kind, text, IF free = {} THEN 12 ELSE CHOOSE w \in free : \A v \in free : w <= v)

\* _mint_block_id: the shortest free prefix, the longest without a look.
Mint(kind, text) ==
    LET free == {w \in Widths : IdOf(kind, text, w) \notin Taken}
    IN IdOf(kind, text, IF free = {} THEN 12 ELSE CHOOSE w \in free : \A v \in free : w <= v)

\* BUG: an id the answer uses twice is used twice.
BlockIdMutant(kind, text, echo) ==
    LET id == IF echo \in IdsIn(items) THEN echo ELSE ByText(text)
    IN IF id = Forgotten THEN Mint(kind, text) ELSE id

\* An id of the page, else the id of the same text, else a new one.
BlockId(kind, text, echo) ==
    LET id == IF echo \in IdsIn(items) THEN echo ELSE ByText(text)
    IN IF id = Forgotten \/ id \in IdsIn(rendered) THEN Mint(kind, text) ELSE id

\* One grounded item of the answer becomes a line.
Render ==
    /\ revision > 0 /\ Len(rendered) < MaxItems
    /\ \E kind \in Kinds, text \in Texts, echo \in IdsIn(items) \cup {Forgotten} :
         /\ rendered' = Append(rendered, [kind |-> kind, text |-> text,
                                          id |-> BlockId(kind, text, echo)])
         /\ echoes' = Append(echoes, echo)
    /\ UNCHANGED <<items, revision>>

RevNext == Revise \/ Render

RevSpec == RevInit /\ [][RevNext]_rvars

-----------------------------------------------------------------------------
\* An id that is not looked up, of an item whose three shorter ones are taken.
UsedUp(id, taken) ==
    \E k \in Kinds, t \in Texts :
      id = IdOf(k, t, 12) /\ \A w \in Widths : IdOf(k, t, w) \in taken

\* "Identity is the id, not the text" (docs/Wiki Format.md:27): no two items
\* of a page share a block id, whatever ids the model echoes, forgets or
\* repeats and whatever a human rewords. Only the id that is not looked up
\* may, once the page and the answer have used up the three shorter ones.
ItemsHaveIdentity ==
    \A i, j \in DOMAIN rendered :
      i # j /\ rendered[i].id = rendered[j].id => UsedUp(rendered[i].id, Taken)

\* "Same text as an existing item -> same identity, even if the model forgot
\* to echo the block_id" (assign.py:725): an item that is listed again keeps
\* its id, unless its text is on the page or in the answer twice or its id is
\* another item's, on the page, by the answer or as one that is not looked up.
IdentityIsKept ==
    \A i \in DOMAIN rendered, k \in DOMAIN items :
      LET Once(s) == Cardinality({n \in DOMAIN s : s[n].text = items[k].text}) = 1 IN
      /\ rendered[i].text = items[k].text /\ Once(rendered) /\ Once(items)
      /\ echoes[i] \in {Forgotten, items[k].id}
      /\ \A j \in DOMAIN rendered \ {i} : echoes[j] # items[k].id
      /\ \A j \in DOMAIN items \ {k} : items[j].id # items[k].id
      /\ ~UsedUp(items[k].id, Taken)
      => rendered[i].id = items[k].id
=============================================================================
