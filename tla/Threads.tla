------------------------------ MODULE Threads ------------------------------
(***************************************************************************)
(* The Thread pages of one Channel (shared/wiki/threads.py): an ingestion  *)
(* run that revises and creates them, the daily lifecycle pass             *)
(* (agents/wa_agent/lifecycle.py) that marks them stale and archives what  *)
(* a human ended, and humans, all at once: an on-demand run is a webhook   *)
(* task and shares no lock with the lifecycle job.                         *)
(*                                                                         *)
(* Each ThreadStore reads the pages once and then works on what it read.   *)
(* A page is its content, which stands for its revision. Ids are the k-th  *)
(* of one day and one title, so that every new Thread wants the same.      *)
(***************************************************************************)
EXTENDS Naturals, FiniteSets

CONSTANTS
    MaxSlug,     \* bound on the ids in use
    MaxBuckets,  \* bound on the buckets of messages written
    Merges,      \* the vault may merge a stale write (Lapis), or refuses it (a directory)
    MaxHuman,    \* bound on edits by humans
    MaxFaults    \* bound on calls that fail and on restarts

ASSUME ThreadsAssumption ==
    /\ MaxSlug \in Nat \ {0} /\ MaxBuckets \in Nat /\ Merges \in BOOLEAN
    /\ MaxHuman \in Nat /\ MaxFaults \in Nat

VARIABLES
    live,      \* the pages in the Channel's directory, by id
    archive,   \* the pages in its archive
    written,   \* buckets on a page so far
    old,       \* those of more than thread_stale_days ago
    run,       \* the ingestion run's store
    pass,      \* the lifecycle pass and its store
    merged,    \* history: buckets that a merge left in a Thread that is stale, or ended
    edits, faults

vars == <<live, archive, written, old, run, pass, merged, edits, faults>>

Slugs == 1..MaxSlug
Buckets == 1..MaxBuckets
States == {"active", "stale", "ended"}
OpenStates == {"active", "stale"}

NoPage == [state |-> "none", kept |-> {}, notes |-> 0]
Page == {NoPage} \cup [state : States, kept : SUBSET Buckets, notes : 0..MaxHuman]
Pages == [Slugs -> Page]
Nothing == [s \in Slugs |-> NoPage]

\* archived: the ids in the archive when it was read, and whether it was.
\* did: the Threads of this batch that have their bucket.
NoRun == [at |-> "idle", seen |-> Nothing, archived |-> {}, did |-> {}]
NoPass == [at |-> "idle", seen |-> Nothing, left |-> {}]

Init ==
    /\ live = Nothing /\ archive = Nothing
    /\ written = 0 /\ old = 0
    /\ run = NoRun /\ pass = NoPass
    /\ merged = [state \in {"stale", "ended"} |-> {}]
    /\ edits = 0 /\ faults = 0

ThreadsTypeOK ==
    /\ live \in Pages /\ archive \in Pages
    /\ written \in 0..MaxBuckets /\ old \in 0..written
    /\ run \in [at : {"idle", "revising", "creating"}, seen : Pages,
                archived : SUBSET Slugs, did : SUBSET Slugs]
    /\ pass \in [at : {"idle", "marking", "archiving", "deleting"}, seen : Pages, left : SUBSET Slugs]
    /\ merged \in [{"stale", "ended"} -> SUBSET Buckets]
    /\ edits \in 0..MaxHuman /\ faults \in 0..MaxFaults

There(pages, s) == pages[s] # NoPage
First(s, S) == s \in S /\ \A q \in S : s <= q

-----------------------------------------------------------------------------
(* The vault. A page is written over the content it was read with; a stale  *)
(* write is refused, or merged if Lapis can: the two sides must not both    *)
(* have changed the state, and a page that is gone has no other side.       *)

\* BUG: the base revision is not looked at.
CurrentMutant(s, base) == There(live, s)
Current(s, base) == live[s] = base

Merged(s, base, page) ==
    [live[s] EXCEPT !.kept = @ \cup page.kept,
                    !.state = IF page.state = base.state THEN @ ELSE page.state]

Mergeable(s, base, page) ==
    /\ Merges /\ There(live, s)
    /\ page.state = base.state \/ live[s].state = base.state

\* What is in a merged page since the base was read. Neither side meant it to
\* be in a Thread that is stale or ended.
Mixed(s, base, page) ==
    LET m == Merged(s, base, page) IN
    IF m.state = "active" THEN merged
    ELSE [merged EXCEPT ![m.state] = @ \cup (m.kept \ base.kept)]

Write(s, base, page) ==
    \/ Current(s, base) /\ live' = [live EXCEPT ![s] = page] /\ UNCHANGED merged
    \/ ~Current(s, base) /\ Mergeable(s, base, page)
       /\ live' = [live EXCEPT ![s] = Merged(s, base, page)]
       /\ merged' = Mixed(s, base, page)

-----------------------------------------------------------------------------
(* The run: threads(), then revise or create for each bucket of the batch.  *)

Load ==
    /\ run.at = "idle" /\ written < MaxBuckets
    /\ run' = [NoRun EXCEPT !.at = "revising", !.seen = live]
    /\ UNCHANGED <<live, archive, written, old, pass, merged, edits, faults>>

\* BUG: the page keeps its state.
RevisedMutant(page) == [page EXCEPT !.kept = @ \cup {written + 1}]

\* A stale Thread is revived.
Revised(page) ==
    [page EXCEPT !.kept = @ \cup {written + 1}, !.state = "active"]

Revise(s) ==
    /\ run.at # "idle" /\ written < MaxBuckets
    /\ run.seen[s].state \in OpenStates /\ s \notin run.did
    /\ Write(s, run.seen[s], Revised(run.seen[s]))
    /\ run' = [run EXCEPT !.seen[s] = Revised(run.seen[s]), !.did = @ \cup {s}]
    /\ written' = written + 1
    /\ UNCHANGED <<archive, old, pass, edits, faults>>

\* The first create of the store lists the archive.
LoadArchive ==
    /\ run.at = "revising"
    /\ run' = [run EXCEPT !.at = "creating", !.archived = {s \in Slugs : There(archive, s)}]
    /\ UNCHANGED <<live, archive, written, old, pass, merged, edits, faults>>

\* BUG: ids of archived Threads are free again.
TakenMutant == {s \in Slugs : There(run.seen, s)}
Taken == {s \in Slugs : There(run.seen, s)} \cup run.archived

\* The first id that is not taken and has no page yet.
Create ==
    /\ run.at = "creating" /\ written < MaxBuckets
    /\ \E s \in Slugs \ Taken :
        /\ ~There(live, s)
        /\ \A q \in 1..(s - 1) : q \in Taken \/ There(live, q)
        /\ LET page == [state |-> "active", kept |-> {written + 1}, notes |-> 0] IN
           /\ live' = [live EXCEPT ![s] = page]
           /\ run' = [run EXCEPT !.seen[s] = page, !.did = @ \cup {s}]
    /\ written' = written + 1
    /\ UNCHANGED <<archive, old, pass, merged, edits, faults>>

\* The batch is done, or a write was refused: the run is over.
RunEnds ==
    /\ run.at # "idle"
    /\ run' = NoRun
    /\ UNCHANGED <<live, archive, written, old, pass, merged, edits, faults>>

-----------------------------------------------------------------------------
(* The lifecycle pass: mark_stale, then archive_ended. Both go through the  *)
(* Threads the store has read, in the order of their ids.                   *)

PassStarts ==
    /\ pass.at = "idle"
    /\ pass' = [at |-> "marking", seen |-> live,
                left |-> {s \in Slugs : live[s].state = "active" /\ \A b \in live[s].kept : b <= old}]
    /\ UNCHANGED <<live, archive, written, old, run, merged, edits, faults>>

Staled(page) == [page EXCEPT !.state = "stale"]

MarkStale ==
    /\ pass.at = "marking"
    /\ \E s \in Slugs :
        /\ First(s, pass.left)
        /\ Write(s, pass.seen[s], Staled(pass.seen[s]))
        /\ pass' = [pass EXCEPT !.seen[s] = Staled(pass.seen[s]), !.left = @ \ {s}]
    /\ UNCHANGED <<archive, written, old, run, edits, faults>>

\* ConflictError, or the page is gone: the pass is over.
MarkConflicts ==
    /\ pass.at = "marking"
    /\ \E s \in Slugs : First(s, pass.left) /\ ~Current(s, pass.seen[s])
    /\ pass' = NoPass
    /\ UNCHANGED <<live, archive, written, old, run, merged, edits, faults>>

MarkedAll ==
    /\ pass.at = "marking" /\ pass.left = {}
    /\ pass' = [pass EXCEPT !.at = "archiving",
                            !.left = {s \in Slugs : pass.seen[s].state = "ended"}]
    /\ UNCHANGED <<live, archive, written, old, run, merged, edits, faults>>

\* BUG: a page that is in the archive already is left to a human.
SamePageMutant(s) == FALSE
SamePage(s) == archive[s] = pass.seen[s]

\* The page is created in the archive with the content that was read. One that
\* is there with the same content is a move that was interrupted.
Archive ==
    /\ pass.at = "archiving"
    /\ \E s \in Slugs :
        /\ First(s, pass.left)
        /\ IF There(archive, s) /\ ~SamePage(s)
           THEN pass' = [pass EXCEPT !.left = @ \ {s}] /\ UNCHANGED archive
           ELSE /\ archive' = [archive EXCEPT ![s] = pass.seen[s]]
                /\ pass' = [pass EXCEPT !.at = "deleting"]
    /\ UNCHANGED <<live, written, old, run, merged, edits, faults>>

\* delete takes no revision.
Delete ==
    /\ pass.at = "deleting"
    /\ \E s \in Slugs :
        /\ First(s, pass.left)
        /\ live' = [live EXCEPT ![s] = NoPage]
        /\ pass' = [pass EXCEPT !.at = "archiving", !.left = @ \ {s}]
    /\ UNCHANGED <<archive, written, old, run, merged, edits, faults>>

PassEnds ==
    /\ pass.at = "archiving" /\ pass.left = {}
    /\ pass' = NoPass
    /\ UNCHANGED <<live, archive, written, old, run, merged, edits, faults>>

\* A vault call of the pass fails, or the process restarts in the middle of it.
PassFails ==
    /\ pass.at # "idle" /\ faults < MaxFaults
    /\ faults' = faults + 1
    /\ pass' = NoPass
    /\ UNCHANGED <<live, archive, written, old, run, merged, edits>>

-----------------------------------------------------------------------------
(* Humans and time. *)

HumanEnds(s) ==
    /\ live[s].state \in OpenStates /\ edits < MaxHuman
    /\ edits' = edits + 1
    /\ live' = [live EXCEPT ![s].state = "ended"]
    /\ UNCHANGED <<archive, written, old, run, pass, merged, faults>>

HumanWrites(s) ==
    /\ edits < MaxHuman
    /\ edits' = edits + 1
    /\ \/ There(live, s) /\ live' = [live EXCEPT ![s].notes = edits + 1] /\ UNCHANGED archive
       \/ There(archive, s) /\ archive' = [archive EXCEPT ![s].notes = edits + 1] /\ UNCHANGED live
    /\ UNCHANGED <<written, old, run, pass, merged, faults>>

Days ==
    /\ old < written
    /\ old' = written
    /\ UNCHANGED <<live, archive, written, run, pass, merged, edits, faults>>

PassStep == PassStarts \/ MarkStale \/ MarkConflicts \/ MarkedAll \/ Archive \/ Delete \/ PassEnds

Next ==
    \/ Load \/ LoadArchive \/ Create \/ RunEnds \/ \E s \in Slugs : Revise(s)
    \/ PassStep \/ PassFails
    \/ \E s \in Slugs : HumanEnds(s) \/ HumanWrites(s)
    \/ Days

Spec == Init /\ [][Next]_vars

\* The lifecycle job comes round every day and its calls return.
FairSpec == Spec /\ WF_vars(PassStep)

-----------------------------------------------------------------------------
(* Properties. *)

\* No bucket of messages leaves the wiki: not by an archiving that works on an
\* old copy, not by a revision or a new page written over another. Left out is
\* what Lapis merged into a Thread that was ended already, which archive_ended
\* may delete with the page (threads.py:308).
NothingClobbered ==
    \A b \in (1..written) \ merged["ended"] : \E s \in Slugs : b \in live[s].kept \cup archive[s].kept

\* Spec l.107: stale is "3 days without messages", "revivable": a Thread is not
\* stale while it has a message younger than that, whoever wrote last, but for
\* those that Lapis merged with the mark.
StaleIsSilent ==
    \A s \in Slugs : live[s].state = "stale" => \A b \in live[s].kept \ merged["stale"] : b <= old

\* An id is unique against every Thread the Channel has ever had
\* (threads.py:8): one page, or the two copies of a move, of which the
\* archive's is no newer, and lacks only what was merged into an ended Thread.
IdsAreUnique ==
    \A s \in Slugs : There(live, s) /\ There(archive, s) =>
        /\ live[s].state = "ended"
        /\ archive[s].kept \subseteq live[s].kept
        /\ live[s].kept \ archive[s].kept \subseteq merged["ended"]

\* What a human ended is archived in the end, whatever run or pass was
\* interrupted, unless the archive has another page of that id (threads.py:293).
Archived ==
    \A s \in Slugs : live[s].state = "ended" ~>
        ~There(live, s) \/ (There(archive, s) /\ archive[s] # live[s])

\* A Thread is in the archive from when its copy is there, so that a move,
\* which is two calls of the vault with anything between, is one step.
Phase == [s \in Slugs |-> IF There(archive, s) THEN "archived" ELSE live[s].state]
Kept == [s \in Slugs |-> IF There(archive, s) THEN archive[s].kept ELSE live[s].kept]

Life == INSTANCE ThreadLife WITH Ids <- Slugs, phase <- Phase, kept <- Kept

\* "active -> stale -> active and ended -> archive/" (threads.py:11): the
\* stores of the run and of the pass, which each read once and work on what
\* they read, the moves that are cut off, and humans, give each Thread the
\* life that ThreadLife promises. No id is given twice, not even after its
\* Thread left the directory; what ended does not come back, and takes no
\* message but by a merge; and what is archived is all it had before.
LivesOneLife == Life!Spec
=============================================================================
