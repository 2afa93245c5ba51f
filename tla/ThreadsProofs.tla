--------------------------- MODULE ThreadsProofs ---------------------------
(***************************************************************************)
(* What holds of a Channel's Thread pages for any number of ids, buckets,  *)
(* edits and interrupted passes, over a vault that refuses a stale write   *)
(* (a directory) and over one that may merge it (Lapis). The argument is   *)
(* about what the two stores still know: what the pass has seen ended is   *)
(* as it saw it, but for what was merged into it since (PassIsTrue), and   *)
(* the run has seen every id there is and all the buckets (RunKnows), so   *)
(* that the one bucket a merge can misplace is the one being written. With *)
(* these every step of the stores is one of ThreadLife, or none.           *)
(*                                                                         *)
(* And of the batch that is assigned to them, for any messages, replies,   *)
(* chunks and answers: a message is pending, waits for another one or has  *)
(* landed, and only one of the three (InPlace).                            *)
(***************************************************************************)
EXTENDS Threads, Assignment, FiniteSetTheorems, WellFoundedInduction, TLAPS

\* The pass holds pages that are silent to mark, each of them still there with
\* what it had; ended ones to archive, which are still ended and have gained
\* only what was merged into them; and the page it is about to delete is in the
\* archive as it was seen.
PassIsTrue ==
    /\ pass.at = "marking" =>
          \A s \in pass.left : pass.seen[s].state = "active" /\ \A b \in pass.seen[s].kept : b <= old
    /\ pass.at = "marking" =>
          \A s \in Slugs : There(pass.seen, s) => There(live, s) /\ pass.seen[s].kept \subseteq live[s].kept
    /\ pass.at # "idle" =>
          \A s \in Slugs : (pass.at = "marking" \/ s \in pass.left) /\ pass.seen[s].state = "ended"
                              => /\ live[s].state = "ended" /\ pass.seen[s].kept \subseteq live[s].kept
                                 /\ live[s].kept \ pass.seen[s].kept \subseteq merged["ended"]
    /\ pass.at \in {"archiving", "deleting"} => \A s \in pass.left : pass.seen[s].state = "ended"
    /\ pass.at = "deleting" =>
          \A s \in Slugs : First(s, pass.left) => There(archive, s) /\ archive[s].kept = pass.seen[s].kept

\* A run has read every page there is, in the directory or since moved, and no
\* other adds buckets to it.
RunKnows ==
    /\ run.at # "idle" =>
          \A s \in Slugs : There(live, s) => There(run.seen, s) /\ run.seen[s].kept = live[s].kept
    /\ run.at = "creating" => \A s \in Slugs : There(archive, s) => s \in Taken

\* The next bucket is in no page yet.
Numbered == \A s \in Slugs : \A b \in live[s].kept : b <= written

Inductive ==
    /\ ThreadsTypeOK /\ PassIsTrue /\ RunKnows /\ Numbered
    /\ NothingClobbered /\ StaleIsSilent /\ IdsAreUnique

LEMMA InitInductive == Init => Inductive
  <1> SUFFICES ASSUME Init PROVE Inductive
    OBVIOUS
  <1>1. merged \in [{"stale", "ended"} -> SUBSET Buckets]
    BY DEF Init
  <1> QED BY <1>1, ThreadsAssumption DEF Init, Inductive, ThreadsTypeOK, PassIsTrue, RunKnows, Numbered,
             NothingClobbered, StaleIsSilent, IdsAreUnique, Nothing, NoRun, NoPass, NoPage, Pages, Page,
             There, First

-----------------------------------------------------------------------------
(* Types, and what a write leaves in a page.                               *)

LEMMA PageTypes ==
    ASSUME NEW p \in Page, p.state # "none"
    PROVE  /\ \A b \in Buckets : [p EXCEPT !.kept = @ \cup {b}, !.state = "active"] \in Page
           /\ [p EXCEPT !.state = "stale"] \in Page
           /\ [p EXCEPT !.state = "ended"] \in Page
           /\ \A n \in 0..MaxHuman : [p EXCEPT !.notes = n] \in Page
  <1>1. p \in [state : States, kept : SUBSET Buckets, notes : 0..MaxHuman]
    BY DEF Page, NoPage
  <1> HIDE DEF Buckets
  <1>2. ASSUME NEW b \in Buckets
        PROVE  [p EXCEPT !.kept = @ \cup {b}, !.state = "active"] \in Page
    BY <1>1 DEF Page, States
  <1>3. /\ [p EXCEPT !.state = "stale"] \in Page
        /\ [p EXCEPT !.state = "ended"] \in Page
    BY <1>1 DEF Page, States
  <1>4. \A n \in 0..MaxHuman : [p EXCEPT !.notes = n] \in Page
    BY <1>1 DEF Page
  <1> QED BY <1>2, <1>3, <1>4

LEMMA NoPageState ==
    ASSUME NEW pages \in Pages, NEW s \in Slugs
    PROVE  /\ pages[s] \in Page
           /\ There(pages, s) <=> pages[s].state # "none"
           /\ There(pages, s) => pages[s] \in [state : States, kept : SUBSET Buckets, notes : 0..MaxHuman]
  BY DEF Pages, Page, NoPage, There, States

LEMMA KeptIsNumbers ==
    ASSUME NEW pages \in Pages, NEW s \in Slugs
    PROVE  \A b \in pages[s].kept : b \in Nat
  BY ThreadsAssumption DEF Pages, Page, NoPage, Buckets

\* A write leaves its page, or a page that is merged from both sides.
LEMMA MergedIs ==
    ASSUME NEW s \in Slugs, live \in Pages, There(live, s), NEW base, NEW page,
           page.kept \subseteq Buckets, page.state \in States
    PROVE  LET m == Merged(s, base, page) IN
           /\ m \in Page /\ m # NoPage
           /\ m.kept = live[s].kept \cup page.kept
           /\ m.state = IF page.state = base.state THEN live[s].state ELSE page.state
  <1>1. live[s] \in [state : States, kept : SUBSET Buckets, notes : 0..MaxHuman]
    BY NoPageState
  <1> DEFINE k == live[s].kept \cup page.kept
             st == IF page.state = base.state THEN live[s].state ELSE page.state
             m == [live[s] EXCEPT !.kept = k, !.state = st]
  <1>2. k \in SUBSET Buckets /\ st \in States
    BY <1>1
  <1>3. Merged(s, base, page) = m
    BY DEF Merged
  <1> HIDE DEF k, st
  <1>4. m \in [state : States, kept : SUBSET Buckets, notes : 0..MaxHuman] /\ m.kept = k /\ m.state = st
    BY <1>1, <1>2
  <1> HIDE DEF m
  <1>5. m \in Page /\ m # NoPage
    BY <1>4, <1>2 DEF Page, NoPage, States
  <1> QED BY <1>3, <1>4, <1>5 DEF k, st

-----------------------------------------------------------------------------
(* The run.                                                                *)

LEMMA LoadKeeps == ASSUME Inductive, Load PROVE Inductive'
  BY DEF Inductive, Load, NoRun, ThreadsTypeOK, PassIsTrue, RunKnows, Numbered, NothingClobbered,
         StaleIsSilent, IdsAreUnique, First, There

LEMMA LoadArchiveKeeps == ASSUME Inductive, LoadArchive PROVE Inductive'
  BY DEF Inductive, LoadArchive, ThreadsTypeOK, PassIsTrue, RunKnows, Numbered, NothingClobbered,
         StaleIsSilent, IdsAreUnique, First, There, Taken

LEMMA RunEndsKeeps == ASSUME Inductive, RunEnds PROVE Inductive'
  BY DEF Inductive, RunEnds, NoRun, Nothing, ThreadsTypeOK, Pages, Page, PassIsTrue, RunKnows, Numbered,
         NothingClobbered, StaleIsSilent, IdsAreUnique, First, There

\* A revision adds one bucket to its page. The page is active then; or it is
\* what it was, stale or ended, and Lapis has merged the bucket into it.
ReviseAdds(s) ==
    /\ There(live, s) /\ live'[s] \in Page /\ live'[s] # NoPage
    /\ live' = [live EXCEPT ![s] = live'[s]]
    /\ live'[s].kept = live[s].kept \cup {written + 1}
    /\ run.seen[s].kept = live[s].kept
    /\ \/ /\ live[s].state \in OpenStates /\ live'[s].state = "active"
          /\ UNCHANGED merged
       \/ /\ Merges
          /\ live[s].state \in {"stale", "ended"} /\ live'[s].state = live[s].state
          /\ merged' = [merged EXCEPT ![live[s].state] = @ \cup {written + 1}]

LEMMA RevisedIs ==
    ASSUME NEW p \in Page, p.state \in OpenStates, written + 1 \in Buckets
    PROVE  /\ Revised(p) \in Page /\ Revised(p) # NoPage
           /\ Revised(p).kept = p.kept \cup {written + 1} /\ Revised(p).state = "active"
           /\ Revised(p).kept \subseteq Buckets
  <1>1. p \in [state : States, kept : SUBSET Buckets, notes : 0..MaxHuman]
    BY DEF Page, NoPage, OpenStates
  <1>2. Revised(p) \in Page
    BY PageTypes DEF Revised, OpenStates
  <1> HIDE DEF Buckets
  <1>3. Revised(p).kept = p.kept \cup {written + 1} /\ Revised(p).state = "active"
    BY <1>1 DEF Revised
  <1> QED BY <1>1, <1>2, <1>3 DEF NoPage

LEMMA ReviseIs == ASSUME Inductive, NEW s \in Slugs, Revise(s) PROVE ReviseAdds(s)
  <1> DEFINE p == run.seen[s]
             r == Revised(p)
             m == Merged(s, p, r)
  <1>1. /\ run.at # "idle" /\ written < MaxBuckets /\ p.state \in OpenStates /\ Write(s, p, r)
    BY DEF Revise
  <1>2. /\ live \in Pages /\ p \in Page /\ written \in Nat
        /\ merged \in [{"stale", "ended"} -> SUBSET Buckets]
    BY ThreadsAssumption DEF Inductive, ThreadsTypeOK, Pages
  <1>3. written + 1 \in Buckets
    BY <1>1, <1>2, ThreadsAssumption DEF Buckets
  <1>4. /\ r \in Page /\ r # NoPage /\ r.kept = p.kept \cup {written + 1} /\ r.state = "active"
        /\ r.kept \subseteq Buckets
    BY <1>1, <1>2, <1>3, RevisedIs
  <1>5. p # NoPage
    BY <1>1 DEF NoPage, OpenStates
  <1>6. There(live, s) => p.kept = live[s].kept
    BY <1>1 DEF Inductive, RunKnows
  <1>7. CASE live[s] = p /\ live' = [live EXCEPT ![s] = r] /\ UNCHANGED merged
    <2>1. There(live, s) /\ live'[s] = r
      BY <1>2, <1>5, <1>7 DEF There, Pages
    <2> HIDE DEF r, p
    <2> QED BY <1>1, <1>4, <1>6, <1>7, <2>1 DEF ReviseAdds, p
  <1>8. CASE Mergeable(s, p, r) /\ live' = [live EXCEPT ![s] = m] /\ merged' = Mixed(s, p, r)
    <2>1. Merges /\ There(live, s) /\ (r.state = p.state \/ live[s].state = p.state)
      BY <1>8 DEF Mergeable
    <2>2. /\ m \in Page /\ m # NoPage /\ m.kept = live[s].kept \cup r.kept
          /\ m.state = IF r.state = p.state THEN live[s].state ELSE r.state
      BY <1>2, <1>4, <2>1, MergedIs DEF States
    <2>3. live'[s] = m
      BY <1>2, <1>8 DEF Pages
    <2>4. m.kept = live[s].kept \cup {written + 1}
      BY <1>4, <1>6, <2>1, <2>2
    <2>5. \A b \in live[s].kept : b <= written
      BY DEF Inductive, Numbered
    <2>6. m.kept \ p.kept = {written + 1}
      <3>1. live[s].kept \subseteq Buckets
        BY <1>2, NoPageState, <2>1
      <3>2. written + 1 \notin live[s].kept
        BY <1>2, <2>5
      <3> QED BY <1>6, <2>1, <2>4, <3>2
    <2>7. live[s].state \in States
      BY <1>2, <2>1, NoPageState
    <2>8. merged' = IF m.state = "active" THEN merged
                    ELSE [merged EXCEPT ![m.state] = @ \cup {written + 1}]
      BY <1>8, <2>6 DEF Mixed
    <2>9. CASE m.state = "active"
      <3>1. live[s].state \in OpenStates
        BY <1>1, <1>4, <2>1, <2>2, <2>9 DEF OpenStates
      <3> HIDE DEF m, r, p
      <3> QED BY <1>6, <1>8, <2>1, <2>2, <2>3, <2>4, <2>8, <2>9, <3>1 DEF ReviseAdds, p
    <2>10. CASE m.state # "active"
      <3>1. m.state = live[s].state /\ live[s].state \in {"stale", "ended"}
        BY <1>4, <2>2, <2>7, <2>10 DEF States
      <3> HIDE DEF m, r, p
      <3> QED BY <1>6, <1>8, <2>1, <2>2, <2>3, <2>4, <2>8, <2>10, <3>1 DEF ReviseAdds, p
    <2> QED BY <2>9, <2>10
  <1> QED BY <1>1, <1>7, <1>8 DEF Write, Current

LEMMA ReviseKeeps == ASSUME Inductive, NEW s \in Slugs, Revise(s) PROVE Inductive'
  <1> DEFINE r == Revised(run.seen[s])
             m == live'[s]
  <1>1. /\ written < MaxBuckets /\ written' = written + 1 /\ run.at # "idle"
        /\ run' = [run EXCEPT !.seen[s] = r, !.did = @ \cup {s}]
        /\ run.seen[s].state \in OpenStates
        /\ UNCHANGED <<archive, old, pass, edits, faults>>
    BY DEF Revise
  <1>2. /\ live \in Pages /\ archive \in Pages /\ run.seen \in Pages
        /\ pass.at \in {"idle", "marking", "archiving", "deleting"}
        /\ written \in Nat /\ old \in Nat /\ old <= written /\ written + 1 \in Buckets
        /\ merged \in [{"stale", "ended"} -> SUBSET Buckets]
    BY <1>1, ThreadsAssumption DEF Inductive, ThreadsTypeOK, Buckets
  <1>3. ReviseAdds(s)
    BY ReviseIs
  <1>4. r \in Page /\ r # NoPage /\ r.kept = run.seen[s].kept \cup {written + 1}
    BY <1>1, <1>2, RevisedIs DEF Pages
  <1> HIDE DEF r
  <1>5. /\ live' \in Pages /\ \A u \in Slugs \ {s} : live'[u] = live[u]
        /\ run'.at = run.at /\ run'.archived = run.archived
        /\ run'.seen[s] = r /\ \A u \in Slugs \ {s} : run'.seen[u] = run.seen[u]
    BY <1>1, <1>2, <1>3, <1>4 DEF Pages, Inductive, ThreadsTypeOK, ReviseAdds
  <1>6. /\ There(live, s) /\ m # NoPage /\ m.kept = live[s].kept \cup {written + 1}
        /\ run.seen[s].kept = live[s].kept
    BY <1>3 DEF ReviseAdds
  <1>7. /\ merged' \in [{"stale", "ended"} -> SUBSET Buckets]
        /\ merged["stale"] \subseteq merged'["stale"] /\ merged["ended"] \subseteq merged'["ended"]
    BY <1>2, <1>3 DEF ReviseAdds
  <1>8. /\ live[s].state = "ended" => m.state = "ended" /\ written + 1 \in merged'["ended"]
        /\ m.state = "stale" => live[s].state = "stale" /\ written + 1 \in merged'["stale"]
        /\ There(archive, s) => live[s].state = "ended"
    BY <1>2, <1>3 DEF ReviseAdds, OpenStates, Inductive, IdsAreUnique
  <1> HIDE DEF m
  <1>9. ThreadsTypeOK'
    <2> DEFINE runs == [at : {"idle", "revising", "creating"}, seen : Pages,
                        archived : SUBSET Slugs, did : SUBSET Slugs]
    <2>1. run \in runs
      BY DEF Inductive, ThreadsTypeOK
    <2>2. [run.seen EXCEPT ![s] = r] \in Pages
      BY <1>2, <1>4 DEF Pages
    <2>3. run' = [run EXCEPT !.seen = [run.seen EXCEPT ![s] = r], !.did = run.did \cup {s}]
      BY <1>1, <2>1
    <2>4. run' \in runs
      BY <2>1, <2>2, <2>3
    <2>5. written' \in 0..MaxBuckets /\ old' \in 0..written'
      BY <1>1, <1>2, ThreadsAssumption
    <2> QED BY <1>1, <1>2, <1>5, <1>7, <2>4, <2>5 DEF Inductive, ThreadsTypeOK
  <1>10. PassIsTrue'
    <2>1. /\ There(live', s) /\ live[s].kept \subseteq live'[s].kept
          /\ \A u \in Slugs \ {s} : There(live', u) <=> There(live, u)
      BY <1>5, <1>6 DEF There, m
    <2>2. live[s].state = "ended" => live'[s].state = "ended"
                                     /\ live'[s].kept \ live[s].kept \subseteq merged'["ended"]
      BY <1>6, <1>8 DEF m
    <2>3. pass' = pass /\ old' = old /\ archive' = archive
      BY <1>1
    <2>4. pass.at # "idle" =>
            \A u \in Slugs : (pass.at = "marking" \/ u \in pass.left) /\ pass.seen[u].state = "ended"
                              => /\ live'[u].state = "ended" /\ pass.seen[u].kept \subseteq live'[u].kept
                                 /\ live'[u].kept \ pass.seen[u].kept \subseteq merged'["ended"]
      BY <1>5, <1>7, <2>1, <2>2 DEF Inductive, PassIsTrue
    <2>5. pass.at = "marking" =>
            \A u \in Slugs : There(pass.seen, u) => There(live', u) /\ pass.seen[u].kept \subseteq live'[u].kept
      BY <1>5, <2>1 DEF Inductive, PassIsTrue
    <2> QED BY <2>3, <2>4, <2>5 DEF Inductive, PassIsTrue, First, There
  <1>11. RunKnows'
    BY <1>1, <1>4, <1>5, <1>6 DEF Inductive, RunKnows, There, Taken, m
  <1>12. Numbered'
    <2>1. \A u \in Slugs : \A b \in live[u].kept : b \in Nat /\ b <= written
      BY <1>2, KeptIsNumbers DEF Inductive, Numbered
    <2> QED BY <1>1, <1>2, <1>5, <1>6, <2>1 DEF Numbered, m
  <1>13. NothingClobbered'
    BY <1>1, <1>2, <1>5, <1>6, <1>7 DEF Inductive, NothingClobbered, m
  <1>14. StaleIsSilent'
    BY <1>1, <1>2, <1>5, <1>6, <1>7, <1>8 DEF Inductive, StaleIsSilent, m
  <1>15. IdsAreUnique'
    BY <1>1, <1>5, <1>6, <1>7, <1>8 DEF Inductive, IdsAreUnique, There, m
  <1> QED BY <1>9, <1>10, <1>11, <1>12, <1>13, <1>14, <1>15 DEF Inductive

LEMMA CreateKeeps == ASSUME Inductive, Create PROVE Inductive'
  <1> DEFINE new == [state |-> "active", kept |-> {written + 1}, notes |-> 0]
  <1>1. PICK s \in Slugs \ Taken :
          /\ ~There(live, s)
          /\ live' = [live EXCEPT ![s] = new]
          /\ run' = [run EXCEPT !.seen[s] = new, !.did = @ \cup {s}]
    BY DEF Create
  <1>2. /\ run.at = "creating" /\ written < MaxBuckets /\ written' = written + 1
        /\ UNCHANGED <<archive, old, pass, merged, edits, faults>>
    BY DEF Create
  <1>3. /\ live \in Pages /\ archive \in Pages /\ run.seen \in Pages
        /\ pass.at \in {"idle", "marking", "archiving", "deleting"}
        /\ written \in Nat /\ old \in Nat /\ old <= written
    BY ThreadsAssumption DEF Inductive, ThreadsTypeOK
  <1>4. live[s] = NoPage /\ archive[s] = NoPage
    BY <1>1, <1>2 DEF Inductive, RunKnows, There
  <1>5. NoPage.state = "none" /\ NoPage.kept = {}
    BY DEF NoPage
  <1>6. new \in Page /\ new.state = "active" /\ new.kept = {written + 1} /\ new # NoPage
    <2>1. written + 1 \in Buckets
      BY <1>2, <1>3, ThreadsAssumption DEF Buckets
    <2>2. new \in [state : States, kept : SUBSET Buckets, notes : 0..MaxHuman]
      BY <2>1, ThreadsAssumption DEF States
    <2> QED BY <2>2, <1>5 DEF Page
  <1> HIDE DEF new, NoPage
  <1>7. /\ live' \in Pages /\ live'[s] = new /\ \A u \in Slugs \ {s} : live'[u] = live[u]
        /\ run' = [run EXCEPT !.seen = [run.seen EXCEPT ![s] = new], !.did = run.did \cup {s}]
        /\ [run.seen EXCEPT ![s] = new] \in Pages
    BY <1>1, <1>3, <1>6 DEF Pages, Inductive, ThreadsTypeOK
  <1>8. /\ run'.at = run.at /\ run'.archived = run.archived
        /\ run'.seen[s] = new /\ \A u \in Slugs \ {s} : run'.seen[u] = run.seen[u]
    BY <1>3, <1>7 DEF Pages, Inductive, ThreadsTypeOK
  <1>9. ThreadsTypeOK'
    <2> DEFINE runs == [at : {"idle", "revising", "creating"}, seen : Pages,
                        archived : SUBSET Slugs, did : SUBSET Slugs]
    <2>3. run \in runs
      BY DEF Inductive, ThreadsTypeOK
    <2>1. run' \in runs
      BY <1>7, <2>3
    <2>2. written' \in 0..MaxBuckets /\ old' \in 0..written'
      BY <1>2, <1>3, ThreadsAssumption
    <2> QED BY <1>2, <1>7, <2>1, <2>2 DEF Inductive, ThreadsTypeOK
  <1>10. PassIsTrue'
    BY <1>2, <1>4, <1>5, <1>7 DEF Inductive, PassIsTrue, First, There
  <1>11. RunKnows'
    BY <1>1, <1>2, <1>6, <1>7, <1>8 DEF Inductive, RunKnows, There, Taken
  <1>12. NothingClobbered'
    BY <1>2, <1>3, <1>4, <1>5, <1>6, <1>7 DEF Inductive, NothingClobbered
  <1>13. StaleIsSilent'
    BY <1>2, <1>6, <1>7 DEF Inductive, StaleIsSilent
  <1>14. IdsAreUnique'
    BY <1>1, <1>2, <1>4, <1>7 DEF Inductive, IdsAreUnique, There
  <1>15. Numbered'
    <2>1. \A u \in Slugs : \A b \in live[u].kept : b \in Nat /\ b <= written
      BY <1>3, KeptIsNumbers DEF Inductive, Numbered
    <2> QED BY <1>2, <1>3, <1>6, <1>7, <2>1 DEF Numbered
  <1> QED BY <1>9, <1>10, <1>11, <1>12, <1>13, <1>14, <1>15 DEF Inductive

-----------------------------------------------------------------------------
(* The pass.                                                               *)

LEMMA PassStartsKeeps == ASSUME Inductive, PassStarts PROVE Inductive'
  BY DEF Inductive, PassStarts, ThreadsTypeOK, PassIsTrue, RunKnows, Numbered, NothingClobbered,
         StaleIsSilent, IdsAreUnique, First, There, Taken

LEMMA PassOverKeeps == ASSUME Inductive, MarkConflicts \/ PassEnds \/ PassFails PROVE Inductive'
  <1>1. NoPass \in [at : {"idle", "marking", "archiving", "deleting"}, seen : Pages, left : SUBSET Slugs]
    BY ThreadsAssumption DEF NoPass, Nothing, Pages, Page
  <1>2. /\ pass' = NoPass /\ NoPass.at = "idle" /\ faults' \in 0..MaxFaults
        /\ UNCHANGED <<live, archive, written, old, run, merged, edits>>
    BY ThreadsAssumption DEF MarkConflicts, PassEnds, PassFails, NoPass, Inductive, ThreadsTypeOK
  <1> QED BY <1>1, <1>2 DEF Inductive, ThreadsTypeOK, PassIsTrue, RunKnows, Numbered, NothingClobbered,
             StaleIsSilent, IdsAreUnique, There, Taken

LEMMA MarkedAllKeeps == ASSUME Inductive, MarkedAll PROVE Inductive'
  BY DEF Inductive, MarkedAll, ThreadsTypeOK, PassIsTrue, RunKnows, Numbered, NothingClobbered,
         StaleIsSilent, IdsAreUnique, First, There, Taken

\* The mark makes an active page stale. Its buckets are old but for those that
\* Lapis has merged with the mark.
MarkSilences(s) ==
    /\ There(live, s) /\ live[s].state = "active"
    /\ live'[s] \in Page /\ live'[s] # NoPage /\ live' = [live EXCEPT ![s] = live'[s]]
    /\ live'[s].state = "stale" /\ live'[s].kept = live[s].kept
    /\ \E young \in SUBSET live[s].kept :
         /\ young # {} => Merges
         /\ \A b \in live[s].kept \ young : b <= old
         /\ merged' = [merged EXCEPT !["stale"] = @ \cup young]

LEMMA MarkIs ==
    ASSUME Inductive, pass.at = "marking", NEW s \in Slugs, First(s, pass.left),
           Write(s, pass.seen[s], Staled(pass.seen[s]))
    PROVE  /\ MarkSilences(s)
           /\ Staled(pass.seen[s]) \in Page /\ Staled(pass.seen[s]) # NoPage
           /\ Staled(pass.seen[s]).state = "stale"
           /\ Staled(pass.seen[s]).kept = pass.seen[s].kept
           /\ pass.seen[s].kept \subseteq live[s].kept
  <1> DEFINE p == pass.seen[s]
             r == Staled(p)
             m == Merged(s, p, r)
  <1>1. /\ live \in Pages /\ p \in Page /\ p.state = "active" /\ \A b \in p.kept : b <= old
        /\ merged \in [{"stale", "ended"} -> SUBSET Buckets]
    BY DEF Inductive, ThreadsTypeOK, PassIsTrue, Pages, First
  <1>2. p \in [state : States, kept : SUBSET Buckets, notes : 0..MaxHuman] /\ p # NoPage
    BY <1>1 DEF Page, NoPage
  <1>3. r \in Page /\ r.state = "stale" /\ r.kept = p.kept /\ r # NoPage
    <2>1. r \in Page
      BY <1>1, PageTypes DEF Staled
    <2> QED BY <1>2, <2>1 DEF Staled, NoPage
  <1>4. There(live, s) /\ p.kept \subseteq live[s].kept
    BY <1>2 DEF Inductive, PassIsTrue, There
  <1> HIDE DEF r
  <1>5. CASE live[s] = p /\ live' = [live EXCEPT ![s] = r] /\ UNCHANGED merged
    <2>1. live'[s] = r
      BY <1>1, <1>5 DEF Pages
    <2>2. merged' = [merged EXCEPT !["stale"] = @ \cup {}]
      BY <1>1, <1>5
    <2>3. \E young \in SUBSET live[s].kept :
             /\ young # {} => Merges
             /\ \A b \in live[s].kept \ young : b <= old
             /\ merged' = [merged EXCEPT !["stale"] = @ \cup young]
      BY <1>1, <1>5, <2>2
    <2> QED BY <1>1, <1>3, <1>4, <1>5, <2>1, <2>3 DEF MarkSilences, r
  <1>6. CASE Mergeable(s, p, r) /\ live' = [live EXCEPT ![s] = m] /\ merged' = Mixed(s, p, r)
    <2>1. Merges /\ live[s].state = "active"
      BY <1>1, <1>3, <1>6 DEF Mergeable
    <2>2. /\ m \in Page /\ m # NoPage /\ m.kept = live[s].kept \cup r.kept /\ m.state = "stale"
      <3>1. r.kept \subseteq Buckets /\ r.state \in States /\ r.state # p.state
        BY <1>1, <1>2, <1>3 DEF States
      <3> QED BY <1>1, <1>4, <3>1, <1>3, MergedIs
    <2>3. m.kept = live[s].kept
      BY <1>3, <1>4, <2>2
    <2>4. merged' = [merged EXCEPT !["stale"] = @ \cup (live[s].kept \ p.kept)]
      BY <1>6, <2>2, <2>3 DEF Mixed
    <2> HIDE DEF m
    <2>5. live'[s] = m
      BY <1>1, <1>6 DEF Pages
    <2>6. \E young \in SUBSET live[s].kept :
             /\ young # {} => Merges
             /\ \A b \in live[s].kept \ young : b <= old
             /\ merged' = [merged EXCEPT !["stale"] = @ \cup young]
      <3>1. \A b \in live[s].kept \ (live[s].kept \ p.kept) : b <= old
        BY <1>1
      <3>2. live[s].kept \ p.kept \in SUBSET live[s].kept
        OBVIOUS
      <3> QED BY <2>1, <2>4, <3>1, <3>2
    <2> QED BY <1>3, <1>4, <1>6, <2>1, <2>2, <2>3, <2>5, <2>6 DEF MarkSilences, r
  <1> QED BY <1>5, <1>6 DEF Write, Current, r

LEMMA MarkStaleKeeps == ASSUME Inductive, MarkStale PROVE Inductive'
  <1>1. PICK s \in Slugs :
          /\ First(s, pass.left)
          /\ Write(s, pass.seen[s], Staled(pass.seen[s]))
          /\ pass' = [pass EXCEPT !.seen[s] = Staled(pass.seen[s]), !.left = @ \ {s}]
    BY DEF MarkStale
  <1>2. pass.at = "marking" /\ UNCHANGED <<archive, written, old, run, edits, faults>>
    BY DEF MarkStale
  <1> DEFINE r == Staled(pass.seen[s])
             m == live'[s]
  <1>3. /\ MarkSilences(s) /\ r \in Page /\ r # NoPage /\ r.state = "stale"
        /\ r.kept = pass.seen[s].kept /\ r.kept \subseteq live[s].kept
    BY <1>1, <1>2, MarkIs
  <1>4. /\ live \in Pages /\ archive \in Pages /\ pass.seen \in Pages /\ pass.left \subseteq Slugs
        /\ merged \in [{"stale", "ended"} -> SUBSET Buckets]
    BY DEF Inductive, ThreadsTypeOK
  <1> HIDE DEF r
  <1>5. /\ live' \in Pages /\ \A u \in Slugs \ {s} : live'[u] = live[u]
        /\ m \in Page /\ m # NoPage /\ m.state = "stale" /\ m.kept = live[s].kept
        /\ There(live, s) /\ live[s].state = "active"
    BY <1>3, <1>4 DEF Pages, MarkSilences
  <1>6. /\ merged' \in [{"stale", "ended"} -> SUBSET Buckets] /\ merged'["ended"] = merged["ended"]
        /\ merged["stale"] \subseteq merged'["stale"]
        /\ \A b \in live[s].kept \ merged'["stale"] : b <= old
    <2>1. live[s].kept \subseteq Buckets
      BY <1>4, <1>5, NoPageState
    <2>2. PICK young \in SUBSET live[s].kept :
             /\ \A b \in live[s].kept \ young : b <= old
             /\ merged' = [merged EXCEPT !["stale"] = @ \cup young]
      BY <1>3 DEF MarkSilences
    <2> QED BY <1>4, <2>1, <2>2
  <1> HIDE DEF m
  <1>7. /\ pass' = [pass EXCEPT !.seen = [pass.seen EXCEPT ![s] = r], !.left = pass.left \ {s}]
        /\ [pass.seen EXCEPT ![s] = r] \in Pages
    BY <1>1, <1>3, <1>4 DEF Pages, Inductive, ThreadsTypeOK, r
  <1>8. /\ pass'.at = "marking" /\ pass'.left = pass.left \ {s}
        /\ pass'.seen[s] = r /\ \A u \in Slugs \ {s} : pass'.seen[u] = pass.seen[u]
    BY <1>2, <1>4, <1>7 DEF Pages, Inductive, ThreadsTypeOK
  <1>9. ~There(archive, s)
    BY <1>5 DEF Inductive, IdsAreUnique
  <1>10. ThreadsTypeOK'
    <2> DEFINE passes == [at : {"idle", "marking", "archiving", "deleting"}, seen : Pages, left : SUBSET Slugs]
    <2>1. pass \in passes
      BY DEF Inductive, ThreadsTypeOK
    <2>2. pass' \in passes
      BY <1>7, <2>1
    <2> QED BY <1>2, <1>5, <1>6, <2>2 DEF Inductive, ThreadsTypeOK
  <1>11. PassIsTrue'
    <2>1. \A u \in pass'.left : pass'.seen[u].state = "active" /\ \A b \in pass'.seen[u].kept : b <= old
      BY <1>2, <1>4, <1>8 DEF Inductive, PassIsTrue
    <2>2. \A u \in Slugs : There(pass'.seen, u) => There(live', u) /\ pass'.seen[u].kept \subseteq live'[u].kept
      BY <1>2, <1>3, <1>5, <1>8 DEF Inductive, PassIsTrue, There, m
    <2>3. \A u \in Slugs : pass'.seen[u].state = "ended"
             => /\ live'[u].state = "ended" /\ pass'.seen[u].kept \subseteq live'[u].kept
                /\ live'[u].kept \ pass'.seen[u].kept \subseteq merged'["ended"]
      BY <1>2, <1>3, <1>5, <1>6, <1>8 DEF Inductive, PassIsTrue
    <2> QED BY <1>2, <1>8, <2>1, <2>2, <2>3 DEF PassIsTrue, There
  <1>12. RunKnows'
    BY <1>2, <1>5, <1>9 DEF Inductive, RunKnows, There, Taken, m
  <1>13. NothingClobbered'
    BY <1>2, <1>5, <1>6 DEF Inductive, NothingClobbered, m
  <1>14. StaleIsSilent'
    BY <1>2, <1>5, <1>6 DEF Inductive, StaleIsSilent, m
  <1>15. IdsAreUnique'
    BY <1>2, <1>5, <1>6, <1>9 DEF Inductive, IdsAreUnique, There
  <1>16. Numbered'
    BY <1>2, <1>5 DEF Inductive, Numbered, m
  <1> QED BY <1>10, <1>11, <1>12, <1>13, <1>14, <1>15, <1>16 DEF Inductive

LEMMA ArchiveKeeps == ASSUME Inductive, Archive PROVE Inductive'
  <1>1. PICK s \in Slugs :
          /\ First(s, pass.left)
          /\ IF There(archive, s) /\ ~SamePage(s)
             THEN pass' = [pass EXCEPT !.left = @ \ {s}] /\ UNCHANGED archive
             ELSE /\ archive' = [archive EXCEPT ![s] = pass.seen[s]]
                  /\ pass' = [pass EXCEPT !.at = "deleting"]
    BY DEF Archive
  <1>2. pass.at = "archiving" /\ UNCHANGED <<live, written, old, run, merged, edits, faults>>
    BY DEF Archive
  <1> DEFINE p == pass.seen[s]
  <1>3. /\ live \in Pages /\ archive \in Pages /\ pass.seen \in Pages /\ p \in Page
        /\ pass \in [at : {"idle", "marking", "archiving", "deleting"}, seen : Pages, left : SUBSET Slugs]
    BY DEF Inductive, ThreadsTypeOK, Pages
  <1>4. /\ p.state = "ended" /\ live[s].state = "ended" /\ p.kept \subseteq live[s].kept
        /\ live[s].kept \ p.kept \subseteq merged["ended"]
        /\ p # NoPage /\ There(live, s)
    <2>1. /\ p.state = "ended" /\ live[s].state = "ended" /\ p.kept \subseteq live[s].kept
          /\ live[s].kept \ p.kept \subseteq merged["ended"]
      BY <1>1, <1>2 DEF Inductive, PassIsTrue, First
    <2> QED BY <2>1 DEF NoPage, There
  <1>5. CASE There(archive, s) /\ ~SamePage(s)
    <2>1. pass' = [pass EXCEPT !.left = pass.left \ {s}] /\ archive' = archive
      BY <1>1, <1>5
    <2> QED BY <1>2, <1>3, <2>1 DEF Inductive, ThreadsTypeOK, PassIsTrue, RunKnows, Numbered, NothingClobbered,
               StaleIsSilent, IdsAreUnique, There, Taken
  <1>6. CASE ~(There(archive, s) /\ ~SamePage(s))
    <2>1. pass' = [pass EXCEPT !.at = "deleting"] /\ archive' = [archive EXCEPT ![s] = p]
      BY <1>1, <1>6
    <2>2. archive[s].kept \subseteq p.kept
      <3>1. CASE There(archive, s)
        BY <1>6, <3>1 DEF SamePage
      <3>2. CASE ~There(archive, s)
        BY <3>2 DEF There, NoPage
      <3> QED BY <3>1, <3>2
    <2> HIDE DEF p
    <2>3. /\ archive' \in Pages /\ archive'[s] = p
          /\ \A u \in Slugs \ {s} : archive'[u] = archive[u]
      BY <1>3, <2>1 DEF Pages
    <2>4. ThreadsTypeOK'
      BY <1>2, <1>3, <2>1, <2>3 DEF Inductive, ThreadsTypeOK
    <2>5. PassIsTrue'
      <3>1. pass'.at = "deleting" /\ pass'.left = pass.left /\ pass'.seen = pass.seen
        BY <1>3, <2>1
      <3>2. \A u \in Slugs : First(u, pass'.left) => u = s
        BY <1>1, <3>1 DEF First, Slugs
      <3>3. There(archive', s) /\ archive'[s].kept = pass'.seen[s].kept
        BY <1>4, <2>3, <3>1 DEF There, p
      <3> QED BY <1>2, <3>1, <3>2, <3>3 DEF Inductive, PassIsTrue, There
    <2>6. RunKnows'
      BY <1>2, <1>4, <2>3 DEF Inductive, RunKnows, There, Taken
    <2>7. NothingClobbered'
      BY <1>2, <2>2, <2>3 DEF Inductive, NothingClobbered
    <2>8. StaleIsSilent'
      BY <1>2 DEF Inductive, StaleIsSilent
    <2>9. IdsAreUnique'
      BY <1>2, <1>4, <2>3 DEF Inductive, IdsAreUnique, There
    <2>10. Numbered'
      BY <1>2 DEF Inductive, Numbered
    <2> QED BY <2>4, <2>5, <2>6, <2>7, <2>8, <2>9, <2>10 DEF Inductive
  <1> QED BY <1>5, <1>6

LEMMA DeleteKeeps == ASSUME Inductive, Delete PROVE Inductive'
  <1>1. PICK s \in Slugs :
          /\ First(s, pass.left)
          /\ live' = [live EXCEPT ![s] = NoPage]
          /\ pass' = [pass EXCEPT !.at = "archiving", !.left = @ \ {s}]
    BY DEF Delete
  <1>2. pass.at = "deleting" /\ UNCHANGED <<archive, written, old, run, merged, edits, faults>>
    BY DEF Delete
  <1>3. /\ live \in Pages /\ NoPage \in Page
        /\ pass \in [at : {"idle", "marking", "archiving", "deleting"}, seen : Pages, left : SUBSET Slugs]
    BY DEF Inductive, ThreadsTypeOK, Page
  <1>4. /\ live[s].kept \ archive[s].kept \subseteq merged["ended"]
        /\ NoPage.state = "none" /\ NoPage.kept = {}
    BY <1>1, <1>2 DEF Inductive, PassIsTrue, First, NoPage
  <1> HIDE DEF NoPage
  <1>5. /\ live' \in Pages /\ live'[s] = NoPage /\ \A u \in Slugs \ {s} : live'[u] = live[u]
    BY <1>1, <1>3 DEF Pages
  <1>6. pass' = [pass EXCEPT !.at = "archiving", !.left = pass.left \ {s}]
    BY <1>1
  <1>7. ThreadsTypeOK'
    BY <1>2, <1>3, <1>5, <1>6 DEF Inductive, ThreadsTypeOK
  <1>8. PassIsTrue'
    BY <1>2, <1>3, <1>5, <1>6 DEF Inductive, PassIsTrue
  <1>9. RunKnows'
    BY <1>2, <1>5 DEF Inductive, RunKnows, There, Taken
  <1>10. NothingClobbered'
    BY <1>2, <1>4, <1>5 DEF Inductive, NothingClobbered
  <1>11. StaleIsSilent'
    BY <1>2, <1>4, <1>5 DEF Inductive, StaleIsSilent
  <1>12. IdsAreUnique'
    BY <1>2, <1>5 DEF Inductive, IdsAreUnique, There
  <1>13. Numbered'
    BY <1>2, <1>4, <1>5 DEF Inductive, Numbered
  <1> QED BY <1>7, <1>8, <1>9, <1>10, <1>11, <1>12, <1>13 DEF Inductive

-----------------------------------------------------------------------------
(* Humans and time.                                                        *)

LEMMA HumanEndsKeeps == ASSUME Inductive, NEW s \in Slugs, HumanEnds(s) PROVE Inductive'
  <1> DEFINE p == [live[s] EXCEPT !.state = "ended"]
  <1>1. /\ live' = [live EXCEPT ![s] = p] /\ live[s].state \in OpenStates
        /\ edits < MaxHuman /\ edits' = edits + 1
        /\ UNCHANGED <<archive, written, old, run, pass, merged, faults>>
    BY DEF HumanEnds
  <1>2. live \in Pages /\ live[s] \in Page /\ live[s].state \notin {"none", "ended"}
    BY <1>1 DEF Inductive, ThreadsTypeOK, Pages, OpenStates
  <1>3. p \in Page /\ p.state = "ended" /\ p.kept = live[s].kept /\ live[s] # NoPage /\ p # NoPage
    <2>1. live[s] \in [state : States, kept : SUBSET Buckets, notes : 0..MaxHuman]
      BY <1>2 DEF Page, NoPage
    <2>2. p \in Page
      BY <1>2, PageTypes
    <2> QED BY <1>2, <2>1, <2>2 DEF NoPage
  <1> HIDE DEF p
  <1>4. /\ live' \in Pages /\ live'[s] = p /\ \A u \in Slugs \ {s} : live'[u] = live[u]
    BY <1>1, <1>2, <1>3 DEF Pages
  <1>5. There(live, s) /\ ~There(archive, s)
    BY <1>2, <1>3 DEF Inductive, IdsAreUnique, There
  <1>6. ThreadsTypeOK'
    BY <1>1, <1>4, ThreadsAssumption DEF Inductive, ThreadsTypeOK
  <1>7. PassIsTrue'
    BY <1>1, <1>2, <1>3, <1>4 DEF Inductive, PassIsTrue, There, First
  <1>8. RunKnows'
    BY <1>1, <1>3, <1>4, <1>5 DEF Inductive, RunKnows, There, Taken
  <1>9. NothingClobbered'
    BY <1>1, <1>3, <1>4 DEF Inductive, NothingClobbered
  <1>10. StaleIsSilent'
    BY <1>1, <1>3, <1>4 DEF Inductive, StaleIsSilent
  <1>11. IdsAreUnique'
    BY <1>1, <1>4, <1>5 DEF Inductive, IdsAreUnique, There
  <1>12. Numbered'
    BY <1>1, <1>3, <1>4 DEF Inductive, Numbered
  <1> QED BY <1>6, <1>7, <1>8, <1>9, <1>10, <1>11, <1>12 DEF Inductive

\* An edit of prose changes neither the state of a page nor its buckets.
LEMMA Noted ==
    ASSUME NEW q \in Page, q # NoPage, NEW n \in 0..MaxHuman
    PROVE  /\ [q EXCEPT !.notes = n] \in Page /\ [q EXCEPT !.notes = n] # NoPage
           /\ [q EXCEPT !.notes = n].state = q.state /\ [q EXCEPT !.notes = n].kept = q.kept
  <1>1. q \in [state : States, kept : SUBSET Buckets, notes : 0..MaxHuman] /\ q.state # "none"
    BY DEF Page, States
  <1> QED BY <1>1, PageTypes DEF NoPage

LEMMA HumanWritesKeeps == ASSUME Inductive, NEW s \in Slugs, HumanWrites(s) PROVE Inductive'
  <1>1. /\ live \in Pages /\ archive \in Pages /\ edits + 1 \in 0..MaxHuman /\ edits' = edits + 1
        /\ UNCHANGED <<written, old, run, pass, merged, faults>>
    BY ThreadsAssumption DEF HumanWrites, Inductive, ThreadsTypeOK
  <1>2. CASE There(live, s) /\ live' = [live EXCEPT ![s].notes = edits + 1] /\ UNCHANGED archive
    <2>1. /\ live' \in Pages
          /\ \A u \in Slugs : /\ live'[u].state = live[u].state /\ live'[u].kept = live[u].kept
                              /\ live'[u] # NoPage <=> live[u] # NoPage
      <3> DEFINE p == [live[s] EXCEPT !.notes = edits + 1]
      <3>1. live' = [live EXCEPT ![s] = p] /\ live \in Pages /\ live[s] # NoPage /\ live[s] \in Page
        BY <1>1, <1>2 DEF There, Pages
      <3>2. p \in Page /\ p # NoPage /\ p.state = live[s].state /\ p.kept = live[s].kept
        BY <1>1, <3>1, Noted
      <3> HIDE DEF p, NoPage
      <3>3. live' \in Pages /\ live'[s] = p /\ \A u \in Slugs \ {s} : live'[u] = live[u]
        BY <3>1, <3>2 DEF Pages
      <3> QED BY <3>1, <3>2, <3>3
    <2>2. ThreadsTypeOK'
      BY <1>1, <1>2, <2>1 DEF Inductive, ThreadsTypeOK
    <2>3. PassIsTrue'
      BY <1>1, <1>2, <2>1 DEF Inductive, PassIsTrue, First, There
    <2>4. RunKnows'
      BY <1>1, <1>2, <2>1 DEF Inductive, RunKnows, There, Taken
    <2>5. NothingClobbered'
      BY <1>1, <1>2, <2>1 DEF Inductive, NothingClobbered
    <2>6. StaleIsSilent'
      BY <1>1, <1>2, <2>1 DEF Inductive, StaleIsSilent
    <2>7. IdsAreUnique'
      BY <1>1, <1>2, <2>1 DEF Inductive, IdsAreUnique, There
    <2>8. Numbered'
      BY <1>1, <2>1 DEF Inductive, Numbered
    <2> QED BY <2>2, <2>3, <2>4, <2>5, <2>6, <2>7, <2>8 DEF Inductive
  <1>3. CASE There(archive, s) /\ archive' = [archive EXCEPT ![s].notes = edits + 1] /\ UNCHANGED live
    <2>1. /\ archive' \in Pages
          /\ \A u \in Slugs : /\ archive'[u].kept = archive[u].kept
                              /\ archive'[u] # NoPage <=> archive[u] # NoPage
      <3> DEFINE p == [archive[s] EXCEPT !.notes = edits + 1]
      <3>1. archive' = [archive EXCEPT ![s] = p] /\ archive \in Pages /\ archive[s] # NoPage /\ archive[s] \in Page
        BY <1>1, <1>3 DEF There, Pages
      <3>2. p \in Page /\ p # NoPage /\ p.state = archive[s].state /\ p.kept = archive[s].kept
        BY <1>1, <3>1, Noted
      <3> HIDE DEF p, NoPage
      <3>3. archive' \in Pages /\ archive'[s] = p /\ \A u \in Slugs \ {s} : archive'[u] = archive[u]
        BY <3>1, <3>2 DEF Pages
      <3> QED BY <3>1, <3>2, <3>3
    <2>2. ThreadsTypeOK'
      BY <1>1, <1>3, <2>1 DEF Inductive, ThreadsTypeOK
    <2>3. PassIsTrue'
      BY <1>1, <1>3, <2>1 DEF Inductive, PassIsTrue, First, There
    <2>4. RunKnows'
      BY <1>1, <1>3, <2>1 DEF Inductive, RunKnows, There, Taken
    <2>5. NothingClobbered'
      BY <1>1, <1>3, <2>1 DEF Inductive, NothingClobbered
    <2>6. StaleIsSilent'
      BY <1>1, <1>3, <2>1 DEF Inductive, StaleIsSilent
    <2>7. IdsAreUnique'
      BY <1>1, <1>3, <2>1 DEF Inductive, IdsAreUnique, There
    <2>8. Numbered'
      BY <1>1, <1>3 DEF Inductive, Numbered
    <2> QED BY <2>2, <2>3, <2>4, <2>5, <2>6, <2>7, <2>8 DEF Inductive
  <1> QED BY <1>2, <1>3 DEF HumanWrites

LEMMA DaysKeeps == ASSUME Inductive, Days PROVE Inductive'
  <1>1. /\ old \in Nat /\ old' = written /\ written \in Nat /\ written <= MaxBuckets /\ old < old'
        /\ \A b \in Buckets : b <= old => b <= old'
        /\ UNCHANGED <<live, archive, written, run, pass, merged, edits, faults>>
    BY ThreadsAssumption DEF Days, Inductive, ThreadsTypeOK, Buckets
  <1>2. \A s \in Slugs : live[s].kept \subseteq Buckets /\ pass.seen[s].kept \subseteq Buckets
    BY DEF Inductive, ThreadsTypeOK, Pages, Page, NoPage
  <1>3. ThreadsTypeOK'
    BY <1>1, ThreadsAssumption DEF Inductive, ThreadsTypeOK
  <1>4. PassIsTrue'
    <2>1. pass.at = "marking" => pass.left \subseteq Slugs
      BY DEF Inductive, ThreadsTypeOK
    <2> QED BY <1>1, <1>2, <2>1 DEF Inductive, PassIsTrue, First, There
  <1>5. StaleIsSilent'
    BY <1>1, <1>2 DEF Inductive, StaleIsSilent
  <1> QED BY <1>1, <1>3, <1>4, <1>5 DEF Inductive, RunKnows, Numbered, NothingClobbered, IdsAreUnique,
             There, Taken

-----------------------------------------------------------------------------
-----------------------------------------------------------------------------
LEMMA StepKeeps == ASSUME Inductive, [Next]_vars PROVE Inductive'
  <1>1. CASE UNCHANGED vars
    BY <1>1 DEF vars, Inductive, ThreadsTypeOK, PassIsTrue, RunKnows, Numbered, NothingClobbered,
       StaleIsSilent, IdsAreUnique, There, Taken
  <1>2. CASE Next
    BY <1>2, LoadKeeps, LoadArchiveKeeps, CreateKeeps, RunEndsKeeps, ReviseKeeps, PassStartsKeeps,
       MarkStaleKeeps, PassOverKeeps, MarkedAllKeeps, ArchiveKeeps, DeleteKeeps, HumanEndsKeeps,
       HumanWritesKeeps, DaysKeeps DEF Next, PassStep
  <1> QED BY <1>1, <1>2

\* Over a vault that refuses every stale write, and over one that merges what
\* it can, all of it holds in every state.
THEOREM ThreadsInductive == Spec => []Inductive
  <1>1. ASSUME Inductive, [Next]_vars PROVE Inductive'
    BY <1>1, StepKeeps
  <1> QED BY <1>1, InitInductive, PTL DEF Spec

\* The pages, the run and the pass stay within their types (threads.py,
\* lifecycle.py), over either vault.
THEOREM ThreadsTypeCorrect == Spec => []ThreadsTypeOK
  BY ThreadsInductive, PTL DEF Inductive

\* No bucket a run has written leaves the wiki while Threads are revised,
\* created, archived and deleted by a run, a pass and humans that share no lock
\* (threads.py: the base of every write, archive_ended's copy before delete),
\* over either vault; but for a bucket that Lapis merged into a Thread that was
\* ended by then, which archive_ended may delete with the page (threads.py:308).
THEOREM NothingIsClobbered == Spec => []NothingClobbered
  BY ThreadsInductive, PTL DEF Inductive

\* A Thread marked stale has no message younger than the threshold, whoever
\* wrote between the reading and the marking (threads.py: mark_stale), over
\* either vault; but for the buckets that Lapis merged with the mark, or into a
\* Thread that a run still held as active.
THEOREM StaleMeansSilent == Spec => []StaleIsSilent
  BY ThreadsInductive, PTL DEF Inductive

\* Two Threads of a Channel never share an id, in the directory or the archive
\* (threads.py: create and its scan of the archive), over either vault: two
\* pages of one id are the copies of one move, and the archive's lacks nothing
\* but what Lapis merged into the page of an ended Thread.
THEOREM IdsStayUnique == Spec => []IdsAreUnique
  BY ThreadsInductive, PTL DEF Inductive

\* A vault that refuses every stale write merges nothing.
NothingMixed == ~Merges => \A state \in {"stale", "ended"} : merged[state] = {}

LEMMA RefusingNeverMixes == Spec => []NothingMixed
  <1>1. Init => NothingMixed
    BY DEF Init, NothingMixed
  <1>2. NothingMixed /\ [Next]_vars => NothingMixed'
    BY DEF NothingMixed, Next, vars, PassStep, Load, LoadArchive, Create, RunEnds, Revise, PassStarts,
           MarkStale, MarkConflicts, MarkedAll, Archive, Delete, PassEnds, PassFails, HumanEnds,
           HumanWrites, Days, Write, Mergeable
  <1> QED BY <1>1, <1>2, PTL DEF Spec

\* What the three say with nothing left out: every bucket is on a page, a stale
\* Thread is silent, and the two pages of a move have the same messages.
WhollyKept ==
    /\ \A b \in 1..written : \E s \in Slugs : b \in live[s].kept \cup archive[s].kept
    /\ \A s \in Slugs : live[s].state = "stale" => \A b \in live[s].kept : b <= old
    /\ \A s \in Slugs : There(live, s) /\ There(archive, s) => archive[s].kept = live[s].kept

\* Over a vault that refuses every stale write, as a directory does
\* (lapis_client.py, LocalDirClient.write), this holds of every bucket.
THEOREM RefusingVaultKeepsAll == ASSUME ~Merges PROVE Spec => []WhollyKept
  <1>1. Inductive /\ NothingMixed => WhollyKept
    BY DEF Inductive, NothingMixed, NothingClobbered, StaleIsSilent, IdsAreUnique, WhollyKept
  <1> QED BY <1>1, ThreadsInductive, RefusingNeverMixes, PTL

-----------------------------------------------------------------------------
(* The life of a Thread. A step of the stores is a step of one Thread, or   *)
(* none: what a copy in the archive begins, the delete of the page ends.    *)

\* What becomes of the lives is what becomes of each Thread.
LEMMA LifeStandsStill ==
    ASSUME \A s \in Slugs : Phase'[s] = Phase[s] /\ Kept'[s] = Kept[s]
    PROVE  Phase' = Phase /\ Kept' = Kept
  BY DEF Phase, Kept

\* A step that is about one Thread leaves the others' lives alone.
LEMMA LifeMoves ==
    ASSUME NEW s \in Slugs, \A u \in Slugs \ {s} : Phase'[u] = Phase[u] /\ Kept'[u] = Kept[u]
    PROVE  /\ Phase' = [Phase EXCEPT ![s] = Phase'[s]]
           /\ Kept' = [Kept EXCEPT ![s] = Kept'[s]]
  <1>1. /\ \A u \in Slugs : Phase'[u] = IF u = s THEN Phase'[s] ELSE Phase[u]
        /\ \A u \in Slugs : Kept'[u] = IF u = s THEN Kept'[s] ELSE Kept[u]
    OBVIOUS
  <1>2. /\ Phase' = [u \in Slugs |-> Phase'[u]] /\ Phase = [u \in Slugs |-> Phase[u]]
        /\ Kept' = [u \in Slugs |-> Kept'[u]] /\ Kept = [u \in Slugs |-> Kept[u]]
    BY DEF Phase, Kept
  <1> DEFINE a == Phase'
             b == Kept'
             c == Phase
             d == Kept
  <1>3. /\ \A u \in Slugs : a[u] = IF u = s THEN a[s] ELSE c[u]
        /\ \A u \in Slugs : b[u] = IF u = s THEN b[s] ELSE d[u]
        /\ a = [u \in Slugs |-> a[u]] /\ c = [u \in Slugs |-> c[u]]
        /\ b = [u \in Slugs |-> b[u]] /\ d = [u \in Slugs |-> d[u]]
    BY <1>1, <1>2
  <1> HIDE DEF a, b, c, d
  <1>4. a = [c EXCEPT ![s] = a[s]] /\ b = [d EXCEPT ![s] = b[s]]
    BY <1>3
  <1> QED BY <1>4 DEF a, b, c, d

LEMMA LifeBegins == Init => Life!Init
  BY DEF Init, Life!Init, Phase, Kept, Nothing, NoPage, There

\* A revision is a bucket taken, by an open Thread or by a merge.
LEMMA ReviseTakes ==
    ASSUME Inductive, NEW s \in Slugs, Revise(s)
    PROVE  Life!Takes(s) \/ \E state \in {"stale", "ended"} : Life!TakesMerged(s, state)
  <1> DEFINE m == live'[s]
  <1>1. ReviseAdds(s) /\ written' = written + 1 /\ UNCHANGED <<archive, old>>
    BY ReviseIs DEF Revise
  <1>2. /\ There(live, s) /\ m # NoPage /\ m.kept = live[s].kept \cup {written + 1}
        /\ \A u \in Slugs \ {s} : live'[u] = live[u]
    BY <1>1 DEF ReviseAdds, Inductive, ThreadsTypeOK, Pages
  <1>3. \A u \in Slugs \ {s} : Phase'[u] = Phase[u] /\ Kept'[u] = Kept[u]
    BY <1>1, <1>2 DEF Phase, Kept, There
  <1>4. There(archive', s) <=> There(archive, s)
    BY <1>1 DEF There
  <1>5. CASE live[s].state \in OpenStates /\ m.state = "active" /\ UNCHANGED merged
    <2>1. ~There(archive, s)
      BY <1>2, <1>5 DEF Inductive, IdsAreUnique, OpenStates
    <2> HIDE DEF m
    <2>2. Phase[s] \in OpenStates /\ Phase'[s] = "active" /\ Kept'[s] = Kept[s] \cup {written + 1}
      BY <1>2, <1>4, <1>5, <2>1 DEF Phase, Kept, m
    <2> QED BY <1>1, <1>3, <1>5, <2>2, LifeMoves DEF Life!Takes, Life!Moves, Life!Keeps, OpenStates
  <1>6. CASE /\ Merges
             /\ live[s].state \in {"stale", "ended"} /\ m.state = live[s].state
             /\ merged' = [merged EXCEPT ![live[s].state] = @ \cup {written + 1}]
    <2> DEFINE st == live[s].state
    <2>1. CASE There(archive, s)
      <3>1. st = "ended"
        BY <1>2, <2>1 DEF Inductive, IdsAreUnique
      <3>2. Phase[s] = "archived" /\ Phase'[s] = "archived" /\ Kept'[s] = Kept[s]
        BY <1>1, <1>4, <2>1 DEF Phase, Kept
      <3>3. Phase' = Phase /\ Kept' = Kept
        BY <1>3, <3>2, LifeStandsStill
      <3> QED BY <1>1, <1>6, <3>1, <3>2, <3>3 DEF Life!TakesMerged
    <2>2. CASE ~There(archive, s)
      <3>1. Phase[s] = st /\ Phase'[s] = st /\ Kept'[s] = Kept[s] \cup {written + 1}
        BY <1>2, <1>4, <1>6, <2>2 DEF Phase, Kept
      <3>2. \A u \in Slugs : Phase'[u] = Phase[u]
        BY <1>3, <3>1
      <3>3. Phase' = Phase
        BY <3>2 DEF Phase
      <3>4. Kept' = [Kept EXCEPT ![s] = Kept[s] \cup {written + 1}]
        BY <1>3, <3>1, LifeMoves
      <3> QED BY <1>1, <1>6, <3>1, <3>3, <3>4 DEF Life!TakesMerged, Life!Keeps
    <2> QED BY <2>1, <2>2
  <1> QED BY <1>1, <1>5, <1>6 DEF ReviseAdds

LEMMA CreateTakes == ASSUME Inductive, Create PROVE \E s \in Slugs : Life!Takes(s)
  <1> DEFINE page == [state |-> "active", kept |-> {written + 1}, notes |-> 0]
  <1>1. PICK s \in Slugs \ Taken : ~There(live, s) /\ live' = [live EXCEPT ![s] = page]
    BY DEF Create
  <1>2. run.at = "creating" /\ written' = written + 1 /\ UNCHANGED <<archive, old, merged>>
    BY DEF Create
  <1>3. ~There(archive, s) /\ ~There(archive', s)
    BY <1>1, <1>2 DEF Inductive, RunKnows, There
  <1>4. live'[s] = page /\ \A u \in Slugs \ {s} : live'[u] = live[u]
    BY <1>1 DEF Inductive, ThreadsTypeOK, Pages
  <1>5. Phase[s] = "none" /\ Phase'[s] = "active" /\ Kept'[s] = Kept[s] \cup {written + 1}
    BY <1>1, <1>3, <1>4 DEF Phase, Kept, There, NoPage
  <1>6. \A u \in Slugs \ {s} : Phase'[u] = Phase[u] /\ Kept'[u] = Kept[u]
    BY <1>2, <1>4 DEF Phase, Kept, There
  <1> QED BY <1>2, <1>5, <1>6, LifeMoves DEF Life!Takes, Life!Moves, Life!Keeps

LEMMA MarkStaleSilences == ASSUME Inductive, MarkStale PROVE \E s \in Slugs : Life!FallsSilent(s)
  <1>1. PICK s \in Slugs : First(s, pass.left) /\ Write(s, pass.seen[s], Staled(pass.seen[s]))
    BY DEF MarkStale
  <1> DEFINE m == live'[s]
  <1>2. MarkSilences(s) /\ UNCHANGED <<archive, written, old>>
    BY <1>1, MarkIs DEF MarkStale
  <1>3. /\ There(live, s) /\ live[s].state = "active" /\ m.state = "stale" /\ m.kept = live[s].kept
        /\ \A u \in Slugs \ {s} : live'[u] = live[u]
    BY <1>2 DEF MarkSilences, Inductive, ThreadsTypeOK, Pages
  <1>4. ~There(archive, s) /\ ~There(archive', s)
    BY <1>2, <1>3 DEF Inductive, IdsAreUnique, There
  <1> HIDE DEF m
  <1>5. Phase[s] = "active" /\ Phase'[s] = "stale" /\ Kept'[s] = Kept[s] /\ Kept[s] = live[s].kept
    BY <1>3, <1>4 DEF Phase, Kept, m
  <1>6. \A u \in Slugs : Kept'[u] = Kept[u] /\ (u # s => Phase'[u] = Phase[u])
    BY <1>2, <1>3, <1>5 DEF Phase, Kept, There
  <1>7. Kept' = Kept
    BY <1>6 DEF Kept
  <1>8. Phase' = [Phase EXCEPT ![s] = "stale"]
    BY <1>5, <1>6, LifeMoves
  <1>9. \E young \in SUBSET Kept[s] :
           /\ young # {} => Merges
           /\ \A b \in Kept[s] \ young : b <= old
           /\ merged' = [merged EXCEPT !["stale"] = @ \cup young]
    BY <1>2, <1>5 DEF MarkSilences
  <1> QED BY <1>2, <1>5, <1>7, <1>8, <1>9 DEF Life!FallsSilent, Life!Moves

\* The copy in the archive is the step; one that is there already changes nothing.
LEMMA ArchiveRetires ==
    ASSUME Inductive, Archive
    PROVE  (\E s \in Slugs : Life!Retires(s)) \/ UNCHANGED <<Phase, Kept, written, old, merged>>
  <1>1. PICK s \in Slugs :
          /\ First(s, pass.left)
          /\ \/ There(archive, s) /\ ~SamePage(s) /\ UNCHANGED archive
             \/ ~(There(archive, s) /\ ~SamePage(s)) /\ archive' = [archive EXCEPT ![s] = pass.seen[s]]
    BY DEF Archive
  <1>2. pass.at = "archiving" /\ UNCHANGED <<live, written, old, merged>>
    BY DEF Archive
  <1> DEFINE p == pass.seen[s]
  <1>3. /\ archive \in Pages /\ p.state = "ended" /\ live[s].state = "ended" /\ p.kept \subseteq live[s].kept
        /\ live[s].kept \ p.kept \subseteq merged["ended"]
    BY <1>1, <1>2 DEF Inductive, ThreadsTypeOK, PassIsTrue, First
  <1>4. CASE UNCHANGED archive
    BY <1>2, <1>4 DEF Phase, Kept, There
  <1>5. CASE There(archive, s) /\ archive' = [archive EXCEPT ![s] = p] /\ archive[s] = p
    <2>1. archive' = archive
      BY <1>3, <1>5 DEF Pages
    <2> QED BY <1>2, <2>1 DEF Phase, Kept, There
  <1>6. CASE ~There(archive, s) /\ archive' = [archive EXCEPT ![s] = p]
    <2>1. archive'[s] = p /\ \A u \in Slugs \ {s} : archive'[u] = archive[u]
      BY <1>3, <1>6 DEF Pages
    <2>2. p # NoPage
      BY <1>3 DEF NoPage
    <2> HIDE DEF p
    <2>3. Phase[s] = "ended" /\ Phase'[s] = "archived" /\ Kept[s] = live[s].kept /\ Kept'[s] = p.kept
      BY <1>2, <1>3, <1>6, <2>1, <2>2 DEF Phase, Kept, There
    <2>4. \A u \in Slugs \ {s} : Phase'[u] = Phase[u] /\ Kept'[u] = Kept[u]
      BY <1>2, <2>1 DEF Phase, Kept, There
    <2>5. /\ Phase' = [Phase EXCEPT ![s] = "archived"]
          /\ Kept' = [Kept EXCEPT ![s] = p.kept]
      BY <2>3, <2>4, LifeMoves
    <2> DEFINE lost == Kept[s] \ p.kept
    <2>6. lost \in SUBSET (Kept[s] \cap merged["ended"]) /\ p.kept = Kept[s] \ lost
      BY <1>3, <2>3
    <2> HIDE DEF lost
    <2>7. \E l \in SUBSET (Kept[s] \cap merged["ended"]) : Kept' = [Kept EXCEPT ![s] = @ \ l]
      BY <2>5, <2>6
    <2> QED BY <1>2, <2>3, <2>5, <2>7 DEF Life!Retires, Life!Moves
  <1> QED BY <1>1, <1>4, <1>5, <1>6 DEF SamePage

\* The page that is deleted has its copy: its Thread does not notice.
LEMMA DeleteIsUnseen == ASSUME Inductive, Delete PROVE UNCHANGED <<Phase, Kept, written, old, merged>>
  <1>1. PICK s \in Slugs : First(s, pass.left) /\ live' = [live EXCEPT ![s] = NoPage]
    BY DEF Delete
  <1>2. pass.at = "deleting" /\ UNCHANGED <<archive, written, old, merged>>
    BY DEF Delete
  <1>3. There(archive, s)
    BY <1>1, <1>2 DEF Inductive, PassIsTrue
  <1>4. \A u \in Slugs \ {s} : live'[u] = live[u]
    BY <1>1 DEF Inductive, ThreadsTypeOK, Pages
  <1> QED BY <1>2, <1>3, <1>4 DEF Phase, Kept, There

LEMMA HumanEndsIt == ASSUME Inductive, NEW s \in Slugs, HumanEnds(s) PROVE Life!Ends(s)
  <1> DEFINE p == [live[s] EXCEPT !.state = "ended"]
  <1>1. live' = [live EXCEPT ![s] = p] /\ live[s].state \in OpenStates /\ UNCHANGED <<archive, written, old, merged>>
    BY DEF HumanEnds
  <1>2. live \in Pages /\ live[s] \in [state : States, kept : SUBSET Buckets, notes : 0..MaxHuman]
    BY <1>1 DEF Inductive, ThreadsTypeOK, Pages, Page, NoPage, OpenStates
  <1>3. p.state = "ended" /\ p.kept = live[s].kept /\ live[s] # NoPage /\ live[s].state # "ended"
    BY <1>1, <1>2 DEF NoPage, OpenStates
  <1> HIDE DEF p
  <1>4. live'[s] = p /\ \A u \in Slugs \ {s} : live'[u] = live[u]
    BY <1>1, <1>2 DEF Pages
  <1>5. ~There(archive, s) /\ ~There(archive', s)
    BY <1>1, <1>3 DEF Inductive, IdsAreUnique, There
  <1>6. Phase[s] = live[s].state /\ Phase'[s] = "ended" /\ Kept'[s] = Kept[s]
    BY <1>3, <1>4, <1>5 DEF Phase, Kept
  <1>7. \A u \in Slugs : Kept'[u] = Kept[u] /\ (u # s => Phase'[u] = Phase[u])
    BY <1>1, <1>4, <1>6 DEF Phase, Kept, There
  <1>8. Kept' = Kept
    BY <1>7 DEF Kept
  <1> QED BY <1>1, <1>6, <1>7, <1>8, LifeMoves DEF Life!Ends, Life!Moves, OpenStates

\* Notes are no part of a Thread's life.
LEMMA NotesAreUnseen ==
    ASSUME Inductive, NEW s \in Slugs, HumanWrites(s)
    PROVE  UNCHANGED <<Phase, Kept, written, old, merged>>
  <1>1. live \in Pages /\ archive \in Pages /\ UNCHANGED <<written, old, merged>> /\ edits + 1 \in 0..MaxHuman
    BY ThreadsAssumption DEF HumanWrites, Inductive, ThreadsTypeOK
  <1>2. \A pages \in Pages : There(pages, s) =>
            LET q == [pages EXCEPT ![s].notes = edits + 1] IN
            \A u \in Slugs : q[u].state = pages[u].state /\ q[u].kept = pages[u].kept
                             /\ (There(q, u) <=> There(pages, u))
    <2> SUFFICES ASSUME NEW pages \in Pages, There(pages, s)
                 PROVE  LET q == [pages EXCEPT ![s].notes = edits + 1] IN
                        \A u \in Slugs : q[u].state = pages[u].state /\ q[u].kept = pages[u].kept
                                         /\ (There(q, u) <=> There(pages, u))
      OBVIOUS
    <2> DEFINE p == [pages[s] EXCEPT !.notes = edits + 1]
               q == [pages EXCEPT ![s] = p]
    <2>1. p # NoPage /\ p.state = pages[s].state /\ p.kept = pages[s].kept
      BY <1>1, Noted DEF There, Pages
    <2> HIDE DEF p
    <2>2. q[s] = p /\ \A u \in Slugs \ {s} : q[u] = pages[u]
      BY DEF Pages
    <2>3. \A u \in Slugs : q[u].state = pages[u].state /\ q[u].kept = pages[u].kept
                           /\ (There(q, u) <=> There(pages, u))
      BY <2>1, <2>2 DEF There
    <2> QED BY <2>3 DEF p
  <1>3. CASE There(live, s) /\ live' = [live EXCEPT ![s].notes = edits + 1] /\ UNCHANGED archive
    <2>1. \A u \in Slugs : live'[u].state = live[u].state /\ live'[u].kept = live[u].kept
      BY <1>1, <1>2, <1>3
    <2> QED BY <1>1, <1>3, <2>1 DEF Phase, Kept, There
  <1>4. CASE There(archive, s) /\ archive' = [archive EXCEPT ![s].notes = edits + 1] /\ UNCHANGED live
    <2>1. \A u \in Slugs : archive'[u].kept = archive[u].kept /\ (There(archive', u) <=> There(archive, u))
      BY <1>1, <1>2, <1>4
    <2>2. \A u \in Slugs : Phase'[u] = Phase[u] /\ Kept'[u] = Kept[u]
      BY <1>4, <2>1 DEF Phase, Kept
    <2> QED BY <1>1, <2>2, LifeStandsStill
  <1> QED BY <1>3, <1>4 DEF HumanWrites

LEMMA LifeStep ==
    ASSUME Inductive, [Next]_vars
    PROVE  [Life!Next]_(<<Phase, Kept, written, old, merged>>)
  <1>1. CASE UNCHANGED <<live, archive, written, old, merged>>
    BY <1>1 DEF Phase, Kept, There
  <1>2. ASSUME NEW s \in Slugs, Revise(s) PROVE Life!Next
    BY <1>2, ReviseTakes DEF Life!Next
  <1>3. CASE Create
    BY <1>3, CreateTakes DEF Life!Next
  <1>4. CASE MarkStale
    BY <1>4, MarkStaleSilences DEF Life!Next
  <1>5. CASE Archive
    BY <1>5, ArchiveRetires DEF Life!Next
  <1>6. CASE Delete
    BY <1>6, DeleteIsUnseen
  <1>7. ASSUME NEW s \in Slugs, HumanEnds(s) PROVE Life!Next
    BY <1>7, HumanEndsIt DEF Life!Next
  <1>8. ASSUME NEW s \in Slugs, HumanWrites(s) PROVE UNCHANGED <<Phase, Kept, written, old, merged>>
    BY <1>8, NotesAreUnseen
  <1>9. CASE Days
    <2>1. Phase' = Phase /\ Kept' = Kept
      BY <1>9 DEF Days, Phase, Kept, There
    <2> QED BY <1>9, <2>1 DEF Days, Life!Next, Life!Days
  <1>10. \/ UNCHANGED <<live, archive, written, old, merged>> \/ Create \/ MarkStale \/ Archive \/ Delete \/ Days
         \/ \E s \in Slugs : Revise(s) \/ HumanEnds(s) \/ HumanWrites(s)
    BY DEF Next, vars, PassStep, Load, LoadArchive, RunEnds, PassStarts, MarkConflicts, MarkedAll, PassEnds,
           PassFails
  <1> QED BY <1>1, <1>2, <1>3, <1>4, <1>5, <1>6, <1>7, <1>8, <1>9, <1>10

\* The stores of an ingestion run and of the lifecycle pass, with humans between
\* any two of their calls, implement one life of each Thread (threads.py,
\* lifecycle.py), over a vault that refuses a stale write and over one that
\* merges it. ThreadLife says which steps only the latter takes: a bucket merged
\* into a stale or an ended Thread, a mark merged with young buckets, and an
\* archived Thread without what was merged into it when it was ended.
THEOREM ThreadsLiveOneLife == Spec => LivesOneLife
  <1>1. Inductive /\ [Next]_vars => [Life!Next]_(<<Phase, Kept, written, old, merged>>)
    BY LifeStep
  <1> QED BY <1>1, LifeBegins, ThreadsInductive, PTL DEF Spec, LivesOneLife, Life!Spec, Life!vars

-----------------------------------------------------------------------------
(* Placement. In a call of the assigner every message is to be looked at,  *)
(* waits for the one it replies to, or is on a thread; and what is still   *)
(* asked about replies to nothing of the call.                             *)

Pending == IF stage = "route" THEN queue \cup toAsk ELSE queue \cup chunk
Waits(i) == \E s \in Ids : i \in followers[s]

AssignTypeOK ==
    /\ batch \in Batches /\ stage \in {"route", "jev", "hand", "cut", "ask", "done"}
    /\ given \subseteq Messages /\ queue \subseteq given /\ toAsk \subseteq given /\ chunk \subseteq given
    /\ followers \in [Ids -> SUBSET given] /\ placed \in [Ids -> Keys \cup {None}]
    /\ landed \in [Messages -> {<<>>} \cup {<<k>> : k \in Keys}]
    /\ carried \subseteq NewIds /\ named \in [NewIds -> Nat] /\ asks \in Nat

\* Each message is in one place.
InPlace ==
    /\ stage # "ask" => chunk = {}
    /\ stage = "done" => queue = {}
    /\ stage = "route" => queue \cap toAsk = {}
    /\ queue \cap chunk = {}
    /\ \A i \in Pending : landed[i] = <<>> /\ ~Waits(i) /\ (ParentOf(i) = {} \/ (stage = "route" /\ i \in queue))
    /\ \A i \in given : landed[i] # <<>> \/ i \in Pending \/ Waits(i)

\* Of a reply and what it replies to.
RepliesWait ==
    /\ \A i \in given : ParentOf(i) \subseteq given
    /\ \A s \in Ids : \A i \in followers[s] :
          /\ landed[i] = <<>> /\ batch[i].reply = s /\ placed[s] = None
          /\ \E j \in given \ {i} : s \in batch[j].ids
    /\ \A i \in Messages : \A j \in ParentOf(i) : landed[i] # <<>> => landed[i] = landed[j]
    /\ \A i \in Messages \ given : landed[i] # <<>> \/ \E j \in ParentOf(i) : ParentOf(j) # {}

\* placed, an id's thread, is where the message with the id landed in this call.
PlacedIsLanded ==
    /\ \A i \in given : \A s \in batch[i].ids : landed[i] = IF placed[s] = None THEN <<>> ELSE <<placed[s]>>
    /\ \A s \in Ids : placed[s] # None => \E i \in given : s \in batch[i].ids

\* An answer whose new threads are new, and each gets a message.
Told(m) ==
    /\ m.new \subseteq NewIds \ carried
    /\ m.key \in [chunk -> Known \cup {CHATTER} \cup carried \cup m.new]
    /\ \A n \in m.new : \E i \in chunk : m.key[i] = n

NewIsNamed ==
    /\ \A n \in NewIds : /\ n \in carried <=> named[n] # 0
                         /\ n \in carried <=> \E i \in Messages : landed[i] = <<n>>
    /\ answer = None \/ Told(answer)

AssignInductive == AssignTypeOK /\ InPlace /\ RepliesWait /\ PlacedIsLanded /\ NewIsNamed

LEMMA AppendToNone == \A x : Append(<<>>, x) = <<x>>
  OBVIOUS

LEMMA BatchIs ==
    ASSUME AssignTypeOK
    PROVE  /\ \A i \in Messages : batch[i].ids \subseteq Ids /\ batch[i].reply \in Ids \cup {None}
           /\ \A i \in Messages, j \in Messages : i # j => batch[i].ids \cap batch[j].ids = {}
           /\ \E n \in Nat : Messages = 1..n
  <1> DEFINE Message == [ids : SUBSET Ids, reply : Ids \cup {None}, size : Nat]
  <1>1. batch \in Batches
    BY DEF AssignTypeOK
  <1>2. batch \in Seq(Message) /\ \A i \in DOMAIN batch, j \in DOMAIN batch : i # j => batch[i].ids \cap batch[j].ids = {}
    BY <1>1, AssignmentAssumption
  <1>3. \E n \in Nat : DOMAIN batch = 1..n
    <2> HIDE DEF Message
    <2> QED BY <1>2
  <1>4. \A i \in DOMAIN batch : batch[i] \in Message
    <2> HIDE DEF Message
    <2> QED BY <1>2
  <1> QED BY <1>2, <1>3, <1>4 DEF Messages

LEMMA OneParent ==
    ASSUME AssignTypeOK, NEW i \in Messages, NEW j \in Messages, NEW k \in Messages, NEW s,
           s \in batch[j].ids, s \in batch[k].ids
    PROVE  j = k
  BY BatchIs

LEMMA CohortCloses ==
    ASSUME AssignTypeOK, NEW i \in Messages
    PROVE  /\ i \in Cohort(i) /\ Cohort(i) \subseteq Messages
           /\ \A k \in Cohort(i) : \A s \in batch[k].ids : followers[s] \subseteq Cohort(i)
  <1>1. i \in Cohort(i) /\ Cohort(i) \subseteq Messages
    BY DEF Cohort
  <1>2. ASSUME NEW k \in Cohort(i), NEW s \in batch[k].ids, NEW f \in followers[s] PROVE f \in Cohort(i)
    <2>1. f \in Messages
      BY <1>1, BatchIs DEF AssignTypeOK
    <2>2. ASSUME NEW S \in SUBSET Messages, i \in S, WithFollowers(S) PROVE f \in S
      <3>1. k \in S
        BY <2>2 DEF Cohort
      <3> QED BY <2>2, <3>1 DEF WithFollowers, IdsOf
    <2> QED BY <2>1, <2>2 DEF Cohort
  <1> QED BY <1>1, <1>2

\* Whoever goes with a message waits for another that does.
LEMMA CohortWaits ==
    ASSUME AssignTypeOK, NEW i \in Messages, NEW j \in Cohort(i), j # i
    PROVE  \E k \in Cohort(i) : \E s \in batch[k].ids : s \in Ids /\ j \in followers[s]
  <1> DEFINE S == Cohort(i) \ {j}
  <1>1. S \in SUBSET Messages /\ i \in S
    BY CohortCloses
  <1>2. ~WithFollowers(S)
    BY <1>1 DEF Cohort
  <1>3. PICK s \in IdsOf(S) : \E f \in followers[s] : f \notin S
    BY <1>2 DEF WithFollowers
  <1>4. PICK k \in S : s \in batch[k].ids
    BY <1>3 DEF IdsOf
  <1>5. k \in Cohort(i) /\ followers[s] \subseteq Cohort(i) /\ s \in Ids
    BY <1>1, <1>4, CohortCloses, BatchIs
  <1> QED BY <1>3, <1>4, <1>5

\* What put does with messages that are still to be placed: they go where key
\* says, and with each whatever waits for it.
LEMMA PutIs ==
    ASSUME AssignInductive, NEW key, DOMAIN key \subseteq Pending, Put(key)
    PROVE  /\ DOMAIN key \subseteq Going(key) /\ Going(key) \subseteq given
           /\ \A j \in Going(key) : landed[j] = <<>> /\ \E l \in DOMAIN key : landed'[j] = <<key[l]>>
           /\ \A j \in Going(key) \ DOMAIN key : \E k \in Going(key) : \E s \in batch[k].ids : s \in Ids /\ j \in followers[s]
           /\ \A l \in DOMAIN key : landed'[l] = <<key[l]>>
           /\ \A j \in Messages \ Going(key) : landed'[j] = landed[j]
           /\ \A j \in Going(key) : \A s \in batch[j].ids :
                 /\ landed'[j] = <<placed'[s]>> /\ followers'[s] = {}
                 /\ \A f \in followers[s] : f \in Going(key) /\ landed'[f] = landed'[j]
           /\ \A s \in Ids : \/ placed'[s] = placed[s] /\ followers'[s] = followers[s]
                             \/ \E j \in Going(key) : s \in batch[j].ids
           /\ landed' = [j \in Messages |-> landed'[j]] /\ placed' = [s \in Ids |-> placed'[s]]
           /\ followers' = [s \in Ids |-> followers'[s]]
  <1> DEFINE goal == Goals(key)
             going == Going(key)
             carrier(s) == {j \in going : s \in batch[j].ids}
  <1>1. /\ landed' = [j \in Messages |-> IF j \in going THEN Append(landed[j], goal[j]) ELSE landed[j]]
        /\ placed' = [s \in Ids |-> IF carrier(s) = {} THEN placed[s] ELSE goal[CHOOSE j \in carrier(s) : TRUE]]
        /\ followers' = [s \in Ids |-> IF carrier(s) = {} THEN followers[s] ELSE {}]
    <2>1. DOMAIN goal = going
      BY DEF Goals
    <2> HIDE DEF goal, going
    <2>2. \E g \in {goal} :
            LET c(s) == {j \in DOMAIN g : s \in batch[j].ids} IN
            /\ landed' = [j \in Messages |-> IF j \in DOMAIN g THEN Append(landed[j], g[j]) ELSE landed[j]]
            /\ placed' = [s \in Ids |-> IF c(s) = {} THEN placed[s] ELSE g[CHOOSE j \in c(s) : TRUE]]
            /\ followers' = [s \in Ids |-> IF c(s) = {} THEN followers[s] ELSE {}]
      BY DEF Put, goal
    <2> QED BY <2>1, <2>2
  <1>2. \A j : j \in going <=> j \in Messages /\ \E l \in DOMAIN key : j \in Cohort(l)
    BY DEF Going, Heads
  <1>3. AssignTypeOK /\ Pending \subseteq given /\ given \subseteq Messages
    BY DEF AssignInductive, AssignTypeOK, Pending
  <1>4. \A l \in DOMAIN key : l \in Messages /\ landed[l] = <<>> /\ ~Waits(l)
    BY <1>3 DEF AssignInductive, InPlace
  <1>5. DOMAIN key \subseteq going
    BY <1>2, <1>4, <1>3, CohortCloses
  <1>6. ASSUME NEW j \in going, j \notin DOMAIN key
        PROVE  \E k \in going : \E s \in batch[k].ids : s \in Ids /\ j \in followers[s]
    <2>1. PICK l \in DOMAIN key : j \in Cohort(l)
      BY <1>2
    <2>2. PICK k \in Cohort(l) : \E s \in batch[k].ids : s \in Ids /\ j \in followers[s]
      BY <1>3, <1>4, <1>6, <2>1, CohortWaits
    <2>3. k \in going
      BY <1>2, <1>3, <1>4, <2>2, CohortCloses
    <2> QED BY <2>2, <2>3
  <1>7. ASSUME NEW j \in going, NEW s \in batch[j].ids, NEW f \in followers[s]
        PROVE  f \in going /\ Heads(key, f) = Heads(key, j)
    <2>1. ASSUME NEW l \in DOMAIN key, j \in Cohort(l) PROVE f \in Cohort(l)
      BY <1>3, <1>4, <2>1, CohortCloses
    <2>2. f \in going
      <3>1. PICK l \in DOMAIN key : j \in Cohort(l)
        BY <1>2
      <3>2. f \in Cohort(l) /\ f \in Messages
        BY <1>3, <1>4, <2>1, <3>1, CohortCloses
      <3> QED BY <1>2, <3>2
    <2>3. s \in Ids /\ batch[f].reply = s /\ Waits(f)
      BY <1>2, <1>3, BatchIs DEF AssignInductive, RepliesWait, Waits
    <2>4. ASSUME NEW l \in DOMAIN key, f \in Cohort(l) PROVE j \in Cohort(l)
      <3>1. f # l
        BY <1>4, <2>3
      <3>2. PICK k \in Cohort(l) : \E t \in batch[k].ids : t \in Ids /\ f \in followers[t]
        BY <1>3, <1>4, <2>4, <3>1, CohortWaits
      <3>3. k \in Messages /\ j \in Messages /\ s \in batch[k].ids
        BY <1>2, <1>3, <1>4, <2>3, <3>2, CohortCloses DEF AssignInductive, RepliesWait
      <3> QED BY <1>3, <3>2, <3>3, OneParent
    <2> QED BY <2>1, <2>2, <2>4 DEF Heads
  <1>8. ASSUME NEW l \in DOMAIN key PROVE goal[l] = key[l]
    <2>1. ASSUME NEW m \in DOMAIN key, l \in Cohort(m) PROVE l = m
      BY <1>3, <1>4, <2>1, CohortWaits DEF Waits
    <2>2. Heads(key, l) = {l}
      BY <1>3, <1>4, <2>1, CohortCloses DEF Heads
    <2> QED BY <1>5, <2>2 DEF Goals
  <1>9. ASSUME NEW j \in going PROVE landed[j] = <<>> /\ j \in given /\ \E l \in DOMAIN key : goal[j] = key[l]
    <2>1. landed[j] = <<>> /\ j \in given
      <3>1. CASE j \in DOMAIN key
        BY <1>3, <1>4, <3>1
      <3>2. CASE j \notin DOMAIN key
        <4>1. PICK s \in Ids : j \in followers[s]
          BY <1>6, <3>2
        <4> QED BY <1>3, <4>1 DEF AssignInductive, RepliesWait, AssignTypeOK
      <3> QED BY <3>1, <3>2
    <2>2. Heads(key, j) # {} /\ Heads(key, j) \subseteq DOMAIN key /\ goal[j] = key[CHOOSE i \in Heads(key, j) : TRUE]
      BY DEF Going, Goals, Heads
    <2> QED BY <2>1, <2>2
  <1> HIDE DEF goal, going
  <1>10. ASSUME NEW j \in going PROVE landed'[j] = <<goal[j]>>
    <2>1. landed'[j] = Append(landed[j], goal[j]) /\ landed[j] = <<>>
      BY <1>1, <1>2, <1>9
    <2> QED BY <2>1, AppendToNone
  <1>11. ASSUME NEW j \in going, NEW s \in batch[j].ids
         PROVE  placed'[s] = goal[j] /\ followers'[s] = {}
    <2>1. j \in Messages /\ s \in Ids
      BY <1>2, <1>3, BatchIs
    <2>2. carrier(s) = {j}
      BY <1>2, <1>3, <2>1, OneParent
    <2>3. carrier(s) # {} /\ (CHOOSE k \in carrier(s) : TRUE) = j
      BY <2>2
    <2> HIDE DEF carrier
    <2> QED BY <1>1, <2>1, <2>3
  <1>12. ASSUME NEW j \in going, NEW s \in batch[j].ids, NEW f \in followers[s]
         PROVE  f \in going /\ landed'[f] = landed'[j]
    <2>1. f \in going /\ goal[f] = goal[j]
      BY <1>7, <1>2 DEF goal, going, Goals
    <2> QED BY <1>10, <2>1
  <1>13. /\ landed' = [j \in Messages |-> landed'[j]] /\ placed' = [s \in Ids |-> placed'[s]]
         /\ followers' = [s \in Ids |-> followers'[s]]
    <2> HIDE DEF carrier
    <2> QED BY <1>1
  <1>14. \A s \in Ids : \/ placed'[s] = placed[s] /\ followers'[s] = followers[s]
                        \/ \E j \in going : s \in batch[j].ids
    BY <1>1
  <1>15. \A j \in Messages \ going : landed'[j] = landed[j]
    BY <1>1
  <1>16. \A l \in DOMAIN key : landed'[l] = <<key[l]>>
    BY <1>5, <1>8, <1>10 
  <1> QED BY <1>5, <1>6, <1>9, <1>10, <1>11, <1>12, <1>13, <1>14, <1>15, <1>16 DEF going

LEMMA SameParents == ASSUME UNCHANGED batch PROVE Messages' = Messages /\ \A i : ParentOf(i)' = ParentOf(i)
  BY DEF Messages, ParentOf

\* The parts of the invariant that are about where messages have landed. A
\* message that replies to another goes where that one is.
LEMMA PutKeeps ==
    ASSUME AssignInductive, NEW key, DOMAIN key \subseteq Pending, \A l \in DOMAIN key : key[l] \in Keys,
           \A l \in DOMAIN key : \A j \in ParentOf(l) : landed[j] = <<key[l]>>,
           Put(key), UNCHANGED <<batch, given>>
    PROVE  /\ landed' \in [Messages -> {<<>>} \cup {<<k>> : k \in Keys}]
           /\ placed' \in [Ids -> Keys \cup {None}] /\ followers' \in [Ids -> SUBSET given]
           /\ \A i \in Pending \ DOMAIN key : landed'[i] = <<>> /\ \A s \in Ids : i \notin followers'[s]
           /\ \A i \in given : landed'[i] # <<>> \/ i \in Pending \ DOMAIN key \/ \E s \in Ids : i \in followers'[s]
           /\ RepliesWait' /\ PlacedIsLanded'
  <1> DEFINE going == Going(key)
  <1>1. /\ AssignTypeOK /\ InPlace /\ RepliesWait /\ PlacedIsLanded
        /\ Pending \subseteq given /\ given \subseteq Messages /\ None \notin Keys
    BY AssignmentAssumption DEF AssignInductive, AssignTypeOK, Pending, Keys
  <1>2. /\ DOMAIN key \subseteq going /\ going \subseteq given
        /\ \A j \in going : landed[j] = <<>> /\ \E l \in DOMAIN key : landed'[j] = <<key[l]>>
        /\ \A j \in going \ DOMAIN key : \E k \in going : \E s \in batch[k].ids : s \in Ids /\ j \in followers[s]
        /\ \A l \in DOMAIN key : landed'[l] = <<key[l]>>
        /\ \A j \in Messages \ going : landed'[j] = landed[j]
    BY PutIs
  <1>3. /\ \A j \in going : \A s \in batch[j].ids :
              /\ landed'[j] = <<placed'[s]>> /\ followers'[s] = {}
              /\ \A f \in followers[s] : f \in going /\ landed'[f] = landed'[j]
        /\ \A s \in Ids : \/ placed'[s] = placed[s] /\ followers'[s] = followers[s]
                          \/ \E j \in going : s \in batch[j].ids
    BY PutIs
  <1>4. /\ landed' = [j \in Messages |-> landed'[j]] /\ placed' = [s \in Ids |-> placed'[s]]
        /\ followers' = [s \in Ids |-> followers'[s]]
    BY PutIs
  <1> HIDE DEF going
  <1>5. ASSUME NEW j \in going PROVE landed'[j] \in {<<k>> : k \in Keys} /\ landed'[j] # <<>>
    <2>1. PICK l \in DOMAIN key : landed'[j] = <<key[l]>>
      BY <1>2
    <2>2. <<key[l]>> # <<>>
      OBVIOUS
    <2> QED BY <2>1, <2>2
  <1>6. landed' \in [Messages -> {<<>>} \cup {<<k>> : k \in Keys}]
    <2>1. \A j \in Messages : landed'[j] \in {<<>>} \cup {<<k>> : k \in Keys}
      BY <1>1, <1>2, <1>5 DEF AssignTypeOK
    <2> QED BY <1>4, <2>1
  <1>7. \A j \in going : \A s \in batch[j].ids : placed'[s] \in Keys
    BY <1>2, <1>3
  <1>8. placed' \in [Ids -> Keys \cup {None}]
    <2>1. \A s \in Ids : placed'[s] \in Keys \cup {None}
      BY <1>1, <1>3, <1>7 DEF AssignTypeOK
    <2> QED BY <1>4, <2>1
  <1>9. followers' \in [Ids -> SUBSET given]
    <2>1. \A s \in Ids : followers'[s] \in SUBSET given
      BY <1>1, <1>3 DEF AssignTypeOK
    <2> QED BY <1>4, <2>1
  <1>10. \A s \in Ids : followers'[s] \subseteq followers[s]
    BY <1>3
  <1>11. ASSUME NEW i \in Pending \ DOMAIN key PROVE landed'[i] = <<>> /\ \A s \in Ids : i \notin followers'[s]
    <2>1. landed[i] = <<>> /\ \A s \in Ids : i \notin followers[s]
      BY <1>1 DEF InPlace, Waits
    <2>2. i \notin going
      BY <1>2, <2>1
    <2> QED BY <1>1, <1>2, <1>10, <2>1, <2>2
  <1>12. ASSUME NEW i \in given
         PROVE  landed'[i] # <<>> \/ i \in Pending \ DOMAIN key \/ \E s \in Ids : i \in followers'[s]
    <2>1. CASE i \in going
      BY <1>5, <2>1
    <2>2. CASE i \notin going
      <3>1. landed'[i] = landed[i] /\ (landed[i] # <<>> \/ i \in Pending \/ Waits(i))
        BY <1>1, <1>2, <2>2 DEF InPlace
      <3>2. ASSUME NEW s \in Ids, i \in followers[s] PROVE i \in followers'[s]
        BY <1>3, <2>2, <3>2
      <3> QED BY <1>2, <2>2, <3>1, <3>2 DEF Waits
    <2> QED BY <2>1, <2>2
  <1>13. ASSUME NEW s \in Ids, NEW i \in followers'[s]
         PROVE  /\ landed'[i] = <<>> /\ batch[i].reply = s /\ placed'[s] = None
                /\ \E j \in given \ {i} : s \in batch[j].ids
    <2>1. i \in followers[s] /\ landed[i] = <<>> /\ batch[i].reply = s /\ placed[s] = None
          /\ \E j \in given \ {i} : s \in batch[j].ids
      BY <1>1, <1>10 DEF RepliesWait
    <2>2. /\ placed'[s] = placed[s]
          /\ ~\E j \in going : s \in batch[j].ids
      BY <1>3
    <2>3. i \notin DOMAIN key /\ i \in Messages
      BY <1>1, <2>1 DEF InPlace, Waits, AssignTypeOK
    <2>4. ASSUME i \in going PROVE FALSE
      <3>1. PICK k \in going : \E t \in batch[k].ids : t \in Ids /\ i \in followers[t]
        BY <1>2, <2>3, <2>4
      <3> QED BY <1>1, <2>1, <2>2, <3>1 DEF RepliesWait
    <2> QED BY <1>2, <2>1, <2>2, <2>3, <2>4
  <1>14. ASSUME NEW i \in Messages, NEW j \in ParentOf(i), landed'[i] # <<>> PROVE landed'[i] = landed'[j]
    <2>1. j \in Messages /\ batch[i].reply \in batch[j].ids
      BY DEF ParentOf
    <2>2. CASE i \in DOMAIN key
      <3>1. landed[j] = <<key[i]>> /\ landed'[i] = <<key[i]>>
        BY <1>2, <2>2
      <3>2. j \notin going
        BY <1>2, <3>1
      <3> QED BY <1>2, <2>1, <3>1, <3>2
    <2>3. CASE i \in going \ DOMAIN key
      <3>1. PICK k \in going : \E s \in batch[k].ids : s \in Ids /\ i \in followers[s]
        BY <1>2, <2>3
      <3>2. PICK s \in batch[k].ids : s \in Ids /\ i \in followers[s]
        BY <3>1
      <3>3. s = batch[i].reply /\ k \in Messages
        BY <1>1, <1>2, <3>2 DEF RepliesWait
      <3>4. k = j
        BY <1>1, <2>1, <3>2, <3>3, OneParent
      <3> QED BY <1>3, <3>2, <3>4
    <2>4. CASE i \notin going
      <3>1. landed'[i] = landed[i] /\ landed[i] = landed[j]
        BY <1>1, <1>2, <1>14, <2>4 DEF RepliesWait
      <3>2. j \notin going
        BY <1>2, <1>14, <3>1
      <3> QED BY <1>2, <2>1, <3>1, <3>2
    <2> QED BY <1>2, <2>2, <2>3, <2>4
  <1>15. ASSUME NEW i \in Messages \ given PROVE landed'[i] # <<>> \/ \E j \in ParentOf(i) : ParentOf(j) # {}
    BY <1>1, <1>2 DEF RepliesWait
  <1>16. RepliesWait'
    BY <1>1, <1>13, <1>14, <1>15, SameParents DEF RepliesWait
  <1>17. ASSUME NEW i \in given, NEW s \in batch[i].ids
         PROVE  landed'[i] = IF placed'[s] = None THEN <<>> ELSE <<placed'[s]>>
    <2>1. s \in Ids /\ i \in Messages
      BY <1>1, BatchIs
    <2>2. CASE i \in going
      BY <1>1, <1>3, <1>7, <2>2
    <2>3. CASE i \notin going
      <3>1. ~\E j \in going : s \in batch[j].ids
        BY <1>1, <1>2, <2>1, <2>3, OneParent
      <3>2. placed'[s] = placed[s] /\ landed'[i] = landed[i]
        BY <1>2, <1>3, <2>1, <2>3, <3>1
      <3> QED BY <1>1, <3>2 DEF PlacedIsLanded
    <2> QED BY <2>2, <2>3
  <1>18. PlacedIsLanded'
    <2>1. ASSUME NEW s \in Ids, placed'[s] # None PROVE \E i \in given : s \in batch[i].ids
      BY <1>1, <1>2, <1>3, <2>1 DEF PlacedIsLanded
    <2> QED BY <1>17, <2>1 DEF PlacedIsLanded
  <1> QED BY <1>6, <1>8, <1>9, <1>11, <1>12, <1>16, <1>18

\* A new thread is one a message has landed on, as long as it is carried when
\* the first does.
LEMMA NamesStand ==
    ASSUME AssignInductive, NEW key, DOMAIN key \subseteq Pending, Put(key), UNCHANGED batch,
           carried \subseteq carried', \A l \in DOMAIN key : key[l] \in NewIds => key[l] \in carried',
           \A n \in carried' \ carried : \E l \in DOMAIN key : key[l] = n
    PROVE  \A n \in NewIds : n \in carried' <=> \E i \in Messages : landed'[i] = <<n>>
  <1>1. /\ \A n \in NewIds : n \in carried <=> \E i \in Messages : landed[i] = <<n>>
        /\ Pending \subseteq Messages /\ given \subseteq Messages
    BY DEF AssignInductive, NewIsNamed, Pending, AssignTypeOK
  <1>2. /\ Going(key) \subseteq given
        /\ \A j \in Going(key) : landed[j] = <<>> /\ \E l \in DOMAIN key : landed'[j] = <<key[l]>>
        /\ \A l \in DOMAIN key : landed'[l] = <<key[l]>>
        /\ \A j \in Messages \ Going(key) : landed'[j] = landed[j]
    BY PutIs
  <1>3. ASSUME NEW n \in NewIds, n \in carried' PROVE \E i \in Messages : landed'[i] = <<n>>
    <2>1. CASE n \in carried
      <3>1. PICK i \in Messages : landed[i] = <<n>>
        BY <1>1, <2>1
      <3>2. i \notin Going(key)
        BY <1>2, <3>1
      <3> QED BY <1>2, <3>1, <3>2
    <2>2. CASE n \notin carried
      BY <1>1, <1>2, <1>3, <2>2
    <2> QED BY <2>1, <2>2
  <1>4. ASSUME NEW n \in NewIds, NEW i \in Messages, landed'[i] = <<n>> PROVE n \in carried'
    BY <1>1, <1>2, <1>4
  <1> QED BY <1>3, <1>4

\* Nothing lands.
LEMMA StandStill ==
    ASSUME AssignInductive, UNCHANGED <<batch, given, landed, placed, followers>>
    PROVE  /\ RepliesWait' /\ PlacedIsLanded'
           /\ \A i \in Messages : Waits(i)' = Waits(i)
  <1>1. RepliesWait'
    BY SameParents DEF AssignInductive, RepliesWait
  <1>2. PlacedIsLanded'
    BY DEF AssignInductive, PlacedIsLanded
  <1> QED BY <1>1, <1>2 DEF Waits

LEMMA AssignInitInductive == AssignInit => AssignInductive
  <1> SUFFICES ASSUME AssignInit PROVE AssignInductive
    OBVIOUS
  <1>1. AssignTypeOK
    BY AssignmentAssumption DEF AssignInit, AssignTypeOK
  <1>2. InPlace
    BY DEF AssignInit, InPlace, Pending, Waits
  <1>3. RepliesWait
    BY DEF AssignInit, RepliesWait, ParentOf
  <1>4. PlacedIsLanded
    BY <1>1, BatchIs DEF AssignInit, PlacedIsLanded
  <1>5. NewIsNamed
    <2>1. \A n \in NewIds : ~\E i \in Messages : landed[i] = <<n>>
      BY DEF AssignInit
    <2> QED BY <2>1 DEF AssignInit, NewIsNamed
  <1> QED BY <1>1, <1>2, <1>3, <1>4, <1>5 DEF AssignInductive

\* What is named and answered so far, when nothing of it changes.
LEMMA NamesSame ==
    ASSUME AssignInductive, UNCHANGED <<batch, carried, named, chunk, answer>>,
           \A n \in NewIds : n \in carried' <=> \E i \in Messages : landed'[i] = <<n>>
    PROVE  NewIsNamed'
  <1>1. NewIsNamed /\ Messages' = Messages
    BY SameParents DEF AssignInductive
  <1> QED BY <1>1 DEF NewIsNamed, Told

LEMMA PlaceReplyKeeps ==
    ASSUME AssignInductive, stage = "route", NEW i \in queue, NEW thread \in Keys, PlaceReply(i, thread),
           queue' = queue \ {i}, UNCHANGED <<call, stage, minted, asking>>,
           \A j \in ParentOf(i) : landed[j] = <<thread>>,
           thread \in NewIds => thread \in carried
    PROVE  AssignInductive'
  <1> DEFINE key == [j \in {i} |-> thread]
  <1>1. /\ Put(key) /\ UNCHANGED <<batch, given, toAsk, stage, chunk, carried, named, asks, answer>>
    BY DEF PlaceReply, call, minted, asking
  <1>2. DOMAIN key = {i} /\ key[i] = thread /\ i \in Pending
    BY DEF Pending
  <1>3. AssignTypeOK /\ InPlace /\ NewIsNamed
    BY DEF AssignInductive
  <1> HIDE DEF key
  <1>4. /\ landed' \in [Messages -> {<<>>} \cup {<<k>> : k \in Keys}]
        /\ placed' \in [Ids -> Keys \cup {None}] /\ followers' \in [Ids -> SUBSET given]
        /\ \A j \in Pending \ {i} : landed'[j] = <<>> /\ \A s \in Ids : j \notin followers'[s]
        /\ \A j \in given : landed'[j] # <<>> \/ j \in Pending \ {i} \/ \E s \in Ids : j \in followers'[s]
        /\ RepliesWait' /\ PlacedIsLanded'
    BY <1>1, <1>2, PutKeeps
  <1>5. \A n \in NewIds : n \in carried' <=> \E j \in Messages : landed'[j] = <<n>>
    BY <1>1, <1>2, NamesStand
  <1>6. AssignTypeOK'
    BY <1>1, <1>3, <1>4, SameParents DEF AssignTypeOK
  <1>7. Pending' = Pending \ {i}
    BY <1>1, <1>3 DEF Pending, InPlace
  <1>8. InPlace'
    BY <1>1, <1>3, <1>4, <1>7, SameParents DEF InPlace, Waits
  <1>9. NewIsNamed'
    BY <1>1, <1>5, NamesSame
  <1> QED BY <1>4, <1>6, <1>8, <1>9 DEF AssignInductive

LEMMA LeaveToAskKeeps ==
    ASSUME AssignInductive, stage = "route", NEW i \in queue, LeaveToAsk(i), ParentOf(i) = {},
           queue' = queue \ {i}, UNCHANGED <<call, stage, minted, asking>>
    PROVE  AssignInductive'
  <1>1. /\ toAsk' = toAsk \cup {i}
        /\ UNCHANGED <<batch, given, landed, placed, followers, stage, chunk, carried, named, asks, answer>>
    BY DEF LeaveToAsk, call, minted, asking
  <1>2. AssignTypeOK /\ InPlace /\ NewIsNamed
    BY DEF AssignInductive
  <1>3. /\ RepliesWait' /\ PlacedIsLanded'
        /\ \A j \in Messages : Waits(j)' = Waits(j)
    BY <1>1, StandStill
  <1>4. AssignTypeOK'
    BY <1>1, <1>2, SameParents DEF AssignTypeOK
  <1>5. Pending' = Pending
    BY <1>1 DEF Pending
  <1>6. InPlace'
    BY <1>1, <1>2, <1>3, <1>5, SameParents DEF InPlace, Waits
  <1>7. NewIsNamed'
    BY <1>1, <1>2, NamesSame DEF NewIsNamed
  <1> QED BY <1>3, <1>4, <1>6, <1>7 DEF AssignInductive

LEMMA WaitForKeeps ==
    ASSUME AssignInductive, stage = "route", NEW i \in queue, NEW target \in Ids, batch[i].reply = target,
           placed[target] = None, InBatch(i), WaitFor(i, target),
           queue' = queue \ {i}, UNCHANGED <<call, stage, minted, asking>>
    PROVE  AssignInductive'
  <1>1. /\ followers' = [followers EXCEPT ![target] = @ \cup {i}]
        /\ UNCHANGED <<batch, given, landed, placed, toAsk, stage, chunk, carried, named, asks, answer>>
    BY DEF WaitFor, call, minted, asking
  <1>2. AssignTypeOK /\ InPlace /\ RepliesWait /\ NewIsNamed /\ i \in given /\ landed[i] = <<>>
    BY DEF AssignInductive, AssignTypeOK, InPlace, Pending
  <1>3. followers \in [Ids -> SUBSET given]
    BY <1>2 DEF AssignTypeOK
  <1>4. /\ followers' \in [Ids -> SUBSET given] /\ i \in followers'[target]
        /\ \A s \in Ids : followers[s] \subseteq followers'[s]
        /\ \A s \in Ids : \A j \in followers'[s] : j \in followers[s] \/ (j = i /\ s = target)
    BY <1>1, <1>2, <1>3
  <1>5. AssignTypeOK'
    BY <1>1, <1>2, <1>4, SameParents DEF AssignTypeOK
  <1>6. RepliesWait'
    <2>1. ASSUME NEW s \in Ids, NEW j \in followers'[s]
          PROVE  /\ landed[j] = <<>> /\ batch[j].reply = s /\ placed[s] = None
                 /\ \E k \in given \ {j} : s \in batch[k].ids
      BY <1>2, <1>4 DEF RepliesWait, InBatch
    <2> QED BY <1>1, <1>2, <2>1, SameParents DEF RepliesWait
  <1>7. PlacedIsLanded'
    BY <1>1 DEF AssignInductive, PlacedIsLanded
  <1>8. Pending' = Pending \ {i}
    BY <1>1, <1>2 DEF Pending, InPlace
  <1>9. InPlace'
    <2>1. \A j \in given : landed[j] # <<>> \/ j \in Pending \ {i} \/ \E s \in Ids : j \in followers'[s]
      BY <1>2, <1>4 DEF InPlace, Waits
    <2>2. \A j \in Pending \ {i} : \A s \in Ids : j \notin followers'[s]
      BY <1>2, <1>4 DEF InPlace, Waits
    <2> QED BY <1>1, <1>2, <1>8, <2>1, <2>2, SameParents DEF InPlace, Waits
  <1>10. NewIsNamed'
    BY <1>1, <1>2, NamesSame DEF NewIsNamed
  <1> QED BY <1>5, <1>6, <1>7, <1>9, <1>10 DEF AssignInductive

LEMMA RouteKeeps == ASSUME AssignInductive, Route PROVE AssignInductive'
  <1>1. PICK i \in queue :
          /\ queue' = queue \ {i}
          /\ IF batch[i].reply = None THEN LeaveToAsk(i) ELSE RouteReply(i, batch[i].reply)
    BY DEF Route
  <1>2. stage = "route" /\ UNCHANGED <<call, stage, minted, asking>>
    BY DEF Route
  <1> DEFINE target == batch[i].reply
  <1>3. AssignTypeOK /\ i \in given /\ given \subseteq Messages /\ i \in Messages /\ ParentOf(i) \subseteq given
    BY DEF AssignInductive, AssignTypeOK, RepliesWait
  <1>4. target \in Ids \cup {None} /\ None \notin Ids
    BY <1>3, BatchIs, AssignmentAssumption
  <1>5. \A j \in ParentOf(i) : j \in given \ {i} /\ target \in batch[j].ids
    BY <1>3 DEF ParentOf
  <1>6. CASE target = None
    <2>1. ParentOf(i) = {}
      BY <1>3, <1>4, <1>5, <1>6, BatchIs
    <2> QED BY <1>1, <1>2, <1>6, <2>1, LeaveToAskKeeps
  <1>7. CASE target # None /\ placed[target] # None
    <2>1. target \in Ids /\ placed[target] \in Keys
      BY <1>3, <1>4, <1>7 DEF AssignTypeOK
    <2>2. PlaceReply(i, placed[target])
      BY <1>1, <1>7 DEF RouteReply
    <2>3. \A j \in ParentOf(i) : landed[j] = <<placed[target]>>
      BY <1>3, <1>5, <1>7 DEF AssignInductive, PlacedIsLanded
    <2>4. \E j \in Messages : landed[j] = <<placed[target]>>
      <3>1. PICK j \in given : target \in batch[j].ids
        BY <1>7, <2>1 DEF AssignInductive, PlacedIsLanded
      <3> QED BY <1>3, <1>7, <3>1 DEF AssignInductive, PlacedIsLanded
    <2>5. placed[target] \in NewIds => placed[target] \in carried
      BY <2>4 DEF AssignInductive, NewIsNamed
    <2> QED BY <1>1, <1>2, <2>1, <2>2, <2>3, <2>5, PlaceReplyKeeps
  <1>8. CASE target # None /\ placed[target] = None /\ InBatch(i)
    <2>1. WaitFor(i, target)
      BY <1>1, <1>8 DEF RouteReply
    <2> QED BY <1>1, <1>2, <1>4, <1>8, <2>1, WaitForKeeps
  <1>9. CASE target # None /\ placed[target] = None /\ ~InBatch(i)
    <2>1. ParentOf(i) = {}
      BY <1>5, <1>9 DEF InBatch
    <2>2. CASE OnPage[target] # None
      <3>1. OnPage[target] \in Known /\ PlaceReply(i, OnPage[target])
        BY <1>1, <1>4, <1>9, <2>2, AssignmentAssumption DEF RouteReply
      <3>2. OnPage[target] \in Keys /\ OnPage[target] \notin NewIds
        BY <3>1, AssignmentAssumption DEF Keys
      <3> QED BY <1>1, <1>2, <2>1, <3>1, <3>2, PlaceReplyKeeps
    <2>3. CASE OnPage[target] = None
      BY <1>1, <1>2, <1>9, <2>1, <2>3, LeaveToAskKeeps DEF RouteReply
    <2> QED BY <2>2, <2>3
  <1> QED BY <1>6, <1>7, <1>8, <1>9

LEMMA RoutedKeeps == ASSUME AssignInductive, Routed PROVE AssignInductive'
  <1>1. /\ stage = "route" /\ queue = {} /\ queue' = toAsk
        /\ stage' = CASE toAsk = {} -> "done" [] toAsk # {} /\ mode = "jev" -> "jev" [] OTHER -> "cut"
        /\ UNCHANGED <<batch, given, toAsk, landed, placed, followers, chunk, carried, named, asks, answer>>
    BY DEF Routed, call, placement, minted, asking
  <1>2. stage' \in {"jev", "cut", "done"} /\ (stage' = "done" => toAsk = {})
    BY <1>1
  <1>3. AssignTypeOK /\ InPlace /\ NewIsNamed
    BY DEF AssignInductive
  <1>4. /\ RepliesWait' /\ PlacedIsLanded'
        /\ \A j \in Messages : Waits(j)' = Waits(j)
    BY <1>1, StandStill
  <1>5. AssignTypeOK'
    BY <1>1, <1>2, <1>3, SameParents DEF AssignTypeOK
  <1>6. chunk = {} /\ Pending = toAsk /\ Pending' = toAsk
    BY <1>1, <1>2, <1>3 DEF Pending, InPlace
  <1>7. InPlace'
    <2>1. \A i \in toAsk : landed[i] = <<>> /\ ~Waits(i) /\ ParentOf(i) = {}
      BY <1>1, <1>3, <1>6 DEF InPlace
    <2>2. \A i \in given : landed[i] # <<>> \/ i \in toAsk \/ Waits(i)
      BY <1>3, <1>6 DEF InPlace
    <2>3. given \subseteq Messages /\ toAsk \subseteq Messages
      BY <1>3 DEF AssignTypeOK
    <2> QED BY <1>1, <1>2, <1>4, <1>6, <2>1, <2>2, <2>3, SameParents DEF InPlace
  <1>8. NewIsNamed'
    BY <1>1, <1>3, NamesSame DEF NewIsNamed
  <1> QED BY <1>4, <1>5, <1>7, <1>8 DEF AssignInductive

\* Some of what is asked about lands, and no place is left for it.
LEMMA SomeLand ==
    ASSUME AssignInductive, stage # "route", NEW key, DOMAIN key \subseteq Pending,
           \A l \in DOMAIN key : key[l] \in Keys, Put(key), UNCHANGED <<batch, given, toAsk>>,
           stage' \in {"hand", "cut", "done"}, queue' \subseteq Pending, chunk' = {},
           queue' = Pending \ DOMAIN key, stage' = "done" => queue' = {},
           carried' \subseteq NewIds, named' \in [NewIds -> Nat], asks' \in Nat
    PROVE  AssignTypeOK' /\ InPlace' /\ RepliesWait' /\ PlacedIsLanded'
  <1>1. AssignTypeOK /\ InPlace /\ Pending \subseteq given /\ given \subseteq Messages
    BY DEF AssignInductive, AssignTypeOK, Pending
  <1>2. \A l \in DOMAIN key : ParentOf(l) = {}
    BY <1>1 DEF InPlace
  <1>3. /\ landed' \in [Messages -> {<<>>} \cup {<<k>> : k \in Keys}]
        /\ placed' \in [Ids -> Keys \cup {None}] /\ followers' \in [Ids -> SUBSET given]
        /\ \A i \in Pending \ DOMAIN key : landed'[i] = <<>> /\ \A s \in Ids : i \notin followers'[s]
        /\ \A i \in given : landed'[i] # <<>> \/ i \in Pending \ DOMAIN key \/ \E s \in Ids : i \in followers'[s]
        /\ RepliesWait' /\ PlacedIsLanded'
    BY <1>2, PutKeeps
  <1>4. AssignTypeOK'
    BY <1>1, <1>3, SameParents DEF AssignTypeOK
  <1>5. Pending' = Pending \ DOMAIN key
    BY DEF Pending
  <1>6. \A i \in Pending \ DOMAIN key : ParentOf(i) = {}
    BY <1>1 DEF InPlace
  <1>7. InPlace'
    BY <1>1, <1>3, <1>5, <1>6, SameParents DEF InPlace, Waits
  <1> QED BY <1>3, <1>4, <1>7

LEMMA JevDecidesKeeps == ASSUME AssignInductive, JevDecides PROVE AssignInductive'
  <1>1. PICK decision \in [queue -> Decisions] :
          LET sure == {i \in queue : decision[i] # None} IN
          /\ Put(Restrict(decision, sure))
          /\ queue' = queue \ sure
          /\ stage' = IF queue' = {} THEN "done" ELSE "hand"
    BY DEF JevDecides
  <1>2. stage = "jev" /\ UNCHANGED <<batch, given, toAsk, carried, named, asks, chunk, answer>>
    BY DEF JevDecides, call, minted, asking
  <1> DEFINE sure == {i \in queue : decision[i] # None}
             key == Restrict(decision, sure)
  <1>3. \A c \in Decisions : c # None => c \in Known \cup {CHATTER}
    BY DEF Decisions, Decision, NeedsWorker
  <1>4. DOMAIN key = sure /\ \A l \in sure : key[l] = decision[l]
    BY DEF Restrict
  <1>5. \A l \in DOMAIN key : key[l] \in Keys /\ key[l] \notin NewIds
    BY <1>3, <1>4, AssignmentAssumption DEF Keys
  <1>6. AssignTypeOK /\ InPlace /\ NewIsNamed
    BY DEF AssignInductive
  <1>7. Pending = queue /\ chunk = {}
    BY <1>2, <1>6 DEF Pending, InPlace
  <1>8. Put(key) /\ queue' = queue \ sure /\ stage' = IF queue' = {} THEN "done" ELSE "hand"
    BY <1>1
  <1>9. DOMAIN key \subseteq Pending /\ queue' = Pending \ DOMAIN key
    BY <1>4, <1>7, <1>8
  <1> HIDE DEF key
  <1>10. AssignTypeOK' /\ InPlace' /\ RepliesWait' /\ PlacedIsLanded'
    BY <1>2, <1>5, <1>6, <1>7, <1>8, <1>9, SomeLand DEF AssignTypeOK
  <1>11. \A n \in NewIds : n \in carried' <=> \E i \in Messages : landed'[i] = <<n>>
    BY <1>2, <1>5, <1>8, <1>9, NamesStand
  <1>12. NewIsNamed'
    BY <1>2, <1>11, NamesSame
  <1> QED BY <1>10, <1>12 DEF AssignInductive

LEMMA HandOverKeeps == ASSUME AssignInductive, HandOver PROVE AssignInductive'
  <1> DEFINE handed == queue \cup UNION {followers[s] : s \in IdsOf(queue)}
  <1>1. /\ stage = "hand" /\ stage' = "route" /\ given' = handed /\ queue' = handed /\ toAsk' = {}
        /\ followers' = [s \in Ids |-> {}] /\ placed' = [s \in Ids |-> None]
        /\ UNCHANGED <<batch, landed, carried, named, asks, chunk, answer>>
    BY DEF HandOver, minted, asking
  <1>2. AssignTypeOK /\ InPlace /\ RepliesWait /\ PlacedIsLanded /\ NewIsNamed /\ queue \subseteq given /\ given \subseteq Messages
    BY DEF AssignInductive, AssignTypeOK
  <1>3. chunk = {} /\ Pending = queue
    BY <1>1, <1>2 DEF InPlace, Pending
  <1>4. \A i : i \in handed <=> i \in queue \/ \E j \in queue : \E s \in batch[j].ids : i \in followers[s]
    BY DEF IdsOf
  <1>5. ASSUME NEW j \in queue, NEW s \in batch[j].ids
        PROVE  s \in Ids /\ followers[s] \subseteq given
    BY <1>2, BatchIs DEF AssignTypeOK
  <1>6. handed \subseteq given
    BY <1>2, <1>4, <1>5
  <1> HIDE DEF handed
  <1>7. ASSUME NEW i \in handed PROVE landed[i] = <<>> /\ ParentOf(i) \subseteq handed
    <2>1. CASE i \in queue
      BY <1>1, <1>2, <1>3, <2>1 DEF InPlace
    <2>2. CASE i \notin queue
      <3>1. PICK j \in queue : \E s \in batch[j].ids : i \in followers[s]
        BY <1>4, <2>2
      <3>2. landed[i] = <<>> /\ batch[i].reply \in batch[j].ids
        BY <1>2, <1>5, <3>1 DEF RepliesWait
      <3>3. \A k \in ParentOf(i) : k = j
        BY <1>2, <3>2, OneParent DEF ParentOf
      <3> QED BY <1>4, <3>2, <3>3
    <2> QED BY <2>1, <2>2
  <1>8. ASSUME NEW i \in Messages \ handed PROVE landed[i] # <<>> \/ \E j \in ParentOf(i) : ParentOf(j) # {}
    <2> SUFFICES ASSUME i \in given, landed[i] = <<>> PROVE \E j \in ParentOf(i) : ParentOf(j) # {}
      BY <1>2 DEF RepliesWait
    <2>1. PICK s \in Ids : i \in followers[s]
      BY <1>2, <1>3, <1>4 DEF InPlace, Waits
    <2>2. PICK j \in given \ {i} : s \in batch[j].ids
      BY <1>2, <2>1 DEF RepliesWait
    <2>3. batch[i].reply = s /\ placed[s] = None
      BY <1>2, <2>1 DEF RepliesWait
    <2>4. j \in ParentOf(i) /\ j \notin queue
      BY <1>2, <1>4, <2>1, <2>2, <2>3 DEF ParentOf
    <2>5. landed[j] = <<>>
      BY <1>2, <2>2, <2>3 DEF PlacedIsLanded
    <2>6. PICK t \in Ids : j \in followers[t]
      BY <1>2, <1>3, <2>2, <2>4, <2>5 DEF InPlace, Waits
    <2>7. ParentOf(j) # {}
      BY <1>2, <2>6 DEF RepliesWait, ParentOf
    <2> QED BY <2>4, <2>7
  <1>9. AssignTypeOK'
    <2>1. followers' \in [Ids -> SUBSET handed] /\ placed' \in [Ids -> Keys \cup {None}]
      BY <1>1
    <2> QED BY <1>1, <1>2, <1>3, <1>6, <2>1, SameParents DEF AssignTypeOK
  <1>10. Pending' = handed
    BY <1>1 DEF Pending
  <1>11. InPlace'
    BY <1>1, <1>3, <1>7, <1>10 DEF InPlace, Waits
  <1>12. RepliesWait'
    <2>1. \A i \in Messages : \A j \in ParentOf(i) : landed[i] # <<>> => landed[i] = landed[j]
      BY <1>2 DEF RepliesWait
    <2> QED BY <1>1, <1>7, <1>8, <2>1, SameParents DEF RepliesWait
  <1>13. PlacedIsLanded'
    <2>1. \A i \in handed : \A s \in batch[i].ids : s \in Ids
      BY <1>2, <1>6, BatchIs
    <2> QED BY <1>1, <1>7, <2>1 DEF PlacedIsLanded
  <1>14. NewIsNamed'
    BY <1>1, <1>2, NamesSame DEF NewIsNamed
  <1> QED BY <1>9, <1>11, <1>12, <1>13, <1>14 DEF AssignInductive

LEMMA CutKeeps == ASSUME AssignInductive, Cut PROVE AssignInductive'
  <1>1. /\ stage = "cut" /\ stage' = "ask" /\ chunk' = FirstChunk /\ queue' = queue \ FirstChunk /\ answer' = None
        /\ UNCHANGED <<batch, given, toAsk, landed, placed, followers, carried, named, asks>>
    BY DEF Cut, call, placement, minted
  <1>2. FirstChunk \subseteq queue
    BY DEF FirstChunk, Upto
  <1>3. AssignTypeOK /\ InPlace /\ NewIsNamed /\ given \subseteq Messages /\ queue \subseteq Messages
    BY DEF AssignInductive, AssignTypeOK
  <1>4. /\ RepliesWait' /\ PlacedIsLanded'
        /\ \A j \in Messages : Waits(j)' = Waits(j)
    BY <1>1, StandStill
  <1>5. AssignTypeOK'
    BY <1>1, <1>2, <1>3, SameParents DEF AssignTypeOK
  <1>6. Pending = queue /\ Pending' = queue
    BY <1>1, <1>2, <1>3 DEF Pending, InPlace
  <1>7. InPlace'
    <2>1. \A i \in queue : landed[i] = <<>> /\ ~Waits(i) /\ ParentOf(i) = {}
      BY <1>1, <1>3, <1>6 DEF InPlace
    <2>2. \A i \in given : landed[i] # <<>> \/ i \in queue \/ Waits(i)
      BY <1>3, <1>6 DEF InPlace
    <2> QED BY <1>1, <1>3, <1>4, <1>6, <2>1, <2>2, SameParents DEF InPlace
  <1>8. NewIsNamed'
    BY <1>1, <1>3, SameParents DEF NewIsNamed
  <1> QED BY <1>4, <1>5, <1>7, <1>8 DEF AssignInductive

LEMMA FinishKeeps == ASSUME AssignInductive, Finish PROVE AssignInductive'
  <1>1. /\ stage = "cut" /\ queue = {} /\ stage' = "done"
        /\ UNCHANGED <<batch, given, queue, toAsk, landed, placed, followers, chunk, carried, named, asks, answer>>
    BY DEF Finish, call, placement, minted, asking
  <1>2. AssignTypeOK /\ InPlace /\ NewIsNamed /\ given \subseteq Messages
    BY DEF AssignInductive, AssignTypeOK
  <1>3. /\ RepliesWait' /\ PlacedIsLanded'
        /\ \A j \in Messages : Waits(j)' = Waits(j)
    BY <1>1, StandStill
  <1>4. AssignTypeOK'
    BY <1>1, <1>2, SameParents DEF AssignTypeOK
  <1>5. Pending = {} /\ Pending' = {}
    BY <1>1, <1>2 DEF Pending, InPlace
  <1>6. InPlace'
    BY <1>1, <1>2, <1>3, <1>5, SameParents DEF InPlace
  <1>7. NewIsNamed'
    BY <1>1, <1>2, NamesSame DEF NewIsNamed
  <1> QED BY <1>3, <1>4, <1>6, <1>7 DEF AssignInductive

\* Asking again changes no more than the answer.
LEMMA AskAgainKeeps == ASSUME AssignInductive, NEW a, AskAgain(a), a = None \/ Told(a) PROVE AssignInductive'
  <1>1. /\ answer' = a
        /\ UNCHANGED <<batch, stage, given, queue, toAsk, landed, placed, followers, chunk, carried, named, asks>>
    BY DEF AskAgain, call, placement, minted
  <1>2. AssignTypeOK /\ InPlace /\ NewIsNamed /\ given \subseteq Messages /\ Pending \subseteq Messages
    BY DEF AssignInductive, AssignTypeOK, Pending
  <1>3. /\ RepliesWait' /\ PlacedIsLanded'
        /\ \A j \in Messages : Waits(j)' = Waits(j)
    BY <1>1, StandStill
  <1>4. AssignTypeOK'
    BY <1>1, <1>2, SameParents DEF AssignTypeOK
  <1>5. Pending' = Pending
    BY <1>1 DEF Pending
  <1>6. InPlace'
    BY <1>1, <1>2, <1>3, <1>5, SameParents DEF InPlace
  <1>7. NewIsNamed'
    BY <1>1, <1>2, SameParents DEF NewIsNamed, Told
  <1> QED BY <1>3, <1>4, <1>6, <1>7 DEF AssignInductive

LEMMA ApplyKeeps == ASSUME AssignInductive, stage = "ask", NEW m, Told(m), Apply(m) PROVE AssignInductive'
  <1> DEFINE key == m.key
  <1>1. /\ Put(key) /\ carried' = carried \cup m.new
        /\ named' = [n \in NewIds |-> IF n \in m.new THEN asks + 1 ELSE named[n]]
        /\ asks' = asks + 1 /\ stage' = "cut" /\ chunk' = {} /\ answer' = None
        /\ UNCHANGED <<batch, given, queue, toAsk>>
    BY DEF Apply, call
  <1>2. /\ m.new \subseteq NewIds \ carried /\ key \in [chunk -> Known \cup {CHATTER} \cup carried \cup m.new]
        /\ \A n \in m.new : \E i \in chunk : key[i] = n
    BY DEF Told
  <1>3. AssignTypeOK /\ InPlace /\ NewIsNamed /\ carried \subseteq NewIds /\ asks \in Nat /\ named \in [NewIds -> Nat]
    BY DEF AssignInductive, AssignTypeOK
  <1> HIDE DEF key
  <1>4. DOMAIN key = chunk /\ \A l \in chunk : key[l] \in Known \cup {CHATTER} \cup carried \cup m.new
    BY <1>2
  <1>5. \A l \in DOMAIN key : key[l] \in Keys /\ (key[l] \in NewIds => key[l] \in carried')
    BY <1>1, <1>2, <1>3, <1>4, AssignmentAssumption DEF Keys
  <1>6. DOMAIN key \subseteq Pending /\ queue' = Pending \ DOMAIN key
    BY <1>1, <1>3, <1>4 DEF Pending, InPlace
  <1>7. carried' \subseteq NewIds /\ named' \in [NewIds -> Nat] /\ asks' \in Nat
    BY <1>1, <1>2, <1>3
  <1>8. AssignTypeOK' /\ InPlace' /\ RepliesWait' /\ PlacedIsLanded'
    BY <1>1, <1>5, <1>6, <1>7, SomeLand
  <1>9. \A n \in NewIds : n \in carried' <=> \E i \in Messages : landed'[i] = <<n>>
    <2>1. \A n \in carried' \ carried : \E l \in DOMAIN key : key[l] = n
      BY <1>1, <1>2, <1>4
    <2> QED BY <1>1, <1>5, <1>6, <2>1, NamesStand
  <1>10. \A n \in NewIds : n \in carried' <=> named'[n] # 0
    BY <1>1, <1>3 DEF NewIsNamed
  <1>11. NewIsNamed'
    BY <1>1, <1>9, <1>10, SameParents DEF NewIsNamed
  <1> QED BY <1>8, <1>11 DEF AssignInductive

\* Of what a model says only the threads it may name are used.
LEMMA MeaningIsTold == ASSUME AssignInductive, NEW a \in Answers PROVE Told(Meaning(a))
  <1>1. /\ DOMAIN a.of = chunk /\ a.declared \subseteq NewIds
        /\ a.of \in [chunk -> Known \cup NewIds \cup {CHATTER, Unknown}]
    BY DEF Answers
  <1>2. Meaning(a).key = KeysOf(a) /\ Meaning(a).new = NewIn(a)
    BY DEF Meaning
  <1>3. NewIn(a) \subseteq NewIds \ carried
    BY <1>1 DEF NewIn
  <1>4. ASSUME NEW i \in chunk PROVE KeysOf(a)[i] \in Known \cup {CHATTER} \cup carried \cup NewIn(a)
    BY <1>1 DEF KeysOf, ValidRefs, NewIn
  <1>5. KeysOf(a) \in [chunk -> Known \cup {CHATTER} \cup carried \cup NewIn(a)]
    <2>1. KeysOf(a) = [i \in chunk |-> KeysOf(a)[i]]
      BY <1>1 DEF KeysOf
    <2> QED BY <1>4, <2>1
  <1>6. \A n \in NewIn(a) : \E i \in chunk : KeysOf(a)[i] = n
    BY <1>1 DEF NewIn, KeysOf, ValidRefs
  <1> QED BY <1>2, <1>3, <1>5, <1>6 DEF Told

LEMMA AskKeepsPlace == ASSUME AssignInductive, AskAnswers \/ AskFails PROVE AssignInductive'
  <1>1. CASE AskAnswers
    <2>1. PICK a \in Answers :
            IF Clean(a) \/ attempt = Retries THEN Apply(Meaning(a)) ELSE AskAgain(Meaning(a))
      BY <1>1 DEF AskAnswers
    <2>2. stage = "ask" /\ Told(Meaning(a))
      BY <1>1, MeaningIsTold DEF AskAnswers
    <2> QED BY <2>1, <2>2, ApplyKeeps, AskAgainKeeps
  <1>2. CASE AskFails
    <2>1. stage = "ask" /\ (answer = None \/ Told(answer))
      BY <1>2 DEF AskFails, AssignInductive, NewIsNamed
    <2>2. Told(AllChatter)
      <3>1. AllChatter.new = {} /\ AllChatter.key \in [chunk -> {CHATTER}]
        BY DEF AllChatter
      <3> QED BY <3>1 DEF Told
    <2>3. AskAgain(answer) \/ Apply(AllChatter) \/ (answer # None /\ Apply(answer))
      BY <1>2 DEF AskFails
    <2> QED BY <2>1, <2>2, <2>3, ApplyKeeps, AskAgainKeeps
  <1> QED BY <1>1, <1>2

LEMMA AssignNextKeeps == ASSUME AssignInductive, [AssignNext]_assignVars PROVE AssignInductive'
  <1>1. CASE UNCHANGED assignVars
    <2>1. UNCHANGED <<batch, stage, given, queue, toAsk, landed, placed, followers, chunk, carried, named, asks, answer>>
      BY <1>1 DEF assignVars, call, placement, minted, asking
    <2>2. AssignTypeOK /\ InPlace /\ NewIsNamed /\ given \subseteq Messages /\ Pending \subseteq Messages
      BY DEF AssignInductive, AssignTypeOK, Pending
    <2>3. /\ RepliesWait' /\ PlacedIsLanded'
          /\ \A j \in Messages : Waits(j)' = Waits(j)
      BY <2>1, StandStill
    <2>4. AssignTypeOK'
      BY <2>1, <2>2, SameParents DEF AssignTypeOK
    <2>5. Pending' = Pending
      BY <2>1 DEF Pending
    <2>6. InPlace'
      BY <2>1, <2>2, <2>3, <2>5, SameParents DEF InPlace
    <2>7. NewIsNamed'
      BY <2>1, <2>2, NamesSame DEF NewIsNamed
    <2> QED BY <2>3, <2>4, <2>6, <2>7 DEF AssignInductive
  <1> QED BY <1>1, RouteKeeps, RoutedKeeps, JevDecidesKeeps, HandOverKeeps, CutKeeps, FinishKeeps, AskKeepsPlace
          DEF AssignNext

THEOREM AssignInductiveHolds == AssignSpec => []AssignInductive
  <1> QED BY AssignInitInductive, AssignNextKeeps, PTL DEF AssignSpec

-----------------------------------------------------------------------------
(* When a call is over, nothing is pending: what has not landed waits for  *)
(* another that has not, and so on, in a batch that is finite.             *)

LEMMA BehindIs ==
    ASSUME NEW i \in Messages
    PROVE  /\ Behind(i) \subseteq Messages /\ ParentOf(i) \subseteq Behind(i)
           /\ \A k \in Behind(i) : ParentOf(k) \subseteq Behind(i)
           /\ \A S \in SUBSET Messages : ParentOf(i) \subseteq S /\ (\A k \in S : ParentOf(k) \subseteq S) => Behind(i) \subseteq S
  <1>1. \A k : ParentOf(k) \subseteq Messages
    BY DEF ParentOf
  <1>2. Behind(i) \subseteq Messages /\ ParentOf(i) \subseteq Behind(i)
    BY <1>1 DEF Behind
  <1>3. ASSUME NEW k \in Behind(i), NEW p \in ParentOf(k) PROVE p \in Behind(i)
    <2>1. ASSUME NEW S \in SUBSET Messages, ParentOf(i) \subseteq S, \A m \in S : ParentOf(m) \subseteq S PROVE p \in S
      <3>1. k \in S
        BY <2>1 DEF Behind
      <3> QED BY <2>1, <3>1
    <2> QED BY <1>1, <2>1 DEF Behind
  <1>4. ASSUME NEW S \in SUBSET Messages, ParentOf(i) \subseteq S, \A k \in S : ParentOf(k) \subseteq S PROVE Behind(i) \subseteq S
    BY <1>4 DEF Behind
  <1> QED BY <1>2, <1>3, <1>4

\* A finite set where everyone has a parent has a circle.
LEMMA CircleBehind ==
    ASSUME AssignTypeOK, NEW i \in Messages, ParentOf(i) # {}, \A k \in Behind(i) : ParentOf(k) # {}
    PROVE  WaitsForCircle(i)
  <1> DEFINE sizes == {Cardinality(Behind(k)) : k \in Behind(i)}
  <1>1. Behind(i) \subseteq Messages /\ Behind(i) # {} /\ \A k \in Behind(i) : ParentOf(k) \subseteq Behind(i)
    BY BehindIs
  <1>2. \A k \in Messages : Behind(k) \subseteq Messages /\ IsFiniteSet(Behind(k))
    <2>1. IsFiniteSet(Messages)
      BY BatchIs, FS_Interval
    <2> QED BY <2>1, BehindIs, FS_Subset
  <1>3. \A k \in Behind(i) : Cardinality(Behind(k)) \in Nat
    BY <1>1, <1>2, FS_CardinalityType
  <1>4. sizes \subseteq Nat /\ sizes # {}
    BY <1>1, <1>3
  <1>5. PICK least \in sizes : \A e \in sizes : ~(<<e, least>> \in OpToRel(<, Nat))
    BY <1>4, NatLessThanWellFounded, WFMin
  <1>6. \A e \in sizes : ~(e < least)
    BY <1>4, <1>5 DEF OpToRel
  <1>7. PICK k \in Behind(i) : least = Cardinality(Behind(k))
    BY <1>5
  <1>8. PICK p \in ParentOf(k) : TRUE
    BY <1>7
  <1>9. p \in Behind(i) /\ p \in Messages /\ k \in Messages /\ p \in Behind(k)
    BY <1>1, <1>7, <1>8, BehindIs
  <1>10. Behind(p) \subseteq Behind(k)
    BY <1>9, BehindIs
  <1>11. p \in Behind(p)
    <2> SUFFICES ASSUME p \notin Behind(p) PROVE FALSE
      OBVIOUS
    <2>1. Cardinality(Behind(p)) < Cardinality(Behind(k))
      BY <1>2, <1>3, <1>7, <1>9, <1>10, FS_Subset
    <2> QED BY <1>6, <1>7, <1>9, <2>1
  <1> QED BY <1>9, <1>11 DEF WaitsForCircle

LEMMA AtMostOneLong ==
    ASSUME NEW s, s = <<>> \/ \E k : s = <<k>> PROVE Len(s) <= 1
  <1>1. Len(<<>>) = 0 /\ \A x : Len(<<x>>) = 1
    OBVIOUS
  <1>2. CASE s = <<>>
    BY <1>1, <1>2
  <1>3. CASE \E k : s = <<k>>
    <2>1. PICK k : s = <<k>>
      BY <1>3
    <2>2. Len(s) = 1
      BY <2>1
    <2> QED BY <2>2
  <1> QED BY <1>2, <1>3

LEMMA NothingPending == ASSUME AssignInductive, stage = "done" PROVE Pending = {}
  BY DEF AssignInductive, InPlace, Pending

\* No message is lost but where Jev hands over without it or replies run in a
\* circle, and none lands twice.
THEOREM EachLandsOnce == AssignSpec => []NothingDropped
  <1>1. ASSUME AssignInductive PROVE NothingDropped
    <2>1. AssignTypeOK /\ InPlace /\ RepliesWait /\ PlacedIsLanded /\ given \subseteq Messages
      BY <1>1 DEF AssignInductive, AssignTypeOK
    <2>2. \A i \in Messages : Len(landed[i]) <= 1
      <3>1. \A i \in Messages : landed[i] = <<>> \/ \E k \in Keys : landed[i] = <<k>>
        BY <2>1 DEF AssignTypeOK
      <3> QED BY <3>1, AtMostOneLong
    <2>3. ASSUME stage = "done", NEW i \in given, landed[i] = <<>> PROVE WaitsForCircle(i)
      <3> DEFINE waiting == {k \in given : landed[k] = <<>>}
      <3>1. ASSUME NEW k \in waiting PROVE ParentOf(k) # {} /\ ParentOf(k) \subseteq waiting
        <4>1. PICK s \in Ids : k \in followers[s]
          BY <1>1, <2>1, <2>3, NothingPending DEF InPlace, Waits
        <4>2. PICK j \in given \ {k} : s \in batch[j].ids
          BY <2>1, <4>1 DEF RepliesWait
        <4>3. batch[k].reply = s /\ placed[s] = None
          BY <2>1, <4>1 DEF RepliesWait
        <4>4. landed[j] = <<>>
          BY <2>1, <4>2, <4>3 DEF PlacedIsLanded
        <4>5. j \in ParentOf(k) /\ \A p \in ParentOf(k) : p = j
          BY <2>1, <4>2, <4>3, OneParent DEF ParentOf
        <4> QED BY <4>2, <4>4, <4>5
      <3>2. i \in waiting /\ waiting \in SUBSET Messages
        BY <2>1, <2>3
      <3> HIDE DEF waiting
      <3>3. Behind(i) \subseteq waiting
        BY <3>1, <3>2, BehindIs
      <3> QED BY <2>1, <3>1, <3>2, <3>3, CircleBehind
    <2>4. ASSUME NEW i \in Messages, landed[i] = <<>>, i \notin given PROVE \E j \in ParentOf(i) : ParentOf(j) # {}
      BY <2>1, <2>4 DEF RepliesWait
    <2> QED BY <2>2, <2>3, <2>4 DEF NothingDropped
  <1> QED BY <1>1, AssignInductiveHolds, PTL

\* A reply that lands is where the message it replies to is.
THEOREM RepliesGoAlong == AssignSpec => []RepliesFollow
  <1>1. AssignInductive => RepliesFollow
    BY DEF AssignInductive, RepliesWait, RepliesFollow
  <1> QED BY <1>1, AssignInductiveHolds, PTL

\* A new thread has a title exactly if a message landed on it.
THEOREM NewThreadsHaveNames == AssignSpec => []NewThreadsAreNamed
  <1>1. AssignInductive => NewThreadsAreNamed
    BY DEF AssignInductive, NewIsNamed, NewThreadsAreNamed
  <1> QED BY <1>1, AssignInductiveHolds, PTL

=============================================================================
