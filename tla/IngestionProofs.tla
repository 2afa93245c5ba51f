-------------------------- MODULE IngestionProofs --------------------------
(***************************************************************************)
(* What holds of the ingestion of a Channel for any number of rows, Threads *)
(* and admin commands, any batch size and any number of faults, edits and  *)
(* restarts. The argument follows a batch: it is cut from rows that are not *)
(* consumed, with nothing older left behind it (Oldest); each bucket that   *)
(* is written is on a page (Kept); only then are its rows consumed, and the *)
(* cursor moves to the last of them.                                       *)
(***************************************************************************)
EXTENDS Ingestion, FiniteSetTheorems, TLAPS

HasBatch == at \in {"loading", "writing", "consuming", "advancing"}

\* TLC cannot enumerate this part of the type: a page is a sequence of buckets.
Bundles == UNION {[S -> Nat] : S \in SUBSET Nat}
PageOK == page \in [Threads -> Seq(Bundles)]

\* A drain that is past its cut has not reached its bound.
DrainOK == HasBatch \/ at = "posting" => drained < MaxDrain

\* The rows of the commands being handled are command rows.
CommandRows == \A c \in cmds : c.row \in DOMAIN rows /\ rows[c.row].cmd

\* Nothing older than a row of the batch is left to be ingested, and the
\* cursor is behind all of them.
Oldest ==
    HasBatch => \A r \in batch :
        /\ cursor < r
        /\ \A q \in DOMAIN rows : q < r => q \in batch \/ rows[q].consumed

\* The rows of a batch stay pending until mark_consumed, and are consumed then.
BatchPending ==
    at \in {"loading", "writing", "consuming"} =>
        \A r \in batch : rows[r].cmd \/ ~rows[r].consumed
BatchConsumed == at = "advancing" => \A r \in batch : rows[r].consumed

\* The model has not spoken before a batch is loaded.
Undecided == at = "loading" => \A r \in batch : plan[r] = Chatter

\* What is written is on a page, and at mark_consumed that is all of it.
Kept ==
    /\ at = "writing" => \A t \in written : \A r \in Bucket(t) : OnPage(r)
    /\ at = "consuming" => \A r \in batch : plan[r] \in Threads => OnPage(r)

\* A Thread of the plan that has been ended meanwhile has a changed page.
EndedIsStale ==
    at = "writing" => \A r \in batch : plan[r] \in ended => plan[r] \in stale

Inductive ==
    /\ IngestionTypeOK /\ PageOK /\ DrainOK /\ CommandRows
    /\ Oldest /\ BatchPending /\ BatchConsumed
    /\ Undecided /\ Kept /\ EndedIsStale
    /\ ConsumedWasRead /\ CursorIsConsumed
-----------------------------------------------------------------------------
(* Rows. *)

\* How one step may change the table: rows are added unconsumed, keep what
\* they are, and only those of S become consumed.
RowsStep(S) ==
    /\ rows' \in Seq(Row)
    /\ Len(rows) <= Len(rows')
    /\ \A r \in 1..Len(rows) :
          /\ rows'[r].cmd = rows[r].cmd
          /\ rows[r].consumed => rows'[r].consumed /\ rows'[r].type = rows[r].type
          /\ rows'[r].consumed => rows[r].consumed \/ (r \in S /\ rows'[r].type = rows[r].type)
    /\ \A r \in 1..Len(rows') : r > Len(rows) => ~rows'[r].consumed

\* mark_consumed sets one flag of the rows it is given (buffer.py:138).
LEMMA ConsumingRows ==
    ASSUME rows \in Seq(Row), NEW S
    PROVE  /\ Consuming(S) \in Seq(Row)
           /\ Len(Consuming(S)) = Len(rows)
           /\ \A r \in 1..Len(rows) :
                 /\ Consuming(S)[r].cmd = rows[r].cmd
                 /\ Consuming(S)[r].type = rows[r].type
                 /\ Consuming(S)[r].consumed <=> rows[r].consumed \/ r \in S
<1> DEFINE c(r) == IF r \in S THEN [rows[r] EXCEPT !.consumed = TRUE] ELSE rows[r]
<1>1. DOMAIN rows = 1..Len(rows) /\ Len(rows) \in Nat
  OBVIOUS
<1>2. Consuming(S) = [r \in 1..Len(rows) |-> c(r)]
  BY <1>1 DEF Consuming
<1>3. ASSUME NEW r \in 1..Len(rows)
      PROVE  /\ c(r) \in Row /\ c(r).cmd = rows[r].cmd /\ c(r).type = rows[r].type
             /\ c(r).consumed <=> rows[r].consumed \/ r \in S
  <2>1. rows[r] \in Row
    OBVIOUS
  <2>2. CASE r \in S
    BY <2>1, <2>2 DEF Row
  <2>3. CASE r \notin S
    BY <2>1, <2>3 DEF Row
  <2>4. QED
    BY <2>2, <2>3
<1>4. [r \in 1..Len(rows) |-> c(r)] \in Seq(Row) /\ Len([r \in 1..Len(rows) |-> c(r)]) = Len(rows)
  BY <1>1, <1>3
<1>5. QED
  BY <1>2, <1>3, <1>4

LEMMA ConsumingStep ==
    ASSUME rows \in Seq(Row), NEW S, rows' = Consuming(S)
    PROVE  RowsStep(S) /\ Len(rows') = Len(rows)
           /\ \A r \in 1..Len(rows) : r \in S => rows'[r].consumed
<1>1. Len(rows) \in Nat
  OBVIOUS
<1>2. QED
  BY <1>1, ConsumingRows DEF RowsStep

LEMMA InsertStep ==
    ASSUME rows \in Seq(Row), OldAge \in Nat, NEW i \in Nat, NEW ty \in Types, NEW b \in BOOLEAN,
           Insert(i, ty, b)
    PROVE  RowsStep({}) /\ Len(rows') = Len(rows) + 1 /\ rows'[Len(rows) + 1].cmd = b
<1> DEFINE o == [id |-> i, type |-> ty, version |-> 0, consumed |-> FALSE, cmd |-> b, age |-> 0]
<1>1. rows' = Append(rows, o)
  BY DEF Insert
<1>2. o \in Row /\ ~o.consumed /\ o.cmd = b
  BY DEF Row
<1> HIDE DEF o
<1>3. rows' \in Seq(Row) /\ Len(rows') = Len(rows) + 1 /\ Len(rows) \in Nat
  BY <1>1, <1>2
<1>4. /\ \A r \in 1..Len(rows) : rows'[r] = rows[r]
      /\ rows'[Len(rows) + 1] = o
  BY <1>1, <1>2
<1>5. \A r \in 1..Len(rows') : r > Len(rows) => r = Len(rows) + 1
  BY <1>3
<1>6. QED
  BY <1>2, <1>3, <1>4, <1>5 DEF RowsStep

LEMMA NothingStep ==
    ASSUME rows \in Seq(Row), UNCHANGED rows, NEW S
    PROVE  RowsStep(S)
<1>1. Len(rows) \in Nat
  OBVIOUS
<1>2. \A r \in 1..Len(rows) : rows[r].consumed => rows[r].consumed
  OBVIOUS
<1>3. QED
  BY <1>1 DEF RowsStep

Cmd == [row : Nat, verb : AllVerbs, phase : Phases]
CmdRows == {r \in DOMAIN rows : rows[r].cmd}

LEMMA WiderStep ==
    ASSUME NEW S, NEW T, S \subseteq T, RowsStep(S)
    PROVE  RowsStep(T)
BY DEF RowsStep

\* A command's row stays a command's row, whatever happens to the table.
LEMMA CommandRowsKept ==
    ASSUME rows \in Seq(Row), CommandRows, NEW S, RowsStep(S),
           \A c \in cmds' : \E d \in cmds : c.row = d.row
    PROVE  CommandRows'
<1>1. Len(rows) \in Nat /\ DOMAIN rows = 1..Len(rows)
  OBVIOUS
<1>2. Len(rows') \in Nat /\ DOMAIN rows' = 1..Len(rows')
  BY DEF RowsStep
<1>3. ASSUME NEW c \in cmds'
      PROVE  c.row \in DOMAIN rows' /\ rows'[c.row].cmd
  <2>1. PICK d \in cmds : c.row = d.row
    BY <1>3
  <2>2. d.row \in 1..Len(rows) /\ rows[d.row].cmd
    BY <1>1 DEF CommandRows
  <2>3. QED
    BY <1>1, <1>2, <2>1, <2>2 DEF RowsStep
<1>4. QED
  BY <1>3 DEF CommandRows

LEMMA MovesKeepsRows ==
    ASSUME cmds \in SUBSET Cmd, NEW c \in cmds, NEW phase \in Phases, Moves(c, phase)
    PROVE  cmds' \in SUBSET Cmd /\ \A e \in cmds' : \E d \in cmds : e.row = d.row
<1> DEFINE o == [c EXCEPT !.phase = phase]
<1>1. o \in Cmd /\ o.row = c.row
  BY DEF Cmd
<1>2. cmds' = (cmds \ {c}) \cup {o}
  BY DEF Moves
<1> HIDE DEF o
<1>3. QED
  BY <1>1, <1>2

-----------------------------------------------------------------------------
(* The intake. *)

\* webhook.py, runtime.py and the commands only ever add rows, rewrite
\* unconsumed ones and consume commands' own.
LEMMA IntakeStep ==
    ASSUME BufferAssumption, BufferTypeOK, CommandRows, Intake
    PROVE  BufferTypeOK' /\ CommandRows' /\ RowsStep(CmdRows)
<1>1. rows \in Seq(Row) /\ Len(rows) \in Nat /\ DOMAIN rows = 1..Len(rows)
  BY DEF BufferTypeOK
<1>2. OldAge \in Nat /\ MaxEdits \in Nat /\ MaxCommands \in Nat
  BY DEF BufferAssumption
<1>3. MessageIds \subseteq Nat
  BY <1>1 DEF MessageIds
<1>4. cmds \in SUBSET Cmd
  BY DEF BufferTypeOK, Cmd
<1> USE <1>1, <1>2
<1>5. CASE Deliver
  <2>1. PICK i \in MessageIds, ty \in Lively : Insert(i, ty, FALSE)
    BY <1>5 DEF Deliver
  <2>2. ty \in Types
    BY DEF BufferAssumption, Types, Ingested
  <2>3. RowsStep({})
    BY <1>3, <2>1, <2>2, InsertStep
  <2>4. UNCHANGED <<kind, cmds, backfill, edits, commands>>
    BY <1>5 DEF Deliver
  <2>5. CommandRows'
    BY <2>3, <2>4, CommandRowsKept
  <2>6. QED
    BY <2>3, <2>4, <2>5, WiderStep DEF BufferTypeOK, RowsStep
<1>6. ASSUME NEW ty \in Types, Rewrite(ty)
      PROVE  BufferTypeOK' /\ CommandRows' /\ RowsStep(CmdRows)
  <2>1. UNCHANGED <<kind, cmds, backfill, commands>> /\ edits < MaxEdits /\ edits' = edits + 1
    BY <1>6 DEF Rewrite
  <2>2. PICK i \in MessageIds :
          \/ Insert(i, ty, FALSE)
          \/ \E r \in DOMAIN rows :
              /\ rows[r].id = i
              /\ rows' = IF rows[r].consumed THEN rows
                         ELSE [rows EXCEPT ![r] = Rewritten(rows[r], ty)]
    BY <1>6 DEF Rewrite
  <2>3. ASSUME Insert(i, ty, FALSE)
        PROVE  RowsStep({})
    <3>1. i \in Nat
      BY <1>3
    <3>2. QED
      BY <2>3, <3>1, InsertStep
  <2>4. ASSUME NEW r \in DOMAIN rows, ~rows[r].consumed,
               rows' = [rows EXCEPT ![r] = Rewritten(rows[r], ty)]
        PROVE  RowsStep({})
    <3> DEFINE o == Rewritten(rows[r], ty)
    <3>1. rows[r] \in Row
      BY <1>1
    <3>2. o \in Row /\ o.cmd = rows[r].cmd /\ o.consumed = rows[r].consumed
      <4>1. rows[r].version + 1 \in Nat /\ 0 \in 0..OldAge
        BY <3>1 DEF Row
      <4>2. QED
        BY <3>1, <4>1 DEF Row, Rewritten
    <3>3. rows' = [rows EXCEPT ![r] = o]
      BY <2>4
    <3> HIDE DEF o
    <3>4. rows' \in Seq(Row) /\ Len(rows') = Len(rows)
      BY <3>2, <3>3
    <3>5. \A q \in 1..Len(rows) : rows'[q] = IF q = r THEN o ELSE rows[q]
      BY <3>3
    <3>6. QED
      BY <2>4, <3>2, <3>4, <3>5 DEF RowsStep
  <2>5. RowsStep({})
    <3>1. ASSUME UNCHANGED rows PROVE RowsStep({})
      BY <3>1, NothingStep
    <3>2. QED
      BY <2>2, <2>3, <2>4, <3>1
  <2>6. CommandRows'
    BY <2>1, <2>5, CommandRowsKept
  <2>7. edits' \in 0..MaxEdits
    BY <2>1 DEF BufferTypeOK
  <2>8. QED
    BY <2>1, <2>5, <2>6, <2>7, WiderStep DEF BufferTypeOK, RowsStep
<1>7. CASE Edit \/ Revoke
  BY <1>6, <1>7 DEF Edit, Revoke, Types, Ingested
<1>8. CASE Tick
  <2> DEFINE o(r) == [rows[r] EXCEPT !.age = IF @ < OldAge THEN @ + 1 ELSE @]
  <2>1. rows' = [r \in 1..Len(rows) |-> o(r)] /\ UNCHANGED <<kind, cmds, backfill, edits, commands>>
    BY <1>8 DEF Tick
  <2>2. ASSUME NEW r \in 1..Len(rows)
        PROVE  /\ o(r) \in Row /\ o(r).cmd = rows[r].cmd
               /\ o(r).consumed = rows[r].consumed /\ o(r).type = rows[r].type
    <3>1. rows[r] \in Row
      BY <1>1
    <3>2. (IF rows[r].age < OldAge THEN rows[r].age + 1 ELSE rows[r].age) \in 0..OldAge
      BY <3>1 DEF Row
    <3>3. QED
      BY <3>1, <3>2 DEF Row
  <2> HIDE DEF o
  <2>3. rows' \in Seq(Row) /\ Len(rows') = Len(rows) /\ \A r \in 1..Len(rows) : rows'[r] = o(r)
    BY <2>1, <2>2
  <2>4. RowsStep({})
    BY <2>2, <2>3 DEF RowsStep
  <2>5. CommandRows'
    BY <2>1, <2>4, CommandRowsKept
  <2>6. QED
    BY <2>1, <2>4, <2>5, WiderStep DEF BufferTypeOK, RowsStep
<1>9. CASE Command
  <2>1. PICK i \in MessageIds, v \in Verbs :
          /\ Insert(i, "message", TRUE)
          /\ cmds' = cmds \cup {[row |-> Len(rows) + 1, verb |-> v, phase |-> "started"]}
    BY <1>9 DEF Command
  <2>2. /\ UNCHANGED <<kind, backfill, edits>>
        /\ commands < MaxCommands /\ commands' = commands + 1
    BY <1>9 DEF Command
  <2>3. RowsStep({}) /\ Len(rows') = Len(rows) + 1 /\ rows'[Len(rows) + 1].cmd
    BY <1>3, <2>1, InsertStep DEF Types, Ingested
  <2> DEFINE n == [row |-> Len(rows) + 1, verb |-> v, phase |-> "started"]
  <2>4. n \in Cmd /\ n.row = Len(rows) + 1
    BY DEF Cmd, Phases, BufferAssumption
  <2>5. cmds' = cmds \cup {n}
    BY <2>1
  <2> HIDE DEF n
  <2>6. ASSUME NEW c \in cmds'
        PROVE  c.row \in DOMAIN rows' /\ rows'[c.row].cmd
    <3>1. DOMAIN rows' = 1..(Len(rows) + 1)
      BY <2>3 DEF RowsStep
    <3>2. CASE c = n
      BY <2>3, <2>4, <3>1, <3>2
    <3>3. CASE c \in cmds
      BY <3>1, <3>3, <2>3 DEF CommandRows, RowsStep
    <3>4. QED
      BY <2>5, <3>2, <3>3
  <2>7. CommandRows'
    BY <2>6 DEF CommandRows
  <2>8. cmds' \in SUBSET Cmd
    BY <1>4, <2>4, <2>5
  <2>9. commands' \in 0..MaxCommands
    BY <2>2 DEF BufferTypeOK
  <2>10. QED
    BY <2>2, <2>3, <2>7, <2>8, <2>9, WiderStep DEF BufferTypeOK, RowsStep, Cmd
<1>10. ASSUME NEW c \in cmds, SetUp(c) \/ ImportEnds(c) \/ Unwatch(c)
       PROVE  BufferTypeOK' /\ CommandRows' /\ RowsStep(CmdRows)
  <2>1. UNCHANGED <<rows, edits, commands>>
    BY <1>10 DEF SetUp, ImportEnds, Unwatch
  <2>2. PICK ph \in Phases : Moves(c, ph)
    BY <1>10 DEF SetUp, ImportEnds, Unwatch, Phases
  <2>3. cmds' \in SUBSET Cmd /\ \A e \in cmds' : \E d \in cmds : e.row = d.row
    BY <1>4, <2>2, MovesKeepsRows
  <2>4. RowsStep(CmdRows)
    BY <2>1, NothingStep
  <2>5. CommandRows'
    BY <2>3, <2>4, CommandRowsKept
  <2>6. kind' \in Kinds /\ backfill' \in BOOLEAN
    BY <1>10 DEF SetUp, ImportEnds, Unwatch, BufferTypeOK, Kinds
  <2>7. QED
    BY <2>1, <2>3, <2>4, <2>5, <2>6 DEF BufferTypeOK, Cmd
<1>11. ASSUME NEW c \in cmds, ImportMessage(c)
       PROVE  BufferTypeOK' /\ CommandRows' /\ RowsStep(CmdRows)
  <2>1. PICK i \in MessageIds : Insert(i, "backfill", FALSE)
    BY <1>11 DEF ImportMessage
  <2>2. RowsStep({})
    BY <1>3, <2>1, InsertStep DEF Types, Ingested
  <2>3. UNCHANGED <<kind, cmds, backfill, edits, commands>>
    BY <1>11 DEF ImportMessage
  <2>4. CommandRows'
    BY <2>2, <2>3, CommandRowsKept
  <2>5. QED
    BY <2>2, <2>3, <2>4, WiderStep DEF BufferTypeOK, RowsStep
<1>12. ASSUME NEW c \in cmds, CommandDone(c)
       PROVE  BufferTypeOK' /\ CommandRows' /\ RowsStep(CmdRows)
  <2>1. rows' = Consuming({c.row}) /\ cmds' = cmds \ {c} /\ UNCHANGED <<kind, backfill, edits, commands>>
    BY <1>12 DEF CommandDone
  <2>2. RowsStep({c.row})
    BY <2>1, ConsumingStep
  <2>3. {c.row} \subseteq CmdRows
    BY DEF CommandRows, CmdRows
  <2>4. RowsStep(CmdRows)
    BY <2>2, <2>3, WiderStep
  <2>5. CommandRows'
    BY <2>1, <2>4, CommandRowsKept
  <2>6. QED
    BY <2>1, <2>4, <2>5 DEF BufferTypeOK, RowsStep
<1>13. QED
  BY <1>5, <1>7, <1>8, <1>9, <1>10, <1>11, <1>12 DEF Intake

-----------------------------------------------------------------------------
(* The parts of the type, and what a step leaves of them. *)

RunTypeOK ==
    /\ at \in Busy \cup {"idle"} /\ mode \in {"tick", "backfill", "demand"}
    /\ drained \in 0..MaxDrain
    /\ batch \in SUBSET DOMAIN rows
    /\ text \in [batch -> Nat] /\ plan \in [batch -> Places]
    /\ written \in SUBSET Threads

PageTypeOK ==
    /\ DOMAIN page = Threads
    /\ \A t \in Threads : \A k \in 1..Len(page[t]) :
          DOMAIN page[t][k] \subseteq DOMAIN rows /\ \A r \in DOMAIN page[t][k] : page[t][k][r] \in Nat

RestTypeOK ==
    /\ stale \in SUBSET Threads /\ ended \in SUBSET Threads
    /\ dropped \in SUBSET DOMAIN rows /\ missed \in SUBSET DOMAIN rows
    /\ cursor \in 0..Len(rows) /\ torn \in SUBSET DOMAIN rows
    /\ touches \in 0..MaxTouches /\ faults \in 0..MaxFaults /\ crashes \in 0..MaxCrashes

LEMMA TypeParts ==
    IngestionTypeOK <=> BufferTypeOK /\ RunTypeOK /\ PageTypeOK /\ RestTypeOK
BY DEF IngestionTypeOK, RunTypeOK, PageTypeOK, RestTypeOK

LEMMA TypePartsNext ==
    IngestionTypeOK' <=> BufferTypeOK' /\ RunTypeOK' /\ PageTypeOK' /\ RestTypeOK'
BY DEF IngestionTypeOK, RunTypeOK, PageTypeOK, RestTypeOK

LEMMA RowsGrow ==
    ASSUME rows \in Seq(Row), NEW S, RowsStep(S)
    PROVE  /\ Len(rows) \in Nat /\ Len(rows') \in Nat /\ Len(rows) <= Len(rows')
           /\ DOMAIN rows = 1..Len(rows) /\ DOMAIN rows' = 1..Len(rows')
           /\ DOMAIN rows \subseteq DOMAIN rows'
<1>1. rows' \in Seq(Row) /\ Len(rows) <= Len(rows')
  BY DEF RowsStep
<1>2. Len(rows) \in Nat /\ Len(rows') \in Nat /\ DOMAIN rows = 1..Len(rows) /\ DOMAIN rows' = 1..Len(rows')
  BY <1>1
<1>3. QED
  BY <1>1, <1>2

\* What is on a page stays where it is.
PageGrows ==
    \A t \in Threads : \A k \in DOMAIN page[t] :
        k \in DOMAIN page'[t] /\ page'[t][k] = page[t][k]

LEMMA PageKept ==
    ASSUME rows \in Seq(Row), NEW S, RowsStep(S), PageTypeOK, PageOK, page' = page
    PROVE  PageTypeOK' /\ PageOK' /\ PageGrows
<1>1. DOMAIN rows \subseteq DOMAIN rows'
  BY RowsGrow
<1>2. PageTypeOK'
  BY <1>1 DEF PageTypeOK
<1>3. QED
  BY <1>2 DEF PageOK, PageGrows

LEMMA PageAppended ==
    ASSUME PageTypeOK, PageOK, rows' = rows, NEW t \in Threads,
           batch \in SUBSET DOMAIN rows, rows \in Seq(Row), text \in [batch -> Nat],
           page' = Appended(t)
    PROVE  /\ PageTypeOK' /\ PageOK' /\ PageGrows
           /\ DOMAIN page'[t][Len(page'[t])] = Bucket(t)
           /\ Len(page'[t]) \in DOMAIN page'[t]
           /\ \A u \in Threads : u # t => page'[u] = page[u]
<1> DEFINE b == [r \in Bucket(t) |-> text[r]]
<1>1. page \in [Threads -> Seq(Bundles)] /\ page[t] \in Seq(Bundles)
  BY DEF PageOK
<1>2. Bucket(t) \subseteq batch /\ batch \subseteq Nat
  <2>1. DOMAIN rows = 1..Len(rows) /\ Len(rows) \in Nat
    OBVIOUS
  <2>2. QED
    BY <2>1 DEF Bucket
<1>3. b \in [Bucket(t) -> Nat] /\ DOMAIN b = Bucket(t)
  BY <1>2
<1>4. b \in Bundles
  BY <1>2, <1>3 DEF Bundles
<1>5. page' = [page EXCEPT ![t] = Append(page[t], b)]
  BY DEF Appended
<1> HIDE DEF b
<1>6. /\ Append(page[t], b) \in Seq(Bundles)
      /\ Len(Append(page[t], b)) = Len(page[t]) + 1 /\ Len(page[t]) \in Nat
      /\ Append(page[t], b)[Len(page[t]) + 1] = b
      /\ \A k \in 1..Len(page[t]) : Append(page[t], b)[k] = page[t][k]
      /\ DOMAIN page[t] = 1..Len(page[t])
      /\ DOMAIN Append(page[t], b) = 1..(Len(page[t]) + 1)
  BY <1>1, <1>4
<1>7. page'[t] = Append(page[t], b) /\ \A u \in Threads : u # t => page'[u] = page[u]
  BY <1>1, <1>5
<1>8. PageOK'
  BY <1>1, <1>5, <1>6 DEF PageOK
<1>9. PageGrows
  <2>1. ASSUME NEW u \in Threads, NEW k \in DOMAIN page[u]
        PROVE  k \in DOMAIN page'[u] /\ page'[u][k] = page[u][k]
    <3>1. CASE u # t
      BY <1>7, <3>1
    <3>2. CASE u = t
      <4>1. k \in 1..Len(page[t]) /\ k \in 1..(Len(page[t]) + 1)
        BY <1>6, <3>2
      <4>2. QED
        BY <1>6, <1>7, <3>2, <4>1
    <3>3. QED
      BY <3>1, <3>2
  <2>2. QED
    BY <2>1 DEF PageGrows
<1>10. ASSUME NEW u \in Threads, NEW k \in 1..Len(page'[u])
       PROVE  DOMAIN page'[u][k] \subseteq DOMAIN rows' /\ \A r \in DOMAIN page'[u][k] : page'[u][k][r] \in Nat
  <2>1. CASE u # t
    <3>1. page'[u] = page[u] /\ rows' = rows
      BY <1>7, <2>1
    <3>2. k \in 1..Len(page[u])
      BY <3>1
    <3>3. DOMAIN page[u][k] \subseteq DOMAIN rows /\ \A r \in DOMAIN page[u][k] : page[u][k][r] \in Nat
      BY <3>2 DEF PageTypeOK
    <3>4. QED
      BY <3>1, <3>3
  <2>2. CASE u = t /\ k \in 1..Len(page[t])
    <3>1. page'[u][k] = page[t][k]
      BY <1>6, <1>7, <2>2
    <3>2. DOMAIN page[t][k] \subseteq DOMAIN rows /\ \A r \in DOMAIN page[t][k] : page[t][k][r] \in Nat
      BY <2>2 DEF PageTypeOK
    <3>3. QED
      BY <3>1, <3>2
  <2>3. CASE u = t /\ k = Len(page[t]) + 1
    <3>1. page'[u][k] = b
      BY <1>6, <1>7, <2>3
    <3>2. QED
      BY <1>2, <1>3, <3>1
  <2>4. u = t => k \in 1..(Len(page[t]) + 1)
    BY <1>6, <1>7
  <2>5. QED
    BY <1>6, <2>1, <2>2, <2>3, <2>4
<1>11. DOMAIN page' = Threads
  BY <1>1, <1>5
<1>12. PageTypeOK'
  BY <1>10, <1>11 DEF PageTypeOK
<1>13. QED
  BY <1>3, <1>6, <1>7, <1>8, <1>9, <1>12

\* The two invariants about consumed rows need to be looked at only where a
\* step consumes rows or moves the cursor.
LEMMA ConsumedKept ==
    ASSUME rows \in Seq(Row), NEW S, RowsStep(S), ConsumedWasRead, PageGrows,
           dropped \subseteq dropped', missed \subseteq missed',
           \A r \in S : r \in DOMAIN rows =>
                \/ rows[r].type \notin Ingested \/ rows[r].cmd \/ r \in dropped' \/ r \in missed'
                \/ \E t \in Threads : \E k \in DOMAIN page'[t] : r \in DOMAIN page'[t][k]
    PROVE  ConsumedWasRead'
<1>1. /\ Len(rows) \in Nat /\ Len(rows') \in Nat
      /\ DOMAIN rows = 1..Len(rows) /\ DOMAIN rows' = 1..Len(rows')
  BY RowsGrow
<1>2. ASSUME NEW r \in DOMAIN rows', rows'[r].consumed
      PROVE  \/ rows'[r].type \notin Ingested \/ rows'[r].cmd \/ r \in dropped' \/ r \in missed'
             \/ \E t \in Threads : \E k \in DOMAIN page'[t] : r \in DOMAIN page'[t][k]
  <2>1. r \in 1..Len(rows)
    BY <1>1, <1>2 DEF RowsStep
  <2>2. rows'[r].cmd = rows[r].cmd
    BY <2>1 DEF RowsStep
  <2>3. CASE rows[r].consumed
    <3>1. rows'[r].type = rows[r].type
      BY <2>1, <2>3 DEF RowsStep
    <3>2. \/ rows[r].type \notin Ingested \/ rows[r].cmd \/ r \in dropped \/ r \in missed
          \/ \E t \in Threads : \E k \in DOMAIN page[t] : r \in DOMAIN page[t][k]
      BY <1>1, <2>1, <2>3 DEF ConsumedWasRead, OnPage
    <3>3. QED
      BY <2>2, <3>1, <3>2 DEF PageGrows
  <2>4. CASE ~rows[r].consumed
    <3>1. r \in S /\ rows'[r].type = rows[r].type
      BY <1>2, <2>1, <2>4 DEF RowsStep
    <3>2. QED
      BY <1>1, <2>1, <2>2, <3>1
  <2>5. QED
    BY <2>3, <2>4
<1>3. QED
  BY <1>2 DEF ConsumedWasRead, OnPage

LEMMA CursorKept ==
    ASSUME rows \in Seq(Row), NEW S, RowsStep(S), CursorIsConsumed,
           cursor \in 0..Len(rows), cursor' = cursor
    PROVE  CursorIsConsumed' /\ cursor' \in 0..Len(rows')
<1>1. /\ Len(rows) \in Nat /\ Len(rows') \in Nat /\ Len(rows) <= Len(rows')
      /\ DOMAIN rows = 1..Len(rows) /\ DOMAIN rows' = 1..Len(rows')
  BY RowsGrow
<1>2. \A r \in 1..Len(rows') : r <= cursor => r \in 1..Len(rows)
  BY <1>1
<1>3. QED
  BY <1>1, <1>2 DEF CursorIsConsumed, RowsStep

-----------------------------------------------------------------------------
(* Steps beside a run, and steps after which there is no batch. *)

LEMMA BesideRun ==
    ASSUME Inductive, NEW S, RowsStep(S), BufferTypeOK', CommandRows',
           \A r \in S : r \in DOMAIN rows =>
                rows[r].cmd \/ (at = "idle" /\ rows[r].type \notin Ingested),
           UNCHANGED <<runVars, wikiVars, trailVars, bounds>>
    PROVE  Inductive'
<1>1. rows \in Seq(Row) /\ RunTypeOK /\ PageTypeOK /\ RestTypeOK
  BY TypeParts DEF Inductive, BufferTypeOK
<1>2. /\ Len(rows) \in Nat /\ Len(rows') \in Nat /\ Len(rows) <= Len(rows')
      /\ DOMAIN rows = 1..Len(rows) /\ DOMAIN rows' = 1..Len(rows')
      /\ DOMAIN rows \subseteq DOMAIN rows'
  BY <1>1, RowsGrow
<1>3. /\ at' = at /\ mode' = mode /\ drained' = drained /\ batch' = batch /\ text' = text
      /\ plan' = plan /\ written' = written /\ page' = page /\ stale' = stale /\ ended' = ended
      /\ dropped' = dropped /\ missed' = missed /\ cursor' = cursor /\ torn' = torn
      /\ touches' = touches /\ faults' = faults /\ crashes' = crashes
  BY DEF runVars, wikiVars, trailVars, bounds
<1>4. PageTypeOK' /\ PageOK' /\ PageGrows
  BY <1>1, <1>3, PageKept DEF Inductive
<1>5. CursorIsConsumed' /\ cursor' \in 0..Len(rows')
  BY <1>1, <1>3, CursorKept DEF Inductive, RestTypeOK
<1>6. RunTypeOK'
  BY <1>1, <1>2, <1>3 DEF RunTypeOK
<1>7. RestTypeOK'
  BY <1>1, <1>2, <1>3, <1>5 DEF RestTypeOK
<1>8. IngestionTypeOK'
  BY <1>4, <1>6, <1>7, TypePartsNext
<1>9. ConsumedWasRead'
  BY <1>1, <1>3, <1>4, ConsumedKept DEF Inductive
<1>10. batch \subseteq 1..Len(rows)
  BY <1>1, <1>2 DEF RunTypeOK
<1>11. Oldest'
  <2>1. ASSUME HasBatch, NEW r \in batch, NEW q \in 1..Len(rows'), q < r, q \notin batch
        PROVE  rows'[q].consumed
    <3>1. q \in 1..Len(rows)
      BY <1>2, <1>10, <2>1
    <3>2. rows[q].consumed
      BY <1>2, <2>1, <3>1 DEF Inductive, Oldest
    <3>3. QED
      BY <3>1, <3>2 DEF RowsStep
  <2>2. HasBatch => \A r \in batch : cursor < r
    BY DEF Inductive, Oldest
  <2>3. QED
    BY <1>2, <1>3, <2>1, <2>2 DEF Oldest, HasBatch
<1>12. BatchPending'
  <2>1. ASSUME at \in {"loading", "writing", "consuming"}, NEW r \in batch, rows'[r].consumed
        PROVE  rows'[r].cmd
    <3>1. r \in 1..Len(rows) /\ rows'[r].cmd = rows[r].cmd
      BY <1>10 DEF RowsStep
    <3>2. CASE rows[r].consumed
      BY <2>1, <3>1, <3>2 DEF Inductive, BatchPending
    <3>3. CASE ~rows[r].consumed
      BY <1>2, <2>1, <3>1, <3>3 DEF RowsStep
    <3>4. QED
      BY <3>2, <3>3
  <2>2. QED
    BY <1>3, <2>1 DEF BatchPending
<1>13. BatchConsumed'
  BY <1>3, <1>10 DEF Inductive, BatchConsumed, RowsStep
<1>14. DrainOK' /\ Undecided' /\ EndedIsStale'
  BY <1>3 DEF Inductive, DrainOK, HasBatch, Undecided, EndedIsStale
<1>15. Kept'
  BY <1>3 DEF Inductive, Kept, Bucket, OnPage
<1>16. QED
  BY <1>4, <1>5, <1>8, <1>9, <1>11, <1>12, <1>13, <1>14, <1>15 DEF Inductive

\* Only rows that are there are ever torn.
LEMMA CutOffIs ==
    ASSUME Inductive, UNCHANGED rows, NEW rs, CutOff(rs), rs \subseteq batch
    PROVE  UNCHANGED <<dropped, missed, cursor>> /\ torn' \in SUBSET DOMAIN rows'
<1>1. torn \in SUBSET DOMAIN rows /\ batch \in SUBSET DOMAIN rows
  BY TypeParts DEF Inductive, RestTypeOK, RunTypeOK
<1>2. QED
  BY <1>1 DEF CutOff

LEMMA HalfIsBatch == HalfWritten \subseteq batch /\ \A t : Bucket(t) \subseteq batch
BY DEF HalfWritten, Bucket

LEMMA Between ==
    ASSUME Inductive, NEW S, RowsStep(S), BufferTypeOK', CommandRows',
           \A r \in S : r \in DOMAIN rows => rows[r].cmd \/ rows[r].type \notin Ingested,
           at' \in {"idle", "cutting"}, RunTypeOK',
           PageTypeOK', PageOK', PageGrows,
           stale' \in SUBSET Threads, ended' \in SUBSET Threads,
           UNCHANGED <<dropped, missed, cursor>>, torn' \in SUBSET DOMAIN rows',
           touches' \in 0..MaxTouches, faults' \in 0..MaxFaults, crashes' \in 0..MaxCrashes
    PROVE  Inductive'
<1>1. rows \in Seq(Row) /\ RestTypeOK
  BY TypeParts DEF Inductive, BufferTypeOK
<1>2. DOMAIN rows \subseteq DOMAIN rows'
  BY <1>1, RowsGrow
<1>3. dropped' = dropped /\ missed' = missed /\ cursor' = cursor
  OBVIOUS
<1>4. CursorIsConsumed' /\ cursor' \in 0..Len(rows')
  BY <1>1, <1>3, CursorKept DEF Inductive, RestTypeOK
<1>5. ConsumedWasRead'
  BY <1>1, <1>3, ConsumedKept DEF Inductive
<1>6. RestTypeOK'
  BY <1>1, <1>2, <1>3, <1>4 DEF RestTypeOK
<1>7. IngestionTypeOK'
  BY <1>6, TypePartsNext
<1>8. DrainOK' /\ Oldest' /\ BatchPending' /\ BatchConsumed' /\ Undecided' /\ Kept' /\ EndedIsStale'
  BY DEF DrainOK, HasBatch, Oldest, BatchPending, BatchConsumed, Undecided, Kept, EndedIsStale
<1>9. QED
  BY <1>4, <1>5, <1>7, <1>8 DEF Inductive

LEMMA NoBatchRun ==
    ASSUME NoBatch, at' \in {"idle", "cutting"}, mode' \in {"tick", "backfill", "demand"},
           drained' \in 0..MaxDrain
    PROVE  RunTypeOK'
<1>1. batch' = {} /\ text' = [r \in {} |-> 0] /\ plan' = [r \in {} |-> Chatter] /\ written' = {}
  BY DEF NoBatch
<1>2. text' \in [{} -> Nat] /\ plan' \in [{} -> Places]
  BY <1>1
<1>3. QED
  BY <1>1, <1>2 DEF RunTypeOK, Busy

LEMMA OverKeepsRows ==
    ASSUME cmds \in SUBSET Cmd,
           cmds' = {IF c.phase = "serving" THEN [c EXCEPT !.phase = "served"] ELSE c : c \in cmds}
    PROVE  cmds' \in SUBSET Cmd /\ \A e \in cmds' : \E d \in cmds : e.row = d.row
<1> DEFINE o(c) == IF c.phase = "serving" THEN [c EXCEPT !.phase = "served"] ELSE c
<1>1. ASSUME NEW c \in cmds
      PROVE  o(c) \in Cmd /\ o(c).row = c.row
  BY DEF Cmd, Phases
<1>2. cmds' = {o(c) : c \in cmds}
  OBVIOUS
<1> HIDE DEF o
<1>3. QED
  BY <1>1, <1>2

\* A run that ends, well or not, between two batches or in one.
LEMMA OverStep ==
    ASSUME Inductive, NEW S, RowsStep(S), Over,
           \A r \in S : r \in DOMAIN rows => rows[r].cmd \/ rows[r].type \notin Ingested,
           backfill' \in BOOLEAN, UNCHANGED <<kind, edits, commands, ended, dropped, missed, cursor>>,
           torn' \in SUBSET DOMAIN rows',
           PageTypeOK', PageOK', PageGrows,
           touches' \in 0..MaxTouches, faults' \in 0..MaxFaults, crashes' \in 0..MaxCrashes
    PROVE  Inductive'
<1>1. /\ at' = "idle" /\ mode' = "tick" /\ drained' = 0 /\ stale' = {}
      /\ NoBatch
      /\ cmds' = {IF c.phase = "serving" THEN [c EXCEPT !.phase = "served"] ELSE c : c \in cmds}
  BY DEF Over
<1>2. rows \in Seq(Row) /\ cmds \in SUBSET Cmd /\ RestTypeOK /\ BufferTypeOK
  BY TypeParts DEF Inductive, BufferTypeOK, Cmd
<1>3. cmds' \in SUBSET Cmd /\ CommandRows'
  BY <1>1, <1>2, OverKeepsRows, CommandRowsKept DEF Inductive
<1>4. BufferTypeOK'
  BY <1>2, <1>3 DEF BufferTypeOK, RowsStep, Cmd
<1>5. RunTypeOK'
  BY <1>1, NoBatchRun, IngestionAssumption
<1>6. ended' \in SUBSET Threads
  BY <1>2 DEF RestTypeOK
<1>7. at' \in {"idle", "cutting"} /\ stale' \in SUBSET Threads
  BY <1>1
<1>8. QED
  BY <1>3, <1>4, <1>5, <1>6, <1>7, Between

-----------------------------------------------------------------------------
(* Init, and the steps outside a batch. *)

LEMMA InitOK == Init => Inductive
<1> SUFFICES ASSUME Init PROVE Inductive
  OBVIOUS
<1>1. /\ rows = <<>> /\ kind \in Kinds /\ cmds = {} /\ backfill = FALSE /\ edits = 0 /\ commands = 0
      /\ at = "idle" /\ mode = "tick" /\ drained = 0 /\ written = {}
      /\ batch = {} /\ text = [r \in {} |-> 0] /\ plan = [r \in {} |-> Chatter]
      /\ page = [t \in Threads |-> <<>>] /\ stale = {} /\ ended = {}
      /\ dropped = {} /\ missed = {} /\ cursor = 0 /\ torn = {} /\ touches = 0 /\ faults = 0 /\ crashes = 0
  BY DEF Init, BufferInit, EmptyBatch
<1>2. rows \in Seq(Row) /\ Len(rows) = 0 /\ DOMAIN rows = {}
  BY <1>1
<1>3. BufferTypeOK
  <2>1. edits \in 0..MaxEdits /\ commands \in 0..MaxCommands
    BY <1>1, BufferAssumption DEF BufferAssumption
  <2>2. cmds \in SUBSET [row : Nat, verb : AllVerbs, phase : Phases]
    BY <1>1
  <2>3. QED
    BY <1>1, <1>2, <2>1, <2>2 DEF BufferTypeOK
<1>4. RunTypeOK
  <2>1. text \in [{} -> Nat] /\ plan \in [{} -> Places]
    BY <1>1
  <2>2. QED
    BY <1>1, <2>1, IngestionAssumption DEF RunTypeOK
<1>5. PageTypeOK /\ PageOK
  <2>1. \A t \in Threads : page[t] = <<>> /\ Len(page[t]) = 0
    BY <1>1
  <2>2. QED
    BY <1>1, <2>1 DEF PageTypeOK, PageOK
<1>6. RestTypeOK
  BY <1>1, <1>2, IngestionAssumption DEF RestTypeOK
<1>7. QED
  BY <1>1, <1>2, <1>3, <1>4, <1>5, <1>6, TypeParts
     DEF Inductive, DrainOK, HasBatch, CommandRows, Oldest, BatchPending, BatchConsumed,
         Undecided, Kept, EndedIsStale, ConsumedWasRead, CursorIsConsumed

LEMMA OutsideOK == ASSUME Inductive, Outside PROVE Inductive'
<1>1. BufferTypeOK /\ CommandRows /\ Intake /\ UNCHANGED <<runVars, wikiVars, trailVars, bounds>>
  BY TypeParts DEF Inductive, Outside
<1>2. BufferTypeOK' /\ CommandRows' /\ RowsStep(CmdRows)
  BY <1>1, IntakeStep, BufferAssumption
<1>3. QED
  BY <1>1, <1>2, BesideRun DEF CmdRows

\* What pending_messages consumes on sight is never of an ingested type.
LEMMA OnSight ==
    ASSUME rows \in Seq(Row), rows' = Consuming(Pending \ Ingestible)
    PROVE  /\ RowsStep(Pending \ Ingestible)
           /\ \A r \in Pending \ Ingestible : rows[r].type \notin Ingested
BY ConsumingStep DEF Ingestible

\* A run that starts: the caller's step of the table, and an empty-handed run.
LEMMA EnterOK ==
    ASSUME Inductive, NEW S, RowsStep(S), BufferTypeOK', CommandRows',
           \A r \in S : r \in DOMAIN rows => rows[r].cmd \/ rows[r].type \notin Ingested,
           NEW m \in {"tick", "backfill", "demand"}, Enter(m)
    PROVE  Inductive'
<1>1. rows \in Seq(Row) /\ RunTypeOK /\ PageTypeOK /\ PageOK /\ RestTypeOK
  BY TypeParts DEF Inductive, BufferTypeOK
<1>2. /\ at' = "cutting" /\ mode' = m /\ drained' = 0
      /\ UNCHANGED <<batch, text, plan, written, page, stale, ended, trailVars, touches, faults, crashes>>
  BY DEF Enter, wikiVars, bounds
<1>3. DOMAIN rows \subseteq DOMAIN rows'
  BY <1>1, RowsGrow
<1>4. PageTypeOK' /\ PageOK' /\ PageGrows
  BY <1>1, <1>2, PageKept
<1>5. RunTypeOK'
  BY <1>1, <1>2, <1>3, IngestionAssumption DEF RunTypeOK, Busy
<1>6. /\ stale' \in SUBSET Threads /\ ended' \in SUBSET Threads
      /\ touches' \in 0..MaxTouches /\ faults' \in 0..MaxFaults /\ crashes' \in 0..MaxCrashes
  BY <1>1, <1>2 DEF RestTypeOK
<1>7. at' \in {"idle", "cutting"} /\ UNCHANGED <<dropped, missed, cursor>> /\ torn' \in SUBSET DOMAIN rows'
  BY <1>1, <1>2, <1>3 DEF trailVars, RestTypeOK
<1>8. QED
  BY <1>4, <1>5, <1>6, <1>7, Between

LEMMA StartsOK ==
    ASSUME Inductive, StartTick \/ StartBackfill \/ StartFromChat \/ \E c \in cmds : StartOnDemand(c)
    PROVE  Inductive'
<1>1. rows \in Seq(Row) /\ BufferTypeOK /\ CommandRows /\ cmds \in SUBSET Cmd
  BY TypeParts DEF Inductive, BufferTypeOK, Cmd
<1>2. CASE StartTick
  <2>1. UNCHANGED bufferVars /\ Enter("tick")
    BY <1>2 DEF StartTick
  <2>2. RowsStep({}) /\ BufferTypeOK' /\ CommandRows'
    BY <1>1, <2>1, NothingStep DEF bufferVars, BufferTypeOK, CommandRows
  <2>3. QED
    BY <2>1, <2>2, EnterOK
<1>3. CASE StartBackfill
  <2>1. CASE Allowlisted
    <3>1. UNCHANGED bufferVars /\ Enter("backfill")
      BY <1>3, <2>1 DEF StartBackfill
    <3>2. RowsStep({}) /\ BufferTypeOK' /\ CommandRows'
      BY <1>1, <3>1, NothingStep DEF bufferVars, BufferTypeOK, CommandRows
    <3>3. QED
      BY <3>1, <3>2, EnterOK
  <2>2. CASE ~Allowlisted
    <3>1. /\ backfill' = FALSE
          /\ UNCHANGED <<rows, kind, cmds, edits, commands, runVars, wikiVars, trailVars, bounds>>
      BY <1>3, <2>2 DEF StartBackfill
    <3>2. RowsStep({}) /\ BufferTypeOK' /\ CommandRows'
      BY <1>1, <3>1, NothingStep DEF BufferTypeOK, CommandRows
    <3>3. QED
      BY <3>1, <3>2, BesideRun
  <2>3. QED
    BY <2>1, <2>2
<1>4. CASE StartFromChat
  <2>1. /\ rows' = Consuming(Pending \ Ingestible) /\ Enter("demand")
        /\ UNCHANGED <<kind, cmds, backfill, edits, commands>>
    BY <1>4 DEF StartFromChat, OnDemand
  <2>2. /\ RowsStep(Pending \ Ingestible)
        /\ \A r \in Pending \ Ingestible : rows[r].type \notin Ingested
    BY <1>1, <2>1, OnSight
  <2>3. CommandRows'
    BY <1>1, <2>1, <2>2, CommandRowsKept
  <2>4. BufferTypeOK'
    BY <1>1, <2>1, <2>2 DEF BufferTypeOK, RowsStep
  <2>5. QED
    BY <2>1, <2>2, <2>3, <2>4, EnterOK
<1>5. ASSUME NEW c \in cmds, StartOnDemand(c)
      PROVE  Inductive'
  <2>1. UNCHANGED <<kind, backfill, edits, commands>>
    BY <1>5 DEF StartOnDemand
  <2>2. \E ph \in Phases : Moves(c, ph)
    BY <1>5 DEF StartOnDemand, Phases
  <2>3. cmds' \in SUBSET Cmd /\ \A e \in cmds' : \E d \in cmds : e.row = d.row
    BY <1>1, <2>2, MovesKeepsRows
  <2>4. CASE Refused
    <3>1. /\ rows' = IF at = "idle" /\ kind \notin {"none", "logs"} THEN Consuming(Pending) ELSE rows
          /\ UNCHANGED <<runVars, wikiVars, trailVars, bounds>>
      BY <1>5, <2>4 DEF StartOnDemand
    <3>2. CASE at = "idle" /\ kind \notin {"none", "logs"}
      <4>1. \A r \in Pending : rows[r].type \notin Ingested
        BY <2>4, <3>2 DEF Refused, Ingestible
      <4>2. RowsStep(Pending)
        BY <1>1, <3>1, <3>2, ConsumingStep
      <4>3. CommandRows'
        BY <1>1, <2>3, <4>2, CommandRowsKept
      <4>4. BufferTypeOK'
        BY <1>1, <2>1, <2>3, <4>2 DEF BufferTypeOK, RowsStep, Cmd
      <4>5. QED
        BY <3>1, <3>2, <4>1, <4>2, <4>3, <4>4, BesideRun
    <3>3. CASE ~(at = "idle" /\ kind \notin {"none", "logs"})
      <4>1. rows' = rows
        BY <3>1, <3>3
      <4>2. RowsStep({})
        BY <1>1, <4>1, NothingStep
      <4>3. CommandRows'
        BY <1>1, <2>3, <4>2, CommandRowsKept
      <4>4. BufferTypeOK'
        BY <1>1, <2>1, <2>3, <4>1 DEF BufferTypeOK, Cmd
      <4>5. QED
        BY <3>1, <4>2, <4>3, <4>4, BesideRun
    <3>4. QED
      BY <3>2, <3>3
  <2>5. CASE ~Refused
    <3>1. rows' = Consuming(Pending \ Ingestible) /\ Enter("demand")
      BY <1>5, <2>5 DEF StartOnDemand, OnDemand
    <3>2. /\ RowsStep(Pending \ Ingestible)
          /\ \A r \in Pending \ Ingestible : rows[r].type \notin Ingested
      BY <1>1, <3>1, OnSight
    <3>3. CommandRows'
      BY <1>1, <2>3, <3>2, CommandRowsKept
    <3>4. BufferTypeOK'
      BY <1>1, <2>1, <2>3, <3>2 DEF BufferTypeOK, RowsStep, Cmd
    <3>5. QED
      BY <3>1, <3>2, <3>3, <3>4, EnterOK
  <2>6. QED
    BY <2>4, <2>5
<1>6. QED
  BY <1>2, <1>3, <1>4, <1>5

-----------------------------------------------------------------------------
(* The steps of a batch. *)

\* FirstN takes no message and leaves an older one behind (_cap).
LEMMA FirstNClosed ==
    ASSUME rows \in Seq(Row), NEW r \in FirstN, NEW q \in Ingestible, q < r
    PROVE  q \in FirstN
<1>1. Ingestible \subseteq 1..Len(rows) /\ Len(rows) \in Nat
  BY DEF Ingestible, Pending
<1>2. IsFiniteSet(1..Len(rows))
  BY <1>1, FS_Interval
<1> DEFINE A == {p \in Ingestible : p < q}
           B == {p \in Ingestible : p < r}
<1>3. r \in Ingestible /\ Cardinality(B) < BatchN
  BY DEF FirstN
<1>4. A \subseteq B /\ B \subseteq 1..Len(rows)
  <2>1. \A p \in Ingestible : p \in Nat
    BY <1>1
  <2>2. q \in Nat /\ r \in Nat
    BY <1>3, <2>1
  <2>3. \A p \in Ingestible : p < q => p < r
    BY <2>1, <2>2
  <2>4. QED
    BY <1>1, <2>3
<1>5. IsFiniteSet(B)
  BY <1>2, <1>4, FS_Subset
<1>6. Cardinality(A) <= Cardinality(B) /\ Cardinality(A) \in Nat /\ Cardinality(B) \in Nat
  BY <1>4, <1>5, FS_Subset, FS_CardinalityType
<1>7. Cardinality(A) < BatchN
  BY <1>3, <1>6, IngestionAssumption DEF IngestionAssumption
<1>8. QED
  BY <1>7 DEF FirstN

LEMMA CutOK == ASSUME Inductive, Cut PROVE Inductive'
<1>1. /\ rows \in Seq(Row) /\ BufferTypeOK /\ RunTypeOK /\ PageTypeOK /\ RestTypeOK
      /\ cmds \in SUBSET Cmd /\ CommandRows /\ PageOK
  BY TypeParts DEF Inductive, BufferTypeOK, Cmd
<1> DEFINE S == IF drained = MaxDrain THEN {} ELSE Pending \ Ingestible
<1>2. /\ at = "cutting"
      /\ rows' = IF drained = MaxDrain THEN rows ELSE Consuming(Pending \ Ingestible)
      /\ UNCHANGED <<kind, edits, commands, page, ended, dropped, missed, cursor, torn, touches, faults, crashes>>
  BY DEF Cut, trailVars, bounds
<1>3. RowsStep(S) /\ \A r \in S : rows[r].type \notin Ingested
  <2>1. CASE drained = MaxDrain
    BY <1>1, <1>2, <2>1, NothingStep
  <2>2. CASE drained # MaxDrain
    BY <1>1, <1>2, <2>2, OnSight
  <2>3. QED
    BY <2>1, <2>2
<1>4. PageTypeOK' /\ PageOK' /\ PageGrows
  BY <1>1, <1>2, <1>3, PageKept
<1>5. CASE NothingToCut
  <2>1. Over /\ backfill' = (backfill /\ mode # "backfill")
    BY <1>5 DEF Cut, Finish
  <2>2. backfill' \in BOOLEAN
    BY <2>1
  <2>3. /\ touches' \in 0..MaxTouches /\ faults' \in 0..MaxFaults /\ crashes' \in 0..MaxCrashes
    BY <1>1, <1>2 DEF RestTypeOK
  <2>4. torn' \in SUBSET DOMAIN rows'
    BY <1>1, <1>2, <1>3, RowsGrow DEF RestTypeOK
  <2>5. QED
    BY <1>2, <1>3, <1>4, <2>1, <2>2, <2>3, <2>4, OverStep
<1>6. CASE ~NothingToCut
  <2>1. /\ at' = "loading" /\ batch' = FirstN
        /\ text' = [r \in FirstN |-> rows[r].version]
        /\ plan' = [r \in FirstN |-> Chatter]
        /\ UNCHANGED <<mode, drained, written, stale, cmds, backfill>>
    BY <1>6 DEF Cut
  <2>2. drained # MaxDrain /\ S = Pending \ Ingestible
    BY <1>6 DEF NothingToCut
  <2>3. FirstN \subseteq Ingestible /\ Ingestible \subseteq Pending /\ Pending \subseteq 1..Len(rows)
        /\ \A r \in Pending : ~rows[r].consumed
    BY <1>1 DEF FirstN, Ingestible, Pending
  <2>4. /\ Len(rows) \in Nat /\ Len(rows') \in Nat /\ Len(rows) <= Len(rows')
        /\ DOMAIN rows = 1..Len(rows) /\ DOMAIN rows' = 1..Len(rows')
        /\ DOMAIN rows \subseteq DOMAIN rows'
    BY <1>1, <1>3, RowsGrow
  <2>5. Len(rows') = Len(rows) /\ \A r \in S : rows'[r].consumed
    BY <1>1, <1>2, <2>2, <2>3, ConsumingStep
  <2>6. CommandRows'
    BY <1>1, <1>3, <2>1, CommandRowsKept
  <2>7. BufferTypeOK'
    BY <1>1, <1>2, <1>3, <2>1 DEF BufferTypeOK, RowsStep
  <2>8. CursorIsConsumed' /\ cursor' \in 0..Len(rows')
    BY <1>1, <1>2, <1>3, CursorKept DEF Inductive, RestTypeOK
  <2>9. ConsumedWasRead'
    BY <1>1, <1>2, <1>3, <1>4, ConsumedKept DEF Inductive
  <2>10. RunTypeOK'
    <3>1. ASSUME NEW r \in FirstN PROVE rows[r].version \in Nat
      <4>1. r \in 1..Len(rows)
        BY <2>3
      <4>2. rows[r] \in Row
        BY <1>1, <4>1
      <4>3. QED
        BY <4>2 DEF Row
    <3>2. [r \in FirstN |-> rows[r].version] \in [FirstN -> Nat]
      BY <3>1
    <3>3. [r \in FirstN |-> Chatter] \in [FirstN -> Places]
      BY DEF Places, Buckets
    <3>4. FirstN \in SUBSET DOMAIN rows'
      BY <2>3, <2>4
    <3>5. QED
      BY <1>1, <2>1, <3>2, <3>3, <3>4 DEF RunTypeOK, Busy
  <2>11. RestTypeOK'
    BY <1>1, <1>2, <2>1, <2>4, <2>8 DEF RestTypeOK
  <2>12. DrainOK'
    BY <1>1, <2>1, <2>2, IngestionAssumption DEF DrainOK, RunTypeOK, IngestionAssumption
  <2>13. \A r \in FirstN : cursor < r
    <3>1. \A r \in FirstN : r \in Nat /\ ~(r <= cursor)
      BY <2>3, <2>4 DEF Inductive, CursorIsConsumed
    <3>2. cursor \in Nat
      BY <1>1 DEF RestTypeOK
    <3>3. QED
      BY <3>1, <3>2
  <2>14. ASSUME NEW r \in FirstN, NEW q \in 1..Len(rows), q < r, q \notin FirstN
         PROVE  rows'[q].consumed
    <3>1. q \notin Ingestible
      BY <1>1, <2>14, FirstNClosed
    <3>2. CASE q \in Pending
      BY <2>2, <2>5, <3>1, <3>2
    <3>3. CASE q \notin Pending
      <4>1. rows[q].consumed
        BY <2>4, <3>3 DEF Pending
      <4>2. QED
        BY <1>3, <4>1 DEF RowsStep
    <3>4. QED
      BY <3>2, <3>3
  <2>15. Oldest'
    BY <1>2, <2>1, <2>4, <2>5, <2>13, <2>14 DEF Oldest
  <2>16. BatchPending'
    <3>1. \A r \in FirstN : r \in 1..Len(rows) /\ r \notin S /\ ~rows[r].consumed
      BY <2>2, <2>3
    <3>2. \A r \in FirstN : ~rows'[r].consumed
      BY <1>3, <3>1 DEF RowsStep
    <3>3. QED
      BY <2>1, <3>2 DEF BatchPending
  <2>17. Undecided'
    BY <2>1 DEF Undecided
  <2>18. BatchConsumed' /\ Kept' /\ EndedIsStale'
    BY <2>1 DEF BatchConsumed, Kept, EndedIsStale
  <2>19. IngestionTypeOK'
    BY <1>4, <2>7, <2>10, <2>11, TypePartsNext
  <2>20. QED
    BY <1>4, <2>6, <2>8, <2>9, <2>12, <2>15, <2>16, <2>17, <2>18, <2>19 DEF Inductive
<1>7. QED
  BY <1>5, <1>6

LEMMA LoadOK == ASSUME Inductive, Load PROVE Inductive'
<1>1. /\ rows \in Seq(Row) /\ BufferTypeOK /\ RunTypeOK /\ PageTypeOK /\ RestTypeOK
  BY TypeParts DEF Inductive, BufferTypeOK
<1>2. /\ at = "loading" /\ at' \in {"consuming", "writing"} /\ stale' = {} /\ written' = {}
      /\ rows' = rows /\ cmds' = cmds /\ kind' = kind /\ backfill' = backfill
      /\ edits' = edits /\ commands' = commands
      /\ mode' = mode /\ drained' = drained /\ batch' = batch /\ text' = text
      /\ page' = page /\ ended' = ended /\ dropped' = dropped /\ missed' = missed /\ cursor' = cursor /\ torn' = torn
      /\ touches' = touches /\ faults' = faults /\ crashes' = crashes
  BY DEF Load, bufferVars, trailVars, bounds
<1>3. \/ at' = "consuming" /\ plan' = plan
      \/ at' = "writing" /\ plan' \in [batch -> Places \ ended]
  BY DEF Load
<1>4. RunTypeOK'
  BY <1>1, <1>2, <1>3 DEF RunTypeOK, Busy
<1>5. BufferTypeOK' /\ PageTypeOK' /\ RestTypeOK'
  BY <1>1, <1>2 DEF BufferTypeOK, PageTypeOK, RestTypeOK
<1>6. IngestionTypeOK'
  BY <1>4, <1>5, TypePartsNext
<1>7. PageOK' /\ CommandRows' /\ ConsumedWasRead' /\ CursorIsConsumed'
  BY <1>2 DEF Inductive, PageOK, CommandRows, ConsumedWasRead, OnPage, CursorIsConsumed
<1>8. DrainOK' /\ Oldest' /\ BatchPending' /\ BatchConsumed' /\ Undecided'
  BY <1>2 DEF Inductive, DrainOK, HasBatch, Oldest, BatchPending, BatchConsumed, Undecided
<1>9. Kept'
  BY <1>2, <1>3, IngestionAssumption DEF IngestionAssumption, Inductive, Undecided, Kept
<1>10. EndedIsStale'
  BY <1>2, <1>3 DEF EndedIsStale
<1>11. QED
  BY <1>6, <1>7, <1>8, <1>9, <1>10 DEF Inductive

LEMMA WriteBucketOK ==
    ASSUME Inductive, NEW t \in Threads, WriteBucket(t)
    PROVE  Inductive'
<1>1. /\ rows \in Seq(Row) /\ BufferTypeOK /\ RunTypeOK /\ PageTypeOK /\ RestTypeOK /\ PageOK
  BY TypeParts DEF Inductive, BufferTypeOK
<1>2. /\ at = "writing" /\ at' = at /\ written' = written \cup {t} /\ page' = Appended(t)
      /\ rows' = rows /\ cmds' = cmds /\ kind' = kind /\ backfill' = backfill
      /\ edits' = edits /\ commands' = commands
      /\ mode' = mode /\ drained' = drained /\ batch' = batch /\ text' = text /\ plan' = plan
      /\ stale' = stale /\ ended' = ended /\ dropped' = dropped /\ missed' = missed /\ cursor' = cursor /\ torn' = torn
      /\ touches' = touches /\ faults' = faults /\ crashes' = crashes
  BY DEF WriteBucket, bufferVars, trailVars, bounds
<1>3. /\ PageTypeOK' /\ PageOK' /\ PageGrows
      /\ DOMAIN page'[t][Len(page'[t])] = Bucket(t)
      /\ Len(page'[t]) \in DOMAIN page'[t]
  BY <1>1, <1>2, PageAppended DEF RunTypeOK
<1>4. BufferTypeOK' /\ RunTypeOK' /\ RestTypeOK'
  BY <1>1, <1>2 DEF BufferTypeOK, RunTypeOK, RestTypeOK
<1>5. IngestionTypeOK'
  BY <1>3, <1>4, TypePartsNext
<1>6. RowsStep({})
  BY <1>1, <1>2, NothingStep
<1>7. ConsumedWasRead'
  BY <1>1, <1>2, <1>3, <1>6, ConsumedKept DEF Inductive
<1>8. CommandRows' /\ CursorIsConsumed'
  BY <1>2 DEF Inductive, CommandRows, CursorIsConsumed
<1>9. DrainOK' /\ Oldest' /\ BatchPending' /\ BatchConsumed' /\ Undecided' /\ EndedIsStale'
  BY <1>2 DEF Inductive, DrainOK, HasBatch, Oldest, BatchPending, BatchConsumed, Undecided, EndedIsStale
<1>10. Kept'
  <2>1. ASSUME NEW u \in written \cup {t}, NEW r \in batch, plan[r] = u
        PROVE  \E v \in Threads : \E k \in DOMAIN page'[v] : r \in DOMAIN page'[v][k]
    <3>1. CASE u = t
      <4>1. r \in Bucket(t)
        BY <2>1, <3>1 DEF Bucket
      <4>2. QED
        BY <1>3, <4>1
    <3>2. CASE u \in written
      <4>1. PICK v \in Threads : \E k \in DOMAIN page[v] : r \in DOMAIN page[v][k]
        BY <1>2, <2>1, <3>2 DEF Inductive, Kept, Bucket, OnPage
      <4>2. PICK k \in DOMAIN page[v] : r \in DOMAIN page[v][k]
        BY <4>1
      <4>3. k \in DOMAIN page'[v] /\ r \in DOMAIN page'[v][k]
        BY <1>3, <4>2 DEF PageGrows
      <4>4. QED
        BY <4>3
    <3>3. QED
      BY <3>1, <3>2
  <2>2. QED
    BY <1>2, <2>1 DEF Kept, Bucket, OnPage
<1>11. QED
  BY <1>3, <1>5, <1>7, <1>8, <1>9, <1>10 DEF Inductive

LEMMA WrittenOK == ASSUME Inductive, Written PROVE Inductive'
<1>1. /\ rows \in Seq(Row) /\ BufferTypeOK /\ RunTypeOK /\ PageTypeOK /\ RestTypeOK
  BY TypeParts DEF Inductive, BufferTypeOK
<1>2. /\ at = "writing" /\ at' = "consuming" /\ ToWrite = {}
      /\ rows' = rows /\ cmds' = cmds /\ kind' = kind /\ backfill' = backfill
      /\ edits' = edits /\ commands' = commands
      /\ mode' = mode /\ drained' = drained /\ batch' = batch /\ text' = text /\ plan' = plan
      /\ written' = written /\ page' = page /\ stale' = stale /\ ended' = ended
      /\ dropped' = dropped /\ missed' = missed /\ cursor' = cursor /\ torn' = torn
      /\ touches' = touches /\ faults' = faults /\ crashes' = crashes
  BY DEF Written, bufferVars, wikiVars, trailVars, bounds
<1>3. BufferTypeOK' /\ RunTypeOK' /\ PageTypeOK' /\ RestTypeOK'
  BY <1>1, <1>2 DEF BufferTypeOK, RunTypeOK, PageTypeOK, RestTypeOK, Busy
<1>4. IngestionTypeOK'
  BY <1>3, TypePartsNext
<1>5. PageOK' /\ CommandRows' /\ ConsumedWasRead' /\ CursorIsConsumed'
  BY <1>2 DEF Inductive, PageOK, CommandRows, ConsumedWasRead, OnPage, CursorIsConsumed
<1>6. DrainOK' /\ Oldest' /\ BatchPending' /\ BatchConsumed' /\ Undecided' /\ EndedIsStale'
  BY <1>2 DEF Inductive, DrainOK, HasBatch, Oldest, BatchPending, BatchConsumed, Undecided, EndedIsStale
<1>7. ASSUME NEW r \in batch, plan[r] \in Threads
      PROVE  \E t \in Threads : \E k \in DOMAIN page[t] : r \in DOMAIN page[t][k]
  <2>1. r \in Bucket(plan[r])
    BY DEF Bucket
  <2>2. plan[r] \in written
    BY <1>2, <1>7, <2>1 DEF ToWrite
  <2>3. QED
    BY <1>2, <2>1, <2>2 DEF Inductive, Kept, OnPage
<1>8. Kept'
  BY <1>2, <1>7 DEF Kept, OnPage
<1>9. QED
  BY <1>4, <1>5, <1>6, <1>8 DEF Inductive

LEMMA ConsumeOK == ASSUME Inductive, Consume PROVE Inductive'
<1>1. /\ rows \in Seq(Row) /\ BufferTypeOK /\ RunTypeOK /\ PageTypeOK /\ RestTypeOK
      /\ cmds \in SUBSET Cmd /\ CommandRows /\ PageOK
  BY TypeParts DEF Inductive, BufferTypeOK, Cmd
<1>2. /\ at = "consuming" /\ at' = "advancing" /\ rows' = Consuming(batch)
      /\ cmds' = cmds /\ kind' = kind /\ backfill' = backfill
      /\ edits' = edits /\ commands' = commands
      /\ mode' = mode /\ drained' = drained /\ batch' = batch /\ text' = text /\ plan' = plan
      /\ written' = written /\ page' = page /\ stale' = stale /\ ended' = ended
      /\ dropped' = dropped \cup Bucket(Chatter) /\ missed' = missed \cup Bucket(Nowhere) /\ cursor' = cursor /\ torn' = torn
      /\ touches' = touches /\ faults' = faults /\ crashes' = crashes
  BY DEF Consume, wikiVars, bounds
<1>3. /\ RowsStep(batch) /\ Len(rows') = Len(rows)
      /\ \A r \in 1..Len(rows) : r \in batch => rows'[r].consumed
  BY <1>1, <1>2, ConsumingStep
<1>4. /\ Len(rows) \in Nat /\ DOMAIN rows = 1..Len(rows) /\ DOMAIN rows' = 1..Len(rows)
      /\ batch \subseteq 1..Len(rows)
  BY <1>1, <1>3, RowsGrow DEF RunTypeOK
<1>5. PageTypeOK' /\ PageOK' /\ PageGrows
  BY <1>1, <1>2, <1>3, PageKept
<1>6. CommandRows'
  BY <1>1, <1>2, <1>3, CommandRowsKept
<1>7. BufferTypeOK'
  BY <1>1, <1>2, <1>3 DEF BufferTypeOK, RowsStep
<1>8. RunTypeOK'
  BY <1>1, <1>2, <1>4 DEF RunTypeOK, Busy
<1>9. CursorIsConsumed' /\ cursor' \in 0..Len(rows')
  BY <1>1, <1>2, <1>3, CursorKept DEF Inductive, RestTypeOK
<1>10. RestTypeOK'
  BY <1>1, <1>2, <1>4, <1>9 DEF RestTypeOK, Bucket
<1>11. IngestionTypeOK'
  BY <1>5, <1>7, <1>8, <1>10, TypePartsNext
<1>12. ASSUME NEW r \in batch
       PROVE  r \in dropped' \/ r \in missed' \/ \E t \in Threads : \E k \in DOMAIN page'[t] : r \in DOMAIN page'[t][k]
  <2>1. CASE plan[r] \in {Chatter, Nowhere}
    BY <1>2, <2>1 DEF Bucket
  <2>2. CASE plan[r] \in Threads
    BY <1>2, <2>2 DEF Inductive, Kept, OnPage
  <2>3. QED
    BY <1>1, <2>1, <2>2 DEF RunTypeOK, Places, Buckets
<1>13. ConsumedWasRead'
  <2>1. dropped \subseteq dropped' /\ missed \subseteq missed'
    BY <1>2
  <2>2. QED
    BY <1>1, <1>3, <1>5, <1>12, <2>1, ConsumedKept DEF Inductive
<1>14. Oldest'
  <2>1. ASSUME NEW r \in batch, NEW q \in 1..Len(rows), q < r, q \notin batch
        PROVE  rows'[q].consumed
    <3>1. rows[q].consumed
      BY <1>2, <1>4, <2>1 DEF Inductive, Oldest, HasBatch
    <3>2. QED
      BY <1>3, <3>1 DEF RowsStep
  <2>2. \A r \in batch : cursor < r
    BY <1>2 DEF Inductive, Oldest, HasBatch
  <2>3. QED
    BY <1>2, <1>4, <2>1, <2>2 DEF Oldest
<1>15. BatchConsumed'
  BY <1>2, <1>3, <1>4 DEF BatchConsumed
<1>16. DrainOK' /\ BatchPending' /\ Undecided' /\ Kept' /\ EndedIsStale'
  BY <1>2 DEF Inductive, DrainOK, HasBatch, BatchPending, Undecided, Kept, EndedIsStale
<1>17. QED
  BY <1>5, <1>6, <1>9, <1>11, <1>13, <1>14, <1>15, <1>16 DEF Inductive

LEMMA AdvanceOK == ASSUME Inductive, Advance PROVE Inductive' /\ cursor' >= cursor
<1>1. /\ rows \in Seq(Row) /\ BufferTypeOK /\ RunTypeOK /\ PageTypeOK /\ RestTypeOK
  BY TypeParts DEF Inductive, BufferTypeOK
<1>2. /\ at = "advancing" /\ at' = "posting"
      /\ rows' = rows /\ cmds' = cmds /\ kind' = kind /\ backfill' = backfill
      /\ edits' = edits /\ commands' = commands
      /\ mode' = mode /\ drained' = drained /\ batch' = batch /\ text' = text /\ plan' = plan
      /\ written' = written /\ page' = page /\ stale' = stale /\ ended' = ended
      /\ dropped' = dropped /\ missed' = missed /\ torn' = torn
      /\ touches' = touches /\ faults' = faults /\ crashes' = crashes
  BY DEF Advance, bufferVars, wikiVars, bounds
<1>3. PICK last \in batch : (\A r \in batch : r <= last) /\ cursor' = last
  BY DEF Advance
<1>4. /\ Len(rows) \in Nat /\ DOMAIN rows = 1..Len(rows) /\ batch \subseteq 1..Len(rows)
  BY <1>1 DEF RunTypeOK
<1>5. BufferTypeOK' /\ RunTypeOK' /\ PageTypeOK' /\ RestTypeOK'
  <2>1. cursor' \in 0..Len(rows)
    BY <1>3, <1>4
  <2>2. QED
    BY <1>1, <1>2, <2>1 DEF BufferTypeOK, RunTypeOK, PageTypeOK, RestTypeOK, Busy
<1>6. IngestionTypeOK'
  BY <1>5, TypePartsNext
<1>7. CursorIsConsumed'
  <2>1. ASSUME NEW r \in 1..Len(rows), r <= last
        PROVE  rows[r].consumed
    <3>1. CASE r \in batch
      BY <1>2, <3>1 DEF Inductive, BatchConsumed
    <3>2. CASE r \notin batch
      <4>1. r < last
        BY <1>3, <1>4, <2>1, <3>2
      <4>2. QED
        BY <1>2, <1>3, <1>4, <3>2, <4>1 DEF Inductive, Oldest, HasBatch
    <3>3. QED
      BY <3>1, <3>2
  <2>2. QED
    BY <1>2, <1>3, <1>4, <2>1 DEF CursorIsConsumed
<1>8. cursor' >= cursor
  <2>1. cursor < last
    BY <1>2, <1>3 DEF Inductive, Oldest, HasBatch
  <2>2. cursor \in Nat /\ last \in Nat
    BY <1>1, <1>3, <1>4 DEF RestTypeOK
  <2>3. QED
    BY <1>3, <2>1, <2>2
<1>9. PageOK' /\ CommandRows' /\ ConsumedWasRead'
  BY <1>2 DEF Inductive, PageOK, CommandRows, ConsumedWasRead, OnPage
<1>10. DrainOK' /\ Oldest' /\ BatchPending' /\ BatchConsumed' /\ Undecided' /\ Kept' /\ EndedIsStale'
  BY <1>2 DEF Inductive, DrainOK, HasBatch, Oldest, BatchPending, BatchConsumed, Undecided, Kept, EndedIsStale
<1>11. QED
  BY <1>6, <1>7, <1>8, <1>9, <1>10 DEF Inductive

LEMMA PostOK == ASSUME Inductive, Post PROVE Inductive'
<1>1. /\ rows \in Seq(Row) /\ BufferTypeOK /\ RunTypeOK /\ PageTypeOK /\ RestTypeOK /\ PageOK
      /\ CommandRows
  BY TypeParts DEF Inductive, BufferTypeOK
<1>2. /\ at = "posting" /\ rows' = rows /\ kind' = kind /\ edits' = edits /\ commands' = commands
      /\ page' = page /\ ended' = ended /\ dropped' = dropped /\ missed' = missed /\ cursor' = cursor /\ torn' = torn
      /\ touches' = touches /\ faults' = faults /\ crashes' = crashes
  BY DEF Post, bounds, trailVars
<1>3. RowsStep({})
  BY <1>1, <1>2, NothingStep
<1>4. PageTypeOK' /\ PageOK' /\ PageGrows
  BY <1>1, <1>2, <1>3, PageKept
<1>5. /\ touches' \in 0..MaxTouches /\ faults' \in 0..MaxFaults /\ crashes' \in 0..MaxCrashes
      /\ ended' \in SUBSET Threads /\ torn' \in SUBSET DOMAIN rows'
  BY <1>1, <1>2 DEF RestTypeOK
<1>6. CASE mode = "tick"
  <2>1. Over /\ backfill' \in BOOLEAN
    BY <1>6 DEF Post, Finish
  <2>2. QED
    BY <1>2, <1>3, <1>4, <1>5, <2>1, OverStep
<1>7. CASE mode # "tick"
  <2>1. /\ at' = "cutting" /\ drained' = drained + 1 /\ NoBatch
        /\ mode' = mode /\ stale' = stale /\ cmds' = cmds /\ backfill' = backfill
    BY <1>7 DEF Post
  <2>2. drained' \in 0..MaxDrain /\ mode' \in {"tick", "backfill", "demand"}
    BY <1>1, <1>2, <2>1, IngestionAssumption DEF Inductive, DrainOK, RunTypeOK, IngestionAssumption
  <2>3. RunTypeOK'
    BY <2>1, <2>2, NoBatchRun
  <2>4. BufferTypeOK' /\ CommandRows' /\ stale' \in SUBSET Threads
    BY <1>1, <1>2, <2>1 DEF BufferTypeOK, CommandRows, RestTypeOK
  <2>5. QED
    BY <1>2, <1>3, <1>4, <1>5, <2>1, <2>3, <2>4, Between
<1>8. QED
  BY <1>6, <1>7

-----------------------------------------------------------------------------
(* What goes wrong, and who else writes. *)

LEMMA FailsOK == ASSUME Inductive, Fails PROVE Inductive'
<1>1. rows \in Seq(Row) /\ PageTypeOK /\ PageOK /\ RestTypeOK /\ BufferTypeOK
  BY TypeParts DEF Inductive, BufferTypeOK
<1>2. /\ Over /\ faults < MaxFaults /\ faults' = faults + 1
      /\ UNCHANGED <<rows, kind, backfill, edits, commands, page, ended, touches, crashes>>
      /\ CutOff(HalfWritten)
  BY DEF Fails
<1>3. RowsStep({})
  BY <1>1, <1>2, NothingStep
<1>4. PageTypeOK' /\ PageOK' /\ PageGrows
  BY <1>1, <1>2, <1>3, PageKept
<1>5. /\ touches' \in 0..MaxTouches /\ faults' \in 0..MaxFaults /\ crashes' \in 0..MaxCrashes
      /\ backfill' \in BOOLEAN
  BY <1>1, <1>2, IngestionAssumption DEF RestTypeOK, BufferTypeOK, IngestionAssumption
<1>6. UNCHANGED <<dropped, missed, cursor>> /\ torn' \in SUBSET DOMAIN rows'
  BY <1>2, CutOffIs, HalfIsBatch
<1>7. QED
  BY <1>2, <1>3, <1>4, <1>5, <1>6, OverStep

LEMMA WriteAnswerLostOK ==
    ASSUME Inductive, NEW t \in Threads, WriteAnswerLost(t)
    PROVE  Inductive'
<1>1. /\ rows \in Seq(Row) /\ PageTypeOK /\ PageOK /\ RestTypeOK /\ BufferTypeOK
      /\ batch \in SUBSET DOMAIN rows /\ text \in [batch -> Nat]
  BY TypeParts DEF Inductive, BufferTypeOK, RunTypeOK
<1>2. /\ Over /\ faults < MaxFaults /\ faults' = faults + 1 /\ page' = Appended(t)
      /\ UNCHANGED <<rows, kind, backfill, edits, commands, ended, touches, crashes>>
      /\ CutOff(HalfWritten \cup Bucket(t))
  BY DEF WriteAnswerLost
<1>3. RowsStep({})
  BY <1>1, <1>2, NothingStep
<1>4. PageTypeOK' /\ PageOK' /\ PageGrows
  BY <1>1, <1>2, PageAppended
<1>5. /\ touches' \in 0..MaxTouches /\ faults' \in 0..MaxFaults /\ crashes' \in 0..MaxCrashes
      /\ backfill' \in BOOLEAN
  BY <1>1, <1>2, IngestionAssumption DEF RestTypeOK, BufferTypeOK, IngestionAssumption
<1>6. UNCHANGED <<dropped, missed, cursor>> /\ torn' \in SUBSET DOMAIN rows'
  BY <1>2, CutOffIs, HalfIsBatch
<1>7. QED
  BY <1>2, <1>3, <1>4, <1>5, <1>6, OverStep

LEMMA WriteConflictsOK ==
    ASSUME Inductive, NEW t \in Threads, WriteConflicts(t)
    PROVE  Inductive'
<1>1. rows \in Seq(Row) /\ PageTypeOK /\ PageOK /\ RestTypeOK /\ BufferTypeOK
  BY TypeParts DEF Inductive, BufferTypeOK
<1>2. /\ Over
      /\ UNCHANGED <<rows, kind, backfill, edits, commands, page, ended, touches, faults, crashes>>
      /\ CutOff(HalfWritten)
  BY DEF WriteConflicts, bounds
<1>3. RowsStep({})
  BY <1>1, <1>2, NothingStep
<1>4. PageTypeOK' /\ PageOK' /\ PageGrows
  BY <1>1, <1>2, <1>3, PageKept
<1>5. /\ touches' \in 0..MaxTouches /\ faults' \in 0..MaxFaults /\ crashes' \in 0..MaxCrashes
      /\ backfill' \in BOOLEAN
  BY <1>1, <1>2 DEF RestTypeOK, BufferTypeOK
<1>6. UNCHANGED <<dropped, missed, cursor>> /\ torn' \in SUBSET DOMAIN rows'
  BY <1>2, CutOffIs, HalfIsBatch
<1>7. QED
  BY <1>2, <1>3, <1>4, <1>5, <1>6, OverStep

LEMMA CrashOK == ASSUME Inductive, Crash PROVE Inductive'
<1>1. rows \in Seq(Row) /\ PageTypeOK /\ PageOK /\ RestTypeOK /\ BufferTypeOK
  BY TypeParts DEF Inductive, BufferTypeOK
<1>2. /\ crashes < MaxCrashes /\ crashes' = crashes + 1
      /\ at' = "idle" /\ mode' = "tick" /\ drained' = 0 /\ stale' = {}
      /\ NoBatch
      /\ cmds' = {} /\ backfill' = FALSE
      /\ UNCHANGED <<rows, kind, edits, commands, page, ended, touches, faults>>
      /\ CutOff(HalfWritten)
  BY DEF Crash
<1>3. RowsStep({})
  BY <1>1, <1>2, NothingStep
<1>4. PageTypeOK' /\ PageOK' /\ PageGrows
  BY <1>1, <1>2, <1>3, PageKept
<1>5. /\ touches' \in 0..MaxTouches /\ faults' \in 0..MaxFaults /\ crashes' \in 0..MaxCrashes
      /\ stale' \in SUBSET Threads /\ ended' \in SUBSET Threads
  BY <1>1, <1>2, IngestionAssumption DEF RestTypeOK, IngestionAssumption
<1>6. BufferTypeOK' /\ CommandRows'
  BY <1>1, <1>2 DEF BufferTypeOK, CommandRows
<1>7. RunTypeOK'
  BY <1>2, NoBatchRun, IngestionAssumption DEF IngestionAssumption
<1>8. at' \in {"idle", "cutting"} /\ UNCHANGED <<dropped, missed, cursor>> /\ torn' \in SUBSET DOMAIN rows'
  BY <1>2, CutOffIs, HalfIsBatch
<1>9. QED
  BY <1>3, <1>4, <1>5, <1>6, <1>7, <1>8, Between

LEMMA TouchOK ==
    ASSUME Inductive, NEW t \in Threads, NEW ends \in BOOLEAN, Touch(t, ends)
    PROVE  Inductive'
<1>1. /\ rows \in Seq(Row) /\ BufferTypeOK /\ RunTypeOK /\ PageTypeOK /\ RestTypeOK
  BY TypeParts DEF Inductive, BufferTypeOK
<1>2. /\ rows' = rows /\ cmds' = cmds /\ kind' = kind /\ backfill' = backfill
      /\ edits' = edits /\ commands' = commands
      /\ at' = at /\ mode' = mode /\ drained' = drained /\ batch' = batch /\ text' = text
      /\ plan' = plan /\ written' = written /\ page' = page
      /\ dropped' = dropped /\ missed' = missed /\ cursor' = cursor /\ torn' = torn /\ faults' = faults /\ crashes' = crashes
  BY DEF Touch, bufferVars, runVars, trailVars
<1>3. /\ touches < MaxTouches /\ touches' = touches + 1
      /\ stale' = IF at = "writing" THEN stale \cup {t} ELSE stale
      /\ ended' = IF ends THEN ended \cup {t} ELSE ended
  BY DEF Touch
<1>4. BufferTypeOK' /\ RunTypeOK' /\ PageTypeOK'
  BY <1>1, <1>2 DEF BufferTypeOK, RunTypeOK, PageTypeOK
<1>5. RestTypeOK'
  <2>1. touches' \in 0..MaxTouches
    BY <1>1, <1>3, IngestionAssumption DEF RestTypeOK, IngestionAssumption
  <2>2. QED
    BY <1>1, <1>2, <1>3, <2>1 DEF RestTypeOK
<1>6. IngestionTypeOK'
  BY <1>4, <1>5, TypePartsNext
<1>7. PageOK' /\ CommandRows' /\ ConsumedWasRead' /\ CursorIsConsumed'
  BY <1>2 DEF Inductive, PageOK, CommandRows, ConsumedWasRead, OnPage, CursorIsConsumed
<1>8. DrainOK' /\ Oldest' /\ BatchPending' /\ BatchConsumed' /\ Undecided' /\ Kept'
  BY <1>2 DEF Inductive, DrainOK, HasBatch, Oldest, BatchPending, BatchConsumed, Undecided, Kept, Bucket, OnPage
<1>9. EndedIsStale'
  BY <1>2, <1>3 DEF Inductive, EndedIsStale
<1>10. QED
  BY <1>6, <1>7, <1>8, <1>9 DEF Inductive

-----------------------------------------------------------------------------
LEMMA StutterOK == ASSUME Inductive, UNCHANGED vars PROVE Inductive'
<1>1. RowsStep({})
  BY NothingStep, TypeParts DEF Inductive, BufferTypeOK, vars, bufferVars
<1>2. BufferTypeOK' /\ CommandRows'
  BY TypeParts DEF Inductive, BufferTypeOK, CommandRows, vars, bufferVars
<1>3. QED
  BY <1>1, <1>2, BesideRun DEF vars

LEMMA NextOK == Inductive /\ [Next]_vars => Inductive'
<1> SUFFICES ASSUME Inductive, [Next]_vars PROVE Inductive'
  OBVIOUS
<1>1. CASE Outside
  BY <1>1, OutsideOK
<1>2. CASE StartTick \/ StartBackfill \/ StartFromChat \/ \E c \in cmds : StartOnDemand(c)
  BY <1>2, StartsOK
<1>3. CASE Step
  <2>1. ASSUME NEW t \in Threads, WriteBucket(t) \/ WriteConflicts(t)
        PROVE  Inductive'
    BY <2>1, WriteBucketOK, WriteConflictsOK
  <2>2. QED
    BY <1>3, <2>1, CutOK, LoadOK, WrittenOK, ConsumeOK, AdvanceOK, PostOK DEF Step
<1>4. CASE Fails \/ Crash
  BY <1>4, FailsOK, CrashOK
<1>5. ASSUME NEW t \in Threads, WriteAnswerLost(t) \/ Touch(t, FALSE) \/ Touch(t, TRUE)
      PROVE  Inductive'
  BY <1>5, WriteAnswerLostOK, TouchOK
<1>6. CASE UNCHANGED vars
  BY <1>6, StutterOK
<1>7. QED
  BY <1>1, <1>2, <1>3, <1>4, <1>5, <1>6 DEF Next

LEMMA Invariance == Spec => []Inductive
<1>1. QED
  BY InitOK, NextOK, PTL DEF Spec

\* Type correctness of the buffer, the run, the pages and the cursor.
THEOREM IngestionTypeCorrect == Spec => []IngestionTypeOK
<1>1. Inductive => IngestionTypeOK
  BY DEF Inductive
<1>2. QED
  BY <1>1, Invariance, PTL

\* A consumed message is on a Thread page, was dropped as chatter or was left in
\* no bucket by the assigner, wherever a run fails, conflicts or restarts
\* (mark_consumed after the last page, ingestion.py:336).
THEOREM NothingIsLost == Spec => []ConsumedWasRead
<1>1. Inductive => ConsumedWasRead
  BY DEF Inductive
<1>2. QED
  BY <1>1, Invariance, PTL

\* Up to the cursor of the Channel everything is consumed (ingestion.py:339).
THEOREM CursorIsTrue == Spec => []CursorIsConsumed
<1>1. Inductive => CursorIsConsumed
  BY DEF Inductive
<1>2. QED
  BY <1>1, Invariance, PTL

-----------------------------------------------------------------------------
(* What a step may do to the pages and the cursor. *)

Writes(t) ==
    /\ at = "writing" /\ t \in ToWrite /\ (t \in stale => Merges)
    /\ rows' = rows /\ page' = Appended(t)

\* Only _write_bucket writes a page, and only advance_channel_cursor the cursor.
LEMMA WhoWrites ==
    ASSUME Inductive, [Next]_vars
    PROVE  /\ page' = page \/ \E t \in Threads : Writes(t)
           /\ cursor' = cursor \/ Advance
<1>1. CASE Outside
  BY <1>1 DEF Outside, wikiVars, trailVars
<1>2. CASE StartTick \/ StartFromChat
  BY <1>2 DEF StartTick, StartFromChat, OnDemand, Enter, wikiVars, trailVars
<1>3. CASE StartBackfill
  BY <1>3 DEF StartBackfill, Enter, wikiVars, trailVars
<1>4. ASSUME NEW c \in cmds, StartOnDemand(c)
      PROVE  page' = page /\ cursor' = cursor
  BY <1>4 DEF StartOnDemand, OnDemand, Enter, wikiVars, trailVars
<1>5. CASE Cut \/ Load \/ Written \/ Consume
  BY <1>5 DEF Cut, Load, Written, Consume, wikiVars, trailVars
<1>6. CASE Advance \/ Post \/ Fails \/ Crash
  BY <1>6 DEF Advance, Post, Fails, Crash, CutOff, wikiVars, trailVars
<1>7. ASSUME NEW t \in Threads, WriteBucket(t) \/ WriteAnswerLost(t)
      PROVE  Writes(t) /\ cursor' = cursor
  BY <1>7 DEF WriteBucket, WriteAnswerLost, CutOff, Conflicts, Writes, bufferVars, trailVars
<1>8. ASSUME NEW t \in Threads, WriteConflicts(t) \/ Touch(t, TRUE) \/ Touch(t, FALSE)
      PROVE  page' = page /\ cursor' = cursor
  BY <1>8 DEF WriteConflicts, CutOff, Touch, trailVars
<1>9. CASE UNCHANGED vars
  BY <1>9 DEF vars, wikiVars, trailVars
<1>10. QED
  BY <1>1, <1>2, <1>3, <1>4, <1>5, <1>6, <1>7, <1>8, <1>9 DEF Next, Step

\* The cursor of a Channel only moves forward (advance_channel_cursor).
THEOREM CursorOnlyAdvances == Spec => CursorNeverBack
<1>1. ASSUME Inductive, [Next]_vars PROVE cursor' >= cursor
  <2>1. CASE Advance
    BY <1>1, <2>1, AdvanceOK
  <2>2. CASE cursor' = cursor
    <3>1. rows \in Seq(Row) /\ cursor \in 0..Len(rows)
      BY <1>1, TypeParts DEF Inductive, BufferTypeOK, RestTypeOK
    <3>2. QED
      BY <2>2, <3>1
  <2>3. QED
    BY <1>1, <2>1, <2>2, WhoWrites
<1>2. Inductive /\ [Next]_vars => [cursor' >= cursor]_vars
  BY <1>1
<1>3. QED
  BY <1>2, Invariance, PTL DEF Spec, CursorNeverBack

\* No message that a run has consumed is written to a page again: batches are
\* written before mark_consumed and one at a time (ingestion.py:321-336).
THEOREM OnlyPendingIsWritten == Spec => WritesArePending
<1>1. ASSUME Inductive, [Next]_vars, NEW u \in Threads, page'[u] # page[u],
             NEW r \in DOMAIN page'[u][Len(page'[u])]
      PROVE  rows[r].cmd \/ ~rows[r].consumed
  <2>1. PICK t \in Threads : Writes(t)
    BY <1>1, WhoWrites
  <2>2. /\ rows' = rows /\ page' = Appended(t) /\ at = "writing"
        /\ PageTypeOK /\ PageOK /\ rows \in Seq(Row)
        /\ batch \in SUBSET DOMAIN rows /\ text \in [batch -> Nat]
    BY <1>1, <2>1, TypeParts DEF Inductive, BufferTypeOK, RunTypeOK, Writes
  <2>3. /\ \A v \in Threads : v # t => page'[v] = page[v]
        /\ DOMAIN page'[t][Len(page'[t])] = Bucket(t)
    BY <2>2, PageAppended
  <2>4. u = t /\ r \in Bucket(t)
    BY <1>1, <2>3
  <2>5. QED
    BY <1>1, <2>2, <2>4 DEF Inductive, BatchPending, Bucket
<1>2. Inductive /\ [Next]_vars =>
        [\A t \in Threads : page'[t] # page[t] =>
           \A r \in DOMAIN page'[t][Len(page'[t])] : rows[r].cmd \/ ~rows[r].consumed]_vars
  BY <1>1
<1>3. QED
  BY <1>2, Invariance, PTL DEF Spec, WritesArePending

\* What is appended to a Thread after a human ended it comes of a merge, by a run
\* that had read the page before: over a vault that refuses stale writes nothing
\* is, although the assigner may have chosen the Thread while it was open
\* (ThreadStore._write); over Lapis no other run's messages are.
THEOREM EndedTakesNothing == Spec => EndedStaysClosed
<1>1. ASSUME Inductive, [Next]_vars, NEW u \in ended, page'[u] # page[u]
      PROVE  Merges /\ at = "writing" /\ u \in stale
  <2>1. u \in Threads
    BY <1>1, TypeParts DEF Inductive, RestTypeOK
  <2>2. PICK t \in Threads : Writes(t)
    BY <1>1, WhoWrites
  <2>3. t \in ToWrite /\ (t \in stale => Merges) /\ at = "writing"
    BY <2>2 DEF Writes
  <2>4. u = t
    <3>1. /\ rows' = rows /\ page' = Appended(t) /\ PageTypeOK /\ PageOK /\ rows \in Seq(Row)
          /\ batch \in SUBSET DOMAIN rows /\ text \in [batch -> Nat]
      BY <1>1, <2>2, TypeParts DEF Inductive, BufferTypeOK, RunTypeOK, Writes
    <3>2. \A v \in Threads : v # t => page'[v] = page[v]
      BY <3>1, PageAppended
    <3>3. QED
      BY <1>1, <2>1, <3>2
  <2>5. PICK r \in batch : plan[r] = t
    BY <2>3 DEF ToWrite, Bucket
  <2>6. t \in stale
    BY <1>1, <2>3, <2>4, <2>5 DEF Inductive, EndedIsStale
  <2>7. QED
    BY <2>3, <2>4, <2>6
<1>2. Inductive /\ [Next]_vars =>
        [\A t \in ended : page'[t] # page[t] => Merges /\ at = "writing" /\ t \in stale]_vars
  BY <1>1
<1>3. QED
  BY <1>2, Invariance, PTL DEF Spec, EndedStaysClosed

-----------------------------------------------------------------------------
(* Each message is on one page, once, in arrival order.                    *)

\* The lookup by message id before an insert makes ids unique (webhook.py:75).
DistinctIds == \A r, q \in 1..Len(rows) : rows[r].id = rows[q].id => r = q

\* Everything up to row q has been consumed.
Settled(q) == \A p \in 1..q : rows[p].consumed

\* Row q is on its page because of the batch that is being written.
JustWritten(t, q) ==
    /\ at \in {"writing", "consuming"}
    /\ q \in batch /\ plan[q] = t /\ t \in written

\* What is on a page, and not torn, came with this batch or is older than
\* whatever can still be cut.
Past(t, q) ==
    \/ JustWritten(t, q)
    \/ /\ Settled(q)
       /\ at \in {"loading", "writing", "consuming"} => \A r \in batch : q < r
PageIsPast ==
    \A t \in Threads : \A k \in DOMAIN page[t] : \A q \in DOMAIN page[t][k] \ torn : Past(t, q)

Once == DistinctIds /\ PageIsPast /\ WrittenOnce

\* Rows keep their place, their id and their being consumed.
RowsLast ==
    /\ Len(rows') \in Nat /\ Len(rows) <= Len(rows') /\ DOMAIN rows' = 1..Len(rows')
    /\ \A r \in 1..Len(rows) :
          rows'[r].id = rows[r].id /\ (rows[r].consumed => rows'[r].consumed)

LEMMA SameRowsLast ==
    ASSUME rows \in Seq(Row), rows' = rows, DistinctIds
    PROVE  RowsLast /\ DistinctIds'
<1>1. Len(rows) \in Nat /\ DOMAIN rows = 1..Len(rows)
  OBVIOUS
<1>2. RowsLast
  BY <1>1 DEF RowsLast
<1>3. DistinctIds'
  BY DEF DistinctIds
<1>4. QED
  BY <1>2, <1>3

LEMMA MappedRowsLast ==
    ASSUME rows \in Seq(Row), DistinctIds, DOMAIN rows' = 1..Len(rows), Len(rows') = Len(rows),
           \A r \in 1..Len(rows) :
              rows'[r].id = rows[r].id /\ (rows[r].consumed => rows'[r].consumed)
    PROVE  RowsLast /\ DistinctIds'
<1>1. Len(rows) \in Nat
  OBVIOUS
<1>2. RowsLast
  BY <1>1 DEF RowsLast
<1>3. ASSUME NEW r \in 1..Len(rows'), NEW q \in 1..Len(rows'), rows'[r].id = rows'[q].id
      PROVE  r = q
  <2>1. r \in 1..Len(rows) /\ q \in 1..Len(rows)
    OBVIOUS
  <2>2. rows[r].id = rows[q].id
    BY <1>3, <2>1
  <2>3. QED
    BY <2>1, <2>2 DEF DistinctIds
<1>4. DistinctIds'
  BY <1>3 DEF DistinctIds
<1>5. QED
  BY <1>2, <1>4

LEMMA ConsumingLast ==
    ASSUME rows \in Seq(Row), DistinctIds, NEW S, rows' = Consuming(S)
    PROVE  RowsLast /\ DistinctIds'
<1> DEFINE c(r) == IF r \in S THEN [rows[r] EXCEPT !.consumed = TRUE] ELSE rows[r]
<1>1. DOMAIN rows = 1..Len(rows) /\ Len(rows) \in Nat
  OBVIOUS
<1>2. rows' = [r \in 1..Len(rows) |-> c(r)]
  BY <1>1 DEF Consuming
<1>3. ASSUME NEW r \in 1..Len(rows)
      PROVE  c(r) \in Row /\ c(r).id = rows[r].id /\ (rows[r].consumed => c(r).consumed)
  <2>1. rows[r] \in Row
    OBVIOUS
  <2>2. CASE r \in S
    BY <2>1, <2>2 DEF Row
  <2>3. CASE r \notin S
    BY <2>1, <2>3 DEF Row
  <2>4. QED
    BY <2>2, <2>3
<1> HIDE DEF c
<1>4. DOMAIN rows' = 1..Len(rows) /\ Len(rows') = Len(rows) /\ \A r \in 1..Len(rows) : rows'[r] = c(r)
  BY <1>1, <1>2, <1>3
<1>5. QED
  BY <1>3, <1>4, MappedRowsLast

LEMMA InsertLast ==
    ASSUME rows \in Seq(Row), DistinctIds, OldAge \in Nat,
           NEW i \in Nat, NEW ty \in Types, NEW b \in BOOLEAN, Insert(i, ty, b)
    PROVE  RowsLast /\ DistinctIds'
<1> DEFINE o == [id |-> i, type |-> ty, version |-> 0, consumed |-> FALSE, cmd |-> b, age |-> 0]
<1>1. rows' = Append(rows, o) /\ ~Buffered(i)
  BY DEF Insert
<1>2. o \in Row /\ o.id = i
  BY DEF Row
<1> HIDE DEF o
<1>3. /\ rows' \in Seq(Row) /\ Len(rows') = Len(rows) + 1 /\ Len(rows) \in Nat
      /\ DOMAIN rows = 1..Len(rows) /\ DOMAIN rows' = 1..Len(rows')
  BY <1>1, <1>2
<1>4. /\ \A r \in 1..Len(rows) : rows'[r] = rows[r]
      /\ rows'[Len(rows) + 1] = o
  BY <1>1, <1>2
<1>5. RowsLast
  BY <1>3, <1>4 DEF RowsLast
<1>6. \A r \in 1..Len(rows) : rows[r].id # i
  BY <1>1, <1>3 DEF Buffered
<1>7. ASSUME NEW r \in 1..Len(rows'), NEW q \in 1..Len(rows'), rows'[r].id = rows'[q].id
      PROVE  r = q
  <2>1. (r \in 1..Len(rows) \/ r = Len(rows) + 1) /\ (q \in 1..Len(rows) \/ q = Len(rows) + 1)
    BY <1>3
  <2>2. CASE r \in 1..Len(rows) /\ q \in 1..Len(rows)
    BY <1>4, <1>7, <2>2 DEF DistinctIds
  <2>3. CASE r = Len(rows) + 1 /\ q \in 1..Len(rows)
    BY <1>2, <1>4, <1>6, <1>7, <2>3
  <2>4. CASE r \in 1..Len(rows) /\ q = Len(rows) + 1
    BY <1>2, <1>4, <1>6, <1>7, <2>4
  <2>5. QED
    BY <2>1, <2>2, <2>3, <2>4
<1>8. DistinctIds'
  BY <1>7 DEF DistinctIds
<1>9. QED
  BY <1>5, <1>8

LEMMA IntakeLast ==
    ASSUME BufferAssumption, BufferTypeOK, DistinctIds, Intake
    PROVE  RowsLast /\ DistinctIds'
<1>1. rows \in Seq(Row) /\ Len(rows) \in Nat /\ DOMAIN rows = 1..Len(rows) /\ OldAge \in Nat
  BY DEF BufferTypeOK, BufferAssumption
<1>2. MessageIds \subseteq Nat
  BY <1>1 DEF MessageIds
<1>3. ASSUME NEW i \in MessageIds, NEW ty \in Types, NEW b \in BOOLEAN, Insert(i, ty, b)
      PROVE  RowsLast /\ DistinctIds'
  <2>1. i \in Nat
    BY <1>2
  <2>2. QED
    BY <1>1, <1>3, <2>1, InsertLast
<1>4. CASE rows' = rows
  BY <1>1, <1>4, SameRowsLast
<1>5. CASE Deliver
  <2>1. PICK i \in MessageIds, ty \in Lively : Insert(i, ty, FALSE)
    BY <1>5 DEF Deliver
  <2>2. ty \in Types
    BY DEF BufferAssumption, Types, Ingested
  <2>3. QED
    BY <1>3, <2>1, <2>2
<1>6. CASE Edit \/ Revoke
  <2>1. PICK ty \in Types : Rewrite(ty)
    BY <1>6 DEF Edit, Revoke, Types, Ingested
  <2>2. PICK i \in MessageIds :
          \/ Insert(i, ty, FALSE)
          \/ \E r \in DOMAIN rows :
              /\ rows[r].id = i
              /\ rows' = IF rows[r].consumed THEN rows
                         ELSE [rows EXCEPT ![r] = Rewritten(rows[r], ty)]
    BY <2>1 DEF Rewrite
  <2>3. ASSUME NEW r \in DOMAIN rows, ~rows[r].consumed,
               rows' = [rows EXCEPT ![r] = Rewritten(rows[r], ty)]
        PROVE  RowsLast /\ DistinctIds'
    <3> DEFINE o == Rewritten(rows[r], ty)
    <3>1. rows[r] \in Row
      BY <1>1
    <3>2. o.id = rows[r].id
      BY <3>1 DEF Row, Rewritten
    <3>3. rows' = [rows EXCEPT ![r] = o]
      BY <2>3
    <3> HIDE DEF o
    <3>4. DOMAIN rows' = 1..Len(rows) /\ Len(rows') = Len(rows)
      BY <1>1, <3>3
    <3>5. \A q \in 1..Len(rows) : rows'[q] = IF q = r THEN o ELSE rows[q]
      BY <1>1, <3>3
    <3>6. QED
      BY <1>1, <2>3, <3>2, <3>4, <3>5, MappedRowsLast
  <2>4. QED
    BY <1>3, <1>4, <2>2, <2>3
<1>7. CASE Tick
  <2> DEFINE o(r) == [rows[r] EXCEPT !.age = IF @ < OldAge THEN @ + 1 ELSE @]
  <2>1. rows' = [r \in 1..Len(rows) |-> o(r)]
    BY <1>1, <1>7 DEF Tick
  <2>2. ASSUME NEW r \in 1..Len(rows)
        PROVE  o(r) \in Row /\ o(r).id = rows[r].id /\ o(r).consumed = rows[r].consumed
    <3>1. rows[r] \in Row
      BY <1>1
    <3>2. (IF rows[r].age < OldAge THEN rows[r].age + 1 ELSE rows[r].age) \in 0..OldAge
      BY <1>1, <3>1 DEF Row
    <3>3. QED
      BY <3>1, <3>2 DEF Row
  <2> HIDE DEF o
  <2>3. DOMAIN rows' = 1..Len(rows) /\ Len(rows') = Len(rows) /\ \A r \in 1..Len(rows) : rows'[r] = o(r)
    BY <1>1, <2>1, <2>2
  <2>4. QED
    BY <1>1, <2>2, <2>3, MappedRowsLast
<1>8. CASE Command
  <2>1. PICK i \in MessageIds : Insert(i, "message", TRUE)
    BY <1>8 DEF Command
  <2>2. QED
    BY <1>3, <2>1 DEF Types, Ingested
<1>9. ASSUME NEW c \in cmds, SetUp(c) \/ ImportEnds(c) \/ Unwatch(c)
      PROVE  rows' = rows
  BY <1>9 DEF SetUp, ImportEnds, Unwatch
<1>10. ASSUME NEW c \in cmds, ImportMessage(c)
       PROVE  RowsLast /\ DistinctIds'
  <2>1. PICK i \in MessageIds : Insert(i, "backfill", FALSE)
    BY <1>10 DEF ImportMessage
  <2>2. QED
    BY <1>3, <2>1 DEF Types, Ingested
<1>11. ASSUME NEW c \in cmds, CommandDone(c)
       PROVE  RowsLast /\ DistinctIds'
  BY <1>1, <1>11, ConsumingLast DEF CommandDone
<1>12. QED
  BY <1>4, <1>5, <1>6, <1>7, <1>8, <1>9, <1>10, <1>11 DEF Intake

LEMMA NextLast ==
    ASSUME Inductive, DistinctIds, [Next]_vars
    PROVE  RowsLast /\ DistinctIds'
<1>1. rows \in Seq(Row) /\ BufferTypeOK
  BY TypeParts DEF Inductive, BufferTypeOK
<1>2. CASE rows' = rows
  BY <1>1, <1>2, SameRowsLast
<1>3. ASSUME NEW S, rows' = Consuming(S)
      PROVE  RowsLast /\ DistinctIds'
  BY <1>1, <1>3, ConsumingLast
<1>4. CASE Outside
  BY <1>1, <1>4, IntakeLast, BufferAssumption DEF Outside
<1>5. CASE StartTick \/ StartBackfill
  BY <1>2, <1>5 DEF StartTick, StartBackfill, bufferVars
<1>6. CASE StartFromChat
  BY <1>3, <1>6 DEF StartFromChat, OnDemand
<1>7. ASSUME NEW c \in cmds, StartOnDemand(c)
      PROVE  RowsLast /\ DistinctIds'
  BY <1>2, <1>3, <1>7 DEF StartOnDemand, OnDemand
<1>8. CASE Cut
  BY <1>2, <1>3, <1>8 DEF Cut
<1>9. CASE Consume
  BY <1>3, <1>9 DEF Consume
<1>10. CASE Load \/ Written \/ Advance \/ Post
  BY <1>2, <1>10 DEF Load, Written, Advance, Post, bufferVars
<1>11. CASE Fails \/ Crash
  BY <1>2, <1>11 DEF Fails, Crash
<1>12. ASSUME NEW t \in Threads,
              \/ WriteBucket(t) \/ WriteConflicts(t) \/ WriteAnswerLost(t)
              \/ Touch(t, FALSE) \/ Touch(t, TRUE)
       PROVE  RowsLast /\ DistinctIds'
  BY <1>2, <1>12 DEF WriteBucket, WriteConflicts, WriteAnswerLost, Touch, bufferVars
<1>13. CASE UNCHANGED vars
  BY <1>2, <1>13 DEF vars, bufferVars
<1>14. QED
  BY <1>4, <1>5, <1>6, <1>7, <1>8, <1>9, <1>10, <1>11, <1>12, <1>13 DEF Next, Step

Live == {"loading", "writing", "consuming"}

LEMMA PageRows ==
    ASSUME Inductive, NEW t \in Threads, NEW k \in DOMAIN page[t], NEW q \in DOMAIN page[t][k]
    PROVE  q \in 1..Len(rows)
<1>1. page[t] \in Seq(Bundles) /\ rows \in Seq(Row) /\ PageTypeOK
  BY TypeParts DEF Inductive, PageOK, BufferTypeOK
<1>2. k \in 1..Len(page[t]) /\ DOMAIN rows = 1..Len(rows)
  BY <1>1
<1>3. QED
  BY <1>1, <1>2 DEF PageTypeOK

\* A step that leaves the pages alone is judged by what it does to one entry.
LEMMA PastKept ==
    ASSUME Inductive, PageIsPast, page' = page, torn \subseteq torn',
           \A t \in Threads : \A q \in (1..Len(rows)) \ torn' : Past(t, q) => Past(t, q)'
    PROVE  PageIsPast'
<1>1. ASSUME NEW t \in Threads, NEW k \in DOMAIN page[t], NEW q \in DOMAIN page[t][k] \ torn'
      PROVE  Past(t, q)'
  <2>1. q \in 1..Len(rows) /\ q \in DOMAIN page[t][k] \ torn
    BY <1>1, PageRows
  <2>2. Past(t, q)
    BY <2>1 DEF PageIsPast
  <2>3. QED
    BY <1>1, <2>1, <2>2
<1>2. QED
  BY <1>1 DEF PageIsPast

LEMMA OnceKept ==
    ASSUME Inductive, WrittenOnce, RowsLast, page' = page, torn \subseteq torn'
    PROVE  WrittenOnce'
<1>1. ASSUME NEW t \in Threads, NEW u \in Threads, NEW k \in DOMAIN page[t], NEW l \in DOMAIN page[u],
             NEW r \in DOMAIN page[t][k] \ torn', NEW q \in DOMAIN page[u][l] \ torn'
      PROVE  /\ rows'[r].id = rows'[q].id => t = u /\ k = l /\ r = q
             /\ t = u /\ k < l => r < q
  <2>1. r \in 1..Len(rows) /\ q \in 1..Len(rows)
    BY PageRows
  <2>2. rows'[r].id = rows[r].id /\ rows'[q].id = rows[q].id
    BY <2>1 DEF RowsLast
  <2>3. r \in DOMAIN page[t][k] \ torn /\ q \in DOMAIN page[u][l] \ torn
    OBVIOUS
  <2>4. /\ rows[r].id = rows[q].id => t = u /\ k = l /\ r = q
        /\ t = u /\ k < l => r < q
    BY <2>3 DEF WrittenOnce
  <2>5. QED
    BY <2>2, <2>4
<1>2. QED
  BY <1>1 DEF WrittenOnce

LEMMA SettledKept ==
    ASSUME RowsLast, NEW q \in 1..Len(rows), Len(rows) \in Nat, Settled(q)
    PROVE  Settled(q)'
<1>1. \A p \in 1..q : p \in 1..Len(rows)
  OBVIOUS
<1>2. QED
  BY <1>1 DEF Settled, RowsLast

LEMMA RowCount == ASSUME Inductive PROVE rows \in Seq(Row) /\ Len(rows) \in Nat /\ DOMAIN rows = 1..Len(rows)
<1>1. rows \in Seq(Row)
  BY TypeParts DEF Inductive, BufferTypeOK
<1>2. QED
  BY <1>1

\* A step beside the batch.
LEMMA PastBeside ==
    ASSUME Inductive, RowsLast, NEW t, NEW q \in 1..Len(rows), Past(t, q),
           UNCHANGED <<at, batch, plan, written>>
    PROVE  Past(t, q)'
<1>1. Settled(q) => Settled(q)'
  BY RowCount, SettledKept
<1>2. QED
  BY <1>1 DEF Past, JustWritten

\* A step after which there is no batch being written.
LEMMA PastAway ==
    ASSUME Inductive, RowsLast, NEW t, NEW q \in 1..Len(rows), Past(t, q),
           at' \notin Live, JustWritten(t, q) => Settled(q)'
    PROVE  Past(t, q)'
<1>1. Settled(q) => Settled(q)'
  BY RowCount, SettledKept
<1>2. QED
  BY <1>1 DEF Past, Live

\* What this batch has put on pages is what a failure leaves torn.
LEMMA HalfIsJustWritten ==
    ASSUME NEW t, NEW q, JustWritten(t, q)
    PROVE  q \in HalfWritten
BY DEF JustWritten, HalfWritten

\* A batch is cut from what is not consumed, so after everything settled.
LEMMA PastCut ==
    ASSUME Inductive, RowsLast, NEW t, NEW q \in 1..Len(rows), Past(t, q), Cut
    PROVE  Past(t, q)'
<1>1. at = "cutting"
  BY DEF Cut
<1>2. ~JustWritten(t, q) /\ Settled(q)
  BY <1>1 DEF Past, JustWritten
<1>3. Settled(q)'
  BY <1>2, RowCount, SettledKept
<1>4. CASE NothingToCut
  <2>1. at' \notin Live
    BY <1>4 DEF Cut, Finish, Over, Live
  <2>2. QED
    BY <1>2, <2>1, PastAway
<1>5. CASE ~NothingToCut
  <2>1. batch' = FirstN
    BY <1>5 DEF Cut
  <2>2. ASSUME NEW r \in FirstN PROVE q < r
    <3>1. r \in 1..Len(rows) /\ ~rows[r].consumed
      BY RowCount DEF FirstN, Ingestible, Pending
    <3>2. r \notin 1..q
      BY <1>2, <3>1 DEF Settled
    <3>3. r \in Nat /\ q \in Nat /\ r >= 1
      BY <3>1, RowCount
    <3>4. QED
      BY <3>2, <3>3
  <2>3. QED
    BY <1>3, <2>1, <2>2 DEF Past
<1>6. QED
  BY <1>4, <1>5

\* mark_consumed settles the batch: nothing older was left behind it.
LEMMA ConsumeSettles ==
    ASSUME Inductive, Consume, NEW t, NEW q \in 1..Len(rows), JustWritten(t, q)
    PROVE  Settled(q)'
<1>1. at = "consuming" /\ rows' = Consuming(batch) /\ q \in batch
  BY DEF Consume, JustWritten
<1>2. rows \in Seq(Row) /\ Len(rows) \in Nat /\ DOMAIN rows = 1..Len(rows)
  BY RowCount
<1>3. RowsStep(batch) /\ \A r \in 1..Len(rows) : r \in batch => rows'[r].consumed
  BY <1>1, <1>2, ConsumingStep
<1>4. ASSUME NEW p \in 1..q PROVE rows'[p].consumed
  <2>1. p \in 1..Len(rows)
    BY <1>2
  <2>2. CASE p \in batch
    BY <1>3, <2>1, <2>2
  <2>3. CASE p \notin batch
    <3>1. p < q
      BY <1>1, <1>2, <2>3
    <3>2. rows[p].consumed
      BY <1>1, <1>2, <2>1, <2>3, <3>1 DEF Inductive, Oldest, HasBatch
    <3>3. QED
      BY <1>3, <2>1, <3>2 DEF RowsStep
  <2>4. QED
    BY <2>2, <2>3
<1>5. QED
  BY <1>4 DEF Settled

\* What _write_bucket adds to the pages, and after what.
LEMMA PageEntries ==
    ASSUME Inductive, NEW t \in Threads, page' = Appended(t)
    PROVE  /\ \A u \in Threads : \A k \in DOMAIN page'[u] :
                \/ k \in DOMAIN page[u] /\ page'[u][k] = page[u][k]
                \/ u = t /\ k = Len(page[t]) + 1 /\ DOMAIN page'[u][k] = Bucket(t)
           /\ Len(page[t]) \in Nat /\ DOMAIN page[t] = 1..Len(page[t])
<1> DEFINE b == [r \in Bucket(t) |-> text[r]]
<1>1. page \in [Threads -> Seq(Bundles)] /\ page[t] \in Seq(Bundles)
  BY DEF Inductive, PageOK
<1>2. DOMAIN b = Bucket(t)
  OBVIOUS
<1>3. page' = [page EXCEPT ![t] = Append(page[t], b)]
  BY DEF Appended
<1> HIDE DEF b
<1>4. /\ Len(page[t]) \in Nat /\ DOMAIN page[t] = 1..Len(page[t])
      /\ DOMAIN Append(page[t], b) = 1..(Len(page[t]) + 1)
      /\ Append(page[t], b)[Len(page[t]) + 1] = b
      /\ \A k \in 1..Len(page[t]) : Append(page[t], b)[k] = page[t][k]
  BY <1>1
<1>5. ASSUME NEW u \in Threads, NEW k \in DOMAIN page'[u]
      PROVE  \/ k \in DOMAIN page[u] /\ page'[u][k] = page[u][k]
             \/ u = t /\ k = Len(page[t]) + 1 /\ DOMAIN page'[u][k] = Bucket(t)
  <2>1. CASE u # t
    BY <1>1, <1>3, <2>1
  <2>2. CASE u = t
    <3>1. page'[u] = Append(page[t], b)
      BY <1>1, <1>3, <2>2
    <3>2. k \in 1..Len(page[t]) \/ k = Len(page[t]) + 1
      BY <1>4, <3>1
    <3>3. QED
      BY <1>2, <1>4, <2>2, <3>1, <3>2
  <2>3. QED
    BY <2>1, <2>2
<1>6. QED
  BY <1>4, <1>5

\* The heart of it: the bucket that is written repeats nothing that is on a
\* page, and is newer than all of it.
LEMMA BucketIsNew ==
    ASSUME Inductive, Once, NEW t \in Threads, WriteBucket(t)
    PROVE  PageIsPast' /\ WrittenOnce'
<1>1. /\ at = "writing" /\ at' = at /\ t \notin written /\ written' = written \cup {t}
      /\ rows' = rows /\ batch' = batch /\ plan' = plan /\ page' = Appended(t) /\ torn' = torn
  BY DEF WriteBucket, ToWrite, bufferVars, trailVars
<1>2. /\ \A u \in Threads : \A k \in DOMAIN page'[u] :
           \/ k \in DOMAIN page[u] /\ page'[u][k] = page[u][k]
           \/ u = t /\ k = Len(page[t]) + 1 /\ DOMAIN page'[u][k] = Bucket(t)
      /\ Len(page[t]) \in Nat /\ DOMAIN page[t] = 1..Len(page[t])
  BY <1>1, PageEntries
<1>3. rows \in Seq(Row) /\ Len(rows) \in Nat /\ DOMAIN rows = 1..Len(rows)
  BY RowCount
<1>4. batch \subseteq 1..Len(rows)
  BY <1>3, TypeParts DEF Inductive, RunTypeOK
<1>5. PageIsPast'
  <2>1. ASSUME NEW u \in Threads, NEW k \in DOMAIN page'[u], NEW q \in DOMAIN page'[u][k] \ torn
        PROVE  Past(u, q)'
    <3>1. CASE k \in DOMAIN page[u] /\ page'[u][k] = page[u][k]
      <4>1. Past(u, q)
        BY <3>1 DEF Once, PageIsPast
      <4>2. QED
        BY <1>1, <4>1 DEF Past, JustWritten, Settled
    <3>2. CASE u = t /\ DOMAIN page'[u][k] = Bucket(t)
      BY <1>1, <3>2 DEF Bucket, Past, JustWritten
    <3>3. QED
      BY <1>2, <3>1, <3>2
  <2>2. QED
    BY <1>1, <2>1 DEF PageIsPast
<1>6. ASSUME NEW u \in Threads, NEW k \in DOMAIN page[u], NEW r \in DOMAIN page[u][k] \ torn,
             NEW q \in Bucket(t)
      PROVE  /\ rows[r].id # rows[q].id
             /\ u = t => r < q
  <2>1. /\ r \in 1..Len(rows) /\ q \in 1..Len(rows) /\ q \in batch /\ plan[q] = t
        /\ r \in Nat /\ q \in Nat
    <3>1. r \in 1..Len(rows)
      BY PageRows
    <3>2. q \in batch /\ plan[q] = t
      BY DEF Bucket
    <3>3. QED
      BY <1>3, <1>4, <3>1, <3>2
  <2>2. Past(u, r)
    BY DEF Once, PageIsPast
  <2>3. CASE JustWritten(u, r)
    <3>1. plan[r] = u /\ u \in written
      BY <2>3 DEF JustWritten
    <3>2. u # t /\ r # q
      BY <1>1, <2>1, <3>1
    <3>3. QED
      BY <2>1, <3>2 DEF Once, DistinctIds
  <2>4. CASE ~JustWritten(u, r)
    <3>1. r < q
      BY <1>1, <2>1, <2>2, <2>4 DEF Past
    <3>2. r # q
      BY <2>1, <3>1
    <3>3. QED
      BY <2>1, <3>1, <3>2 DEF Once, DistinctIds
  <2>5. QED
    BY <2>3, <2>4
<1>7. ASSUME NEW a \in Threads, NEW u \in Threads, NEW k \in DOMAIN page'[a], NEW l \in DOMAIN page'[u],
             NEW r \in DOMAIN page'[a][k] \ torn, NEW q \in DOMAIN page'[u][l] \ torn
      PROVE  /\ rows[r].id = rows[q].id => a = u /\ k = l /\ r = q
             /\ a = u /\ k < l => r < q
  <2> DEFINE Old(v, m) == m \in DOMAIN page[v] /\ page'[v][m] = page[v][m]
             New(v, m) == v = t /\ m = Len(page[t]) + 1 /\ DOMAIN page'[v][m] = Bucket(t)
  <2>1. (Old(a, k) \/ New(a, k)) /\ (Old(u, l) \/ New(u, l))
    BY <1>2
  <2>2. CASE Old(a, k) /\ Old(u, l)
    BY <2>2 DEF Once, WrittenOnce
  <2>3. CASE New(a, k) /\ New(u, l)
    <3>1. r \in 1..Len(rows) /\ q \in 1..Len(rows)
      BY <1>4, <2>3 DEF Bucket
    <3>2. a = u /\ k = l /\ ~(k < l)
      BY <1>2, <2>3
    <3>3. QED
      BY <3>1, <3>2 DEF Once, DistinctIds
  <2>4. CASE Old(a, k) /\ New(u, l)
    <3>1. r \in DOMAIN page[a][k] \ torn /\ q \in Bucket(t) /\ u = t
      BY <2>4
    <3>2. QED
      BY <1>6, <2>4, <3>1
  <2>5. CASE New(a, k) /\ Old(u, l)
    <3>1. q \in DOMAIN page[u][l] \ torn /\ r \in Bucket(t) /\ a = t
      BY <2>5
    <3>2. rows[q].id # rows[r].id
      BY <1>6, <2>5, <3>1
    <3>3. a = u => ~(k < l)
      BY <1>2, <2>5
    <3>4. QED
      BY <3>2, <3>3
  <2>6. QED
    BY <2>1, <2>2, <2>3, <2>4, <2>5
<1>8. WrittenOnce'
  BY <1>1, <1>7 DEF WrittenOnce
<1>9. QED
  BY <1>5, <1>8

\* A write whose answer is lost leaves its bucket torn, with the rest of the batch.
LEMMA LostIsTorn ==
    ASSUME Inductive, Once, NEW t \in Threads, WriteAnswerLost(t)
    PROVE  PageIsPast' /\ WrittenOnce'
<1>1. /\ at' = "idle" /\ rows' = rows /\ page' = Appended(t)
      /\ torn' = torn \cup (HalfWritten \cup Bucket(t))
  BY DEF WriteAnswerLost, Over, CutOff
<1>2. ASSUME NEW u \in Threads, NEW k \in DOMAIN page'[u], NEW q \in DOMAIN page'[u][k] \ torn'
      PROVE  k \in DOMAIN page[u] /\ page'[u][k] = page[u][k] /\ q \in DOMAIN page[u][k] \ torn
  <2>1. q \notin Bucket(t) /\ q \notin torn
    BY <1>1
  <2>2. QED
    BY <1>1, <2>1, PageEntries
<1>3. PageIsPast'
  <2>1. ASSUME NEW u \in Threads, NEW k \in DOMAIN page'[u], NEW q \in DOMAIN page'[u][k] \ torn'
        PROVE  Past(u, q)'
    <3>1. Past(u, q)
      BY <1>2 DEF Once, PageIsPast
    <3>2. ~JustWritten(u, q)
      BY <1>1, HalfIsJustWritten
    <3>3. QED
      BY <1>1, <3>1, <3>2 DEF Past, Settled
  <2>2. QED
    BY <2>1 DEF PageIsPast
<1>4. WrittenOnce'
  BY <1>1, <1>2 DEF Once, WrittenOnce
<1>5. QED
  BY <1>3, <1>4

LEMMA OnceInit == Init => Once
<1> SUFFICES ASSUME Init PROVE Once
  OBVIOUS
<1>1. rows = <<>> /\ \A t \in Threads : DOMAIN page[t] = {}
  BY DEF Init, BufferInit
<1>2. DistinctIds
  BY <1>1 DEF DistinctIds
<1>3. QED
  BY <1>1, <1>2 DEF Once, PageIsPast, WrittenOnce

LEMMA OnceNext == Inductive /\ Once /\ [Next]_vars => Once'
<1> SUFFICES ASSUME Inductive, Once, [Next]_vars PROVE Once'
  OBVIOUS
<1>1. RowsLast /\ DistinctIds' /\ PageIsPast /\ WrittenOnce
  BY NextLast DEF Once
\* Steps that leave the pages as they are: what happens to one entry decides.
<1>2. ASSUME page' = page, torn \subseteq torn',
             \A t \in Threads : \A q \in (1..Len(rows)) \ torn' : Past(t, q) => Past(t, q)'
      PROVE  Once'
  BY <1>1, <1>2, PastKept, OnceKept DEF Once
<1>3. ASSUME page' = page, torn' = torn, UNCHANGED <<at, batch, plan, written>>
      PROVE  Once'
  BY <1>1, <1>2, <1>3, PastBeside
<1>4. ASSUME page' = page, torn' = torn, at' \notin Live,
             \A t \in Threads : \A q \in 1..Len(rows) : JustWritten(t, q) => Settled(q)'
      PROVE  Once'
  BY <1>1, <1>2, <1>4, PastAway
<1>5. ASSUME page' = page, torn' = torn \cup HalfWritten, at' \notin Live
      PROVE  Once'
  <2>1. ASSUME NEW t \in Threads, NEW q \in (1..Len(rows)) \ torn'
        PROVE  ~JustWritten(t, q)
    BY <1>5, <2>1, HalfIsJustWritten
  <2>2. QED
    BY <1>1, <1>2, <1>5, <2>1, PastAway
<1>6. ASSUME page' = page, torn' = torn, at' \notin Live, at \notin {"writing", "consuming"}
      PROVE  Once'
  BY <1>4, <1>6 DEF JustWritten
<1>7. CASE Outside
  BY <1>3, <1>7 DEF Outside, runVars, wikiVars, trailVars
<1>8. ASSUME NEW m \in {"tick", "backfill", "demand"}, Enter(m)
      PROVE  Once'
  BY <1>6, <1>8 DEF Enter, wikiVars, trailVars, Live
<1>9. CASE StartTick \/ StartBackfill \/ StartFromChat
  BY <1>3, <1>8, <1>9
     DEF StartTick, StartBackfill, StartFromChat, OnDemand, runVars, wikiVars, trailVars
<1>10. ASSUME NEW c \in cmds, StartOnDemand(c)
       PROVE  Once'
  BY <1>3, <1>8, <1>10 DEF StartOnDemand, OnDemand, runVars, wikiVars, trailVars
<1>11. CASE Cut
  <2>1. page' = page /\ torn' = torn
    BY <1>11 DEF Cut, trailVars
  <2>2. QED
    BY <1>1, <1>2, <1>11, <2>1, PastCut
<1>12. CASE Load
  <2>1. /\ page' = page /\ torn' = torn /\ at = "loading" /\ rows' = rows /\ batch' = batch
    BY <1>12 DEF Load, bufferVars, trailVars
  <2>2. ASSUME NEW t \in Threads, NEW q \in 1..Len(rows), Past(t, q)
        PROVE  Past(t, q)'
    BY <2>1, <2>2 DEF Past, JustWritten, Settled
  <2>3. QED
    BY <1>2, <2>1, <2>2
<1>13. CASE Written
  <2>1. /\ page' = page /\ torn' = torn /\ at = "writing" /\ at' = "consuming"
        /\ rows' = rows /\ batch' = batch /\ plan' = plan /\ written' = written
    BY <1>13 DEF Written, bufferVars, wikiVars, trailVars
  <2>2. ASSUME NEW t \in Threads, NEW q \in 1..Len(rows), Past(t, q)
        PROVE  Past(t, q)'
    BY <2>1, <2>2 DEF Past, JustWritten, Settled
  <2>3. QED
    BY <1>2, <2>1, <2>2
<1>14. CASE Consume
  <2>1. page' = page /\ torn' = torn /\ at' \notin Live
    BY <1>14 DEF Consume, wikiVars, Live
  <2>2. QED
    BY <1>4, <1>14, <2>1, ConsumeSettles
<1>15. CASE Advance
  BY <1>6, <1>15 DEF Advance, wikiVars, Live
<1>16. CASE Post
  BY <1>6, <1>16 DEF Post, Finish, Over, trailVars, Live
<1>17. CASE Fails \/ Crash
  BY <1>5, <1>17 DEF Fails, Crash, Over, CutOff, Live
<1>18. ASSUME NEW t \in Threads, WriteConflicts(t)
       PROVE  Once'
  BY <1>5, <1>18 DEF WriteConflicts, Over, CutOff, Live
<1>19. ASSUME NEW t \in Threads, WriteBucket(t)
       PROVE  Once'
  BY <1>1, <1>19, BucketIsNew DEF Once
<1>20. ASSUME NEW t \in Threads, WriteAnswerLost(t)
       PROVE  Once'
  BY <1>1, <1>20, LostIsTorn DEF Once
<1>21. ASSUME NEW t \in Threads, NEW ends \in BOOLEAN, Touch(t, ends)
       PROVE  Once'
  BY <1>3, <1>21 DEF Touch, runVars, trailVars
<1>22. CASE UNCHANGED vars
  BY <1>3, <1>22 DEF vars, runVars, wikiVars, trailVars
<1>23. QED
  BY <1>7, <1>9, <1>10, <1>11, <1>12, <1>13, <1>14, <1>15, <1>16, <1>17, <1>18, <1>19, <1>20,
     <1>21, <1>22 DEF Next, Step

\* A message is on one page, once, and a Timeline is in arrival order, whatever
\* fails, conflicts or restarts, but for what a batch had on pages when it was
\* cut off (the cursor and the flags are only set after the last page).
THEOREM EachMessageOnce == Spec => []WrittenOnce
<1>1. Once => WrittenOnce
  BY DEF Once
<1>2. QED
  BY <1>1, OnceInit, OnceNext, Invariance, PTL DEF Spec
=============================================================================
