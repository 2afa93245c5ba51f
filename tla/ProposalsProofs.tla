-------------------------- MODULE ProposalsProofs --------------------------
(***************************************************************************)
(* What holds of the proposals for any number of rows, reactions and       *)
(* failures: an outcome that is recorded has happened. The argument is     *)
(* about the tasks that are not done: how far an executor has come is how  *)
(* much of its change is there (Underway), and no other task takes it back.*)
(*                                                                         *)
(* And of who may read what they change, for any groups, members and       *)
(* checks: what the cache and the answers under way tell of a group was so *)
(* when it was asked for (EntryTrue, CheckTrue).                           *)
(***************************************************************************)
EXTENDS Proposals, Access, FiniteSetTheorems, WellFoundedInduction, TLAPS

Places == {"idle", "found", "expiring", "executing", "linking", "writing", "marking"}

OnPage(p) == \E k \in DOMAIN page : page[k] = p

Done(p) ==
    CASE kind[p] = "wiki_write"    -> OnPage(p)
      [] kind[p] = "link_member"   -> p \in linked
      [] kind[p] = "create_member" -> p \in linked /\ p \in created

TypeOK ==
    /\ kind \in [Ids -> Kinds]
    /\ status \in [Ids -> {"none", "pending", "confirmed", "expired"}]
    /\ task = [a \in Tasks |-> task[a]]
    /\ \A a \in Tasks : task[a].at \in Places /\ (task[a].at # "idle" => task[a].p \in Ids)
    /\ page \in Seq(Ids \cup {Human})

Way(a) ==
    /\ task[a].at = "linking" => kind[task[a].p] = "create_member" /\ task[a].p \in created
    /\ task[a].at = "writing" => kind[task[a].p] = "wiki_write"
    /\ task[a].at = "marking" => Done(task[a].p)

Underway == \A a \in Tasks : Way(a)

Recorded == \A p \in Ids : status[p] = "confirmed" => Done(p)

Inductive == TypeOK /\ Underway /\ Recorded

LEMMA InitInductive == Init => Inductive
  <1> SUFFICES ASSUME Init PROVE Inductive
    OBVIOUS
  <1>1. TypeOK
    BY ProposalsAssumption DEF Init, Idle, TypeOK, Places
  <1>2. Underway /\ Recorded
    BY DEF Init, Idle, Underway, Way, Recorded
  <1> QED BY <1>1, <1>2 DEF Inductive

\* A line that is added is on the page, and so is every other.
LEMMA LinesStay ==
    ASSUME NEW line \in Ids \cup {Human}, page \in Seq(Ids \cup {Human}), page' = Append(page, line)
    PROVE  /\ page' \in Seq(Ids \cup {Human})
           /\ \E k \in DOMAIN page' : page'[k] = line
           /\ \A p \in Ids : OnPage(p) => \E k \in DOMAIN page' : page'[k] = p
  <1>1. /\ page' \in Seq(Ids \cup {Human}) /\ DOMAIN page' = 1..(Len(page) + 1)
        /\ Len(page) \in Nat /\ DOMAIN page = 1..Len(page)
        /\ page'[Len(page) + 1] = line /\ \A k \in 1..Len(page) : page'[k] = page[k]
    OBVIOUS
  <1> QED BY <1>1 DEF OnPage

\* No step takes back what a proposal has changed.
LEMMA LinesAreKept ==
    ASSUME page \in Seq(Ids \cup {Human}),
           page' = page \/ \E line \in Ids \cup {Human} : page' = Append(page, line)
    PROVE  page' \in Seq(Ids \cup {Human}) /\ \A p \in Ids : OnPage(p) => \E k \in DOMAIN page' : page'[k] = p
  <1>1. CASE page' = page
    BY <1>1 DEF OnPage
  <1>2. CASE \E line \in Ids \cup {Human} : page' = Append(page, line)
    BY <1>2, LinesStay
  <1> QED BY <1>1, <1>2

LEMMA NothingTakenBack ==
    ASSUME Inductive, kind' = kind, linked \subseteq linked', created \subseteq created',
           page' = page \/ \E line \in Ids \cup {Human} : page' = Append(page, line),
           NEW p \in Ids, Done(p)
    PROVE  Done(p)'
  <1>1. OnPage(p) => OnPage(p)'
    BY LinesAreKept DEF Inductive, TypeOK, OnPage
  <1>2. kind[p] \in Kinds
    BY DEF Inductive, TypeOK
  <1> QED BY <1>1, <1>2 DEF Done, Kinds

\* A step of one task, which leaves the rows' outcomes alone or records its own.
LEMMA TaskMoves ==
    ASSUME Inductive, kind' = kind, linked \subseteq linked', created \subseteq created',
           page' = page \/ \E line \in Ids \cup {Human} : page' = Append(page, line),
           NEW a \in Tasks, NEW row, task' = [task EXCEPT ![a] = row],
           row.at \in Places, row.at # "idle" => row.p \in Ids,
           row.at = "linking" => kind[row.p] = "create_member" /\ row.p \in created',
           row.at = "writing" => kind[row.p] = "wiki_write",
           row.at = "marking" => Done(row.p)',
           status' \in [Ids -> {"none", "pending", "confirmed", "expired"}],
           \A p \in Ids : status'[p] = "confirmed" => status[p] = "confirmed" \/ Done(p)
    PROVE  Inductive'
  <1>1. /\ page' \in Seq(Ids \cup {Human}) /\ \A p \in Ids : Done(p) => Done(p)'
        /\ \A p \in Ids : OnPage(p) => \E k \in DOMAIN page' : page'[k] = p
    BY NothingTakenBack, LinesAreKept DEF Inductive, TypeOK
  <1>2. /\ task' = [b \in Tasks |-> task'[b]]
        /\ task'[a] = row /\ \A b \in Tasks \ {a} : task'[b] = task[b]
    BY DEF Inductive, TypeOK
  <1>3. TypeOK'
    BY <1>1, <1>2 DEF Inductive, TypeOK
  <1>4. Underway'
    <2>1. Way(a)'
      BY <1>2 DEF Way, Done, OnPage
    <2>2. ASSUME NEW b \in Tasks \ {a} PROVE Way(b)'
      <3>1. /\ task'[b] = task[b] /\ Way(b)
            /\ task[b].at = "marking" => task[b].p \in Ids /\ kind[task[b].p] \in Kinds
        BY <1>2 DEF Inductive, TypeOK, Underway
      <3>2. CASE task[b].at # "marking"
        BY <3>1, <3>2 DEF Way
      <3>3. CASE task[b].at = "marking"
        <4>1. OnPage(task[b].p) => \E k \in DOMAIN page' : page'[k] = task[b].p
          BY <1>1, <3>1, <3>3
        <4> QED BY <4>1, <3>1, <3>3 DEF Way, Done, Kinds, OnPage
      <3> QED BY <3>2, <3>3
    <2> QED BY <2>1, <2>2 DEF Underway
  <1>5. Recorded'
    BY <1>1 DEF Inductive, Recorded
  <1> QED BY <1>3, <1>4, <1>5 DEF Inductive

\* A step of the rows, the humans or the job, which records no confirmation.
LEMMA RowMoves ==
    ASSUME Inductive, UNCHANGED <<kind, task, linked, created>>,
           page' = page \/ \E line \in Ids \cup {Human} : page' = Append(page, line),
           status' \in [Ids -> {"none", "pending", "confirmed", "expired"}],
           \A p \in Ids : status'[p] = "confirmed" => status[p] = "confirmed"
    PROVE  Inductive'
  <1>1. /\ page' \in Seq(Ids \cup {Human}) /\ \A p \in Ids : Done(p) => Done(p)'
        /\ \A p \in Ids : OnPage(p) => \E k \in DOMAIN page' : page'[k] = p
    BY NothingTakenBack, LinesAreKept DEF Inductive, TypeOK
  <1>2. TypeOK'
    BY <1>1 DEF Inductive, TypeOK
  <1>3. ASSUME NEW b \in Tasks PROVE Way(b)'
    <2>1. Way(b) /\ (task[b].at = "marking" => task[b].p \in Ids)
      BY DEF Inductive, TypeOK, Underway
    <2> QED BY <1>1, <2>1 DEF Way, Done, OnPage
  <1>4. Recorded'
    BY <1>1 DEF Inductive, Recorded
  <1> QED BY <1>2, <1>3, <1>4 DEF Inductive, Underway

-----------------------------------------------------------------------------
(* The tasks.                                                              *)

LEMMA EndsKeeps ==
    ASSUME Inductive, UNCHANGED <<kind, linked, created>>, NEW a \in Tasks, Ends(a),
           page' = page \/ \E line \in Ids \cup {Human} : page' = Append(page, line),
           status' \in [Ids -> {"none", "pending", "confirmed", "expired"}],
           \A p \in Ids : status'[p] = "confirmed" => status[p] = "confirmed" \/ Done(p)
    PROVE  Inductive'
  <1>1. task' = [task EXCEPT ![a] = Idle] /\ Idle.at = "idle" /\ Idle.at \in Places
    BY DEF Ends, Idle, Places
  <1> HIDE DEF Idle
  <1> QED BY <1>1, TaskMoves

LEMMA LookKeeps == ASSUME Inductive, NEW a \in Tasks, Look(a) PROVE Inductive'
  <1>1. CASE Ends(a)
    BY <1>1, EndsKeeps DEF Look, wiki, Inductive, TypeOK
  <1>2. CASE Goes(a, "expiring") \/ Goes(a, "executing")
    <2>1. PICK place \in {"expiring", "executing"} : Goes(a, place)
      BY <1>2
    <2> DEFINE row == [at |-> place, p |-> task[a].p]
    <2>2. /\ task' = [task EXCEPT ![a] = row] /\ row.at = place /\ row.p \in Ids
          /\ UNCHANGED <<kind, linked, created, page, status>>
          /\ status \in [Ids -> {"none", "pending", "confirmed", "expired"}]
      BY <2>1 DEF Goes, Look, wiki, Inductive, TypeOK
    <2> HIDE DEF row
    <2> QED BY <2>2, TaskMoves DEF Places
  <1> QED BY <1>1, <1>2 DEF Look

LEMMA ReactKeeps == ASSUME Inductive, NEW a \in Tasks, NEW p \in Ids, React(a, p) PROVE Inductive'
  <1> DEFINE row == [at |-> "found", p |-> p]
  <1>1. /\ task' = [task EXCEPT ![a] = row] /\ row.at = "found" /\ row.p = p
        /\ UNCHANGED <<kind, linked, created, page, status>>
        /\ status \in [Ids -> {"none", "pending", "confirmed", "expired"}]
    BY DEF React, wiki, Inductive, TypeOK
  <1> HIDE DEF row
  <1> QED BY <1>1, TaskMoves DEF Places

LEMMA MarkExpiredKeeps == ASSUME Inductive, NEW a \in Tasks, MarkExpired(a) PROVE Inductive'
  BY EndsKeeps DEF MarkExpired, wiki, Inductive, TypeOK

LEMMA CreateMemberKeeps == ASSUME Inductive, NEW a \in Tasks, CreateMember(a) PROVE Inductive'
  <1> DEFINE row == [at |-> "linking", p |-> task[a].p]
  <1>1. /\ task' = [task EXCEPT ![a] = row] /\ row.at = "linking" /\ row.p \in Ids /\ kind[row.p] = "create_member"
        /\ row.p \in created' /\ created \subseteq created'
        /\ UNCHANGED <<kind, linked, page, status>>
        /\ status \in [Ids -> {"none", "pending", "confirmed", "expired"}]
    BY DEF CreateMember, Goes, Inductive, TypeOK
  <1> HIDE DEF row
  <1> QED BY <1>1, TaskMoves DEF Places

LEMMA LinkMemberKeeps == ASSUME Inductive, NEW a \in Tasks, LinkMember(a) PROVE Inductive'
  <1>0. PICK p \in Ids : p = task[a].p
    BY DEF LinkMember, Inductive, TypeOK
  <1> DEFINE row == [at |-> "marking", p |-> p]
  <1>1. /\ task' = [task EXCEPT ![a] = row] /\ row.at = "marking" /\ row.p = p
        /\ linked' = linked \cup {p}
        /\ kind[p] = "link_member" \/ (kind[p] = "create_member" /\ p \in created)
        /\ UNCHANGED <<kind, created, page, status>>
        /\ status \in [Ids -> {"none", "pending", "confirmed", "expired"}]
    BY <1>0 DEF LinkMember, Goes, Inductive, TypeOK, Underway, Way
  <1> HIDE DEF row
  <1>2. Done(p)'
    BY <1>1 DEF Done
  <1> QED BY <1>1, <1>2, TaskMoves DEF Places

LEMMA ReadPageKeeps == ASSUME Inductive, NEW a \in Tasks, ReadPage(a) PROVE Inductive'
  <1> DEFINE row == [at |-> "writing", p |-> task[a].p, base |-> page]
  <1>1. /\ task' = [task EXCEPT ![a] = row] /\ row.at = "writing" /\ row.p \in Ids /\ kind[row.p] = "wiki_write"
        /\ UNCHANGED <<kind, linked, created, page, status>>
        /\ status \in [Ids -> {"none", "pending", "confirmed", "expired"}]
    BY DEF ReadPage, wiki, Inductive, TypeOK
  <1> HIDE DEF row
  <1> QED BY <1>1, TaskMoves DEF Places

LEMMA WritePageKeeps == ASSUME Inductive, NEW a \in Tasks, WritePage(a) PROVE Inductive'
  <1>0. PICK p \in Ids : p = task[a].p
    BY DEF WritePage, Inductive, TypeOK
  <1> DEFINE row == [at |-> "marking", p |-> p]
  <1>1. /\ task' = [task EXCEPT ![a] = row] /\ row.at = "marking" /\ row.p = p /\ kind[p] = "wiki_write"
        /\ page \in Seq(Ids \cup {Human}) /\ page' = Append(page, p)
        /\ UNCHANGED <<kind, linked, created, status>>
        /\ status \in [Ids -> {"none", "pending", "confirmed", "expired"}]
    BY <1>0 DEF WritePage, Goes, Inductive, TypeOK, Underway, Way
  <1> HIDE DEF row
  <1>2. Done(p)'
    <2>1. \E k \in DOMAIN page' : page'[k] = p
      BY <1>1, LinesStay
    <2> QED BY <1>1, <2>1 DEF Done, OnPage
  <1> QED BY <1>1, <1>2, TaskMoves DEF Places

LEMMA WriteConflictsKeeps == ASSUME Inductive, NEW a \in Tasks, WriteConflicts(a) PROVE Inductive'
  BY EndsKeeps DEF WriteConflicts, wiki, Inductive, TypeOK

LEMMA MarkConfirmedKeeps == ASSUME Inductive, NEW a \in Tasks, MarkConfirmed(a) PROVE Inductive'
  <1>1. /\ status' = [status EXCEPT ![task[a].p] = "confirmed"] /\ Done(task[a].p) /\ Ends(a)
        /\ UNCHANGED <<kind, page, linked, created>>
        /\ status \in [Ids -> {"none", "pending", "confirmed", "expired"}]
    BY DEF MarkConfirmed, wiki, Inductive, TypeOK, Underway, Way
  <1>2. /\ status' \in [Ids -> {"none", "pending", "confirmed", "expired"}]
        /\ \A p \in Ids : status'[p] = "confirmed" => status[p] = "confirmed" \/ Done(p)
    BY <1>1
  <1> QED BY <1>1, <1>2, EndsKeeps

LEMMA TaskFailsKeeps == ASSUME Inductive, NEW a \in Tasks, TaskFails(a) PROVE Inductive'
  <1>1. page' = page \/ \E line \in Ids \cup {Human} : page' = Append(page, line)
    BY DEF TaskFails, Inductive, TypeOK
  <1> QED BY <1>1, EndsKeeps DEF TaskFails, Inductive, TypeOK

-----------------------------------------------------------------------------
(* The rows and the job.                                                   *)

LEMMA RowStepsKeep ==
    ASSUME Inductive,
           \/ \E p \in Ids : Create(p) \/ Send(p) \/ SetMessageId(p) \/ SendFails(p) \/ Ages(p)
           \/ HumanEdits \/ ExpireStep \/ ExpireFails
    PROVE  Inductive'
  <1>1. UNCHANGED <<kind, task, linked, created>>
    BY DEF Create, Send, SetMessageId, SendFails, Ages, HumanEdits, ExpireStep, ExpireSelect, ExpireCommit,
       Notify, ExpireFails, wiki
  <1>2. page' = page \/ \E line \in Ids \cup {Human} : page' = Append(page, line)
    BY DEF Create, Send, SetMessageId, SendFails, Ages, HumanEdits, ExpireStep, ExpireSelect, ExpireCommit,
       Notify, ExpireFails, wiki
  <1>3. /\ status' \in [Ids -> {"none", "pending", "confirmed", "expired"}]
        /\ \A p \in Ids : status'[p] = "confirmed" => status[p] = "confirmed"
    BY DEF Inductive, TypeOK, Create, Send, SetMessageId, SendFails, Ages, HumanEdits, ExpireStep, ExpireSelect,
       ExpireCommit, Notify, ExpireFails
  <1> QED BY <1>1, <1>2, <1>3, RowMoves

LEMMA StepKeeps == ASSUME Inductive, [Next]_vars PROVE Inductive'
  <1>1. CASE UNCHANGED vars
    <2>1. UNCHANGED <<kind, task, linked, created, page, status>>
      BY <1>1 DEF vars, wiki
    <2> QED BY <2>1, RowMoves DEF Inductive, TypeOK
  <1>2. CASE Next
    BY <1>2, LookKeeps, ReactKeeps, MarkExpiredKeeps, CreateMemberKeeps, LinkMemberKeeps, ReadPageKeeps,
       WritePageKeeps, WriteConflictsKeeps, MarkConfirmedKeeps, TaskFailsKeeps, RowStepsKeep
    DEF Next, TaskStep
  <1> QED BY <1>1, <1>2

\* A proposal that is recorded as confirmed has been executed in full, and no
\* later step takes that back, however many reactions, expiries and failures
\* interleave (agents/wa_agent/proposals.py: confirm and the executors).
THEOREM ConfirmedHasHappened == Spec => []ConfirmedIsThere
  <1>1. ASSUME Inductive, [Next]_vars PROVE Inductive'
    BY <1>1, StepKeeps
  <1>2. Inductive => ConfirmedIsThere
    BY DEF Inductive, Recorded, ConfirmedIsThere, Done, OnPage
  <1> QED BY <1>1, <1>2, InitInductive, PTL DEF Spec

-----------------------------------------------------------------------------
(* Verdicts. What an entry of the cache or an answer on its way says of a  *)
(* group was so when it was asked for, or somebody has joined or left      *)
(* since; and joining or leaving later does not make that untrue.          *)

InFlight == {"coordis", "channel"}

Asking == [at : InFlight \cup {"unasked", "done"}, who : Readers \cup {Nowhere}, area : Areas \cup {"none"},
           since : Nat, group : Groups \cup {Nowhere}, lookup : {"none", "asked", "answered"}, asked : Nat,
           answer : SUBSET Readers, failed : SUBSET Groups, verdict : {"none", "allow", "deny"}]

Entry == [until : Nat, who : SUBSET Readers]

AccessTypeOK ==
    /\ members \in [Groups -> SUBSET Readers] /\ changed \in [Groups -> [Readers -> Nat]]
    /\ cache \in [Groups -> Entry] /\ check \in [Checks -> Asking] /\ clock \in Nat

\* WasIn and WasOut, of any state.
In(ms, ch, g, r, t) == r \in ms[g] \/ ch[g][r] >= t
Out(ms, ch, g, r, t) == r \notin ms[g] \/ ch[g][r] >= t

Truly(who, ms, ch, g, t) ==
    \A r \in Readers : (r \in who => In(ms, ch, g, r, t)) /\ (r \notin who => Out(ms, ch, g, r, t))

EntryTrue(e, ms, ch, now, g) ==
    e.until # 0 => e.until - TTL <= now /\ Truly(e.who, ms, ch, g, e.until - TTL)

\* Of a check at coordis nothing is known yet; of one at a Channel, that the
\* coordis group did not grant.
CheckTrue(c, ms, ch, now) ==
    /\ c.at \notin InFlight => c.lookup = "none"
    /\ c.at \in InFlight =>
         /\ c.who \in Readers /\ c.group \in Groups /\ c.verdict = "none" /\ c.since <= now
         /\ c.at = "coordis" => c.group = Coordis
         /\ c.at = "channel" => c.group = Resolved(c.area)
         /\ c.at = "channel" /\ Coordis \in Groups \ c.failed => Out(ms, ch, Coordis, c.who, Oldest(c.since))
         /\ c.lookup # "none" => c.since <= c.asked /\ c.asked <= now
         /\ c.lookup = "answered" => Truly(c.answer, ms, ch, c.group, c.asked)

AccessInductive ==
    /\ AccessTypeOK
    /\ \A g \in Groups : EntryTrue(cache[g], members, changed, clock, g)
    /\ \A k \in Checks : CheckTrue(check[k], members, changed, clock)

LEMMA UnaskedIs ==
    Unasked \in Asking /\ Unasked.at = "unasked" /\ Unasked.lookup = "none"
  BY DEF Unasked, Asking, InFlight

LEMMA VerdictIs ==
    ASSUME NEW v \in {"allow", "deny"}
    PROVE  Verdict(v) \in Asking /\ Verdict(v).at = "done" /\ Verdict(v).lookup = "none" /\ Verdict(v).verdict = v
  BY DEF Verdict, Unasked, Asking

LEMMA AccessInitInductive == AccessInit => AccessInductive
  <1> SUFFICES ASSUME AccessInit PROVE AccessInductive
    OBVIOUS
  <1>1. NoEntry \in Entry /\ NoEntry.until = 0
    BY DEF NoEntry, Entry
  <1>2. AccessTypeOK
    BY <1>1, UnaskedIs, AccessAssumption DEF AccessInit, AccessTypeOK
  <1>3. \A g \in Groups : EntryTrue(cache[g], members, changed, clock, g)
    BY <1>1 DEF AccessInit, EntryTrue
  <1>4. \A k \in Checks : CheckTrue(check[k], members, changed, clock)
    BY UnaskedIs DEF AccessInit, CheckTrue, InFlight
  <1> QED BY <1>2, <1>3, <1>4 DEF AccessInductive

LEMMA OldestIsPast == ASSUME NEW t \in Nat, NEW u \in Nat, t <= u PROVE Oldest(t) \in Int /\ Oldest(t) <= Oldest(u) /\ Oldest(t) <= u
  BY AccessAssumption DEF Oldest

\* What was so at t was so at some time after an earlier one.
LEMMA Earlier ==
    ASSUME NEW g \in Groups, NEW r \in Readers, changed \in [Groups -> [Readers -> Nat]],
           NEW t \in Int, NEW s \in Int, s <= t
    PROVE  /\ In(members, changed, g, r, t) => In(members, changed, g, r, s)
           /\ Out(members, changed, g, r, t) => Out(members, changed, g, r, s)
  <1>1. changed[g][r] \in Nat
    OBVIOUS
  <1> QED BY <1>1 DEF In, Out

\* Time and people that join and leave take nothing from what was so.
LEMMA WorldKeeps ==
    ASSUME AccessInductive, UNCHANGED <<cache, check>>, clock' \in Nat, clock <= clock',
           members' \in [Groups -> SUBSET Readers], changed' \in [Groups -> [Readers -> Nat]],
           \A g \in Groups, r \in Readers, t \in Int :
              t <= clock => (In(members, changed, g, r, t) => In(members', changed', g, r, t))
                            /\ (Out(members, changed, g, r, t) => Out(members', changed', g, r, t))
    PROVE  AccessInductive'
  <1>1. AccessTypeOK'
    BY DEF AccessInductive, AccessTypeOK
  <1>2. ASSUME NEW g \in Groups, NEW t \in Int, t <= clock, NEW who, Truly(who, members, changed, g, t)
        PROVE  Truly(who, members', changed', g, t)
    BY <1>2 DEF Truly
  <1>3. ASSUME NEW g \in Groups PROVE EntryTrue(cache'[g], members', changed', clock', g)
    <2>1. cache' = cache /\ cache[g] \in Entry /\ EntryTrue(cache[g], members, changed, clock, g) /\ clock \in Nat
      BY DEF AccessInductive, AccessTypeOK
    <2>2. cache[g].until \in Nat /\ cache[g].until - TTL \in Int
      BY <2>1, AccessAssumption DEF Entry
    <2> QED BY <1>2, <2>1, <2>2 DEF EntryTrue
  <1>4. ASSUME NEW k \in Checks PROVE CheckTrue(check'[k], members', changed', clock')
    <2>1. check' = check /\ check[k] \in Asking /\ CheckTrue(check[k], members, changed, clock) /\ clock \in Nat
      BY DEF AccessInductive, AccessTypeOK
    <2>2. check[k].since \in Nat /\ check[k].asked \in Nat
      BY <2>1 DEF Asking
    <2>3. check[k].since <= clock => Oldest(check[k].since) \in Int /\ Oldest(check[k].since) <= clock
      BY <2>1, <2>2, OldestIsPast
    <2> QED BY <1>2, <2>1, <2>2, <2>3 DEF CheckTrue
  <1> QED BY <1>1, <1>3, <1>4 DEF AccessInductive

LEMMA TickKeeps == ASSUME AccessInductive, Tick PROVE AccessInductive'
  BY WorldKeeps DEF Tick, AccessInductive, AccessTypeOK

LEMMA JoinOrLeaveKeeps ==
    ASSUME AccessInductive, NEW g \in Groups, NEW r \in Readers, JoinOrLeave(g, r) PROVE AccessInductive'
  <1>1. /\ members \in [Groups -> SUBSET Readers] /\ changed \in [Groups -> [Readers -> Nat]] /\ clock \in Nat
        /\ clock' = clock /\ UNCHANGED <<cache, check>>
        /\ members' = [members EXCEPT ![g] = IF r \in @ THEN @ \ {r} ELSE @ \cup {r}]
        /\ changed' = [changed EXCEPT ![g][r] = clock]
    BY DEF JoinOrLeave, AccessInductive, AccessTypeOK
  <1>2. members' \in [Groups -> SUBSET Readers] /\ changed' \in [Groups -> [Readers -> Nat]]
    BY <1>1
  <1>3. /\ changed'[g][r] = clock
        /\ \A h \in Groups, q \in Readers : h # g \/ q # r =>
              changed'[h][q] = changed[h][q] /\ (q \in members'[h] <=> q \in members[h])
    BY <1>1
  <1>4. \A h \in Groups, q \in Readers, t \in Int :
           t <= clock => (In(members, changed, h, q, t) => In(members', changed', h, q, t))
                         /\ (Out(members, changed, h, q, t) => Out(members', changed', h, q, t))
    <2> SUFFICES ASSUME NEW h \in Groups, NEW q \in Readers, NEW t \in Int, t <= clock
                 PROVE  /\ In(members, changed, h, q, t) => In(members', changed', h, q, t)
                        /\ Out(members, changed, h, q, t) => Out(members', changed', h, q, t)
      OBVIOUS
    <2>1. CASE h = g /\ q = r
      BY <1>1, <1>3, <2>1 DEF In, Out
    <2>2. CASE h # g \/ q # r
      BY <1>3, <2>2 DEF In, Out
    <2> QED BY <2>1, <2>2
  <1>5. UNCHANGED <<cache, check>> /\ clock' \in Nat /\ clock <= clock'
    BY <1>1
  <1> QED BY <1>2, <1>4, <1>5, WorldKeeps

\* One check moves, and may leave an entry in the cache.
LEMMA MovesOn ==
    ASSUME AccessInductive, NEW k \in Checks, NEW c \in Asking, Move(k, c), UNCHANGED <<members, changed, clock>>,
           CheckTrue(c, members, changed, clock), cache' \in [Groups -> Entry],
           \A g \in Groups : EntryTrue(cache'[g], members, changed, clock, g)
    PROVE  AccessInductive'
  <1>1. /\ check' \in [Checks -> Asking]
        /\ \A j \in Checks : check'[j] = IF j = k THEN c ELSE check[j]
    BY DEF Move, AccessInductive, AccessTypeOK
  <1> QED BY <1>1 DEF AccessInductive, AccessTypeOK

\* The one Channel of a name, and no area is one.
LEMMA ResolvedIs ==
    ASSUME NEW area
    PROVE  \/ Resolved(area) = Nowhere
           \/ /\ Resolved(area) \in Groups /\ {g \in Groups : area \in DirsOf[g]} = {Resolved(area)}
              /\ area \notin OpenAreas \cup Refused
  <1> DEFINE matching == {g \in Groups : area \in DirsOf[g]}
  <1>1. CASE Cardinality(matching) = 1
    <2>1. IsFiniteSet(matching)
      BY AccessAssumption, FS_Subset
    <2>2. PICK g : matching = {g}
      <3> HIDE DEF matching
      <3> QED BY <1>1, <2>1, FS_Singleton
    <2>3. Resolved(area) = g
      BY <1>1, <2>2 DEF Resolved
    <2>4. g \in Groups /\ area \in DirsOf[g]
      BY <2>2
    <2> QED BY <2>2, <2>3, <2>4, AccessAssumption
  <1>2. CASE Cardinality(matching) # 1
    BY <1>2 DEF Resolved
  <1> QED BY <1>1, <1>2

\* A check that no coordis has granted: a verdict, or the Channel is looked up.
LEMMA DecidedIs ==
    ASSUME AccessInductive, NEW c \in Asking, c.at \in {"unasked", "coordis"}, c.verdict = "none", c.lookup = "none",
           c.who \in Readers, c.since <= clock,
           Coordis \in Groups \ c.failed => Out(members, changed, Coordis, c.who, Oldest(c.since))
    PROVE  /\ Decided(c) \in Asking /\ CheckTrue(Decided(c), members, changed, clock)
           /\ Decided(c).verdict = "allow" => c.area \in OpenAreas
           /\ Decided(c).verdict = "deny" => Resolved(c.area) = Nowhere
  <1> DEFINE g == Resolved(c.area)
  <1>1. CASE c.area \in OpenAreas
    <2>1. Decided(c) = Verdict("allow")
      BY <1>1 DEF Decided
    <2> QED BY <1>1, <2>1, VerdictIs DEF CheckTrue, InFlight
  <1>2. CASE c.area \notin OpenAreas /\ (c.area \in Refused \/ g = Nowhere)
    <2>1. Decided(c) = Verdict("deny")
      BY <1>2 DEF Decided
    <2>2. Resolved(c.area) = Nowhere
      BY <1>2, ResolvedIs
    <2> QED BY <2>1, <2>2, VerdictIs DEF CheckTrue, InFlight
  <1>3. CASE c.area \notin OpenAreas /\ ~(c.area \in Refused \/ g = Nowhere)
    <2> DEFINE d == [c EXCEPT !.at = "channel", !.group = g, !.asked = 0]
    <2>1. Decided(c) = d
      BY <1>3 DEF Decided
    <2>2. g \in Groups
      BY <1>3, ResolvedIs
    <2> HIDE DEF g
    <2>3. /\ d \in Asking /\ d.at = "channel" /\ d.group = g /\ d.who = c.who /\ d.since = c.since
          /\ d.lookup = "none" /\ d.verdict = "none" /\ d.failed = c.failed /\ d.area = c.area
      BY <2>2 DEF Asking, InFlight
    <2> HIDE DEF d
    <2>4. CheckTrue(d, members, changed, clock)
      BY <2>2, <2>3 DEF CheckTrue, InFlight, g
    <2> QED BY <2>1, <2>3, <2>4
  <1> QED BY <1>1, <1>2, <1>3

\* What the policy makes of the members of a group it has looked up.
LEMMA JudgeIs ==
    ASSUME AccessInductive, NEW c \in Asking, c.at \in InFlight, c.verdict = "none", c.lookup = "none",
           c.who \in Readers, c.since <= clock, NEW who,
           c.at = "coordis" /\ c.who \notin who /\ Coordis \in Groups \ c.failed
              => Out(members, changed, Coordis, c.who, Oldest(c.since))
    PROVE  LET d == Judge(c, who) IN
           /\ d \in Asking /\ CheckTrue(d, members, changed, clock)
           /\ d.verdict = "allow" => c.who \in who \/ c.area \in OpenAreas
           /\ d.verdict = "deny" => c.who \notin who /\ (Resolved(c.area) = Nowhere \/ c.at = "channel")
  <1>1. CASE c.who \in who
    <2>1. Judge(c, who) = Verdict("allow")
      BY <1>1 DEF Judge
    <2> QED BY <1>1, <2>1, VerdictIs DEF CheckTrue, InFlight
  <1>2. CASE c.who \notin who /\ c.at = "coordis"
    <2>1. Judge(c, who) = Decided(c)
      BY <1>2 DEF Judge, AfterCoordis
    <2> QED BY <1>2, <2>1, DecidedIs
  <1>3. CASE c.who \notin who /\ c.at # "coordis"
    <2>1. Judge(c, who) = Verdict("deny") /\ c.at = "channel"
      BY <1>3 DEF Judge, InFlight
    <2> QED BY <1>3, <2>1, VerdictIs DEF CheckTrue, InFlight
  <1> QED BY <1>1, <1>2, <1>3

LEMMA AskKeeps ==
    ASSUME AccessInductive, NEW k \in Checks, NEW r \in Readers, NEW a \in Areas, Ask(k, r, a) PROVE AccessInductive'
  <1> DEFINE c == [Unasked EXCEPT !.who = r, !.area = a, !.since = clock]
             d == IF a = "invalid" THEN Verdict("deny")
                  ELSE IF r \in Privileged THEN Verdict("allow")
                  ELSE IF Coordis = Nowhere THEN Decided(c)
                  ELSE [c EXCEPT !.at = "coordis", !.group = Coordis]
  <1>1. Move(k, d) /\ UNCHANGED <<members, changed, cache, clock>> /\ cache \in [Groups -> Entry] /\ clock \in Nat
    BY DEF Ask, AccessInductive, AccessTypeOK
  <1>2. /\ c \in Asking /\ c.at = "unasked" /\ c.verdict = "none" /\ c.lookup = "none" /\ c.who = r /\ c.since = clock
        /\ c.failed = {}
    BY <1>1, UnaskedIs DEF Asking, Unasked
  <1> HIDE DEF c
  <1>3. d \in Asking /\ CheckTrue(d, members, changed, clock)
    <2>1. CASE a = "invalid" \/ r \in Privileged
      BY <2>1, VerdictIs DEF CheckTrue, InFlight
    <2>2. CASE Coordis = Nowhere
      <3>1. Decided(c) \in Asking /\ CheckTrue(Decided(c), members, changed, clock)
        BY <1>1, <1>2, <2>2, AccessAssumption, DecidedIs
      <3> QED BY <2>1, <2>2, <3>1
    <2>3. CASE ~(a = "invalid" \/ r \in Privileged) /\ Coordis # Nowhere
      <3> DEFINE e == [c EXCEPT !.at = "coordis", !.group = Coordis]
      <3>1. d = e /\ Coordis \in Groups
        BY <2>3, AccessAssumption
      <3>2. e \in Asking /\ e.at = "coordis" /\ e.group = Coordis /\ e.who = r /\ e.since = clock /\ e.lookup = "none"
            /\ e.verdict = "none"
        BY <1>2, <3>1 DEF Asking, InFlight
      <3> HIDE DEF e, d
      <3> QED BY <1>1, <3>1, <3>2 DEF CheckTrue, InFlight
    <2> QED BY <2>1, <2>2, <2>3
  <1> HIDE DEF d
  <1>4. \A g \in Groups : EntryTrue(cache'[g], members, changed, clock, g)
    BY <1>1 DEF AccessInductive
  <1> QED BY <1>1, <1>3, <1>4, MovesOn

\* What is known of a check in flight.
LEMMA FlightIs ==
    ASSUME AccessInductive, NEW k \in Checks, check[k].at \in InFlight
    PROVE  LET c == check[k] IN
           /\ c \in Asking /\ c.who \in Readers /\ c.group \in Groups /\ c.verdict = "none" /\ c.since <= clock
           /\ c.since \in Nat /\ c.asked \in Nat /\ clock \in Nat /\ TTL \in Nat
           /\ c.at = "coordis" => c.group = Coordis
           /\ c.at = "channel" => c.group = Resolved(c.area)
           /\ c.at = "channel" /\ Coordis \in Groups \ c.failed =>
                 Out(members, changed, Coordis, c.who, Oldest(c.since))
           /\ c.lookup # "none" => c.since <= c.asked /\ c.asked <= clock
           /\ c.lookup = "answered" => Truly(c.answer, members, changed, c.group, c.asked)
           /\ members \in [Groups -> SUBSET Readers] /\ changed \in [Groups -> [Readers -> Nat]]
           /\ cache \in [Groups -> Entry]
  <1>1. check[k] \in Asking /\ CheckTrue(check[k], members, changed, clock)
    BY DEF AccessInductive, AccessTypeOK
  <1>2. check[k].since \in Nat /\ check[k].asked \in Nat
    BY <1>1 DEF Asking
  <1> QED BY <1>1, <1>2, AccessAssumption DEF AccessInductive, AccessTypeOK, CheckTrue

\* An entry that lives was asked for less than a TTL ago.
LEMMA LivingEntry ==
    ASSUME AccessInductive, NEW g \in Groups, clock < cache[g].until
    PROVE  \A r \in Readers :
             /\ r \in cache[g].who => In(members, changed, g, r, Oldest(clock))
             /\ r \notin cache[g].who => Out(members, changed, g, r, Oldest(clock))
  <1>1. /\ cache[g] \in Entry /\ EntryTrue(cache[g], members, changed, clock, g) /\ clock \in Nat
        /\ changed \in [Groups -> [Readers -> Nat]] /\ TTL \in Nat
    BY AccessAssumption DEF AccessInductive, AccessTypeOK
  <1>2. cache[g].until \in Nat /\ cache[g].until # 0
    BY <1>1 DEF Entry
  <1>3. cache[g].until - TTL <= clock /\ Truly(cache[g].who, members, changed, g, cache[g].until - TTL)
    BY <1>1, <1>2 DEF EntryTrue
  <1>4. /\ cache[g].until - TTL \in Int /\ Oldest(clock) \in Int /\ Oldest(clock) <= cache[g].until - TTL
    BY <1>1, <1>2, <1>3 DEF Oldest
  <1> QED BY <1>1, <1>3, <1>4, Earlier DEF Truly

LEMMA LookupKeeps == ASSUME AccessInductive, NEW k \in Checks, Lookup(k) PROVE AccessInductive'
  <1> DEFINE c == check[k]
  <1>1. c.at \in InFlight /\ c.lookup = "none" /\ UNCHANGED <<members, changed, cache, clock>>
    BY DEF Lookup, InFlight, Held
  <1>2. \A g \in Groups : EntryTrue(cache'[g], members, changed, clock, g)
    BY <1>1 DEF AccessInductive
  <1>3. CASE clock < cache[c.group].until
    <2> DEFINE who == cache[c.group].who
               d == Judge(c, who)
    <2>1. Move(k, d)
      BY <1>3 DEF Lookup
    <2>2. c.at = "coordis" /\ c.who \notin who /\ Coordis \in Groups \ c.failed
             => Out(members, changed, Coordis, c.who, Oldest(c.since))
      <3> SUFFICES ASSUME c.at = "coordis", c.who \notin who PROVE Out(members, changed, Coordis, c.who, Oldest(c.since))
        OBVIOUS
      <3>1. Out(members, changed, c.group, c.who, Oldest(clock))
        BY <1>1, <1>3, FlightIs, LivingEntry
      <3> QED BY <1>1, <3>1, FlightIs, OldestIsPast, Earlier
    <2>3. d \in Asking /\ CheckTrue(d, members, changed, clock)
      BY <1>1, <2>2, FlightIs, JudgeIs
    <2> HIDE DEF d
    <2> QED BY <1>1, <1>2, <2>1, <2>3, FlightIs, MovesOn
  <1>4. CASE ~(clock < cache[c.group].until)
    <2> DEFINE d == [c EXCEPT !.lookup = "asked", !.asked = clock]
    <2>1. Move(k, d)
      BY <1>4 DEF Lookup
    <2>2. /\ d \in Asking /\ d.at = c.at /\ d.lookup = "asked" /\ d.asked = clock /\ d.who = c.who /\ d.group = c.group
          /\ d.verdict = c.verdict /\ d.since = c.since /\ d.area = c.area /\ d.failed = c.failed
      BY <1>1, FlightIs DEF Asking
    <2> HIDE DEF d
    <2>3. CheckTrue(d, members, changed, clock)
      BY <1>1, <2>2, FlightIs DEF CheckTrue
    <2> QED BY <1>1, <1>2, <2>1, <2>2, <2>3, FlightIs, MovesOn
  <1> QED BY <1>3, <1>4

LEMMA ProvideKeeps == ASSUME AccessInductive, NEW k \in Checks, Provide(k) PROVE AccessInductive'
  <1> DEFINE c == check[k]
             d == [c EXCEPT !.lookup = "answered", !.answer = members[c.group]]
  <1>1. c.lookup = "asked" /\ UNCHANGED <<members, changed, cache, clock>> /\ Move(k, d)
    BY DEF Provide
  <1>2. c.at \in InFlight
    BY <1>1 DEF AccessInductive, CheckTrue
  <1>3. \A g \in Groups : EntryTrue(cache'[g], members, changed, clock, g)
    BY <1>1 DEF AccessInductive
  <1>4. members[c.group] \in SUBSET Readers
    BY <1>2, FlightIs
  <1>5. /\ d \in Asking /\ d.at = c.at /\ d.lookup = "answered" /\ d.asked = c.asked /\ d.who = c.who /\ d.group = c.group
        /\ d.verdict = c.verdict /\ d.since = c.since /\ d.area = c.area /\ d.failed = c.failed
        /\ d.answer = members[c.group]
    BY <1>2, <1>4, FlightIs DEF Asking
  <1> HIDE DEF d
  <1>6. Truly(d.answer, members, changed, d.group, d.asked)
    BY <1>5 DEF Truly, In, Out
  <1>7. CheckTrue(d, members, changed, clock)
    BY <1>1, <1>2, <1>5, <1>6, FlightIs DEF CheckTrue
  <1> QED BY <1>1, <1>2, <1>3, <1>5, <1>7, FlightIs, MovesOn

\* A check whose lookup is over.
LEMMA BackIs ==
    ASSUME NEW c \in Asking
    PROVE  /\ Back(c) \in Asking /\ Back(c).lookup = "none" /\ Back(c).at = c.at /\ Back(c).who = c.who
           /\ Back(c).verdict = c.verdict /\ Back(c).since = c.since /\ Back(c).area = c.area
           /\ Back(c).failed = c.failed /\ Back(c).group = c.group
  BY DEF Back, Asking

LEMMA ReceiveKeeps == ASSUME AccessInductive, NEW k \in Checks, Receive(k) PROVE AccessInductive'
  <1> DEFINE c == check[k]
             e == [until |-> c.asked + TTL, who |-> c.answer]
             d == Judge(Back(c), c.answer)
  <1>1. c.lookup = "answered" /\ UNCHANGED <<members, changed, clock>> /\ Move(k, d)
        /\ cache' = [cache EXCEPT ![c.group] = e]
    BY DEF Receive
  <1>2. c.at \in InFlight
    BY <1>1 DEF AccessInductive, CheckTrue
  <1>3. Truly(c.answer, members, changed, c.group, c.asked) /\ c.since <= c.asked /\ c.asked <= clock
    BY <1>1, <1>2, FlightIs
  <1>4. e \in Entry /\ e.until = c.asked + TTL /\ e.who = c.answer /\ e.until - TTL = c.asked
    <2>1. c.answer \in SUBSET Readers
      BY <1>2, FlightIs DEF Asking
    <2> QED BY <1>2, <2>1, FlightIs DEF Entry
  <1> HIDE DEF e
  <1>5. /\ cache' \in [Groups -> Entry]
        /\ \A g \in Groups : EntryTrue(cache'[g], members, changed, clock, g)
    <2>1. EntryTrue(e, members, changed, clock, c.group)
      BY <1>3, <1>4 DEF EntryTrue
    <2>2. cache \in [Groups -> Entry] /\ c.group \in Groups
      BY <1>2, FlightIs
    <2>3. cache' \in [Groups -> Entry] /\ cache'[c.group] = e /\ \A g \in Groups \ {c.group} : cache'[g] = cache[g]
      BY <1>1, <1>4, <2>2
    <2>4. ASSUME NEW g \in Groups PROVE EntryTrue(cache'[g], members, changed, clock, g)
      <3>1. CASE g = c.group
        BY <2>1, <2>3, <3>1
      <3>2. CASE g # c.group
        BY <2>3, <3>2 DEF AccessInductive
      <3> QED BY <3>1, <3>2
    <2> QED BY <2>3, <2>4
  <1>6. d \in Asking /\ CheckTrue(d, members, changed, clock)
    <2>1. c.at = "coordis" /\ c.who \notin c.answer => Out(members, changed, Coordis, c.who, Oldest(c.since))
      <3> SUFFICES ASSUME c.at = "coordis", c.who \notin c.answer
                   PROVE  Out(members, changed, Coordis, c.who, Oldest(c.since))
        OBVIOUS
      <3>1. Out(members, changed, c.group, c.who, c.asked)
        BY <1>2, <1>3, FlightIs DEF Truly
      <3>2. Oldest(c.since) \in Int /\ Oldest(c.since) <= c.asked
        BY <1>2, <1>3, FlightIs, OldestIsPast
      <3> QED BY <1>2, <3>1, <3>2, FlightIs, Earlier
    <2>2. /\ c \in Asking /\ c.verdict = "none" /\ c.who \in Readers /\ c.since <= clock
      BY <1>2, FlightIs
    <2> HIDE DEF c
    <2> QED BY <1>2, <2>1, <2>2, BackIs, JudgeIs
  <1> HIDE DEF d
  <1> QED BY <1>1, <1>5, <1>6, MovesOn

LEMMA LookupFailsKeeps == ASSUME AccessInductive, NEW k \in Checks, LookupFails(k) PROVE AccessInductive'
  <1> DEFINE c == check[k]
             b == [Back(c) EXCEPT !.failed = @ \cup {c.group}]
             d == Judge(b, {})
  <1>1. c.lookup # "none" /\ UNCHANGED <<members, changed, cache, clock>> /\ Move(k, d)
    BY DEF LookupFails
  <1>2. c.at \in InFlight
    BY <1>1 DEF AccessInductive, CheckTrue
  <1>3. \A g \in Groups : EntryTrue(cache'[g], members, changed, clock, g)
    BY <1>1 DEF AccessInductive
  <1>4. /\ b \in Asking /\ b.lookup = "none" /\ b.at = c.at /\ b.who = c.who /\ b.verdict = "none" /\ b.since = c.since
        /\ b.failed = c.failed \cup {c.group}
    <2>1. Back(c) \in Asking /\ c.group \in Groups /\ c.verdict = "none"
      BY <1>2, FlightIs, BackIs
    <2>2. Back(c).failed = c.failed /\ Back(c).lookup = "none" /\ Back(c).at = c.at /\ Back(c).who = c.who
          /\ Back(c).verdict = c.verdict /\ Back(c).since = c.since
      BY <1>2, FlightIs, BackIs
    <2> HIDE DEF c
    <2> QED BY <2>1, <2>2 DEF Asking
  <1> HIDE DEF b
  <1>5. c.at = "coordis" => c.group = Coordis
    BY <1>2, FlightIs
  <1>6. d \in Asking /\ CheckTrue(d, members, changed, clock)
    <2>1. c.who \in Readers /\ c.since <= clock
      BY <1>2, FlightIs
    <2> HIDE DEF c
    <2> QED BY <1>2, <1>4, <1>5, <2>1, JudgeIs
  <1> HIDE DEF d
  <1> QED BY <1>1, <1>2, <1>3, <1>6, FlightIs, MovesOn

LEMMA AccessNextKeeps == ASSUME AccessInductive, [AccessNext]_avars PROVE AccessInductive'
  <1>1. CASE UNCHANGED avars
    BY <1>1 DEF avars, AccessInductive, AccessTypeOK
  <1> QED BY <1>1, TickKeeps, JoinOrLeaveKeeps, AskKeeps, LookupKeeps, ProvideKeeps, ReceiveKeeps, LookupFailsKeeps
          DEF AccessNext

THEOREM AccessInductiveHolds == AccessSpec => []AccessInductive
  <1> QED BY AccessInitInductive, AccessNextKeeps, PTL DEF AccessSpec

FaultsCounted == lookupFaults \in Nat

LEMMA FaultsAreCounted == AccessSpec => []FaultsCounted
  <1>1. AccessInit => FaultsCounted
    BY DEF AccessInit, FaultsCounted
  <1>2. ASSUME FaultsCounted, [AccessNext]_avars PROVE FaultsCounted'
    <2>1. lookupFaults' = lookupFaults \/ lookupFaults' = lookupFaults + 1
      <3>1. CASE UNCHANGED avars
        BY <3>1 DEF avars
      <3>2. CASE AccessNext
        BY <3>2 DEF AccessNext, Tick, JoinOrLeave, Ask, Lookup, Provide, Receive, LookupFails
      <3> QED BY <1>2, <3>1, <3>2
    <2> QED BY <1>2, <2>1 DEF FaultsCounted
  <1> QED BY <1>1, <1>2, PTL DEF AccessSpec

\* A step that gives a check in flight no verdict says nothing of it.
LEMMA NoVerdictYet ==
    ASSUME NEW k \in Checks, check[k].at \in InFlight => check'[k].verdict = "none", check[k] \in Asking
    PROVE  Granted(k) /\ Denied(k)
  BY DEF Granted, Denied, InFlight, Asking

LEMMA OnlyMoves ==
    ASSUME AccessInductive, NEW k \in Checks, NEW c, Move(k, c)
    PROVE  check'[k] = c /\ \A j \in Checks \ {k} : check'[j] = check[j]
  BY DEF Move, AccessInductive, AccessTypeOK

\* A verdict given on the members of a group, which a lookup gives.
LEMMA GrantedIs ==
    ASSUME AccessInductive, NEW k \in Checks, check[k].at \in InFlight,
           check'[k].verdict = "allow" /\ check[k].area \notin OpenAreas =>
              WasIn(check[k].group, check[k].who, IF check[k].lookup = "none" THEN Oldest(clock) ELSE check[k].asked)
    PROVE  Granted(k)
  <1> DEFINE c == check[k]
  <1>1. /\ c.group \in Groups
        /\ c.at = "coordis" => c.group = Coordis
        /\ c.at = "channel" => c.group = Resolved(c.area)
    BY FlightIs
  <1>2. c.at = "channel" => {g \in Groups : c.area \in DirsOf[g]} = {c.group}
    BY <1>1, AccessAssumption, ResolvedIs
  <1> QED BY <1>1, <1>2 DEF Granted, InFlight

\* A denial after the lookup of a group that failed, if any did now.
LEMMA DeniedIs ==
    ASSUME AccessInductive, NEW k \in Checks, check[k].at \in InFlight,
           check'[k].verdict = "deny" => Resolved(check[k].area) = Nowhere \/ check[k].at = "channel",
           check'[k].verdict = "deny" /\ check[k].group \notin check[k].failed \cup Failing(check[k]) =>
              Out(members, changed, check[k].group, check[k].who, Oldest(check[k].since))
    PROVE  Denied(k)
  <1> DEFINE c == check[k]
  <1> SUFFICES ASSUME check'[k].verdict = "deny", Resolved(c.area) # Nowhere,
                      NEW g \in {Resolved(c.area), Coordis} \ (c.failed \cup Failing(c) \cup {Nowhere})
               PROVE  WasOut(g, c.who, Oldest(c.since))
    BY DEF Denied
  <1>1. c.at = "channel" /\ c.group = Resolved(c.area)
    BY FlightIs
  <1>2. CASE g = c.group
    BY <1>2 DEF WasOut, Out
  <1>3. CASE g # c.group
    <2>1. g = Coordis /\ Coordis \in Groups \ c.failed
      BY <1>1, <1>3, AccessAssumption
    <2>2. Out(members, changed, Coordis, c.who, Oldest(c.since))
      BY <1>1, <2>1, FlightIs
    <2> QED BY <2>1, <2>2 DEF WasOut, Out
  <1> QED BY <1>2, <1>3

LEMMA LookupVerdict == ASSUME AccessInductive, NEW k \in Checks, Lookup(k) PROVE Granted(k) /\ Denied(k)
  <1> DEFINE c == check[k]
             who == cache[c.group].who
  <1>1. c.at \in InFlight /\ c.lookup = "none"
    BY DEF Lookup, InFlight
  <1>2. CASE clock < cache[c.group].until
    <2>1. check'[k] = Judge(c, who)
      BY <1>2, OnlyMoves DEF Lookup
    <2>2. /\ c.who \in who => In(members, changed, c.group, c.who, Oldest(clock))
          /\ c.who \notin who => Out(members, changed, c.group, c.who, Oldest(clock))
      BY <1>1, <1>2, FlightIs, LivingEntry
    <2>3. Oldest(c.since) \in Int /\ Oldest(clock) \in Int /\ Oldest(c.since) <= Oldest(clock)
      BY <1>1, FlightIs, OldestIsPast
    <2>4. c.who \notin who => Out(members, changed, c.group, c.who, Oldest(c.since))
      BY <1>1, <2>2, <2>3, FlightIs, Earlier
    <2>5. LET d == Judge(c, who) IN
          /\ d.verdict = "allow" => c.who \in who \/ c.area \in OpenAreas
          /\ d.verdict = "deny" => c.who \notin who /\ (Resolved(c.area) = Nowhere \/ c.at = "channel")
      BY <1>1, <2>4, FlightIs, JudgeIs
    <2>6. Granted(k)
      <3>1. check'[k].verdict = "allow" /\ c.area \notin OpenAreas => WasIn(c.group, c.who, Oldest(clock))
        BY <2>1, <2>2, <2>5 DEF In, WasIn
      <3> QED BY <1>1, <3>1, GrantedIs
    <2>7. Denied(k)
      BY <1>1, <2>1, <2>4, <2>5, DeniedIs
    <2> QED BY <2>6, <2>7
  <1>3. CASE ~(clock < cache[c.group].until)
    <2>1. check'[k] = [c EXCEPT !.lookup = "asked", !.asked = clock]
      BY <1>3, OnlyMoves DEF Lookup
    <2>2. check'[k].verdict = "none"
      BY <1>1, <2>1, FlightIs DEF Asking
    <2> QED BY <1>1, <2>2, FlightIs, NoVerdictYet
  <1> QED BY <1>2, <1>3

LEMMA ReceiveVerdict == ASSUME AccessInductive, NEW k \in Checks, Receive(k) PROVE Granted(k) /\ Denied(k)
  <1> DEFINE c == check[k]
             b == Back(c)
  <1>1. c.lookup = "answered" /\ check'[k] = Judge(b, c.answer)
    BY OnlyMoves DEF Receive
  <1>2. c.at \in InFlight
    BY <1>1 DEF AccessInductive, CheckTrue
  <1>3. /\ c.who \in c.answer => In(members, changed, c.group, c.who, c.asked)
        /\ c.who \notin c.answer => Out(members, changed, c.group, c.who, c.asked)
        /\ c.since <= c.asked /\ c.asked <= clock
    BY <1>1, <1>2, FlightIs DEF Truly
  <1>4. Oldest(c.since) \in Int /\ Oldest(c.since) <= c.asked
    BY <1>2, <1>3, FlightIs, OldestIsPast
  <1>5. c.who \notin c.answer => Out(members, changed, c.group, c.who, Oldest(c.since))
    BY <1>2, <1>3, <1>4, FlightIs, Earlier
  <1>6. /\ b \in Asking /\ b.lookup = "none" /\ b.at = c.at /\ b.who = c.who /\ b.verdict = "none"
        /\ b.since = c.since /\ b.area = c.area /\ b.failed = c.failed
    BY <1>2, FlightIs, BackIs
  <1>7. c.who \in Readers /\ c.since <= clock /\ (c.at = "coordis" => c.group = Coordis)
    BY <1>2, FlightIs
  <1>8. LET d == Judge(b, c.answer) IN
        /\ d.verdict = "allow" => c.who \in c.answer \/ c.area \in OpenAreas
        /\ d.verdict = "deny" => c.who \notin c.answer /\ (Resolved(c.area) = Nowhere \/ c.at = "channel")
    <2> HIDE DEF b, c
    <2> QED BY <1>2, <1>5, <1>6, <1>7, JudgeIs
  <1> HIDE DEF b
  <1>9. Granted(k)
    <2>1. check'[k].verdict = "allow" /\ c.area \notin OpenAreas => WasIn(c.group, c.who, c.asked)
      BY <1>1, <1>3, <1>8 DEF In, WasIn
    <2> QED BY <1>1, <1>2, <2>1, GrantedIs
  <1>10. Denied(k)
    BY <1>1, <1>2, <1>5, <1>8, DeniedIs
  <1> QED BY <1>9, <1>10

LEMMA LookupFailsVerdict ==
    ASSUME AccessInductive, FaultsCounted, NEW k \in Checks, LookupFails(k) PROVE Granted(k) /\ Denied(k)
  <1> DEFINE c == check[k]
             b == [Back(c) EXCEPT !.failed = @ \cup {c.group}]
  <1>1. c.lookup # "none" /\ check'[k] = Judge(b, {}) /\ lookupFaults' = lookupFaults + 1
    BY OnlyMoves DEF LookupFails
  <1>2. c.at \in InFlight
    BY <1>1 DEF AccessInductive, CheckTrue
  <1>3. c.group \in Failing(c)
    BY <1>1 DEF Failing, FaultsCounted
  <1>4. /\ b \in Asking /\ b.lookup = "none" /\ b.at = c.at /\ b.who = c.who /\ b.verdict = "none" /\ b.since = c.since
        /\ b.failed = c.failed \cup {c.group} /\ b.area = c.area
    <2>1. Back(c) \in Asking /\ c.group \in Groups /\ c.verdict = "none"
      BY <1>2, FlightIs, BackIs
    <2>2. Back(c).failed = c.failed /\ Back(c).lookup = "none" /\ Back(c).at = c.at /\ Back(c).who = c.who
          /\ Back(c).verdict = c.verdict /\ Back(c).since = c.since /\ Back(c).area = c.area
      BY <1>2, FlightIs, BackIs
    <2> HIDE DEF c
    <2> QED BY <2>1, <2>2 DEF Asking
  <1>5. c.who \in Readers /\ c.since <= clock /\ (c.at = "coordis" => c.group = Coordis)
    BY <1>2, FlightIs
  <1>6. LET d == Judge(b, {}) IN
        /\ d.verdict = "allow" => c.area \in OpenAreas
        /\ d.verdict = "deny" => Resolved(c.area) = Nowhere \/ c.at = "channel"
    <2> HIDE DEF b, c
    <2> QED BY <1>2, <1>4, <1>5, JudgeIs
  <1> HIDE DEF b
  <1>7. Granted(k)
    BY <1>1, <1>2, <1>6, GrantedIs
  <1>8. Denied(k)
    BY <1>1, <1>2, <1>3, <1>6, DeniedIs
  <1> QED BY <1>7, <1>8

LEMMA VerdictStep ==
    ASSUME AccessInductive, FaultsCounted, AccessNext, NEW k \in Checks PROVE Granted(k) /\ Denied(k)
  <1>1. check[k] \in Asking /\ (check[k].at \in InFlight => check[k].verdict = "none")
    BY FlightIs DEF AccessInductive, AccessTypeOK
  <1>2. CASE check'[k] = check[k]
    BY <1>1, <1>2, NoVerdictYet
  <1>3. CASE Tick \/ \E g \in Groups, r \in Readers : JoinOrLeave(g, r)
    BY <1>2, <1>3 DEF Tick, JoinOrLeave
  <1>4. ASSUME NEW j \in Checks, NEW r \in Readers, NEW a \in Areas, Ask(j, r, a) PROVE Granted(k) /\ Denied(k)
    <2>1. check[j].at \notin InFlight /\ (j # k => check'[k] = check[k])
      BY <1>4 DEF Ask, InFlight, Move, AccessInductive, AccessTypeOK
    <2> QED BY <1>1, <1>2, <2>1, NoVerdictYet
  <1>5. ASSUME NEW j \in Checks, Provide(j) PROVE Granted(k) /\ Denied(k)
    <2>1. check'[k] = check[k] \/ (k = j /\ check'[k] = [check[k] EXCEPT !.lookup = "answered",
                                                             !.answer = members[check[k].group]])
      BY <1>5, OnlyMoves DEF Provide
    <2>2. check[k].at \in InFlight => check'[k].verdict = "none"
      BY <1>1, <2>1 DEF Asking
    <2> QED BY <1>1, <2>2, NoVerdictYet
  <1>6. ASSUME NEW j \in Checks, Lookup(j) \/ Receive(j) \/ LookupFails(j) PROVE Granted(k) /\ Denied(k)
    <2>1. CASE j = k
      BY <1>6, <2>1, LookupVerdict, ReceiveVerdict, LookupFailsVerdict
    <2>2. CASE j # k
      <3>1. check'[k] = check[k]
        BY <1>6, <2>2 DEF Lookup, Receive, LookupFails, Move, AccessInductive, AccessTypeOK
      <3> QED BY <1>2, <3>1
    <2> QED BY <2>1, <2>2
  <1> QED BY <1>3, <1>4, <1>5, <1>6 DEF AccessNext

\* Whatever entries of the cache several checks share and in whatever order
\* their lookups come back, a verdict was right not long ago.
THEOREM VerdictsAreRecent == AccessSpec => VerdictIsRecent
  <1> DEFINE Right == \A k \in Checks : Granted(k) /\ Denied(k)
  <1>1. ASSUME AccessInductive, FaultsCounted, [AccessNext]_avars PROVE [Right]_avars
    BY <1>1, VerdictStep
  <1> QED BY <1>1, AccessInductiveHolds, FaultsAreCounted, PTL DEF AccessSpec, VerdictIsRecent

=============================================================================
