# TheWatcher in TLA+

TheWatcher is a Python process that listens to the WhatsApp groups of a student
society through the gowa bridge, and keeps a Markdown wiki (a Lapis vault) of what
is discussed there. Messages are buffered in SQLite, cut into batches, sorted into
Threads by a language model and appended to Thread pages. Agents tell each other of
new material through Inbox pages, and bot admins approve changes by reacting to a
message. This directory models the parts of it that keep state between awaits,
checks them with TLC and proves the main invariants with TLAPS.

Paths below are those of the repository; "Spec" is `docs/Spec - Watcher v1.md`.
"Model checked" always means the small instance of the `.cfg` named; "proved" means
for every value of the constants.

## 1. Inventory

| Part (code) | State it keeps | Operations | Talks to |
|---|---|---|---|
| Job scheduler (`shared/scheduler/`) | registry, requested set, one `asyncio.Lock` per key, `runs` rows | `due_jobs`, `run_job` with retries, `try_run_exclusive`, `request_run` | driven by the loop of `main.py`; on-demand ingests and `/health` call in from webhook tasks |
| Application (`main.py`) | `WatchedChannelQueue`, in memory | tick, backfill and on-demand sweeps over Channels | scheduler, ingestion, observability |
| Webhook and buffer (`shared/gateway/webhook.py`, `buffer.py`, `events.py`) | `messages_buffer` rows, processed flags | `receive_webhook`, edits, revokes, `pending_messages`, `mark_consumed` | commands, chat hook, reaction hook |
| Gateway runtime (`runtime.py`, `app.py`, `interface.py`) | hooks | `request_history`, `on_channel_watched`, `send` | gowa |
| gowa client (`gowa_client.py`) | the rate limiter's lock, `outbound_log` | `send_text`, reads | gowa |
| Channels and identities (`channels.py`, `shared/db.py`) | `channels` (kind, initiative, cursor), `members_registry` | allowlist, cursor, upsert, unwatch, `link_member` | everyone |
| Commands (`commands.py`, `command_handlers.py`, `agent_switch.py`) | the agent switch | `/setup-members`, `/link`, `/ingest`, `/unwatch`, reports | onboarding, CMS, ingest hook, scheduler |
| Onboarding (`onboarding.py`) | `setup_sessions` | `/setup`, the three-step dialogue, `register_channel` | vault, channels, history import |
| Ingestion (`agents/wa_agent/ingestion.py`) | in-memory batch | cut, assign, write buckets, consume, cursor, notices | buffer, models, Thread store, Project Agent's inbox |
| Assignment and revision (`assign*.py`, `revise.py`) | none | place each message on a Thread, render items with their ids | models |
| Thread store (`shared/wiki/threads.py`) | the pages it has read, by unit of work | `create`, `revise`, `mark_stale`, `archive_ended`, `reindex`, `relocate` | vault |
| Lifecycle (`lifecycle.py`) | none | daily pass, Sunday nudge | Thread store |
| Inboxes (`shared/inbox/interface.py`) | one page per agent: Pending, Done | `post`, `pending`, `ack`, consumers | vault; wakes a job |
| Project agent (`agents/project_agent/agent.py`) | none of its own | `run_once` | inbox, thread pages, initiative pages, model |
| Proposals (`agents/wa_agent/proposals.py`, `shared/gateway/proposals.py`) | `proposals` rows | `propose`, `handle_reaction`, `confirm`, `expire_stale` | gowa, vault, links |
| Chat agent (`chat.py`, `wiki_tools.py`) | none of its own: buffer, `outbound_log` | answer a mention or a reply with read-only tools | model, gowa, on-demand ingest |
| Vault clients (`shared/wiki/lapis_client.py`) | none | read, create, write at a base revision, list, delete | Lapis, or a directory |
| Wiki text (`parser`, `editor`, `items`, `timeline`, `templates`, `schema`, `layout`, `names`, `lint`, `derive`) | none | pure functions on pages | |
| Access policy (`shared/security/access.py`) | a TTL cache of memberships | `can_read` | Channels, a membership provider |
| Models (`shared/models/`) | none | text and decision calls, retries | OpenRouter |
| CMS (`shared/cms`) | a cache per call | roster lookup, fuzzy match | |
| Observability (`shared/observability`) | ambient run context, `model_calls`, `obs_ingest_*` rows | log a call, roll a Channel and a run up | models, ingestion |
| HTTP adapter (`shared/http_adapter.py`) | none | read-only routes, and `due_jobs` | scheduler |
| Research agent (`agents/research_agent`, TypeScript) | a state page in the vault | three jobs in two workflows | Lapis, arXiv, HF, HN, model |
| Innovation agent (`agents/innovation_agent`) | idea pages | lanes, gate, publication; run by hand | vault, model |

**How they interact.** One event loop runs everything in Python. `scheduler_loop`
awaits its jobs one after another; each webhook delivery is a task of its own, so
commands, reactions, chat answers and on-demand ingests overlap the loop at every
await. The lock keys serialise only what takes them: the ingest jobs and the on-demand
ingest share `ingest_tick`, and nothing else shares a lock. Everything else meets in
shared state: the SQLite rows, which are read and written in separate transactions,
and the vault's pages, which humans and Lapis clients edit at the same time and which
are guarded by a revision where the code passes one. The research agent's two
workflows are processes of their own and share only the vault.

**What is hard.** Read, await, write on rows and pages; a batch of several writes
that fails or is cut by a restart half-way and is then retried whole; the answer of
a write that took effect but was lost; redelivered, edited and revoked messages; a
queue of on-demand callers at the lock of the loop; deadlines that race the answer
they wait for; a move that is a create and then a delete; a vault that merges some
stale writes and refuses others; cache entries shared by checks that overlap; answers
of a model that repeat, forget or invent ids.

**What makes each part correct.** Scheduler: tasks of one key exclude each other, a
due or requested job is run, the ledger says what happened. Buffer and ingestion:
every message of a watched Channel ends on a Thread page or is dropped on purpose,
once. Sweeps: what a run cost is what its calls cost, no Channel starves. Assignment:
each message lands once, replies with what they reply to. Thread store: ids are
unique, no message and no human line leaves the wiki, only humans end a Thread and
what they end is archived. Inbox: a call is atomic, nothing is overwritten. Project
agent: whatever is on a thread page and not on the initiative page is still pending
somewhere. Proposals: what is confirmed has happened, nothing is pending for ever.
Onboarding: one Channel of a singleton kind, no page left behind by a retitle, no
initiative without a page. Members: a row is one member's, a link by hand stands.
Wiki text: what an agent writes parses back, what a human wrote outside the fences
stays. Access: a verdict is that of a recent membership. Chat: one answer, to whom it
was owed. Research agent: no paper pushed twice to a page, no digest passed over.

`PROJECT.json` lists every part with its status, and under `hazards` the places in
the code where these things could go wrong, each with the properties that watch it.

## 2. Modules

| Module | Models | State and actions |
|---|---|---|
| `Scheduler` | `scheduler.py`, the loop of `main.py`, `/health` | `requested`, `row`, `locked`, `waiters` are the code's fields; `pc` is where each task stands between two awaits. `Poll` is `due_jobs`, `RunJob` the acquire, `StartAttempt` … `Alert` are `_run_with_retries`, `TryRunExclusive` tests `locked()` and then acquires, in one step when the lock is free and by queueing behind the waiters when not, as `asyncio.Lock` does |
| `Sweep` | the sweeps of `main.py` over all Channels, the queue of Channels to backfill, the accounts of `shared/observability` | `sweep` is the run that holds the ingest lock; `context` is what each task's context variables hold, `ledger` the logged calls in order, `row` the rows they are rolled up into |
| `InboxItems`, `Inbox` | `shared/inbox/interface.py` | items as records; a call is read, compute, write at the base revision, retried on conflict |
| `Mailbox` | nothing: the abstract promise of an inbox (ADR 14) | each call takes effect at once or not at all |
| `ProjectAgent` | `run_once` and the ingestion that posts to it; extends `Inbox` | `material` and `carried` count the items on a thread page and on the initiative page |
| `MessageBuffer` | the buffer, the intake, the admin commands of a Channel | `rows` in id order, with the version of the text and an age in ticks |
| `Ingestion` | the pipeline of one Channel and its entry points; extends `MessageBuffer` | `at` is the await the run is at; a Thread page is the sequence of buckets appended to it; the assigner's `plan` puts a message on a Thread, among the chatter, or nowhere (`MayBeLeft` bounds what it may leave out by what `Assignment` shows it does), and `missed` keeps what was consumed from nowhere |
| `Assignment` | `assign.py`, `assign_jev.py` for one batch | lists are sets of places in the batch, what follows a message is the least closed set over replies; `stage` follows the two assigners; a model's answer is any that its schema admits, and each validation, retry, salvage and hand-over decides where a message has `landed` |
| `Revision` | the ids of `update_thread` and `render_items` | one action renders an item, one starts the next revision |
| `Proposals` | proposals, reactions, executors, expiry | a webhook task per thumbs up, one page written by the executors |
| `Threads` | the Thread store and the lifecycle pass | the pages of a Channel and of its archive; `run` and `pass` are two stores, each with what it has read; `merged` keeps the buckets that a merge of Lapis left in a stale or an ended Thread |
| `ThreadLife` | nothing: the promise of `threads.py`'s docstring, one life of each Thread | how far a Thread has come and what it has kept; a move to the archive is one step. It names the steps that only a merging vault takes (`TakesMerged`, the `young` of `FallsSilent`, the `lost` of `Retires`) |
| `Onboarding` | `/setup`, the dialogue, `register_channel`, `relocate`, `/unwatch` | rows of `channels` and `setup_sessions`, pages by directory; a task per delivery, each action the code between two awaits |
| `Members` | `/link`, `/setup-members`, `link_member` | `registry` rows, the commands being handled, and what each has loaded |
| `Pages` | `parser.py`, `editor.py`, lint's repair, humans at the same text | a page is a sequence of lines of five sorts; `Parse` and the agents' writes are functions on it |
| `Access` | `access.py` | checks at their awaits, the shared cache, members who come and go; a Channel is found by its directory or by the slug of its JID |
| `Chat` | `chat.py`, the intake of what it reads, `send_text` with its limiter | `hook` is how far each post's message hook is, `line` the queue at the limiter |
| `ResearchAgent` | the two workflows of `agents/research_agent` | `run` is a run of either workflow, of which several may go on at once, `memory` is the state page, `page` counts the lines of each URL, `doubled` keeps what an answer named twice |

`MC*.tla` give the constants their small values; `*Proofs.tla` hold the theorems. The
comment of each action names what the code does there; `map` in `PROJECT.json` gives
its lines.

Composition: `ProjectAgent` composes ingestion's notices, the inbox and its consumer;
`Ingestion` composes the intake and the pipeline; `Sweep` composes the loop, the chat
task and the accounts around batches that `Ingestion` looks into. `Ingestion` and
`Sweep` take from `Scheduler` that the lock key excludes (proved there), so they have
one run at a time; `Threads` looks again, closer, at what one such run does to the
pages. Components that share no state are checked in one run without a product:
`MCOnboarding` (`Onboarding`, `Members`), `MCPages` (`Pages`, `Revision`,
`Assignment`, `Access`) and `MCInbox` (`Inbox`, `Chat`) have a variable `who`, chosen
at the start; in a behaviour that component moves and the others stay where they
begin. Every behaviour of each is there, none is constrained by another.

**The vault.** A directory refuses every stale write (`LocalDirClient.write`, and the
contract of `VaultClient`); Lapis merges a stale write that overlaps nothing
(`LapisClient.write`). `Ingestion`, `Proposals` and `Threads` have both, by the
constant `Merges`; their theorems hold for either value unless they say otherwise, and
each property names what a merge can do to it: `NothingClobbered`, `StaleIsSilent` and
`IdsAreUnique` leave out the buckets in `merged`, `ThreadLife` has steps for them,
`EndedStaysClosed` lets an ended Thread take the lines of the run that had read it as
open. The runs `threads` and `proposals` merge, `ingestion` refuses. The inbox is
modelled over a vault that refuses; what a merged post does to Pending is not
modelled. A vault call is atomic.

## 3. Runs

All passing runs explore every reachable state of their instance (`ingestion`: every
one with at most two disturbances). `CHECK_DEADLOCK` is FALSE where bounded counters
(faults, edits, rows, revisions) end every behaviour; the scheduler, which never
stops, is checked for deadlock. Symmetry (writers, Threads,
tasks, checks that nothing tells apart) is used only in runs whose properties are all
safety properties that treat them alike.

| Run | Properties | Bounds and why |
|---|---|---|
| `scheduler` | `MutualExclusion`, `OpenRowIsRunning`; `DueJobRuns`, `RequestedJobRuns`: neither a due nor a requested job is starved | two jobs with two keys, one on request and one on a timer; two on-demand callers, so that a waiter and a newcomer compete; one retry, one restart, one `/health` |
| `sweep` | `AccountsAgree`: the dashboard and the report cannot disagree; `BackfillIsKept`: a Channel leaves the queue only when caught up, unwatched or by a restart; `CaughtUp`: its messages are ingested in the end | two Channels, one watched from the start; two messages, two model calls, two faults or restarts, three admin commands |
| `inbox` | `NothingOverwritten`, `Implements` (the page implements `Mailbox`); `OneAnswerEach`, `Heard`: no post is answered twice, and who is heard is answered | two writers and a human, two threads, two attempts, three writes: each retry can meet a conflict. Chat: two posts of members and what the bot posts, two of them in the buffer, a context of one message, one fault, restart or toggle, redeliveries without bound |
| `project_agent` | `NothingForgotten`: what is new is still owed; `Delivered`: it is carried in the end | under the loop alone, two threads of two items, two faults of any kind |
| `ingestion` | `ConsumedWasRead`: nothing is lost, but what the assigner left in no bucket; `WrittenOnce`: only what a cut-off batch had on pages is written again; `EndedStaysClosed` | three rows, batches of two, two Threads, the refusing vault; any two of: an edit or revoke, an `/ingest`, a failing call, a restart, a human edit (a state constraint counts them), each at any point, so that a row changes under the batch that has it, a command's own row is cut, and a batch is cut off, retried and cut off again |
| `ingestion_progress` | `EventuallyConsumed` | one failing call, every command, a reaction, an edit or revoke, two rows, one Thread, two batches in a drain; no human edits, so that the vault's kind makes no difference |
| `pages` | `RoundTrip`, `HumanTextKept`; `ItemsHaveIdentity`, `IdentityIsKept`; `NothingDropped`, `RepliesFollow`, `NewThreadsAreNamed`; `VerdictIsRecent` | a type with a managed, an append and a shared section, two writes of agents among two edits of humans; three items in two revisions; every batch of three that `MCAssignment` lists (replies in and out of the batch, to oneself, and in circles), in both modes; two checks, a TTL of two, three groups (two of one directory, one asked for by its JID), one who joins or leaves, one failing lookup |
| `proposals` | `ConfirmedIsThere`; `Settles`: nothing stays pending | two proposals of every kind the code has, two concurrent thumbs up, one fault or human edit, the merging vault |
| `threads` | `NothingClobbered`, `IdsAreUnique`; `LivesOneLife` (the two stores implement `ThreadLife`, of which `StaleIsSilent` is a consequence); `Archived`: an ended Thread is archived in the end | two ids, so that one is wanted again after its Thread moved, three buckets, two human edits, one interrupted pass, the merging vault (whose behaviours include those of the refusing one, as a merge may also fail) |
| `onboarding` | `AtMostOne`, `InitiativeHasPage`, `NoPageLost`; `LinksStand`, `WholePerson`, `RowsAgree` | two groups, two handlers, two `/setup` or `/unwatch`, three replies (what a dialogue takes; a `/setup` in between makes one of them late), one handler that dies; two persons, one with two identities, two handlers, three commands, one call that fails |
| `research` | `NeverAddedAgain`: a URL that a page has is not added, whatever overlaps; `CalmPromise`: across pages, while runs neither overlap nor fail; `DigestIsHandled` | one run of each workflow at a time (the proofs are for any number), two papers, one there by hand and one new, a project's page and the common one, two picks an answer, two troubles (a digest that comes or changes, a run that dies) |
| `assignment_jev_lost` | violation of `EveryMessagePlaced`: in Jev mode a reply to a reply to a handed-over message lands nowhere, and ingestion consumes it | those batches of three that have no circle of replies |

Why these bounds: each hazard needs two actors and one disturbance (a fault, a
restart, an edit), and the disturbance can fall at every step. A third row or id lets
one be consumed, one be in the batch and one arrive. Every action of each module
fires in its runs, and every property has a mutant (a definition with a plausible bug,
just before the real one, marked `BUG` or by its name) which TLC rejects.

Some properties name the case in which the code does not keep them, because the code
does not promise it there: `raced` and `crossed` in `Onboarding`, `overtaken` and `blind` in
`Members`, `calm` and `doubled` in `ResearchAgent`, `UsedUp` in `Revision`, `WaitsForCircle` in
`Assignment`, the texts `RoundTrip` excepts, `torn` and `missed` in
`Ingestion`, `merged` in `Threads`. Section 5 says what happens in those cases.

**Fairness.** `Scheduler`: the event loop runs ready tasks and handlers end (HTTP
calls carry timeouts), so loop steps, callers inside a lock and the clock are weakly
fair; requests, restarts and `/health` are not. `Sweep`: the loop polls and starts the
jobs it has found, the steps of a sweep return, and a batch gets old enough for a tick
(`Ripen`). `Ingestion`: the tick starts again and again, the steps of a run return,
handlers end. `ProjectAgent`: as there, and strong fairness of the start of a run,
because each failure of another part can disable it for a moment and the two-minute
job comes round. `Proposals`: the job and tasks run, deadlines pass; reactions owe
nothing. `Threads`: only the lifecycle pass, which comes round daily. `Chat`: each
hook task that can go on does; the model and gowa answer or fail. `ResearchAgent`: the
hourly workflow, which GitHub starts again and again and the steps of whose runs end; the periodic
one owes nothing. No run assumes that a human acts or that failures stop, except
through the bound on their number. `Onboarding`, `Members`, `Pages`, `Revision`,
`Assignment` and `Access` have safety properties only.

## 4. Proofs

| Module | Theorems | Argument |
|---|---|---|
| `SchedulerProofs` | `SchedulerTypeOK`, `LocksExclude`, `LocksAreHeld`, `LedgerIsTrue`; `ResearchInductiveHolds`, `PapersGoOnce`, `PageTakesUrlOnce` | the types, what the loop's `job` and `attempt` say at each place (`LoopInv`), and `NoLeakedLock` in both directions are inductive together. `MutualExclusion` alone is not: a resumed waiter takes a lock without testing it, so one needs that a locked key has exactly the one task inside. For the research agent, one line on a page stays one, and so does every copy a run holds (`OneLine`); that is what `NeverAddedAgain` needs of stale writes. While the runs are undisturbed there is one at a time (`Alone`), it has the state and its page as they are and picks only what was never pushed (`UpToDate`), and what was pushed is in the state or in what the run will save (`Remembered`) |
| `InboxProofs` | `InboxTypeOK`, `InboxCoalesces`, `InboxNeverOverwrites`, `InboxIsAMailbox`; `AgentInductiveHolds`, `NothingIsForgotten` | `BaseIsSeen`, that a writer holding the current revision holds the current page, makes each accepted write a step on the page as it stands; then lemmas on `Posted` and `Acked` give the rest, and the refinement of `Mailbox` step by step. For the Project Agent on top of it, `AgentKnows` says at each place of a run what it has read and carried, `TakesTurns` that a batch of ingestion and a run of the agent do not overlap, and `StillOwed` that every item not carried yet has a notice: one that is pending, that is about to be posted, or whose post has been reported as failed. An item may be acked only if it was carried, which holds because nothing was merged into it since the agent read it. `NothingIsForgotten` assumes that the loop alone runs the two (`~OnDemand`), and needs to (section 5) |
| `IngestionProofs` | `IngestionTypeCorrect`, `NothingIsLost`, `CursorIsTrue`, `CursorOnlyAdvances`, `OnlyPendingIsWritten`, `EndedTakesNothing`, `EachMessageOnce` | `Inductive` says what each place of the run implies of the batch: it is the oldest pending rows (`Oldest`), unconsumed until `Consume` (`BatchPending`) and consumed after (`BatchConsumed`), every row of it is on a page, dropped, left in no bucket or still to be written (`Undecided`, `Kept`), and a Thread ended since it was read is stale (`EndedIsStale`). `NothingIsLost` leaves out what the assigner put in no bucket (`missed`, section 5). `EndedTakesNothing` is for both vaults: over one that refuses, an ended Thread takes nothing, over one that merges, only from a run that had read it as open. For `EachMessageOnce`, ids are distinct (`DistinctIds`), and what is on a page came with the batch that is being written or is older than everything that can still be cut (`PageIsPast`); so a bucket repeats nothing and is newer than what its page has. A batch that is cut off breaks that for its own rows, and only for them (`torn`) |
| `ThreadsProofs` | `ThreadsTypeCorrect`, `NothingIsClobbered`, `StaleMeansSilent`, `IdsStayUnique`, `ThreadsLiveOneLife`, `RefusingVaultKeepsAll`; `AssignInductiveHolds`, `EachLandsOnce`, `RepliesGoAlong`, `NewThreadsHaveNames` | over a vault that refuses stale writes and over one that merges them. `PassIsTrue`: what the pass holds of an ended Thread is still on its page, which has gained at most what was merged into it; what it is about to call stale was silent when read; and it deletes a page only once the archive has what it had read. `RunKnows`: a run has read every page of the Channel, and every archived id is taken when it mints one; and as one run at a time writes buckets, it holds all the buckets of a page, so that a merge can misplace only the bucket being written (`Numbered`: which is on no page yet). The three safety invariants are inductive with these, and leave out `merged`, which stays empty over a vault that refuses (`RefusingVaultKeepsAll`: there nothing is left out). Under them every step of the stores is a step of `ThreadLife` or stutters: a Thread is archived from when its copy is there, so the delete that follows, or the next pass's second try, changes nothing of it. For a batch, every message is pending, waits for another, or has landed, and only one of the three (`InPlace`); those that wait close into cohorts which `Put` lands whole (`RepliesWait`). That nothing is left over at the end needs more: if every pending message waits for another, then some wait in a circle (`CircleBehind`, by well-founded induction on the size of what is behind a message), and that is the case the property excepts |
| `OnboardingProofs` | `OnboardingInductive`, `OneChannelPerKind`, `LinksHavePages`, `TextsSurvive`; `MembersInductiveHolds`, `RowsAlwaysAgree`, `SetupNeverRelinks`, `PersonsAreWhole` | `Sound` says of each place of a handler what it has read and what it is owed. A kind looked up and found free is free until its Channel is written or the kind is `raced` (`KindIsFree`, `Alone`, `Meeting`); a dialogue that was found is still in the table (`DialoguesFound`); the page a handler moves alone is still as it was read (`HeldIsThere`); and a text is at some place that no handler is about to empty (`TextIsSafe`). That there is a newest dialogue is by well-founded induction on its index. For the registry, `Knows` says of each place of a command that the identities it has passed are linked, or were not when it looked, and that its row and what it loaded are one member's; the two action properties follow from it |
| `PagesProofs` | `TextIsLines`, `TextRoundTrips`, `HumansTextStays`, `ReadingLeavesText`; `RevisionInductive`, `IdsStayDistinct`, `ItemsKeepTheirId` | the text of a page is its preamble and then each header with its body (`LaidOut`), and where the headers stand increases. If no line of a body is a header, and no part but the last lacks its newline, these are all the places of a header, so a parse finds just these and gives the page back (`DumpParses`); the other way round, what a parse cuts a text into writes back to it (`ReadingKeeps`). `Edited` says what every operation of the editor does to a page of that kind: it leaves such a page, and every line outside its fences; so each write parses back, and keeps what humans wrote. The inductions over sections and lines are by the least counterexample of a set of numbers (`UpTo`), which the library's induction theorems cannot be cited for. For the items of a revised page, `Whence`: an id of the page that the answer has used already was given by the model, is the item's own, or was minted when the shorter widths were taken; so no other item takes an id before its owner comes. |
| `SweepProofs` | `SweepInductiveHolds`, `AccountsAlwaysAgree`, `BackfillKeepsItsQueue`; `ChatInductiveHolds`, `OneAnswerOnly` | no task keeps a context it has left, so a call is logged for the Channel the sweep is at or not at all (`Scoped`); nothing is logged for a Channel before its turn (`NotYet`); hence what the run has added up, with the Channel it is at, is all that is logged (`Accounted`), and a Channel that has its row is logged for no more (`Closed`). For the queue: what a sweep owes the Channel it is at is still in its buffer, and is nothing once the batches have gone through (`Owing`). For the chat, a post has one row, which comes before its hook (`RowsOnce`, `HooksCame`); who is in the limiter's line is there once and has not sent (`InLine`), the hook of an answered post is over (`AnsweredOnce`), and what is being asked has the post and what it replies to (`AskedWith`) |
| `ProposalsProofs` | `ConfirmedHasHappened`; `AccessInductiveHolds`, `VerdictsAreRecent` | `Underway` says of each executor's place what it has already done to the wiki; a row is confirmed only from the last of them. It is for a vault of either kind. For the policy, `EntryTrue` and `CheckTrue` say that what a cache entry or an answer on its way tells of a group was so when it was asked for, and nobody's coming or going can untrue that; the verdict's window follows from the TTL. |

The assumptions are the named `ASSUME`s of the modules: that bounds are naturals,
sorts of identifiers are disjoint and a page's schema lists its sections in a sequence. The proofs hold for any number of jobs, callers,
sweeps, writers, rows, Threads, proposals, faults and restarts, groups, members, posts,
papers, project pages, lines, sections, writes and edits of a page, items of a page and
messages of a batch, with any replies among them. The type invariants,
`Coalesced`, `BaseIsSeen`, `CursorIsConsumed`, `CursorNeverBack`, `StaleIsSilent`
and `WritesArePending` are proved and no run repeats them.

Model checked only: liveness (`DueJobRuns`, `RequestedJobRuns`, `Delivered`,
`EventuallyConsumed`, `Settles`, `Archived`, `CaughtUp`, `Heard`, `DigestIsHandled`),
because TLAPS cannot reason about fairness and `ENABLED`.

## 5. Where code and documents differ

The run `assignment_jev_lost` is a violation, and `findings` quotes the sentence it
refutes. The following were met while reading and modelling; some of them earlier
runs of this project exhibited as violations, and none is shown by a run now.

Ingestion, Threads and the Project agent:

- A batch that fails after its first bucket is retried whole, and writes that bucket
  again (Spec l.104, buffer.py:16-17). `WrittenOnce` excepts those rows (`torn`).
- An edit or a revoke that is accepted while its batch runs never reaches the page
  (webhook.py:79, against Spec l.92); an edit does not restart the quiet period
  (webhook.py:77, against Spec l.92).
- A batch is consumed whole (ingestion.py:336), with the messages that the assigner left
  in no bucket: replies in a circle, and what `assignment_jev_lost` shows. They are
  lost; `ConsumedWasRead` excepts them (`missed`).
- Over Lapis, which merges, a Thread that a human ended still takes the lines of a run
  that had read it before (lapis_client.py:377). `archive_ended` copies what its store
  has read and deletes the page by its path (threads.py:297, 308): lines merged after
  that reading go with the page. If the pass was cut off between the two calls, the
  next one finds another page in the archive and leaves both to a human.
  `NothingClobbered` and `IdsAreUnique` except such buckets (`merged["ended"]`).
- Over Lapis, the mark of `mark_stale` can be merged with the lines of a run that wrote
  after the pass had read (threads.py:284): the Thread is stale with young messages. So
  is one that was marked after a run had read it: the run's lines are merged, and its
  state, active before and after, is no change. `StaleIsSilent` excepts such buckets
  (`merged["stale"]`); a later run that reads the Thread as stale revives it.
- A human's line on an ended Thread, written while the pass archives it, is deleted
  with the page (threads.py:308), over either vault.
- With an on-demand ingest, a notice that is merged into an inbox item just being
  acked goes with the ack (agent.py:195).
- A second `revise` of one Thread by one store after a merged write would write over
  the merge, since `_write` keeps the text it sent with the revision of the result
  (threads.py:249-252). A batch has one bucket per Thread, so it does not happen now.
- Two block ids can be equal once the page and the answer have used up the three
  widths that are looked up; `_mint_evidence_id` of the innovation agent does the same.
  From there an item can lose its id to another: the page has three items of one text
  and a fourth, reworded, whose id is the long one of that text; the next answer
  names the text twice more, the second of them is given that long id, and the
  reworded item is minted a new one. This was the step of the proof that failed;
  `IdentityIsKept` excepts it (`UsedUp`).
- Replies can run in a circle, and then nothing asks about them. Pending messages come
  in the order in which they arrived, and messages of one sender within the window
  are concatenated (ingestion.py:124): when the later part of such a pair was sent
  first and a message in between replies to it, while the earlier part replies to
  that message, each waits for the other (assign.py:446). No model is asked about
  either, and the batch is consumed without them. The proof needed that
  replies have no circles, which showed that batches with one had been left out of
  `MCBatches`; they are there now, and `NothingDropped` excepts what waits for a
  circle (`WaitsForCircle`).

Scheduler and sweeps:

- `/health` and `GET /scheduler/due-jobs` call `due_jobs()`, which empties
  `_requested` (scheduler.py:105): a requested run is lost, although ADR 14 item 4
  promises it for the next poll. `RequestedJobRuns` excepts it.
- `try_run_exclusive` tests `locked()` and then acquires: a lock released but promised
  to a waiter looks free, and the caller queues where the docstring
  (scheduler.py:129-131) says it returns at once.
- A Channel that fails ends the tick for those after it, in every tick it fails in
  (main.py:224-247): one that always fails starves them, and `CaughtUp` rests on the
  bound on faults. The report's error line cannot be reached. A drain whose
  later batch fails records no messages. A Channel that is watched again while its
  backfill runs is popped and left to the tick; a scheduled backfill that failed is
  requested again only when another Channel is watched.
- An unwatched Channel can still be ingested by `/ingest` (main.py:168, against
  CONTEXT.md l.43).

Onboarding and members:

- Two `/setup other` with titles of one slug share a directory. Overlapping `/setup`s
  of one Channel mix their columns, since the ORM writes those that differ from what
  it loaded; two of one singleton kind both find none. `relocate` deletes
  a page without the revision it copied (threads.py:383): a line written meanwhile goes
  with it; `NoPageLost` is about the text a Channel began with. The same delete loses
  more when two handlers move one page at once (its place is in `crossed`): the second
  one's delete takes whatever a third move has put there since. This came up as the
  step of the proof that failed; the bounds of `onboarding` are too small for it, three
  `/setup`s of two Channels show it, and `NoPageLost` excepts those places.
- `request_history` looks an id up and then inserts it, without catching the
  IntegrityError of a row that came meanwhile (runtime.py:132): the import ends there.
- A `/link` while the roster is down keeps the CMS id of the member before (`blind`).
  `/setup-members` links fuzzy matches directly, where db.py:100-103 and Spec l.97 want
  a Proposal first; it may overwrite a `/link` made during its turn (`overtaken`).
  `CmsClient`'s cache is never used across calls.

Proposals:

- A late thumbs up makes `confirm` mark the row expired, and its reply is dropped by
  `_dispatch_reaction` (webhook.py:145): the proposal expires without the notice that
  Spec l.113 promises. For the same reason a confirmation has no reply.
- `expire_due` writes back rows it selected earlier (gateway/proposals.py:90), so a
  confirmation in between ends as expired although the change is in the wiki; two
  thumbs up may execute one `wiki_write` twice; a thumbs up before `set_message_id`
  finds nothing; and only bot admins' reactions count, where Spec l.113 also names the
  lead.

Wiki text:

- With a half-deleted fence, the second write after it takes human text into the
  fence. A final `## X` without a newline becomes a section on the next write.
  `repair_missing_sections` glues its header to a last line without a newline, and
  adds a section the page has under an alias.
- Of the innovation agent's stores one keeps a pitch's outcome as `outcome`
  (memory_interface.py:246), the other as its `status` (l.416).

Chat:

- A reply to a bot message whose `outbound_log` row is not committed yet, or was cut
  off by a restart, is not taken for one. A post that history imports first, or that a
  restart cuts off between its row and its hook, is a duplicate when it is delivered
  again and is never answered. Two `/toggle-agent` at once may count as one.

Research agent:

- The second job of a day overwrites the first one's digest page. One paper under two
  URLs or ids is pushed twice; a project path the model invents becomes a page; an id
  named twice in an answer is added twice. Overlapping runs overwrite each other's and
  humans' lines and the state page; after a crash between push and save the paper may
  be pushed to another page.
- A line that an answer doubled, and that an overlapping run's write brought
  back to one, is doubled again when another run writes its older copy of the page. The
  proof failed here without the record of what was ever doubled (`doubled`), which
  `NeverAddedAgain` excepts; with `ByHand` empty TLC shows the overlap.

The access policy is wired to nothing in `main.py`, and the innovation agent's gate
names `Origin.REMIDIAL` (gate.py:68), which does not exist, so its pipeline ends there.

## 6. Not modelled

Prompts and the wording of model answers (any answer is possible), HTTP and its
formats, logging, phases, prices and traces, frontmatter, timeline lines and names,
lint's reports and the derived sections (pure functions on parsed pages), the Channel
Page and `reindex`, start-up and shutdown order, the Sunday nudge (it reads and posts
one message), settings and one-off scripts. The innovation agent is a prototype run by
hand that raises at its gate: nothing behind that has a behaviour to model. Several
Channels at once are in `Sweep` only; each has its own rows and pages, and what they
share is the loop, the lock, the queue and the accounts. What a merging vault makes of
two stale writes of an inbox page is left out.

## 7. Plan

1. Proofs: every safety property that a run checks is proved. Liveness stays with TLC.
2. Abstract specifications: ingestion as a log of messages that are read at least
   once, which `Ingestion` implements.
3. The merges of Lapis on inbox pages; `reindex` and the Channel Page against a run
   and a human; the gate and the publication of the innovation agent once they run.
