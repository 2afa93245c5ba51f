---------------------------- MODULE ResearchAgent ----------------------------
(***************************************************************************)
(* The research agent (agents/research_agent/src): two workflows that share*)
(* nothing but the vault. The hourly one runs the WhatsApp job when the    *)
(* digest page has changed, the periodic one the projects job and then the *)
(* trending job, each when two days have passed since its last run; either *)
(* may overlap the other, and itself when it is dispatched by hand. All    *)
(* read the page of their common state when a job begins and write it back *)
(* whole when it ends, read, extend and write project pages and the common *)
(* page, and every write replaces the page, whatever is on it by then.     *)
(*                                                                         *)
(* A model picks any candidates, for any page, and may name one twice (a   *)
(* path it invents is one more page). An item is its URL. Left out are the *)
(* topics, which only shape the model's picks, the dates of the last runs  *)
(* (a job may be due or not), the log page, which no job reads for itself, *)
(* the digest writer, which is off by default, FORCE_RUN and DRY_RUN; and  *)
(* the memory of URLs (5000) does not fill up.                             *)
(***************************************************************************)
EXTENDS Naturals, FiniteSets, FiniteSetsExt

CONSTANTS
    Hourly,       \* runs of the hourly workflow that may go on at once
    Periodic,     \* those of the periodic one
    URLs,         \* what the sources find
    Projects,     \* project pages
    Common, Feed, \* the common page, the trending feed
    ByHand,       \* <<URL, page>> that were there before the agent ever ran
    FeedSize,     \* trendingFeedSize
    MaxPicks,     \* bound on the picks of one answer
    MaxTroubles   \* bound on the digest's changes and the failures together

Pages == Projects \cup {Common}
Items == URLs \X Pages
Workflows == Hourly \cup Periodic

ASSUME ResearchAssumption ==
    /\ Common \notin Projects /\ Feed \notin Pages /\ ByHand \subseteq Items
    /\ FeedSize \in Nat /\ MaxPicks \in Nat /\ MaxTroubles \in Nat

VARIABLES
    version,  \* of the WhatsApp digest page, 0 while there is none
    page,     \* <<URL, page>> -> how many of the page's lines have the URL
    memory,   \* the state page: the digest's hash, recentUrls
    run,      \* workflow -> the run of a job, or Idle
    ever,     \* every <<URL, page>> the agent has ever written
    doubled,  \* every <<URL, page>> it has written twice at once
    handled,  \* version of the digest whose pass was completed last
    calm,     \* so far no runs overlapped, none failed, no answer named a URL twice
    troubles

researchVars == <<version, page, memory, run, ever, doubled, handled, calm, troubles>>

NoPicks == [x \in Items |-> 0]
Blank == [hash |-> 0, urls |-> {}]

\* A run: where it is, its job, the version of the digest and the state it
\* read, the model's picks, the pages to do, the one it is at and what it read
\* of it, and what it has written.
Idle == [at |-> "idle", job |-> "none", seen |-> 0, state |-> Blank, picks |-> NoPicks,
         rest |-> {}, dest |-> Feed, copy |-> NoPicks, pushed |-> {}]

ResearchInit ==
    /\ version = 0 /\ memory = Blank
    /\ page = [x \in Items |-> IF x \in ByHand THEN 1 ELSE 0]
    /\ run = [w \in Workflows |-> Idle]
    /\ ever = {} /\ doubled = {} /\ handled = 0 /\ calm = TRUE /\ troubles = 0

Becomes(w, r) == run' = [run EXCEPT ![w] = r]

-----------------------------------------------------------------------------
(* index.ts: which job runs                                                *)

\* A workflow starts; the hourly one reads the digest page first.
Start(w) ==
    /\ run[w].at = "idle"
    /\ w \in Hourly => version > 0
    /\ Becomes(w, IF w \in Hourly
                  THEN [Idle EXCEPT !.at = "load", !.job = "whatsapp", !.seen = version]
                  ELSE [Idle EXCEPT !.at = "load", !.job = "projects"])
    /\ calm' = (calm /\ \A v \in Workflows : run[v].at = "idle")
    /\ UNCHANGED <<version, page, memory, ever, doubled, handled, troubles>>

\* What follows a job of the workflow.
After(r) == IF r.job = "projects" THEN [Idle EXCEPT !.at = "load", !.job = "trending"] ELSE Idle

\* loadState. The WhatsApp job stops here if the digest has not changed, the
\* others are not due (periodicDue) or, without projects, have nothing to do.
Load(w) ==
    LET r == run[w] IN
    /\ r.at = "load"
    /\ \/ /\ r.job = "whatsapp" => memory.hash = r.seen
          /\ Becomes(w, After(r))
       \/ /\ r.job = "whatsapp" => memory.hash # r.seen
          /\ r.job = "projects" => Projects # {}
          /\ Becomes(w, [r EXCEPT !.at = "think", !.state = memory, !.rest = Projects])
    /\ UNCHANGED <<version, page, memory, ever, doubled, handled, calm, troubles>>

-----------------------------------------------------------------------------
(* The jobs                                                                *)

\* BUG: only what this run pushed is left out.
CandidatesMutant(r) == URLs \ {x[1] : x \in r.pushed}

\* What the agent remembers to have pushed is not judged again.
Candidates(r) == URLs \ (r.state.urls \cup {x[1] : x \in r.pushed})

Named(p) == {x \in Items : p[x] > 0}

Few(p) == MapThenSumSet(LAMBDA x : p[x], Named(p)) <= MaxPicks

\* Answers of the model: of assignCandidates for all pages, of
\* judgeRelevanceForProject for one. What is no candidate is left out.
Answers(r, pages) ==
    {p \in [Items -> 0..2] :
        /\ Named(p) \subseteq Candidates(r) \X pages
        /\ Few(p)}

\* Answers of filterTrending, the most popular first and cut to the feed's size.
TrendingAnswers(r) == {s \in SUBSET Candidates(r) : Cardinality(s) <= FeedSize}

Once(p) == \A x, y \in Named(p) : p[x] = 1 /\ (x[1] = y[1] => x = y)

\* The page to do next: projects before the common page.
Turns(picks, left) ==
    LET todo == {x[2] : x \in Named(picks)} \cap left
    IN IF todo = {Common} THEN todo ELSE todo \ {Common}

At(r, d) ==
    [r EXCEPT !.at = "write", !.dest = d,
       !.copy = [x \in Items |-> IF x[2] = d THEN page[x] ELSE 0]]

\* The pages that got picks p are left to do; without any, the run goes on.
Judged(w, r, p, other) ==
    LET left == other \cup {x[2] : x \in Named(p)}
        on == [r EXCEPT !.picks = p, !.rest = left]
    IN
    /\ \/ /\ Named(p) = {}
          /\ Becomes(w, [on EXCEPT !.at = IF left # {} THEN "think" ELSE "save"])
       \/ \E d \in Turns(p, left) : Becomes(w, At(on, d))
    /\ calm' = (calm /\ Once(p))
    /\ UNCHANGED <<version, page, memory, ever, doubled, handled, troubles>>

\* The WhatsApp job judges all candidates for all pages at once.
ThinkAll(w) ==
    /\ run[w].at = "think" /\ run[w].job = "whatsapp"
    /\ \E p \in Answers(run[w], Pages) : Judged(w, run[w], p, {})

\* The projects job judges them for one project after the other.
ThinkProject(w) ==
    LET r == run[w] IN
    /\ r.at = "think" /\ r.job = "projects"
    /\ \E d \in r.rest : \E p \in Answers(r, {d}) : Judged(w, r, p, r.rest \ {d})

\* The next page of the WhatsApp job.
ReadPage(w) ==
    /\ run[w].at = "read"
    /\ \E d \in Turns(run[w].picks, run[w].rest) : Becomes(w, At(run[w], d))
    /\ UNCHANGED <<version, page, memory, ever, doubled, handled, calm, troubles>>

\* BUG: what the page has already is added again.
AddedMutant(r) == {x \in Named(r.picks) : x[2] = r.dest}

\* appendUnderHeading adds what the page, as it was read, has not.
Added(r) == {x \in Named(r.picks) : x[2] = r.dest /\ r.copy[x] = 0}

Pushes(r) == Added(r)

WritePage(w) ==
    LET r == run[w] IN
    /\ r.at = "write"
    /\ page' = IF Added(r) = {} THEN page
               ELSE [x \in Items |-> CASE x[2] # r.dest -> page[x]
                                       [] x \in Added(r) -> r.copy[x] + r.picks[x]
                                       [] OTHER -> r.copy[x]]
    /\ ever' = ever \cup Added(r)
    /\ doubled' = doubled \cup {x \in Added(r) : r.picks[x] > 1}
    /\ Becomes(w, [r EXCEPT !.rest = @ \ {r.dest}, !.dest = Feed, !.copy = NoPicks,
                     !.picks = [x \in Items |-> IF x[2] = r.dest THEN 0 ELSE @[x]],
                     !.pushed = @ \cup Pushes(r),
                     !.at = CASE r.rest = {r.dest} -> "save"
                              [] r.rest # {r.dest} /\ r.job = "whatsapp" -> "read"
                              [] OTHER -> "think"])
    /\ UNCHANGED <<version, memory, handled, calm, troubles>>

\* The trending job replaces the feed, a page that no job reads.
WriteFeed(w) ==
    LET r == run[w] IN
    /\ r.at = "think" /\ r.job = "trending"
    /\ \E s \in TrendingAnswers(r) :
         /\ ever' = ever \cup s \X {Feed}
         /\ Becomes(w, [r EXCEPT !.pushed = s \X {Feed}, !.at = "save"])
    /\ UNCHANGED <<version, page, memory, doubled, handled, calm, troubles>>

\* BUG: the hash is that of the digest as it is by now.
HashMutant(r) == IF r.job = "whatsapp" THEN version ELSE r.state.hash

Hash(r) == IF r.job = "whatsapp" THEN r.seen ELSE r.state.hash

\* markPushed and saveState: the state as it was read, with what this run adds.
Save(w) ==
    LET r == run[w] IN
    /\ r.at = "save"
    /\ memory' = [hash |-> Hash(r), urls |-> r.state.urls \cup {x[1] : x \in r.pushed}]
    /\ handled' = IF r.job = "whatsapp" THEN r.seen ELSE handled
    /\ Becomes(w, After(r))
    /\ UNCHANGED <<version, page, ever, doubled, calm, troubles>>

\* A request or an answer that is not JSON raises, and the process exits.
Fail(w) ==
    /\ run[w].at # "idle" /\ troubles < MaxTroubles
    /\ troubles' = troubles + 1
    /\ Becomes(w, Idle) /\ calm' = FALSE
    /\ UNCHANGED <<version, page, memory, ever, doubled, handled>>

-----------------------------------------------------------------------------
(* Around the agent                                                        *)

\* The WhatsApp agent writes the digest page.
DigestChanges ==
    /\ troubles < MaxTroubles /\ troubles' = troubles + 1
    /\ version' = version + 1
    /\ UNCHANGED <<page, memory, run, ever, doubled, handled, calm>>

Step(w) == \/ Load(w) \/ ThinkAll(w) \/ ThinkProject(w) \/ ReadPage(w)
           \/ WritePage(w) \/ WriteFeed(w) \/ Save(w)

ResearchNext == \/ \E w \in Workflows : Start(w) \/ Step(w) \/ Fail(w)
                \/ DigestChanges

\* GitHub starts the hourly workflow again and again, and the steps of its runs
\* end.
ResearchSpec == ResearchInit /\ [][ResearchNext]_researchVars
                /\ WF_researchVars(\E w \in Hourly : Start(w))
                /\ \A w \in Hourly : WF_researchVars(Step(w))

-----------------------------------------------------------------------------
\* Never pushing the same paper twice, "within a page" (README.md): "a hard
\* guarantee per-page, immune to state loss". Whatever overlaps, fails or is
\* forgotten, a URL that is on a page, by hand or by the agent, is not added,
\* unless an answer has named it twice for that page.
NeverAddedAgain ==
    [][\A x \in Items \ doubled' : page[x] > 0 => page'[x] <= page[x]]_researchVars

\* Never pushing the same paper twice, "across pages/runs": this holds as long
\* as no two runs overlap, none fails and no answer names a paper twice, and
\* then no run takes away a line it or another wrote.
CalmPromise ==
    calm => /\ \A x, y \in ever : x[1] = y[1] => x = y
            /\ \A x \in ever : x[2] # Feed => page[x] = 1

\* "Triggered by the page updating": the digest as it is left at last gets a
\* completed pass, although its hash is saved by one job and overwritten by
\* others that read the state before, and passes fail.
DigestIsHandled == <>[](handled = version)
=============================================================================
