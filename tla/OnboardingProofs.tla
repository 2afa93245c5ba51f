-------------------------- MODULE OnboardingProofs --------------------------
(***************************************************************************)
(* Onboarding for any number of groups, admins, handlers, titles and       *)
(* faults. What a handler knows is stated by the place it is at (Sound);   *)
(* what two handlers of one channel or kind could spoil is excepted by the *)
(* history variables raced and crossed, whose meaning is Meeting and Alone.*)
(***************************************************************************)
EXTENDS Onboarding, Members, WellFoundedInduction, TLAPS

AllKinds == Kinds \cup InitKinds

Session == [chan : Chans, kind : InitKinds, title : AllTitles, by : Admins,
            step : Open \cup {"done", "cancelled"}]

Setting == {"cancel", "kind", "look", "open"}
Answering == {"find", "answer", "commit", "create"}
Registering == {"old", "load", "upsert"}
Relocating == {"read", "put", "delete"}

HandlerPlaces ==
    Setting \cup Answering \cup Registering \cup Relocating
        \cup {"idle", "relocate", "ensure", "unload", "unset"}

Handler == [at : HandlerPlaces,
            chan : Chans \cup {None}, by : Admins \cup {None}, kind : AllKinds \cup {None},
            title : AllTitles \cup {None}, initiative : AllTitles \cup {None}, sid : Nat,
            old : Row \cup {None}, row : Row \cup Session \cup {None}, todo : Seq(Parts),
            held : Chans \cup {None, Fresh}]

OnboardingTypeOK ==
    /\ channels \in [Chans -> Row \cup {None}]
    /\ sessions \in Seq(Session)
    /\ pages \in [Places -> Chans \cup {None, Fresh}]
    /\ task \in [Tasks -> Handler]

Paged(ti, made) == \E k \in InitKinds : InitiativePage(k, ti) \in made

\* What a handler h holds is so, place by place: over the table, the dialogues
\* and the initiatives there are.
Sound(h, table, dialogues, made) ==
    /\ h.at # "idle" => h.chan \in Chans
    /\ h.at \in Setting => h.by \in Admins
    /\ h.at = "cancel" =>
          /\ h.kind \in Kinds
          /\ IF h.kind \in InitKinds THEN h.initiative = h.title ELSE h.title \in AllTitles /\ h.initiative = None
    /\ h.at = "kind" => h.kind \in Kinds \cap Singletons /\ h.title \in AllTitles /\ h.initiative = None
    /\ h.at \in {"look", "open", "create"} =>
          h.kind \in InitKinds /\ h.title \in AllTitles /\ h.initiative = h.title
    /\ h.at \in {"answer", "commit"} => h.sid \in DOMAIN dialogues /\ dialogues[h.sid].chan = h.chan
    /\ h.at = "commit" => h.row \in Session /\ h.row.step \in Open
    /\ h.at \in Registering =>
          /\ h.kind \in AllKinds /\ h.title \in AllTitles
          /\ h.initiative # None => Paged(h.initiative, made)
    /\ h.at = "upsert" => h.row \in Row \cup {None} /\ (h.row # None => table[h.chan] # None)
    /\ h.at \in {"relocate", "unset"} => table[h.chan] # None
    /\ h.at \in Relocating => h.old \in Row /\ h.row \in Row /\ h.todo # <<>>
    /\ h.at \in {"ensure", "unset"} => h.row \in Row
    /\ h.at \in {"put", "delete"} => h.held # None

HandlersSound == \A t \in Tasks : Sound(task[t], channels, sessions, initiatives)

\* Two handlers of one channel, or of one singleton kind, have been noted.
Meeting ==
    \A t, u \in Tasks : t # u /\ task[t].at # "idle" /\ task[u].at # "idle" =>
        /\ task[t].chan = task[u].chan => task[t].chan \in raced
        /\ task[t].kind = task[u].kind /\ task[t].kind \in Kinds \cap Singletons => task[t].kind \in raced

\* A handler past the check has the kind to itself.
KindIsFree ==
    \A t \in Tasks, k \in (Kinds \cap Singletons) \ raced :
        task[t].at \in Registering /\ task[t].kind = k => OfKind(k) \subseteq {task[t].chan}

\* Active, over the dialogues given.
Waiting(dialogues, c) == {i \in DOMAIN dialogues : dialogues[i].chan = c /\ dialogues[i].step \in Open}

\* A /setup past the cancelling finds no dialogue, an answer finds its own.
DialoguesFound ==
    \A t \in Tasks : task[t].chan \notin raced =>
        /\ task[t].at \in {"kind", "look", "open"} => Waiting(sessions, task[t].chan) = {}
        /\ task[t].at \in {"answer", "commit"} => task[t].sid \in Waiting(sessions, task[t].chan)

\* Two handlers that move one page have been noted, and the page that one of
\* them moves alone is still there.
Alone ==
    \A t, u \in Moving : t # u /\ Source(t) = Source(u) => Source(t) \in crossed
HeldIsThere ==
    \A t \in Moving : Source(t) \notin crossed => pages[Source(t)] = task[t].held

\* A text is at some place that no handler is about to empty.
Doomed(p) == \E t \in Tasks : task[t].at = "delete" /\ Source(t) = p
TextIsSafe ==
    \A p \in Parts, d \in Dirs :
        Begun(d) # None /\ (\A e \in Dirs : <<p, e>> \notin crossed)
        => \E e \in Dirs : pages[<<p, e>>] = Begun(d) /\ ~Doomed(<<p, e>>)

Inductive ==
    /\ OnboardingTypeOK /\ HandlersSound
    /\ Meeting /\ KindIsFree /\ DialoguesFound /\ Alone /\ HeldIsThere
    /\ AtMostOne /\ InitiativeHasPage /\ TextIsSafe

LEMMA InitInductive == Init => Inductive
  <1> SUFFICES ASSUME Init PROVE Inductive
    OBVIOUS
  <1>1. OnboardingTypeOK
    <2>1. Idle \in Handler
      BY DEF Handler, HandlerPlaces, Idle, Setting, Answering, Registering, Relocating
    <2>2. \A d : Begun(d) \in Chans \cup {None}
      BY DEF Begun
    <2>3. pages \in [Places -> Chans \cup {None, Fresh}]
      BY <2>2 DEF Init
    <2> QED BY <2>1, <2>3, OnboardingAssumption DEF Init, OnboardingTypeOK
  <1>2. \A t \in Tasks : task[t] = Idle /\ Idle.at = "idle" /\ Idle.chan = None
    BY DEF Init, Idle
  <1>3. Sound(Idle, channels, sessions, initiatives)
    BY DEF Sound, Idle, Setting, Registering, Relocating
  <1>4. HandlersSound /\ Meeting /\ KindIsFree /\ Alone /\ HeldIsThere
    BY <1>2, <1>3 DEF HandlersSound, Meeting, KindIsFree, Alone, HeldIsThere, Moving, Registering
  <1>5. DialoguesFound
    BY <1>2 DEF DialoguesFound
  <1>6. AtMostOne
    BY OnboardingAssumption DEF Init, AtMostOne, OneOfAKind, OneDialogue, OfKind, Active
  <1>7. InitiativeHasPage
    BY OnboardingAssumption DEF Init, InitiativeHasPage
  <1>8. TextIsSafe
    BY <1>2 DEF Init, TextIsSafe, Doomed, Places
  <1> QED BY <1>1, <1>4, <1>5, <1>6, <1>7, <1>8 DEF Inductive

-----------------------------------------------------------------------------
(* A step of one handler.                                                  *)

\* Only the handler t moves, and is a handler after it.
Only(t) ==
    /\ task' \in [Tasks -> Handler]
    /\ \A u \in Tasks \ {t} : task'[u] = task[u]

\* Rows, dialogues and initiatives never go away.
Grows ==
    /\ \A c \in Chans : channels[c] # None => channels'[c] # None
    /\ DOMAIN sessions \subseteq DOMAIN sessions'
    /\ \A i \in DOMAIN sessions : sessions'[i].chan = sessions[i].chan
    /\ initiatives \subseteq initiatives'

\* What most steps of a handler from g to h have in common.
SameErrand(g, h) ==
    h.at # "idle" =>
        g.at # "idle" /\ h.chan = g.chan /\ (h.kind = g.kind \/ h.kind \in InitKinds)
Follows(g, h) ==
    h.at # "idle" =>
        /\ h.at \in Registering => (g.at \in Registering /\ h.kind = g.kind) \/ h.kind \notin Singletons
        /\ h.at \in {"kind", "look", "open"} => g.at \in {"kind", "look", "open"}
        /\ h.at \in {"answer", "commit"} => g.at \in {"answer", "commit"} /\ h.sid = g.sid

LEMMA SoundGrows ==
    ASSUME NEW h \in Handler, Grows, Sound(h, channels, sessions, initiatives)
    PROVE  Sound(h, channels', sessions', initiatives')
  BY DEF Grows, Sound, Paged, Setting, Registering, Relocating

LEMMA SoundKept ==
    ASSUME Inductive, NEW t \in Tasks, Only(t), Grows, Sound(task'[t], channels', sessions', initiatives')
    PROVE  HandlersSound'
  <1> SUFFICES ASSUME NEW u \in Tasks PROVE Sound(task'[u], channels', sessions', initiatives')
    BY DEF HandlersSound
  <1>1. CASE u = t
    BY <1>1
  <1>2. CASE u # t
    <2>1. task'[u] = task[u] /\ task[u] \in Handler /\ Sound(task[u], channels, sessions, initiatives)
      BY <1>2 DEF Only, Inductive, OnboardingTypeOK, HandlersSound
    <2> QED BY <2>1, SoundGrows
  <1> QED BY <1>1, <1>2

LEMMA MeetingKept ==
    ASSUME Inductive, NEW t \in Tasks, Only(t), raced \subseteq raced', task[t].at # "idle", SameErrand(task[t], task'[t])
    PROVE  Meeting'
  <1>1. InitKinds \cap Singletons = {}
    BY DEF InitKinds, Singletons
  <1> QED BY <1>1 DEF Inductive, Meeting, Only, SameErrand

\* The table's kinds stay, and no handler comes past the check.
LEMMA KindKept ==
    ASSUME Inductive, NEW t \in Tasks, Only(t), raced \subseteq raced',
           \A k \in Kinds \cap Singletons : OfKind(k)' \subseteq OfKind(k),
           SameErrand(task[t], task'[t]), Follows(task[t], task'[t])
    PROVE  KindIsFree'
  BY DEF Inductive, KindIsFree, Only, SameErrand, Follows, Registering

LEMMA DialoguesKept ==
    ASSUME Inductive, NEW t \in Tasks, Only(t), raced \subseteq raced', UNCHANGED sessions,
           SameErrand(task[t], task'[t]), Follows(task[t], task'[t])
    PROVE  DialoguesFound'
  BY DEF Inductive, DialoguesFound, Only, SameErrand, Follows

LEMMA PagesKept ==
    ASSUME Inductive, NEW t \in Tasks, Only(t), crossed \subseteq crossed', UNCHANGED pages,
           task'[t].at \notin {"put", "delete"}
    PROVE  Alone' /\ HeldIsThere' /\ TextIsSafe'
  <1>1. \A u \in Moving' : u \in Moving /\ u # t /\ task'[u] = task[u] /\ Source(u)' = Source(u)
    BY DEF Moving, Only, Source
  <1>2. \A p : Doomed(p)' => Doomed(p)
    BY DEF Doomed, Only, Source
  <1>3. Alone' /\ HeldIsThere'
    BY <1>1 DEF Inductive, Alone, HeldIsThere
  <1>4. TextIsSafe'
    BY <1>2 DEF Inductive, TextIsSafe
  <1> QED BY <1>3, <1>4

LEMMA AtMostOneKept ==
    ASSUME Inductive, raced \subseteq raced',
           \A k \in Kinds \cap Singletons : OfKind(k)' \subseteq OfKind(k), UNCHANGED sessions
    PROVE  AtMostOne'
  BY DEF Inductive, AtMostOne, OneOfAKind, OneDialogue, Active

LEMMA InitiativesKept ==
    ASSUME Inductive, UNCHANGED channels, initiatives \subseteq initiatives'
    PROVE  InitiativeHasPage'
  BY DEF Inductive, InitiativeHasPage

\* A step that leaves the table and the pages alone.
LEMMA TalkKeeps ==
    ASSUME Inductive, NEW t \in Tasks, Only(t), task[t].at # "idle", SameErrand(task[t], task'[t]),
           UNCHANGED <<channels, pages, history>>, initiatives \subseteq initiatives',
           sessions' \in Seq(Session), Grows, Sound(task'[t], channels, sessions', initiatives'),
           task'[t].at \notin {"put", "delete"}, KindIsFree', DialoguesFound', OneDialogue'
    PROVE  Inductive'
  <1>1. UNCHANGED <<channels, pages, raced, crossed>>
    BY DEF history
  <1>2. \A k : OfKind(k)' = OfKind(k)
    BY <1>1 DEF OfKind
  <1>3. OnboardingTypeOK'
    BY <1>1 DEF Inductive, OnboardingTypeOK, Only
  <1>5. Sound(task'[t], channels', sessions', initiatives')
    BY <1>1
  <1>6. HandlersSound'
    BY <1>5, SoundKept
  <1>7. Meeting'
    BY <1>1, MeetingKept
  <1>8. Alone' /\ HeldIsThere' /\ TextIsSafe'
    BY <1>1, PagesKept
  <1>9. AtMostOne' /\ InitiativeHasPage'
    BY <1>1, <1>2, InitiativesKept DEF Inductive, AtMostOne, OneOfAKind
  <1> QED BY <1>3, <1>6, <1>7, <1>8, <1>9 DEF Inductive

\* A step that leaves the dialogues alone too.
LEMMA QuietKeeps ==
    ASSUME Inductive, NEW t \in Tasks, Only(t), task[t].at # "idle",
           SameErrand(task[t], task'[t]), Follows(task[t], task'[t]),
           UNCHANGED <<channels, sessions, pages, history>>, initiatives \subseteq initiatives',
           Sound(task'[t], channels, sessions, initiatives'), task'[t].at \notin {"put", "delete"}
    PROVE  Inductive'
  <1>1. UNCHANGED <<channels, sessions, pages, raced, crossed>>
    BY DEF history
  <1>2. \A k : OfKind(k)' = OfKind(k)
    BY <1>1 DEF OfKind
  <1>3. sessions' \in Seq(Session) /\ Grows
    BY <1>1 DEF Grows, Inductive, OnboardingTypeOK
  <1>4. Sound(task'[t], channels, sessions', initiatives')
    BY <1>1
  <1>5. KindIsFree'
    BY <1>1, <1>2, KindKept
  <1>6. DialoguesFound'
    BY <1>1, DialoguesKept
  <1>7. OneDialogue'
    BY <1>1, <1>2, AtMostOneKept DEF AtMostOne
  <1> QED BY <1>3, <1>4, <1>5, <1>6, <1>7, TalkKeeps

LEMMA IdleSound ==
    ASSUME NEW table, NEW dialogues, NEW made
    PROVE  Sound(Idle, table, dialogues, made) /\ Idle \in Handler /\ Idle.at = "idle"
  BY DEF Sound, Idle, Handler, HandlerPlaces, Setting, Answering, Registering, Relocating

\* A handler that ends, or dies, leaves everything else as it is.
LEMMA EndKeeps ==
    ASSUME Inductive, NEW t \in Tasks, task[t].at # "idle", Ends(t),
           UNCHANGED <<channels, sessions, vault, history>>
    PROVE  Inductive'
  <1>1. task'[t] = Idle /\ Only(t)
    BY IdleSound DEF Ends, Only, Inductive, OnboardingTypeOK
  <1>2. SameErrand(task[t], task'[t]) /\ Follows(task[t], task'[t])
    BY <1>1, IdleSound DEF SameErrand, Follows
  <1> QED BY <1>1, <1>2, IdleSound, QuietKeeps DEF vault

\* A handler that goes on to another place.
LEMMA GoesTypes ==
    ASSUME Inductive, NEW t \in Tasks, NEW place, Goes(t, place),
           place \in HandlerPlaces
    PROVE  /\ Only(t)
           /\ task'[t] = [task[t] EXCEPT !.at = place]
  <1>1. task[t] \in Handler /\ task \in [Tasks -> Handler]
    BY DEF Inductive, OnboardingTypeOK
  <1>2. [task[t] EXCEPT !.at = place] \in Handler
    BY <1>1 DEF Handler
  <1>3. task' = [task EXCEPT ![t] = [task[t] EXCEPT !.at = place]]
    BY <1>1 DEF Goes
  <1> QED BY <1>1, <1>2, <1>3 DEF Only

LEMMA FailsKeeps == ASSUME Inductive, NEW t \in Tasks, Fails(t) PROVE Inductive'
  BY EndKeeps DEF Fails

-----------------------------------------------------------------------------
(* A delivery comes in.                                                    *)

LEMMA BeginsKeeps ==
    ASSUME Inductive, NEW t \in Tasks, task[t] = Idle, NEW c \in Chans, NEW k \in Kinds \cup {None},
           Only(t), task'[t].at \in {"cancel", "unload", "find"}, task'[t].chan = c, task'[t].kind = k,
           raced' = raced \cup Meets(t, c, k), UNCHANGED <<channels, sessions, vault, crossed>>,
           Sound(task'[t], channels, sessions, initiatives)
    PROVE  Inductive'
  <1>1. UNCHANGED <<channels, sessions, initiatives, pages, crossed>>
    BY DEF vault
  <1>2. \A d : OfKind(d)' = OfKind(d)
    BY <1>1 DEF OfKind
  <1>3. OnboardingTypeOK'
    BY <1>1 DEF Inductive, OnboardingTypeOK, Only
  <1>4. Grows
    BY <1>1 DEF Grows
  <1>5. Sound(task'[t], channels', sessions', initiatives')
    BY <1>1
  <1>6. HandlersSound'
    BY <1>4, <1>5, SoundKept
  <1>7. Meeting'
    <2> SUFFICES ASSUME NEW u \in Tasks, NEW v \in Tasks, u # v, (task[u].at # "idle")', (task[v].at # "idle")'
                 PROVE  /\ task'[u].chan = task'[v].chan => task'[u].chan \in raced'
                        /\ task'[u].kind = task'[v].kind /\ task'[u].kind \in Kinds \cap Singletons => task'[u].kind \in raced'
      BY DEF Meeting
    <2>1. \A w \in Tasks \ {t} : task'[w].at # "idle" /\ task'[w].chan = c => c \in raced'
      BY DEF Only, Meets, InFlight
    <2>2. \A w \in Tasks \ {t} : task'[w].at # "idle" /\ task'[w].kind = k /\ k \in Kinds => k \in raced'
      BY DEF Only, Meets, InFlight
    <2>3. CASE u = t
      BY <2>1, <2>2, <2>3
    <2>4. CASE v = t
      BY <2>1, <2>2, <2>4
    <2>5. CASE u # t /\ v # t
      BY <2>5 DEF Inductive, Meeting, Only
    <2> QED BY <2>3, <2>4, <2>5
  <1>8. KindIsFree'
    BY <1>2 DEF Inductive, KindIsFree, Only, Registering
  <1>9. DialoguesFound'
    BY <1>1 DEF Inductive, DialoguesFound, Only
  <1>10. Alone' /\ HeldIsThere' /\ TextIsSafe'
    BY <1>1, PagesKept
  <1>11. AtMostOne' /\ InitiativeHasPage'
    BY <1>1, <1>2, AtMostOneKept, InitiativesKept
  <1> QED BY <1>3, <1>6, <1>7, <1>8, <1>9, <1>10, <1>11 DEF Inductive

LEMMA SetupKeeps ==
    ASSUME Inductive, NEW t \in Tasks, NEW c \in Chans, NEW a \in Admins, NEW k \in Kinds,
           NEW ti \in Titles \cup {None}, Setup(t, c, a, k, ti)
    PROVE  Inductive'
  <1> DEFINE title == IF ti = None /\ k \notin InitKinds THEN DefaultTitle(k) ELSE ti
             initiative == IF k \in InitKinds THEN ti ELSE None
             h == [Idle EXCEPT !.at = "cancel", !.chan = c, !.by = a, !.kind = k, !.title = title,
                               !.initiative = initiative]
  <1>1. /\ task[t] = Idle /\ task' = [task EXCEPT ![t] = h] /\ raced' = raced \cup Meets(t, c, k)
        /\ UNCHANGED <<channels, sessions, vault, crossed>>
    BY DEF Setup
  <1>2. title \in AllTitles \cup {None} /\ (k \notin InitKinds => title \in AllTitles)
    BY DEF AllTitles
  <1>3. /\ h.at = "cancel" /\ h.chan = c /\ h.kind = k /\ h.title = title /\ h.by = a
        /\ h.initiative = IF k \in InitKinds THEN ti ELSE None
    BY DEF Idle
  <1>4. h \in Handler
    <2>1. Idle \in Handler /\ "cancel" \in HandlerPlaces /\ k \in AllKinds
      BY IdleSound DEF HandlerPlaces, Setting, AllKinds
    <2>2. initiative \in AllTitles \cup {None}
      BY DEF AllTitles
    <2> HIDE DEF title, initiative
    <2> QED BY <1>2, <2>1, <2>2 DEF Handler
  <1>5. Only(t) /\ task'[t] = h
    BY <1>1, <1>4 DEF Only, Inductive, OnboardingTypeOK
  <1>6. Sound(h, channels, sessions, initiatives)
    BY <1>2, <1>3 DEF Sound, Setting, Registering, Relocating
  <1> HIDE DEF h
  <1> QED BY <1>1, <1>3, <1>5, <1>6, BeginsKeeps

LEMMA OthersKeep ==
    ASSUME Inductive, NEW t \in Tasks, NEW c \in Chans, NEW a \in Admins,
           Unwatch(t, c, a) \/ \E slash \in BOOLEAN : Reply(t, c, a, slash)
    PROVE  Inductive'
  <1>1. PICK place \in {"unload", "find"} :
           /\ task[t] = Idle /\ task' = [task EXCEPT ![t] = [Idle EXCEPT !.at = place, !.chan = c, !.by = a]]
           /\ raced' = raced \cup Meets(t, c, None)
           /\ UNCHANGED <<channels, sessions, vault, crossed>>
    BY DEF Unwatch, Reply
  <1> DEFINE h == [Idle EXCEPT !.at = place, !.chan = c, !.by = a]
  <1>3. h.at = place /\ h.chan = c /\ h.kind = None
    BY DEF Idle
  <1>4. h \in Handler
    <2>1. Idle \in Handler /\ place \in HandlerPlaces
      BY IdleSound DEF HandlerPlaces, Answering
    <2> QED BY <2>1 DEF Handler
  <1>5. Only(t) /\ task'[t] = h
    BY <1>1, <1>4 DEF Only, Inductive, OnboardingTypeOK
  <1>6. Sound(h, channels, sessions, initiatives)
    BY <1>3 DEF Sound, Setting, Registering, Relocating
  <1> HIDE DEF h
  <1> QED BY <1>1, <1>3, <1>5, <1>6, BeginsKeeps

-----------------------------------------------------------------------------
(* setup                                                                   *)

LEMMA LookForPageKeeps == ASSUME Inductive, NEW t \in Tasks, LookForPage(t) PROVE Inductive'
  <1> DEFINE place == IF InitiativePage(task[t].kind, task[t].title) \in initiatives THEN "old" ELSE "open"
  <1>1. /\ task[t].at = "look" /\ Goes(t, place) /\ place \in {"old", "open"}
        /\ UNCHANGED <<channels, sessions, pages, history>> /\ initiatives' = initiatives
    BY DEF LookForPage, vault
  <1>2. Only(t) /\ task'[t] = [task[t] EXCEPT !.at = place] /\ task[t] \in Handler
    BY <1>1, GoesTypes DEF HandlerPlaces, Setting, Registering, Inductive, OnboardingTypeOK
  <1>3. task[t].chan \in Chans /\ task[t].kind \in InitKinds /\ task[t].title \in AllTitles /\ task[t].initiative = task[t].title
        /\ task[t].by \in Admins
    BY <1>1 DEF Inductive, HandlersSound, Sound, Setting
  <1>4. /\ task'[t].at = place /\ task'[t].chan = task[t].chan /\ task'[t].kind = task[t].kind
        /\ task'[t].title = task[t].title /\ task'[t].initiative = task[t].initiative /\ task'[t].by = task[t].by
    BY <1>2 DEF Handler
  <1>5. Sound(task'[t], channels, sessions, initiatives)
    BY <1>1, <1>3, <1>4 DEF Sound, Setting, Registering, Relocating, Paged, AllKinds
  <1>6. SameErrand(task[t], task'[t]) /\ Follows(task[t], task'[t])
    BY <1>1, <1>3, <1>4 DEF SameErrand, Follows, InitKinds, Singletons
  <1> QED BY <1>1, <1>2, <1>4, <1>5, <1>6, QuietKeeps

\* The dialogues of one channel change, in a step of one of its handlers.
LEMMA OthersAnswers ==
    ASSUME Inductive, NEW t \in Tasks, Only(t), UNCHANGED raced, task[t].at # "idle",
           \A c \in Chans : c # task[t].chan => Waiting(sessions', c) = Waiting(sessions, c)
    PROVE  \A u \in Tasks \ {t} :
              task'[u].chan \notin raced' =>
                 /\ task'[u].at \in {"kind", "look", "open"} => Waiting(sessions', task'[u].chan) = {}
                 /\ task'[u].at \in {"answer", "commit"} => task'[u].sid \in Waiting(sessions', task'[u].chan)
  <1> SUFFICES ASSUME NEW u \in Tasks \ {t}, task[u].chan \notin raced,
                      task[u].at \in {"kind", "look", "open", "answer", "commit"}
               PROVE  /\ task[u].at \in {"kind", "look", "open"} => Waiting(sessions', task[u].chan) = {}
                      /\ task[u].at \in {"answer", "commit"} => task[u].sid \in Waiting(sessions', task[u].chan)
    BY DEF Only
  <1>1. task[u].at # "idle" /\ task[u].chan \in Chans
    BY DEF Inductive, HandlersSound, Sound
  <1>2. task[u].chan # task[t].chan
    BY <1>1 DEF Inductive, Meeting
  <1> QED BY <1>1, <1>2 DEF Inductive, DialoguesFound

LEMMA CancelDialoguesKeeps == ASSUME Inductive, NEW t \in Tasks, CancelDialogues(t) PROVE Inductive'
  <1> DEFINE h == task[t]
  <1>1. /\ h.at = "cancel" /\ h \in Handler /\ h.chan \in Chans /\ h.kind \in Kinds
        /\ IF h.kind \in InitKinds THEN h.initiative = h.title ELSE h.title \in AllTitles /\ h.initiative = None
        /\ h.by \in Admins /\ UNCHANGED <<channels, initiatives, pages, history>> /\ raced' = raced
    BY DEF CancelDialogues, Inductive, OnboardingTypeOK, HandlersSound, Sound, Setting, vault, history
  <1>2. /\ sessions' = [i \in DOMAIN sessions |->
                      IF i \in Waiting(sessions, h.chan) THEN [sessions[i] EXCEPT !.step = "cancelled"] ELSE sessions[i]]
        /\ sessions \in Seq(Session)
    BY DEF CancelDialogues, Inductive, OnboardingTypeOK, Active, Waiting
  <1>3. \A i \in DOMAIN sessions :
           /\ sessions[i] \in Session /\ sessions'[i] \in Session /\ sessions'[i].chan = sessions[i].chan
           /\ i \in Waiting(sessions, h.chan) => sessions'[i].step = "cancelled"
           /\ i \notin Waiting(sessions, h.chan) => sessions'[i] = sessions[i]
    <2> SUFFICES ASSUME NEW i \in DOMAIN sessions
                 PROVE  /\ sessions[i] \in Session /\ sessions'[i] \in Session /\ sessions'[i].chan = sessions[i].chan
                        /\ i \in Waiting(sessions, h.chan) => sessions'[i].step = "cancelled"
                        /\ i \notin Waiting(sessions, h.chan) => sessions'[i] = sessions[i]
      OBVIOUS
    <2>1. sessions[i] \in Session
      BY <1>2
    <2>2. /\ [sessions[i] EXCEPT !.step = "cancelled"] \in Session
          /\ [sessions[i] EXCEPT !.step = "cancelled"].chan = sessions[i].chan
          /\ [sessions[i] EXCEPT !.step = "cancelled"].step = "cancelled"
      BY <2>1 DEF Session
    <2> QED BY <1>2, <2>1, <2>2
  <1>4. sessions' \in Seq(Session) /\ Len(sessions') = Len(sessions) /\ DOMAIN sessions' = DOMAIN sessions
    <2>1. DOMAIN sessions = 1..Len(sessions) /\ Len(sessions) \in Nat
      BY <1>2
    <2>2. sessions' = [i \in 1..Len(sessions) |-> sessions'[i]]
      BY <1>2, <2>1
    <2> QED BY <1>3, <2>1, <2>2
  <1>5. Waiting(sessions', h.chan) = {} /\ \A c \in Chans : c # h.chan => Waiting(sessions', c) = Waiting(sessions, c)
    BY <1>3, <1>4 DEF Waiting, Open
  <1>6. OneDialogue'
    BY <1>1, <1>5 DEF OneDialogue, Inductive, AtMostOne, Active, Waiting
  <1>7. Grows
    BY <1>1, <1>3, <1>4 DEF Grows
  <1>8. CASE h.kind \in InitKinds /\ h.title = None
    <2>1. Ends(t)
      BY <1>1, <1>8, OnboardingAssumption DEF CancelDialogues, InitKinds, Singletons
    <2>2. task'[t] = Idle /\ Only(t)
      BY <2>1, IdleSound DEF Ends, Only, Inductive, OnboardingTypeOK
    <2>3. DialoguesFound'
      BY <1>1, <1>5, <2>2, IdleSound, OthersAnswers DEF DialoguesFound
    <2>4. KindIsFree'
      BY <1>1, <2>2, IdleSound, KindKept DEF OfKind, SameErrand, Follows
    <2>5. SameErrand(h, task'[t])
      BY <2>2, IdleSound DEF SameErrand
    <2> QED BY <1>1, <1>4, <1>6, <1>7, <2>2, <2>3, <2>4, <2>5, IdleSound, TalkKeeps
  <1>9. CASE ~(h.kind \in InitKinds /\ h.title = None)
    <2>1. PICK place \in {"old", "kind", "look"} :
             /\ Goes(t, place)
             /\ place = "old" => h.kind = "other"
             /\ place = "kind" => h.kind \in Singletons
             /\ place = "look" => h.kind \in InitKinds
      BY <1>1, <1>9, OnboardingAssumption DEF CancelDialogues, InitKinds, Singletons
    <2>2. Only(t) /\ task'[t] = [h EXCEPT !.at = place]
      BY <2>1, GoesTypes DEF HandlerPlaces, Setting, Registering
    <2>3. /\ task'[t].at = place /\ task'[t].chan = h.chan /\ task'[t].kind = h.kind
          /\ task'[t].title = h.title /\ task'[t].initiative = h.initiative /\ task'[t].by = h.by
      BY <1>1, <2>2 DEF Handler
    <2>4. h.kind \in InitKinds => h.title \in AllTitles
      BY <1>1, <1>9 DEF Handler
    <2>5. "other" \notin InitKinds \cup Singletons /\ InitKinds \cap Singletons = {}
      BY DEF InitKinds, Singletons
    <2>6. Sound(task'[t], channels, sessions', initiatives')
      BY <1>1, <2>1, <2>3, <2>4, <2>5 DEF Sound, Setting, Registering, Relocating, AllKinds
    <2>7. SameErrand(h, task'[t])
      BY <1>1, <2>3 DEF SameErrand
    <2>8. KindIsFree'
      <3>1. \A k : OfKind(k)' = OfKind(k)
        BY <1>1 DEF OfKind
      <3>2. task'[t].at \in Registering => task'[t].kind \notin Singletons
        BY <2>1, <2>3, <2>5 DEF Registering
      <3> QED BY <1>1, <2>2, <3>1, <3>2 DEF Inductive, KindIsFree, Only
    <2>9. DialoguesFound'
      <3>1. task'[t].at \notin {"answer", "commit"} /\ Waiting(sessions', task'[t].chan) = {}
        BY <1>5, <2>1, <2>3
      <3> QED BY <1>1, <1>5, <2>2, <3>1, OthersAnswers DEF DialoguesFound
    <2> QED BY <1>1, <1>4, <1>6, <1>7, <2>1, <2>2, <2>3, <2>6, <2>7, <2>8, <2>9, TalkKeeps
  <1> QED BY <1>8, <1>9

LEMMA FindKindKeeps == ASSUME Inductive, NEW t \in Tasks, FindKind(t) PROVE Inductive'
  <1> DEFINE h == task[t]
  <1>1. /\ h.at = "kind" /\ h \in Handler /\ h.chan \in Chans
        /\ h.kind \in Kinds \cap Singletons /\ h.title \in AllTitles /\ h.initiative = None
        /\ UNCHANGED <<channels, sessions, initiatives, pages, history>> /\ raced' = raced /\ vault' = vault
    BY DEF FindKind, Inductive, OnboardingTypeOK, HandlersSound, Sound, Setting, vault, history
  <1>2. Ends(t) \/ (Goes(t, "old") /\ (OfKind(h.kind) = {} \/ h.chan \in OfKind(h.kind)))
    BY DEF FindKind
  <1>3. CASE Ends(t)
    BY <1>1, <1>3, EndKeeps
  <1>4. CASE Goes(t, "old") /\ (OfKind(h.kind) = {} \/ h.chan \in OfKind(h.kind))
    <2>1. Only(t) /\ task'[t] = [h EXCEPT !.at = "old"]
      BY <1>4, GoesTypes DEF HandlerPlaces, Registering
    <2>2. /\ task'[t].at = "old" /\ task'[t].chan = h.chan /\ task'[t].kind = h.kind
          /\ task'[t].title = h.title /\ task'[t].initiative = h.initiative /\ task'[t].by = h.by
      BY <1>1, <2>1 DEF Handler
    <2>3. Sound(task'[t], channels, sessions', initiatives')
      BY <1>1, <2>2 DEF Sound, Setting, Registering, Relocating, AllKinds
    <2>4. SameErrand(h, task'[t])
      BY <1>1, <2>2 DEF SameErrand
    <2>5. KindIsFree'
      <3>1. \A k : OfKind(k)' = OfKind(k)
        BY <1>1 DEF OfKind
      <3>2. h.kind \notin raced => OfKind(h.kind) \subseteq {h.chan}
        BY <1>1, <1>4 DEF Inductive, AtMostOne, OneOfAKind, OfKind
      <3> SUFFICES ASSUME NEW u \in Tasks, NEW k \in (Kinds \cap Singletons) \ raced,
                          task'[u].at \in Registering, task'[u].kind = k
                   PROVE  OfKind(k) \subseteq {task'[u].chan}
        BY <1>1, <3>1 DEF KindIsFree
      <3>3. CASE u = t
        BY <2>2, <3>2, <3>3
      <3>4. CASE u # t
        BY <2>1, <3>4 DEF Inductive, KindIsFree, Only
      <3> QED BY <3>3, <3>4
    <2>6. DialoguesFound'
      BY <1>1, <2>1, <2>2, DialoguesKept DEF Inductive, DialoguesFound, Only
    <2>7. sessions' \in Seq(Session) /\ Grows
      BY <1>1 DEF Grows, Inductive, OnboardingTypeOK
    <2>8. OneDialogue'
      BY <1>1 DEF Inductive, AtMostOne, OneDialogue, Active
    <2> QED BY <1>1, <2>1, <2>2, <2>3, <2>4, <2>5, <2>6, <2>7, <2>8, TalkKeeps
  <1> QED BY <1>2, <1>3, <1>4

LEMMA OpenDialogueKeeps == ASSUME Inductive, NEW t \in Tasks, OpenDialogue(t) PROVE Inductive'
  <1> DEFINE h == task[t]
             s == [chan |-> h.chan, kind |-> h.kind, title |-> h.title, by |-> h.by, step |-> "lead"]
  <1>1. /\ h.at = "open" /\ h \in Handler /\ h.chan \in Chans
        /\ h.kind \in InitKinds /\ h.title \in AllTitles /\ h.by \in Admins
        /\ UNCHANGED <<channels, initiatives, pages, history>> /\ raced' = raced
        /\ sessions' = Append(sessions, s) /\ Ends(t) /\ sessions \in Seq(Session)
    BY DEF OpenDialogue, Inductive, OnboardingTypeOK, HandlersSound, Sound, Setting, vault, history
  <1>2. s \in Session /\ s.chan = h.chan /\ s.step \in Open
    BY <1>1 DEF Session, Handler, Open
  <1> HIDE DEF s
  <1>3. /\ sessions' \in Seq(Session) /\ DOMAIN sessions' = DOMAIN sessions \cup {Len(sessions) + 1}
        /\ \A i \in DOMAIN sessions : sessions'[i] = sessions[i] /\ i # Len(sessions) + 1
        /\ sessions'[Len(sessions) + 1] = s
    BY <1>1, <1>2
  <1>4. Waiting(sessions', h.chan) = Waiting(sessions, h.chan) \cup {Len(sessions) + 1}
    BY <1>2, <1>3 DEF Waiting
  <1>5. \A c \in Chans : c # h.chan => Waiting(sessions', c) = Waiting(sessions, c)
    BY <1>2, <1>3 DEF Waiting
  <1>6. h.chan \notin raced => Waiting(sessions, h.chan) = {}
    BY <1>1 DEF Inductive, DialoguesFound
  <1>7. task'[t] = Idle /\ Only(t)
    BY <1>1, IdleSound DEF Ends, Only, Inductive, OnboardingTypeOK
  <1>8. OneDialogue'
    <2>1. \A c : Active(c)' = Waiting(sessions', c)
      BY DEF Active, Waiting
    <2>2. \A c : Active(c) = Waiting(sessions, c)
      BY DEF Active, Waiting
    <2> SUFFICES ASSUME NEW c \in Chans \ raced, NEW i \in Waiting(sessions', c), NEW j \in Waiting(sessions', c) PROVE i = j
      BY <1>1, <2>1 DEF OneDialogue
    <2>3. CASE c = h.chan
      BY <1>4, <1>6, <2>3
    <2>4. CASE c # h.chan
      BY <1>5, <2>2, <2>4 DEF Inductive, AtMostOne, OneDialogue
    <2> QED BY <2>3, <2>4
  <1>9. DialoguesFound'
    BY <1>1, <1>5, <1>7, IdleSound, OthersAnswers DEF DialoguesFound
  <1>10. KindIsFree'
    BY <1>1, <1>7, IdleSound, KindKept DEF OfKind, SameErrand, Follows
  <1>11. SameErrand(h, task'[t])
    BY <1>7, IdleSound DEF SameErrand
  <1>12. Grows
    BY <1>1, <1>3 DEF Grows
  <1> QED BY <1>1, <1>3, <1>7, <1>8, <1>9, <1>10, <1>11, <1>12, IdleSound, TalkKeeps

-----------------------------------------------------------------------------
(* continue_setup_session                                                  *)

\* The newest of a channel's open dialogues is one of them: of the distances
\* from the end of the table one is the least.
LEMMA NewestIsActive ==
    ASSUME sessions \in Seq(Session), NEW c, Active(c) # {}
    PROVE  Newest(c) \in Active(c)
  <1> DEFINE distances == {Len(sessions) - i : i \in Active(c)}
  <1>1. Active(c) \subseteq 1..Len(sessions) /\ Len(sessions) \in Nat
    BY DEF Active
  <1>2. distances \subseteq Nat /\ distances # {}
    BY <1>1
  <1>3. PICK d \in distances : \A e \in distances : ~(<<e, d>> \in OpToRel(<, Nat))
    BY <1>2, NatLessThanWellFounded, WFMin
  <1>4. \A e \in distances : ~(e < d)
    BY <1>2, <1>3 DEF OpToRel
  <1>5. PICK i \in Active(c) : d = Len(sessions) - i
    BY <1>3
  <1>6. \A j \in Active(c) : j <= i
    <2> SUFFICES ASSUME NEW j \in Active(c), i < j PROVE FALSE
      BY <1>1
    <2>1. Len(sessions) - j \in distances /\ Len(sessions) - j < d
      BY <1>1, <1>5
    <2> QED BY <1>4, <2>1
  <1> QED BY <1>6 DEF Newest

LEMMA FindDialogueKeeps == ASSUME Inductive, NEW t \in Tasks, FindDialogue(t) PROVE Inductive'
  <1> DEFINE h == task[t]
  <1>1. /\ h.at = "find" /\ h \in Handler /\ h.chan \in Chans /\ sessions \in Seq(Session)
        /\ UNCHANGED <<channels, sessions, initiatives, pages, history>> /\ raced' = raced /\ vault' = vault
    BY DEF FindDialogue, Inductive, OnboardingTypeOK, HandlersSound, Sound, vault, history
  <1>2. CASE Active(h.chan) = {}
    BY <1>1, <1>2, EndKeeps DEF FindDialogue
  <1>3. CASE Active(h.chan) # {}
    <2> DEFINE new == Newest(h.chan)
    <2>1. new \in Waiting(sessions, h.chan) /\ new \in Nat
      <3>1. new \in Active(h.chan)
        BY <1>1, <1>3, NewestIsActive
      <3> QED BY <1>1, <3>1 DEF Active, Waiting
    <2>2. task' = [task EXCEPT ![t].at = "answer", ![t].sid = new]
      BY <1>3 DEF FindDialogue
    <2> HIDE DEF new
    <2>3. task' = [task EXCEPT ![t] = [h EXCEPT !.at = "answer", !.sid = new]]
      BY <2>2 DEF Inductive, OnboardingTypeOK
    <2>4. /\ [h EXCEPT !.at = "answer", !.sid = new] \in Handler
          /\ [h EXCEPT !.at = "answer", !.sid = new].at = "answer"
          /\ [h EXCEPT !.at = "answer", !.sid = new].sid = new
          /\ [h EXCEPT !.at = "answer", !.sid = new].chan = h.chan
          /\ [h EXCEPT !.at = "answer", !.sid = new].kind = h.kind
      BY <1>1, <2>1 DEF Handler, HandlerPlaces, Answering
    <2>5. /\ Only(t)
          /\ task'[t].at = "answer" /\ task'[t].sid = new /\ task'[t].chan = h.chan /\ task'[t].kind = h.kind
      BY <2>3, <2>4 DEF Only, Inductive, OnboardingTypeOK
    <2>6. Sound(task'[t], channels, sessions', initiatives')
      BY <1>1, <2>1, <2>5 DEF Sound, Setting, Registering, Relocating, Waiting
    <2>7. SameErrand(h, task'[t])
      BY <1>1, <2>5 DEF SameErrand
    <2>8. KindIsFree'
      BY <1>1, <2>5 DEF Inductive, KindIsFree, Only, OfKind, Registering
    <2>9. DialoguesFound'
      BY <1>1, <2>1, <2>5 DEF Inductive, DialoguesFound, Only
    <2>10. sessions' \in Seq(Session) /\ Grows
      BY <1>1 DEF Grows
    <2>11. OneDialogue'
      BY <1>1 DEF Inductive, AtMostOne, OneDialogue, Active
    <2> QED BY <1>1, <2>5, <2>6, <2>7, <2>8, <2>9, <2>10, <2>11, TalkKeeps
  <1> QED BY <1>2, <1>3

LEMMA LoadDialogueKeeps == ASSUME Inductive, NEW t \in Tasks, LoadDialogue(t) PROVE Inductive'
  <1> DEFINE h == task[t]
             s == sessions[h.sid]
             g == [h EXCEPT !.at = "commit", !.row = s]
  <1>1. /\ h.at = "answer" /\ h \in Handler /\ h.chan \in Chans /\ sessions \in Seq(Session)
        /\ h.sid \in DOMAIN sessions /\ s.chan = h.chan /\ s \in Session
        /\ UNCHANGED <<channels, sessions, initiatives, pages, history>> /\ vault' = vault
    BY DEF LoadDialogue, Inductive, OnboardingTypeOK, HandlersSound, Sound, vault
  <1>2. CASE s.step \notin Open
    BY <1>1, <1>2, EndKeeps DEF LoadDialogue
  <1>3. CASE s.step \in Open
    <2>1. task' = [task EXCEPT ![t] = g]
      BY <1>3 DEF LoadDialogue, Inductive, OnboardingTypeOK
    <2> HIDE DEF s
    <2>2. /\ g \in Handler /\ g.at = "commit" /\ g.row = s
          /\ g.chan = h.chan /\ g.kind = h.kind /\ g.sid = h.sid
      BY <1>1 DEF Handler, HandlerPlaces, Answering
    <2> HIDE DEF g
    <2>3. Only(t) /\ task'[t] = g
      BY <2>1, <2>2 DEF Only, Inductive, OnboardingTypeOK
    <2>4. Sound(g, channels, sessions, initiatives')
      BY <1>1, <1>3, <2>2 DEF Sound, Setting, Registering, Relocating, s
    <2>5. SameErrand(h, g) /\ Follows(h, g)
      BY <1>1, <2>2 DEF SameErrand, Follows, Registering
    <2> QED BY <1>1, <2>2, <2>3, <2>4, <2>5, QuietKeeps
  <1> QED BY <1>2, <1>3

\* The row that is answered may have been cancelled or moved on since, but only
\* by another handler of the channel.
LEMMA CommitDialogueKeeps == ASSUME Inductive, NEW t \in Tasks, CommitDialogue(t) PROVE Inductive'
  <1> DEFINE h == task[t]
             s == h.row
             next == StepAfter(s.step)
             g == IF s.step # "timeline" THEN Idle
                  ELSE [Idle EXCEPT !.at = "create", !.chan = h.chan,
                                    !.kind = s.kind, !.title = s.title, !.initiative = s.title]
  <1>1. /\ h.at = "commit" /\ h \in Handler /\ h.chan \in Chans /\ sessions \in Seq(Session)
        /\ h.sid \in DOMAIN sessions /\ sessions[h.sid].chan = h.chan /\ s \in Session
        /\ UNCHANGED <<channels, initiatives, pages, history>> /\ raced' = raced
        /\ sessions' = [sessions EXCEPT ![h.sid].step = next]
        /\ task' = [task EXCEPT ![t] = g]
    BY DEF CommitDialogue, Ends, Inductive, OnboardingTypeOK, HandlersSound, Sound, vault, history
  <1>2. s.kind \in InitKinds /\ s.title \in AllTitles /\ next \in Open \cup {"done"}
    BY <1>1 DEF Session, StepAfter, Open
  <1> HIDE DEF s, next
  <1>3. /\ sessions' \in Seq(Session) /\ DOMAIN sessions' = DOMAIN sessions
        /\ \A i \in DOMAIN sessions : sessions'[i].chan = sessions[i].chan
        /\ \A i \in DOMAIN sessions : i # h.sid => sessions'[i] = sessions[i]
    <2>1. sessions[h.sid] \in Session
      BY <1>1
    <2>2. [sessions[h.sid] EXCEPT !.step = next] \in Session
      BY <1>2, <2>1 DEF Session
    <2>3. /\ [sessions[h.sid] EXCEPT !.step = next].chan = sessions[h.sid].chan
      BY <2>1 DEF Session
    <2>4. sessions' = [sessions EXCEPT ![h.sid] = [sessions[h.sid] EXCEPT !.step = next]]
      BY <1>1
    <2> QED BY <1>1, <2>2, <2>3, <2>4
  <1>4. g \in Handler /\ SameErrand(h, g) /\ g.at \in {"idle", "create"}
    <2>1. CASE s.step # "timeline"
      BY <2>1, IdleSound DEF SameErrand
    <2>2. CASE s.step = "timeline"
      <3>1. /\ Idle \in Handler /\ "create" \in HandlerPlaces /\ s.kind \in AllKinds
            /\ h.chan \in Chans \cup {None} /\ s.title \in AllTitles \cup {None}
        BY <1>1, <1>2, IdleSound DEF HandlerPlaces, Answering, AllKinds
      <3>2. g = [Idle EXCEPT !.at = "create", !.chan = h.chan, !.kind = s.kind, !.title = s.title, !.initiative = s.title]
        BY <2>2
      <3>3. g \in Handler
        BY <3>1, <3>2 DEF Handler
      <3>4. g.at = "create" /\ g.chan = h.chan /\ g.kind = s.kind
        BY <3>2 DEF Idle
      <3> QED BY <1>1, <1>2, <3>3, <3>4 DEF SameErrand
    <2> QED BY <2>1, <2>2
  <1>5. Sound(g, channels, sessions', initiatives')
    <2>1. CASE s.step # "timeline"
      BY <2>1, IdleSound
    <2>2. CASE s.step = "timeline"
      <3>1. g = [Idle EXCEPT !.at = "create", !.chan = h.chan, !.kind = s.kind, !.title = s.title, !.initiative = s.title]
        BY <2>2
      <3>2. /\ g.at = "create" /\ g.chan = h.chan /\ g.kind = s.kind
            /\ g.title = s.title /\ g.initiative = s.title
        BY <3>1 DEF Idle
      <3> QED BY <1>1, <1>2, <3>2 DEF Sound, Setting, Registering, Relocating
    <2> QED BY <2>1, <2>2
  <1> HIDE DEF g
  <1>6. Only(t) /\ task'[t] = g
    BY <1>1, <1>4 DEF Only, Inductive, OnboardingTypeOK
  <1>7. \A c \in Chans : c # h.chan => Waiting(sessions', c) = Waiting(sessions, c)
    BY <1>1, <1>3 DEF Waiting
  <1>8. h.chan \notin raced => Waiting(sessions', h.chan) \subseteq Waiting(sessions, h.chan)
    <2> SUFFICES ASSUME h.chan \notin raced, NEW i \in Waiting(sessions', h.chan) PROVE i \in Waiting(sessions, h.chan)
      OBVIOUS
    <2>1. CASE i = h.sid
      BY <1>1, <2>1 DEF Inductive, DialoguesFound
    <2>2. CASE i # h.sid
      BY <1>3, <2>2 DEF Waiting
    <2> QED BY <2>1, <2>2
  <1>9. OneDialogue'
    <2> SUFFICES ASSUME NEW c \in Chans \ raced, NEW i \in Waiting(sessions', c), NEW j \in Waiting(sessions', c) PROVE i = j
      BY <1>1 DEF OneDialogue, Active, Waiting
    <2>1. i \in Waiting(sessions, c) /\ j \in Waiting(sessions, c)
      BY <1>7, <1>8
    <2> QED BY <2>1 DEF Inductive, AtMostOne, OneDialogue, Active, Waiting
  <1>10. DialoguesFound'
    BY <1>1, <1>4, <1>6, <1>7, OthersAnswers DEF DialoguesFound
  <1>11. KindIsFree'
    BY <1>1, <1>4, <1>6 DEF Inductive, KindIsFree, Only, OfKind, Registering
  <1>12. Grows
    BY <1>1, <1>3 DEF Grows
  <1> QED BY <1>1, <1>3, <1>4, <1>5, <1>6, <1>9, <1>10, <1>11, <1>12, TalkKeeps

LEMMA CreateInitiativeKeeps == ASSUME Inductive, NEW t \in Tasks, CreateInitiative(t) PROVE Inductive'
  <1> DEFINE h == task[t]
  <1>1. /\ h.at = "create" /\ h \in Handler /\ h.chan \in Chans
        /\ h.kind \in InitKinds /\ h.title \in AllTitles /\ h.initiative = h.title
        /\ UNCHANGED <<channels, sessions, pages, history>>
        /\ initiatives' = initiatives \cup {InitiativePage(h.kind, h.title)} /\ Goes(t, "old")
    BY DEF CreateInitiative, Inductive, OnboardingTypeOK, HandlersSound, Sound
  <1>2. Only(t) /\ task'[t] = [h EXCEPT !.at = "old"]
    BY <1>1, GoesTypes DEF HandlerPlaces, Registering
  <1>3. /\ task'[t].at = "old" /\ task'[t].chan = h.chan /\ task'[t].kind = h.kind
        /\ task'[t].title = h.title /\ task'[t].initiative = h.initiative
    BY <1>1, <1>2 DEF Handler
  <1>4. Sound(task'[t], channels, sessions, initiatives')
    BY <1>1, <1>3 DEF Sound, Setting, Registering, Relocating, Paged, AllKinds
  <1>5. SameErrand(h, task'[t]) /\ Follows(h, task'[t])
    BY <1>1, <1>3 DEF SameErrand, Follows, InitKinds, Singletons
  <1>6. initiatives \subseteq initiatives'
    BY <1>1
  <1> QED BY <1>1, <1>2, <1>3, <1>4, <1>5, <1>6, QuietKeeps

-----------------------------------------------------------------------------
(* The channels table.                                                     *)

LEMMA ReadOldKeeps == ASSUME Inductive, NEW t \in Tasks, ReadOld(t) PROVE Inductive'
  <1> DEFINE h == task[t]
             row == channels[h.chan]
             g == [h EXCEPT !.at = "load", !.old = row]
  <1>1. /\ h.at = "old" /\ h \in Handler /\ h.chan \in Chans
        /\ Sound(h, channels, sessions, initiatives) /\ row \in Row \cup {None}
        /\ UNCHANGED <<channels, sessions, initiatives, pages, history>>
        /\ task' = [task EXCEPT ![t] = g]
    BY DEF ReadOld, Inductive, OnboardingTypeOK, HandlersSound, Sound, vault
  <1> HIDE DEF row
  <1>2. /\ g \in Handler /\ g.at = "load" /\ g.chan = h.chan /\ g.kind = h.kind
        /\ g.title = h.title /\ g.initiative = h.initiative
    <2>1. "load" \in HandlerPlaces
      BY DEF HandlerPlaces, Registering
    <2> QED BY <1>1, <2>1 DEF Handler
  <1> HIDE DEF g
  <1>3. Only(t) /\ task'[t] = g
    BY <1>1, <1>2 DEF Only, Inductive, OnboardingTypeOK
  <1>4. Sound(g, channels, sessions, initiatives')
    BY <1>1, <1>2 DEF Sound, Setting, Registering, Relocating
  <1>5. SameErrand(h, g) /\ Follows(h, g)
    BY <1>1, <1>2 DEF SameErrand, Follows, Registering
  <1> QED BY <1>1, <1>2, <1>3, <1>4, <1>5, QuietKeeps

LEMMA LoadChannelKeeps == ASSUME Inductive, NEW t \in Tasks, LoadChannel(t) PROVE Inductive'
  <1> DEFINE h == task[t]
             row == channels[h.chan]
             g == [h EXCEPT !.at = "upsert", !.row = row]
  <1>1. /\ h.at = "load" /\ h \in Handler /\ h.chan \in Chans
        /\ Sound(h, channels, sessions, initiatives) /\ row \in Row \cup {None}
        /\ UNCHANGED <<channels, sessions, initiatives, pages, history>>
        /\ task' = [task EXCEPT ![t] = g]
    BY DEF LoadChannel, Inductive, OnboardingTypeOK, HandlersSound, Sound, vault
  <1> HIDE DEF row
  <1>2. /\ g \in Handler /\ g.at = "upsert" /\ g.chan = h.chan /\ g.kind = h.kind
        /\ g.title = h.title /\ g.initiative = h.initiative /\ g.row = row
    <2>1. "upsert" \in HandlerPlaces
      BY DEF HandlerPlaces, Registering
    <2> QED BY <1>1, <2>1 DEF Handler
  <1> HIDE DEF g
  <1>3. Only(t) /\ task'[t] = g
    BY <1>1, <1>2 DEF Only, Inductive, OnboardingTypeOK
  <1>4. Sound(g, channels, sessions, initiatives')
    BY <1>1, <1>2 DEF Sound, Setting, Registering, Relocating, row
  <1>5. SameErrand(h, g) /\ Follows(h, g)
    BY <1>1, <1>2 DEF SameErrand, Follows, Registering
  <1> QED BY <1>1, <1>2, <1>3, <1>4, <1>5, QuietKeeps

\* Each column of a row that is written back is the stored or the wanted one.
LEMMA FlushedRow ==
    ASSUME NEW stored \in Row, NEW loaded, NEW wanted \in Row
    PROVE  LET row == Flushed(stored, loaded, wanted) IN
           /\ row \in Row
           /\ row.kind \in {stored.kind, wanted.kind}
           /\ row.initiative \in {stored.initiative, wanted.initiative}
  <1> DEFINE row == Flushed(stored, loaded, wanted)
  <1>1. /\ row = [f \in {"kind", "title", "initiative"} |-> row[f]]
        /\ row.kind \in {stored.kind, wanted.kind} /\ row.title \in {stored.title, wanted.title}
        /\ row.initiative \in {stored.initiative, wanted.initiative}
    BY DEF Flushed
  <1> HIDE DEF row
  <1>2. row = [kind |-> row.kind, title |-> row.title, initiative |-> row.initiative]
    BY <1>1
  <1>3. row \in Row
    BY <1>1, <1>2 DEF Row
  <1> QED BY <1>1, <1>3 DEF row

\* A step that writes a row.
LEMMA TableKeeps ==
    ASSUME Inductive, NEW t \in Tasks, Only(t), task[t].at # "idle", SameErrand(task[t], task'[t]),
           UNCHANGED <<sessions, vault, history>>, NEW c \in Chans, NEW row \in Row,
           channels' = [channels EXCEPT ![c] = row], task'[t].at \in {"idle", "relocate"},
           Sound(task'[t], channels', sessions, initiatives),
           row.initiative # None => Paged(row.initiative, initiatives),
           \A k \in Kinds \cap Singletons :
              row.kind = k => c \in OfKind(k) \/ (task[t].kind = k /\ (k \notin raced => OfKind(k) \subseteq {c}))
    PROVE  Inductive'
  <1>1. UNCHANGED <<sessions, initiatives, pages, raced, crossed>>
    BY DEF history, vault
  <1>2. /\ channels \in [Chans -> Row \cup {None}] /\ channels' \in [Chans -> Row \cup {None}]
        /\ channels'[c] = row /\ \A d \in Chans \ {c} : channels'[d] = channels[d]
        /\ row # None
    BY OnboardingAssumption DEF Inductive, OnboardingTypeOK
  <1>3. OnboardingTypeOK'
    BY <1>1, <1>2 DEF Inductive, OnboardingTypeOK, Only
  <1>4. Grows
    BY <1>1, <1>2 DEF Grows
  <1>5. Sound(task'[t], channels', sessions', initiatives')
    BY <1>1
  <1>6. HandlersSound'
    BY <1>4, <1>5, SoundKept
  <1>7. Meeting'
    BY <1>1, MeetingKept
  <1>8. Alone' /\ HeldIsThere' /\ TextIsSafe'
    BY <1>1, PagesKept
  <1>9. DialoguesFound'
    BY <1>1 DEF Inductive, DialoguesFound, Only
  <1>10. OneDialogue'
    BY <1>1 DEF Inductive, AtMostOne, OneDialogue, Active
  <1>11. InitiativeHasPage'
    BY <1>1, <1>2 DEF Inductive, InitiativeHasPage, Paged
  <1>12. \A k \in Kinds \cap Singletons :
            \/ OfKind(k)' \subseteq OfKind(k)
            \/ /\ OfKind(k)' \subseteq OfKind(k) \cup {c} /\ task[t].kind = k
               /\ k \notin raced => OfKind(k) \subseteq {c}
    <2> TAKE k \in Kinds \cap Singletons
    <2>1. OfKind(k)' \subseteq OfKind(k) \cup {c} /\ (row.kind # k => OfKind(k)' \subseteq OfKind(k))
      BY <1>2 DEF OfKind
    <2> QED BY <2>1
  <1>13. OneOfAKind'
    <2> SUFFICES ASSUME NEW k \in (Kinds \cap Singletons) \ raced, NEW d \in OfKind(k)', NEW e \in OfKind(k)'
                 PROVE  d = e
      BY <1>1 DEF OneOfAKind
    <2>1. \A x, y \in OfKind(k) : x = y
      BY DEF Inductive, AtMostOne, OneOfAKind, OfKind
    <2> QED BY <1>12, <2>1
  <1>14. KindIsFree'
    <2> SUFFICES ASSUME NEW u \in Tasks, NEW k \in (Kinds \cap Singletons) \ raced,
                        task'[u].at \in Registering, task'[u].kind = k
                 PROVE  OfKind(k)' \subseteq {task'[u].chan}
      BY <1>1 DEF KindIsFree
    <2>1. u # t /\ task'[u] = task[u]
      BY DEF Only, Registering
    <2>2. task[u].kind # task[t].kind
      BY <2>1 DEF Inductive, Meeting, Registering
    <2>3. OfKind(k) \subseteq {task[u].chan}
      BY <2>1 DEF Inductive, KindIsFree
    <2>4. k # task[t].kind => OfKind(k)' \subseteq OfKind(k)
      BY <1>12
    <2> QED BY <2>1, <2>2, <2>3, <2>4
  <1> QED BY <1>3, <1>6, <1>7, <1>8, <1>9, <1>10, <1>11, <1>13, <1>14 DEF Inductive, AtMostOne

LEMMA UpsertChannelKeeps == ASSUME Inductive, NEW t \in Tasks, UpsertChannel(t) PROVE Inductive'
  <1> DEFINE h == task[t]
             c == h.chan
             row == IF h.row = None THEN Wanted(t) ELSE Flushed(channels[c], h.row, Wanted(t))
  <1>1. /\ h.at = "upsert" /\ h \in Handler /\ c \in Chans
        /\ h.kind \in AllKinds /\ h.title \in AllTitles
        /\ h.initiative # None => Paged(h.initiative, initiatives)
        /\ h.row # None => channels[c] \in Row
        /\ UNCHANGED <<sessions, vault, history>>
    BY DEF UpsertChannel, Inductive, OnboardingTypeOK, HandlersSound, Sound, Registering
  <1>2. CASE h.row = None /\ channels[c] # None
    BY <1>1, <1>2, EndKeeps DEF UpsertChannel
  <1>3. CASE ~(h.row = None /\ channels[c] # None)
    <2>1. channels' = [channels EXCEPT ![c] = row] /\ Goes(t, "relocate")
      BY <1>3 DEF UpsertChannel
    <2>2. /\ Wanted(t) \in Row /\ Wanted(t).kind = h.kind /\ Wanted(t).initiative = h.initiative
      <3>1. h.kind \in InitKinds \cup Singletons \cup {"other", "unset"}
        BY <1>1, OnboardingAssumption DEF AllKinds
      <3>2. h.initiative \in AllTitles \cup {None}
        BY <1>1 DEF Handler
      <3> QED BY <1>1, <3>1, <3>2 DEF Wanted, Row
    <2>3. /\ row \in Row
          /\ row.kind = h.kind \/ (channels[c] \in Row /\ row.kind = channels[c].kind)
          /\ row.initiative = h.initiative \/ (channels[c] \in Row /\ row.initiative = channels[c].initiative)
      <3>1. CASE h.row = None
        BY <2>2, <3>1
      <3>2. CASE h.row # None
        BY <1>1, <2>2, <3>2, FlushedRow
      <3> QED BY <3>1, <3>2
    <2> HIDE DEF row
    <2>4. Only(t) /\ task'[t] = [h EXCEPT !.at = "relocate"]
      BY <2>1, GoesTypes DEF HandlerPlaces
    <2>5. task'[t].at = "relocate" /\ task'[t].chan = c /\ task'[t].kind = h.kind
      BY <1>1, <2>4 DEF Handler
    <2>6. channels'[c] # None
      BY <1>1, <2>1, <2>3, OnboardingAssumption DEF Inductive, OnboardingTypeOK
    <2>7. Sound(task'[t], channels', sessions, initiatives)
      BY <1>1, <2>5, <2>6 DEF Sound, Setting, Registering, Relocating
    <2>8. SameErrand(h, task'[t])
      BY <1>1, <2>5 DEF SameErrand
    <2>9. row.initiative # None => Paged(row.initiative, initiatives)
      BY <1>1, <2>3, OnboardingAssumption DEF Inductive, InitiativeHasPage, Paged
    <2>10. \A k \in Kinds \cap Singletons :
              row.kind = k => c \in OfKind(k) \/ (h.kind = k /\ (k \notin raced => OfKind(k) \subseteq {c}))
      <3> SUFFICES ASSUME NEW k \in Kinds \cap Singletons, row.kind = k, c \notin OfKind(k)
                   PROVE  h.kind = k /\ (k \notin raced => OfKind(k) \subseteq {c})
        OBVIOUS
      <3>1. h.kind = k
        BY <1>1, <2>3, OnboardingAssumption DEF OfKind
      <3> QED BY <1>1, <3>1 DEF Inductive, KindIsFree, Registering
    <2> QED BY <1>1, <2>1, <2>3, <2>4, <2>5, <2>7, <2>8, <2>9, <2>10, TableKeeps
  <1> QED BY <1>2, <1>3

LEMMA LoadWatchedKeeps == ASSUME Inductive, NEW t \in Tasks, LoadWatched(t) PROVE Inductive'
  <1> DEFINE h == task[t]
             c == h.chan
             row == channels[c]
             g == [h EXCEPT !.at = "unset", !.row = row]
  <1>1. /\ h.at = "unload" /\ h \in Handler /\ c \in Chans /\ row \in Row \cup {None}
        /\ UNCHANGED <<channels, sessions, vault, history>> /\ UNCHANGED <<initiatives, pages>>
    BY DEF LoadWatched, Inductive, OnboardingTypeOK, HandlersSound, Sound, vault
  <1>2. CASE row = None \/ row.kind = "unset"
    BY <1>1, <1>2, EndKeeps DEF LoadWatched
  <1>3. CASE ~(row = None \/ row.kind = "unset")
    <2>1. task' = [task EXCEPT ![t] = g]
      BY <1>3 DEF LoadWatched, Inductive, OnboardingTypeOK
    <2> HIDE DEF row
    <2>2. g \in Handler /\ g.at = "unset" /\ g.chan = c /\ g.kind = h.kind /\ g.row = row
      <3>1. "unset" \in HandlerPlaces
        BY DEF HandlerPlaces
      <3> QED BY <1>1, <3>1 DEF Handler
    <2> HIDE DEF g
    <2>3. Only(t) /\ task'[t] = g
      BY <2>1, <2>2 DEF Only, Inductive, OnboardingTypeOK
    <2>4. Sound(g, channels, sessions, initiatives')
      BY <1>1, <1>3, <2>2 DEF Sound, Setting, Registering, Relocating, row
    <2>5. SameErrand(h, g) /\ Follows(h, g)
      BY <1>1, <2>2 DEF SameErrand, Follows, Registering
    <2> QED BY <1>1, <2>2, <2>3, <2>4, <2>5, QuietKeeps
  <1> QED BY <1>2, <1>3

LEMMA UnsetKeeps == ASSUME Inductive, NEW t \in Tasks, Unset(t) PROVE Inductive'
  <1> DEFINE h == task[t]
             c == h.chan
             wanted == [h.row EXCEPT !.kind = "unset", !.initiative = None]
             row == Flushed(channels[c], h.row, wanted)
  <1>1. /\ h.at = "unset" /\ h \in Handler /\ c \in Chans /\ h.row \in Row /\ channels[c] \in Row
        /\ UNCHANGED <<sessions, vault, history>> /\ Ends(t)
        /\ channels' = [channels EXCEPT ![c] = row]
    BY DEF Unset, Inductive, OnboardingTypeOK, HandlersSound, Sound
  <1>2. wanted \in Row /\ wanted.kind = "unset" /\ wanted.initiative = None
    BY <1>1 DEF Row
  <1> HIDE DEF wanted
  <1>3. row \in Row /\ row.kind \in {channels[c].kind, "unset"} /\ row.initiative \in {channels[c].initiative, None}
    BY <1>1, <1>2, FlushedRow
  <1> HIDE DEF row
  <1>4. task'[t] = Idle /\ Only(t)
    BY <1>1, IdleSound DEF Ends, Only, Inductive, OnboardingTypeOK
  <1>5. SameErrand(h, task'[t])
    BY <1>4, IdleSound DEF SameErrand
  <1>6. row.initiative # None => Paged(row.initiative, initiatives)
    BY <1>1, <1>3, OnboardingAssumption DEF Inductive, InitiativeHasPage, Paged
  <1>7. \A k \in Kinds \cap Singletons : row.kind = k => c \in OfKind(k)
    BY <1>1, <1>3, OnboardingAssumption DEF OfKind, Singletons
  <1> QED BY <1>1, <1>3, <1>4, <1>5, <1>6, <1>7, IdleSound, TableKeeps

-----------------------------------------------------------------------------
(* The pages that move.                                                    *)

LEMMA RelocateKeeps == ASSUME Inductive, NEW t \in Tasks, Relocate(t) PROVE Inductive'
  <1> DEFINE h == task[t]
             new == channels[h.chan]
             from == IF h.old = None THEN Slug[new.title] ELSE Slug[h.old.title]
             found(p) == IF pages[<<p, from>>] = None THEN <<>> ELSE <<p>>
             parts == <<"page">> \o found("thread") \o found("archive")
  <1>1. /\ h.at = "relocate" /\ h \in Handler /\ h.chan \in Chans /\ new \in Row
        /\ UNCHANGED <<channels, sessions, vault, history>> /\ UNCHANGED <<initiatives, pages>>
    BY DEF Relocate, Inductive, OnboardingTypeOK, HandlersSound, Sound, vault
  <1>2. PICK g : /\ task' = [task EXCEPT ![t] = g]
                 /\ \/ g = [h EXCEPT !.at = "ensure", !.row = new]
                    \/ h.old # None /\ g = [h EXCEPT !.at = "read", !.row = new, !.todo = parts]
    BY DEF Relocate, Inductive, OnboardingTypeOK
  <1>3. parts \in Seq(Parts) /\ parts # <<>>
    <2>1. found("thread") \in Seq(Parts) /\ found("archive") \in Seq(Parts) /\ <<"page">> \in Seq(Parts)
      BY DEF Parts
    <2> HIDE DEF found
    <2> QED BY <2>1
  <1> HIDE DEF new, parts
  <1>4. /\ g \in Handler /\ g.chan = h.chan /\ g.kind = h.kind /\ g.old = h.old /\ g.row = new
        /\ g.at = "ensure" \/ (g.at = "read" /\ h.old # None /\ g.todo # <<>>)
    <2>1. "ensure" \in HandlerPlaces /\ "read" \in HandlerPlaces
      BY DEF HandlerPlaces, Relocating
    <2> QED BY <1>1, <1>2, <1>3, <2>1 DEF Handler
  <1>5. Only(t) /\ task'[t] = g
    BY <1>2, <1>4 DEF Only, Inductive, OnboardingTypeOK
  <1>6. h.old \in Row \cup {None}
    BY <1>1 DEF Handler
  <1>7. Sound(g, channels, sessions, initiatives')
    BY <1>1, <1>4, <1>6 DEF Sound, Setting, Registering, Relocating
  <1>8. SameErrand(h, g) /\ Follows(h, g)
    BY <1>1, <1>4 DEF SameErrand, Follows, Registering
  <1> QED BY <1>1, <1>4, <1>5, <1>7, <1>8, QuietKeeps

\* What a handler that moves pages knows of them.
LEMMA PlacesOfMove ==
    ASSUME Inductive, NEW t \in Tasks, task[t].at \in Relocating
    PROVE  /\ Source(t) \in Places /\ Target(t) \in Places
           /\ \E p \in Parts, d, e \in Dirs : Source(t) = <<p, d>> /\ Target(t) = <<p, e>>
           /\ task[t] \in Handler /\ task[t].chan \in Chans
           /\ Sound(task[t], channels, sessions, initiatives)
  <1>1. /\ task[t] \in Handler /\ Sound(task[t], channels, sessions, initiatives)
        /\ task[t].chan \in Chans /\ task[t].at # "idle"
        /\ task[t].old \in Row /\ task[t].row \in Row /\ task[t].todo # <<>> /\ task[t].todo \in Seq(Parts)
    BY DEF Inductive, OnboardingTypeOK, HandlersSound, Sound, Relocating, Handler
  <1>2. Head(task[t].todo) \in Parts
    BY <1>1
  <1>3. Slug[task[t].old.title] \in Dirs /\ Slug[task[t].row.title] \in Dirs
    BY <1>1 DEF Row, Dirs
  <1> QED BY <1>1, <1>2, <1>3 DEF Source, Target, Places

LEMMA NextPageTypes ==
    ASSUME Inductive, NEW t \in Tasks, task[t].at \in Relocating, NextPage(t)
    PROVE  /\ Only(t) /\ task'[t].at \in {"read", "ensure"}
           /\ Sound(task'[t], channels, sessions, initiatives)
           /\ SameErrand(task[t], task'[t]) /\ Follows(task[t], task'[t])
  <1> DEFINE h == task[t]
             place == IF Len(h.todo) = 1 THEN "ensure" ELSE "read"
             rest == Tail(h.todo)
             g == [h EXCEPT !.at = place, !.todo = rest, !.held = None]
  <1>1. /\ h \in Handler /\ Sound(h, channels, sessions, initiatives) /\ h.chan \in Chans /\ h.at # "idle"
        /\ h.old \in Row /\ h.row \in Row /\ h.todo # <<>> /\ h.todo \in Seq(Parts)
    BY PlacesOfMove DEF Sound, Relocating, Handler
  <1>2. task' = [task EXCEPT ![t] = g]
    BY DEF NextPage, Inductive, OnboardingTypeOK
  <1>3. rest \in Seq(Parts) /\ (place = "read" => rest # <<>>)
    <2>1. Len(h.todo) \in Nat /\ Len(h.todo) # 0
      BY <1>1
    <2>2. rest \in Seq(Parts) /\ Len(rest) = Len(h.todo) - 1
      BY <1>1
    <2>3. place = "read" => Len(rest) # 0
      BY <2>1, <2>2
    <2> HIDE DEF rest, place
    <2>4. rest = <<>> => Len(rest) = 0
      OBVIOUS
    <2> QED BY <2>2, <2>3, <2>4
  <1>4. place \in {"ensure", "read"} /\ place \in HandlerPlaces
    BY DEF HandlerPlaces, Relocating
  <1> HIDE DEF place, rest
  <1>5. /\ g \in Handler /\ g.at = place /\ g.chan = h.chan /\ g.kind = h.kind
        /\ g.old = h.old /\ g.row = h.row /\ g.todo = rest
    BY <1>1, <1>3, <1>4 DEF Handler
  <1> HIDE DEF g
  <1>6. Only(t) /\ task'[t] = g
    BY <1>2, <1>5 DEF Only, Inductive, OnboardingTypeOK
  <1>7. Sound(g, channels, sessions, initiatives)
    BY <1>1, <1>3, <1>4, <1>5 DEF Sound, Setting, Registering, Relocating
  <1>8. SameErrand(h, g) /\ Follows(h, g)
    BY <1>1, <1>4, <1>5 DEF SameErrand, Follows, Registering
  <1> QED BY <1>4, <1>5, <1>6, <1>7, <1>8

\* A step that leaves all but the pages alone.
LEMMA WikiKeeps ==
    ASSUME Inductive, NEW t \in Tasks, Only(t), task[t].at # "idle",
           SameErrand(task[t], task'[t]), Follows(task[t], task'[t]),
           UNCHANGED <<channels, sessions, initiatives, raced>>,
           pages' \in [Places -> Chans \cup {None, Fresh}],
           Sound(task'[t], channels, sessions, initiatives), Alone', HeldIsThere', TextIsSafe'
    PROVE  Inductive'
  <1>1. UNCHANGED channels /\ UNCHANGED sessions /\ UNCHANGED initiatives /\ UNCHANGED raced
    OBVIOUS
  <1>2. \A k : OfKind(k)' = OfKind(k)
    BY <1>1 DEF OfKind
  <1>3. OnboardingTypeOK'
    BY <1>1 DEF Inductive, OnboardingTypeOK, Only
  <1>4. Grows
    BY <1>1 DEF Grows
  <1>5. Sound(task'[t], channels', sessions', initiatives')
    BY <1>1
  <1>6. HandlersSound'
    BY <1>4, <1>5, SoundKept
  <1>7. Meeting'
    BY <1>1, MeetingKept
  <1>8. KindIsFree'
    BY <1>1, <1>2, KindKept
  <1>9. DialoguesFound'
    BY <1>1, DialoguesKept
  <1>10. AtMostOne' /\ InitiativeHasPage'
    BY <1>1, <1>2, AtMostOneKept, InitiativesKept
  <1> QED BY <1>3, <1>6, <1>7, <1>8, <1>9, <1>10 DEF Inductive

LEMMA ReadPageKeeps == ASSUME Inductive, NEW t \in Tasks, ReadPage(t) PROVE Inductive'
  <1> DEFINE h == task[t]
             text == pages[Source(t)]
             g == [h EXCEPT !.at = "put", !.held = text]
  <1>1. /\ h.at = "read" /\ h \in Handler /\ h.chan \in Chans /\ Source(t) \in Places
        /\ Sound(h, channels, sessions, initiatives)
        /\ UNCHANGED <<channels, sessions, vault, raced, pages, initiatives>>
    BY PlacesOfMove DEF ReadPage, Relocating, vault
  <1>2. CASE text = None
    <2>1. NextPage(t) /\ UNCHANGED history
      BY <1>1, <1>2 DEF ReadPage, history
    <2> QED BY <1>1, <2>1, NextPageTypes, QuietKeeps DEF Relocating
  <1>3. CASE text # None
    <2>1. /\ task' = [task EXCEPT ![t] = g]
          /\ crossed' = crossed \cup {p \in {Source(t)} : \E u \in Moving \ {t} : Source(u) = p}
      BY <1>3 DEF ReadPage, Inductive, OnboardingTypeOK
    <2>2. text \in Chans \cup {None, Fresh} /\ "put" \in HandlerPlaces
      BY <1>1 DEF Inductive, OnboardingTypeOK, HandlerPlaces, Relocating
    <2>3. /\ g \in Handler /\ g.at = "put" /\ g.chan = h.chan /\ g.kind = h.kind
          /\ g.old = h.old /\ g.row = h.row /\ g.todo = h.todo /\ g.held = text
      <3> HIDE DEF text
      <3> QED BY <1>1, <2>2 DEF Handler
    <2> HIDE DEF g
    <2>4. Only(t) /\ task'[t] = g
      BY <2>1, <2>3 DEF Only, Inductive, OnboardingTypeOK
    <2>5. Sound(g, channels, sessions, initiatives)
      BY <1>1, <1>3, <2>3 DEF Sound, Setting, Registering, Relocating
    <2>6. SameErrand(h, g) /\ Follows(h, g)
      BY <1>1, <2>3 DEF SameErrand, Follows, Registering
    <2>7. /\ \A u \in Tasks : Source(u)' = Source(u)
          /\ Moving' = Moving \cup {t} /\ t \notin Moving
          /\ \A u \in Moving : task'[u] = task[u]
      BY <1>1, <2>3, <2>4 DEF Source, Moving, Only
    <2>8. Alone'
      <3> SUFFICES ASSUME NEW u \in Moving', NEW v \in Moving', u # v, Source(u) = Source(v)
                   PROVE  Source(u) \in crossed'
        BY <2>7 DEF Alone, Moving
      <3>1. CASE u = t \/ v = t
        BY <2>1, <2>7, <3>1
      <3>2. CASE u # t /\ v # t
        BY <2>1, <2>7, <3>2 DEF Inductive, Alone
      <3> QED BY <3>1, <3>2
    <2>9. HeldIsThere'
      <3> SUFFICES ASSUME NEW u \in Moving', Source(u) \notin crossed' PROVE pages[Source(u)] = task'[u].held
        BY <1>1, <2>7 DEF HeldIsThere, Moving
      <3>1. CASE u = t
        BY <2>3, <2>4, <3>1
      <3>2. CASE u # t
        BY <2>1, <2>7, <3>2 DEF Inductive, HeldIsThere
      <3> QED BY <3>1, <3>2
    <2>10. TextIsSafe'
      <3>1. \A p : Doomed(p)' => Doomed(p)
        BY <2>3, <2>4, <2>7 DEF Doomed, Only
      <3> QED BY <1>1, <2>1, <3>1 DEF Inductive, TextIsSafe
    <2> QED BY <1>1, <2>4, <2>5, <2>6, <2>8, <2>9, <2>10, WikiKeeps DEF Inductive, OnboardingTypeOK
  <1> QED BY <1>2, <1>3

LEMMA PutPageKeeps == ASSUME Inductive, NEW t \in Tasks, PutPage(t) PROVE Inductive'
  <1> DEFINE h == task[t]
  <1>1. /\ h.at = "put" /\ h \in Handler /\ h.chan \in Chans /\ h.held # None
        /\ Source(t) \in Places /\ Target(t) \in Places
        /\ \E p \in Parts, d, e \in Dirs : Source(t) = <<p, d>> /\ Target(t) = <<p, e>>
        /\ Sound(h, channels, sessions, initiatives)
        /\ UNCHANGED <<channels, sessions, raced, initiatives>> /\ crossed' = crossed /\ UNCHANGED history
    BY PlacesOfMove DEF PutPage, Relocating, Sound, history
  <1>2. CASE pages[Target(t)] # None
    <2>1. NextPage(t) /\ UNCHANGED pages
      BY <1>2 DEF PutPage
    <2> QED BY <1>1, <2>1, NextPageTypes, QuietKeeps DEF Relocating
  <1>3. CASE pages[Target(t)] = None
    <2>1. pages' = [pages EXCEPT ![Target(t)] = h.held] /\ Goes(t, "delete")
      BY <1>3 DEF PutPage
    <2>2. Only(t) /\ task'[t] = [h EXCEPT !.at = "delete"]
      BY <2>1, GoesTypes DEF HandlerPlaces, Relocating
    <2>3. /\ task'[t].at = "delete" /\ task'[t].chan = h.chan /\ task'[t].kind = h.kind
          /\ task'[t].old = h.old /\ task'[t].row = h.row /\ task'[t].todo = h.todo /\ task'[t].held = h.held
      BY <1>1, <2>2 DEF Handler
    <2>4. Sound(task'[t], channels, sessions, initiatives)
      BY <1>1, <2>3 DEF Sound, Setting, Registering, Relocating
    <2>5. SameErrand(h, task'[t]) /\ Follows(h, task'[t])
      BY <1>1, <2>3 DEF SameErrand, Follows, Registering
    <2>6. /\ \A u \in Tasks : Source(u)' = Source(u)
          /\ Moving' = Moving /\ t \in Moving
          /\ \A u \in Moving : task'[u].held = task[u].held /\ task[u].held # None
      BY <1>1, <2>2, <2>3 DEF Source, Moving, Only, Inductive, HandlersSound, Sound
    <2>7. /\ pages' \in [Places -> Chans \cup {None, Fresh}] /\ pages'[Target(t)] = h.held
          /\ \A p \in Places : p # Target(t) => pages'[p] = pages[p]
      <3>1. h.held \in Chans \cup {None, Fresh}
        BY <1>1 DEF Handler
      <3> QED BY <1>1, <2>1, <3>1 DEF Inductive, OnboardingTypeOK
    <2>8. \A u \in Moving : Source(u) \notin crossed => Source(u) # Target(t) /\ pages[Source(u)] = task[u].held
      BY <1>3, <2>6 DEF Inductive, HeldIsThere
    <2>9. \A u \in Moving : Source(u) \in Places
      BY PlacesOfMove DEF Moving, Relocating
    <2>10. Alone' /\ HeldIsThere'
      <3> Moving \subseteq Tasks
        BY DEF Moving
      <3>1. Alone'
        BY <1>1, <2>6 DEF Inductive, Alone
      <3>2. \A u \in Moving : Source(u) \notin crossed => pages'[Source(u)] = task[u].held
        BY <2>7, <2>8, <2>9
      <3>3. HeldIsThere'
        BY <1>1, <2>6, <3>2 DEF HeldIsThere
      <3> QED BY <3>1, <3>3
    <2>11. TextIsSafe'
      <3>1. \A p : Doomed(p)' => Doomed(p) \/ p = Source(t)
        BY <2>2, <2>6 DEF Doomed, Only
      <3> SUFFICES ASSUME NEW p \in Parts, NEW d \in Dirs, Begun(d) # None, \A e \in Dirs : <<p, e>> \notin crossed
                   PROVE  \E e \in Dirs : pages'[<<p, e>>] = Begun(d) /\ ~Doomed(<<p, e>>)'
        BY <1>1 DEF TextIsSafe
      <3>2. PICK e \in Dirs : pages[<<p, e>>] = Begun(d) /\ ~Doomed(<<p, e>>)
        BY DEF Inductive, TextIsSafe
      <3>3. CASE Source(t) # <<p, e>>
        <4>1. <<p, e>> \in Places /\ <<p, e>> # Target(t)
          BY <1>3, <3>2 DEF Places
        <4> QED BY <2>7, <3>1, <3>2, <3>3, <4>1
      <3>4. CASE Source(t) = <<p, e>>
        <4>1. PICK f \in Dirs : Target(t) = <<p, f>>
          BY <1>1, <3>4
        <4>2. pages'[<<p, f>>] = Begun(d)
          BY <2>6, <2>7, <2>8, <3>2, <3>4, <4>1
        <4>3. ~Doomed(<<p, f>>)
          <5> SUFFICES ASSUME NEW u \in Tasks, task[u].at = "delete", Source(u) = <<p, f>> PROVE FALSE
            BY DEF Doomed
          <5>1. u \in Moving /\ Source(u) \notin crossed
            BY DEF Moving
          <5> QED BY <2>8, <4>1, <5>1
        <4>4. <<p, f>> # Source(t)
          BY <2>6, <2>8, <3>4, <4>1
        <4> QED BY <3>1, <4>2, <4>3, <4>4
      <3> QED BY <3>3, <3>4
    <2> QED BY <1>1, <2>2, <2>4, <2>5, <2>7, <2>10, <2>11, WikiKeeps
  <1> QED BY <1>2, <1>3

LEMMA DeletePageKeeps == ASSUME Inductive, NEW t \in Tasks, DeletePage(t) PROVE Inductive'
  <1> DEFINE h == task[t]
  <1>1. /\ h.at = "delete" /\ h.chan \in Chans /\ Source(t) \in Places /\ NextPage(t)
        /\ pages' = [pages EXCEPT ![Source(t)] = None]
        /\ UNCHANGED <<channels, sessions, raced, initiatives>> /\ crossed' = crossed
    BY PlacesOfMove DEF DeletePage, Relocating, history
  <1>2. /\ Only(t) /\ task'[t].at \in {"read", "ensure"}
        /\ Sound(task'[t], channels, sessions, initiatives)
        /\ SameErrand(task[t], task'[t]) /\ Follows(task[t], task'[t])
    BY <1>1, NextPageTypes DEF Relocating
  <1>3. /\ pages' \in [Places -> Chans \cup {None, Fresh}]
        /\ \A p \in Places : p # Source(t) => pages'[p] = pages[p]
    BY <1>1 DEF Inductive, OnboardingTypeOK
  <1>4. \A u \in Moving' : u \in Moving /\ u # t /\ task'[u] = task[u] /\ Source(u)' = Source(u)
    BY <1>2 DEF Moving, Only, Source
  <1>5. \A u \in Moving : u # t /\ Source(u) \notin crossed => Source(u) # Source(t)
    BY <1>1 DEF Inductive, Alone, Moving
  <1>6. \A u \in Moving : Source(u) \in Places
    BY PlacesOfMove DEF Moving, Relocating
  <1>7. Alone' /\ HeldIsThere'
    BY <1>1, <1>3, <1>4, <1>5, <1>6 DEF Inductive, Alone, HeldIsThere
  <1>8. TextIsSafe'
    <2>1. \A p : Doomed(p)' => Doomed(p)
      BY <1>2 DEF Doomed, Only, Source
    <2>2. Doomed(Source(t))
      BY <1>1 DEF Doomed
    <2> SUFFICES ASSUME NEW p \in Parts, NEW d \in Dirs, Begun(d) # None, \A e \in Dirs : <<p, e>> \notin crossed
                 PROVE  \E e \in Dirs : pages'[<<p, e>>] = Begun(d) /\ ~Doomed(<<p, e>>)'
      BY <1>1 DEF TextIsSafe
    <2>3. PICK e \in Dirs : pages[<<p, e>>] = Begun(d) /\ ~Doomed(<<p, e>>)
      BY DEF Inductive, TextIsSafe
    <2>4. <<p, e>> \in Places /\ <<p, e>> # Source(t)
      BY <2>2, <2>3 DEF Places
    <2> QED BY <1>3, <2>1, <2>3, <2>4
  <1> QED BY <1>1, <1>2, <1>3, <1>7, <1>8, WikiKeeps

LEMMA EnsureChannelPageKeeps == ASSUME Inductive, NEW t \in Tasks, EnsureChannelPage(t) PROVE Inductive'
  <1> DEFINE place == <<"page", Slug[task[t].row.title]>>
  <1>1. /\ task[t].at = "ensure" /\ Ends(t)
        /\ pages' = IF pages[place] = None THEN [pages EXCEPT ![place] = Fresh] ELSE pages
        /\ UNCHANGED <<channels, sessions, raced, initiatives>> /\ crossed' = crossed
    BY DEF EnsureChannelPage, history
  <1>2. /\ pages' \in [Places -> Chans \cup {None, Fresh}]
        /\ \A p \in Places : pages[p] # None => pages'[p] = pages[p]
    BY <1>1 DEF Inductive, OnboardingTypeOK
  <1>3. task'[t] = Idle /\ Only(t)
    BY <1>1, IdleSound DEF Ends, Only, Inductive, OnboardingTypeOK
  <1>4. SameErrand(task[t], task'[t]) /\ Follows(task[t], task'[t])
    BY <1>3, IdleSound DEF SameErrand, Follows
  <1>5. \A u \in Moving' : u \in Moving /\ u # t /\ task'[u] = task[u] /\ Source(u)' = Source(u)
    BY <1>3, IdleSound DEF Moving, Only, Source
  <1>6. \A u \in Moving : Source(u) \in Places /\ task[u].held # None
    BY PlacesOfMove DEF Moving, Relocating, Sound
  <1>7. Alone' /\ HeldIsThere'
    BY <1>1, <1>2, <1>5, <1>6 DEF Inductive, Alone, HeldIsThere
  <1>8. TextIsSafe'
    <2>1. \A p : Doomed(p)' => Doomed(p)
      BY <1>3, IdleSound DEF Doomed, Only, Source
    <2>2. \A p \in Parts, e \in Dirs : <<p, e>> \in Places
      BY DEF Places
    <2> QED BY <1>1, <1>2, <2>1, <2>2 DEF Inductive, TextIsSafe
  <1> QED BY <1>1, <1>2, <1>3, <1>4, <1>7, <1>8, IdleSound, WikiKeeps

-----------------------------------------------------------------------------
(* Every step.                                                             *)

LEMMA StepKeeps == ASSUME Inductive, [Next]_vars PROVE Inductive'
  <1>1. CASE UNCHANGED vars
    <2>1. UNCHANGED <<channels, sessions, initiatives, pages, task, raced, crossed>>
      BY <1>1 DEF vars, vault, history
    <2>2. (\A k : OfKind(k)' = OfKind(k)) /\ (\A c : Active(c)' = Active(c))
      BY <2>1 DEF OfKind, Active
    <2>3. Moving' = Moving /\ (\A t : Source(t)' = Source(t)) /\ (\A p : Doomed(p)' = Doomed(p))
      BY <2>1 DEF Moving, Source, Doomed
    <2>4. OnboardingTypeOK' /\ HandlersSound' /\ Meeting' /\ DialoguesFound' /\ InitiativeHasPage'
      BY <2>1 DEF Inductive, OnboardingTypeOK, HandlersSound, Meeting, DialoguesFound, InitiativeHasPage
    <2>5. KindIsFree' /\ AtMostOne'
      BY <2>1, <2>2 DEF Inductive, KindIsFree, AtMostOne, OneOfAKind, OneDialogue
    <2>6. Alone' /\ HeldIsThere' /\ TextIsSafe'
      BY <2>1, <2>3 DEF Inductive, Alone, HeldIsThere, TextIsSafe
    <2> QED BY <2>4, <2>5, <2>6 DEF Inductive
  <1>2. ASSUME NEW t \in Tasks, NEW c \in Chans, NEW a \in Admins, NEW k \in Kinds, NEW ti \in Titles \cup {None},
               Setup(t, c, a, k, ti)
        PROVE  Inductive'
    BY <1>2, SetupKeeps
  <1>3. ASSUME NEW t \in Tasks, NEW c \in Chans, NEW a \in Admins,
               Unwatch(t, c, a) \/ \E slash \in BOOLEAN : Reply(t, c, a, slash)
        PROVE  Inductive'
    BY <1>3, OthersKeep
  <1>4. ASSUME NEW t \in Tasks, SetupStep(t) PROVE Inductive'
    BY <1>4, CancelDialoguesKeeps, FindKindKeeps, LookForPageKeeps, OpenDialogueKeeps DEF SetupStep
  <1>5. ASSUME NEW t \in Tasks, DialogueStep(t) PROVE Inductive'
    BY <1>5, FindDialogueKeeps, LoadDialogueKeeps, CommitDialogueKeeps, CreateInitiativeKeeps DEF DialogueStep
  <1>6. ASSUME NEW t \in Tasks, RegisterStep(t) PROVE Inductive'
    BY <1>6, ReadOldKeeps, LoadChannelKeeps, UpsertChannelKeeps, RelocateKeeps, ReadPageKeeps, PutPageKeeps,
       DeletePageKeeps, EnsureChannelPageKeeps DEF RegisterStep
  <1>7. ASSUME NEW t \in Tasks, LoadWatched(t) \/ Unset(t) \/ Fails(t) PROVE Inductive'
    BY <1>7, LoadWatchedKeeps, UnsetKeeps, FailsKeeps
  <1> QED BY <1>1, <1>2, <1>3, <1>4, <1>5, <1>6, <1>7 DEF Next

\* Everything at once, for every number of groups, handlers and faults.
THEOREM OnboardingInductive == Spec => []Inductive
  <1> QED BY InitInductive, StepKeeps, PTL DEF Spec

\* A singleton kind has one channel and a channel one open dialogue, unless two
\* handlers of the kind or the channel ran at once: a failure alone, wherever it
\* strikes between the steps of setup, never leaves two.
THEOREM OneChannelPerKind == Spec => []AtMostOne
  <1>1. Inductive => AtMostOne
    BY DEF Inductive
  <1> QED BY <1>1, OnboardingInductive, PTL

\* A channel is never linked to an initiative without a page, however many
\* handlers of setup and continue_setup_session overlap and wherever they die.
THEOREM LinksHavePages == Spec => []InitiativeHasPage
  <1>1. Inductive => InitiativeHasPage
    BY DEF Inductive
  <1> QED BY <1>1, OnboardingInductive, PTL

\* The text a directory begins with is always at some place, whichever
\* relocations overlap, retry or die, unless two of them had read one page of
\* its kind to move it.
THEOREM TextsSurvive == Spec => []NoPageLost
  <1>1. Inductive => NoPageLost
    BY DEF Inductive, TextIsSafe, NoPageLost
  <1> QED BY <1>1, OnboardingInductive, PTL

-----------------------------------------------------------------------------
(* The registry of members. What a command knows of the person it is at is *)
(* again stated place by place (Knows): the identities it has passed are   *)
(* linked, or were not when it looked (and if they are by now, another     *)
(* command has been there), and its row and what it loaded are one member's.*)

Working == {"resolve", "check", "load", "flush"}

Command == [at : Working \cup {"free", "next"}, cmd : {"none", "link", "match", "copy"},
            todo : SUBSET Persons, left : Seq(Identities),
            row : LinkRow \cup {Nobody}, loaded : LinkRow \cup {Nobody}]

MembersTypeOK ==
    /\ registry \in [Identities -> LinkRow \cup {Nobody}]
    /\ handler \in [Handlers -> Command]
    /\ overtaken \in [Handlers -> SUBSET Identities]

Jid(p) == <<p, "jid">>
Lid(p) == <<p, "lid">>

\* The person a command is at, and where it is with the identities.
Whole(c, p) == c.left = IdentitiesOf(p)
Half(c, p) == p \in HasLid /\ c.left = <<Lid(p)>>
At(c, p) == c.left # <<>> /\ Head(c.left) \in Identities /\ Head(c.left)[1] = p

OfOneMember(row, p, unsure) == row.id = Nobody \/ Agrees(row) \/ p \in unsure

Knows(c, rows, over, unsure) ==
    c.at \in Working =>
      \E p \in Persons :
        /\ At(c, p)
        /\ c.cmd = "link" => Len(c.left) = 1 /\ c.at \in {"load", "flush"}
        /\ c.cmd # "none" /\ (c.cmd # "link" => Whole(c, p) \/ Half(c, p))
        /\ c.at = "resolve" => c.cmd = "match" /\ (Half(c, p) => rows[Jid(p)] = Nobody \/ Jid(p) \in over)
        /\ c.at = "check" => c.cmd = "copy"
        /\ c.at # "resolve" => c.row \in LinkRow /\ OfOneMember(c.row, p, unsure)
        /\ c.at # "resolve" /\ c.cmd # "link" /\ Half(c, p) => rows[Jid(p)] # Nobody
        /\ c.at \in {"load", "flush"} /\ c.cmd = "match" =>
              \A n \in DOMAIN c.left : rows[c.left[n]] = Nobody \/ c.left[n] \in over
        /\ c.at = "load" /\ c.cmd = "copy" => rows[Head(c.left)] = Nobody \/ Head(c.left) \in over
        /\ c.at = "flush" /\ c.cmd # "link" => c.loaded = Nobody \/ Head(c.left) \in over
        /\ c.at = "flush" /\ c.loaded # Nobody =>
              rows[Head(c.left)] # Nobody /\ (Agrees(c.loaded) \/ p \in unsure)

CommandsKnow == \A h \in Handlers : Knows(handler[h], registry, overtaken[h], blind)

MembersInductive == MembersTypeOK /\ CommandsKnow /\ RowsAgree

LEMMA FreeIsCommand == Free \in Command /\ Free.at = "free"
  BY DEF Free, Command, Working

LEMMA MembersInitInductive == MembersInit => MembersInductive
  BY FreeIsCommand DEF MembersInit, MembersInductive, MembersTypeOK, CommandsKnow, Knows, RowsAgree, Working

LEMMA PairIsSeq == ASSUME NEW S, NEW a \in S, NEW b \in S PROVE <<a, b>> \in Seq(S)
  OBVIOUS

\* The identities of a person, in order.
LEMMA PersonsIdentities ==
    ASSUME NEW p \in Persons
    PROVE  /\ Jid(p) \in Identities /\ (p \in HasLid => Lid(p) \in Identities)
           /\ IdentitiesOf(p) \in Seq(Identities)
           /\ p \in HasLid => IdentitiesOf(p) = <<Jid(p), Lid(p)>>
           /\ p \notin HasLid => IdentitiesOf(p) = <<Jid(p)>>
           /\ \A i \in Identities : i[1] = p => i = Jid(p) \/ (p \in HasLid /\ i = Lid(p))
           /\ Jid(p) # Lid(p) /\ Jid(p)[1] = p /\ Lid(p)[1] = p
  <1>1. /\ Jid(p) \in Identities /\ (p \in HasLid => Lid(p) \in Identities)
        /\ \A i \in Identities : i[1] = p => i = Jid(p) \/ (p \in HasLid /\ i = Lid(p))
        /\ Jid(p) # Lid(p) /\ Jid(p)[1] = p /\ Lid(p)[1] = p
    BY MembersAssumption DEF Identities, Jid, Lid
  <1>2. /\ p \in HasLid => IdentitiesOf(p) = <<Jid(p), Lid(p)>>
        /\ p \notin HasLid => IdentitiesOf(p) = <<Jid(p)>>
    BY DEF IdentitiesOf, Jid, Lid
  <1>3. IdentitiesOf(p) \in Seq(Identities)
    <2>1. CASE p \in HasLid
      BY <1>1, <1>2, <2>1, PairIsSeq
    <2>2. CASE p \notin HasLid
      BY <1>1, <1>2, <2>2
    <2> QED BY <2>1, <2>2
  <1> QED BY <1>1, <1>2, <1>3

\* Whoever begins with all identities of a person is at that person.
LEMMA AllIsWhole ==
    ASSUME NEW c, NEW p \in Persons, c.left = IdentitiesOf(p)
    PROVE  At(c, p) /\ Whole(c, p) /\ ~Half(c, p)
  <1>1. CASE p \in HasLid
    <2>1. c.left = <<Jid(p), Lid(p)>>
      BY <1>1, PersonsIdentities
    <2>2. Head(c.left) = Jid(p) /\ c.left # <<>> /\ c.left # <<Lid(p)>>
      BY <2>1
    <2> QED BY <2>2, PersonsIdentities DEF At, Whole, Half
  <1>2. CASE p \notin HasLid
    <2>1. c.left = <<Jid(p)>>
      BY <1>2, PersonsIdentities
    <2>2. Head(c.left) = Jid(p) /\ c.left # <<>>
      BY <2>1
    <2> QED BY <1>2, <2>2, PersonsIdentities DEF At, Whole, Half
  <1> QED BY <1>1, <1>2

LEMMA KnowsGrows ==
    ASSUME NEW c \in Command, NEW rows, NEW rows2, NEW over, NEW over2, NEW unsure, NEW unsure2,
           over \subseteq over2, unsure \subseteq unsure2,
           \A i \in Identities : rows[i] # Nobody => rows2[i] # Nobody,
           \A i \in Identities : rows[i] = Nobody => rows2[i] = Nobody \/ i \in over2,
           Knows(c, rows, over, unsure)
    PROVE  Knows(c, rows2, over2, unsure2)
  <1> SUFFICES ASSUME c.at \in Working PROVE Knows(c, rows2, over2, unsure2)
    BY DEF Knows
  <1>1. PICK p \in Persons :
        /\ At(c, p)
        /\ c.cmd = "link" => Len(c.left) = 1 /\ c.at \in {"load", "flush"}
        /\ c.cmd # "none" /\ (c.cmd # "link" => Whole(c, p) \/ Half(c, p))
        /\ c.at = "resolve" => c.cmd = "match" /\ (Half(c, p) => rows[Jid(p)] = Nobody \/ Jid(p) \in over)
        /\ c.at = "check" => c.cmd = "copy"
        /\ c.at # "resolve" => c.row \in LinkRow /\ OfOneMember(c.row, p, unsure)
        /\ c.at # "resolve" /\ c.cmd # "link" /\ Half(c, p) => rows[Jid(p)] # Nobody
        /\ c.at \in {"load", "flush"} /\ c.cmd = "match" =>
              \A n \in DOMAIN c.left : rows[c.left[n]] = Nobody \/ c.left[n] \in over
        /\ c.at = "load" /\ c.cmd = "copy" => rows[Head(c.left)] = Nobody \/ Head(c.left) \in over
        /\ c.at = "flush" /\ c.cmd # "link" => c.loaded = Nobody \/ Head(c.left) \in over
        /\ c.at = "flush" /\ c.loaded # Nobody =>
              rows[Head(c.left)] # Nobody /\ (Agrees(c.loaded) \/ p \in unsure)
    BY DEF Knows
  <1>2. /\ Jid(p) \in Identities /\ Head(c.left) \in Identities
        /\ \A n \in DOMAIN c.left : c.left[n] \in Identities
    BY <1>1, PersonsIdentities DEF At, Command
  <1>3. \A row : OfOneMember(row, p, unsure) => OfOneMember(row, p, unsure2)
    BY DEF OfOneMember
  <1> QED BY <1>1, <1>2, <1>3 DEF Knows

\* One command moves, over a registry in which the others can still see what
\* was written.
LEMMA MembersStepKeeps ==
    ASSUME MembersInductive, NEW h \in Handlers,
           MembersTypeOK', \A o \in Handlers \ {h} : handler'[o] = handler[o], RowsAgree',
           Knows(handler'[h], registry', overtaken'[h], blind'), blind \subseteq blind',
           \A i \in Identities : registry[i] # Nobody => registry'[i] # Nobody,
           \A o \in Handlers \ {h} :
              /\ overtaken[o] \subseteq overtaken'[o]
              /\ \A i \in Identities : registry[i] = Nobody => registry'[i] = Nobody \/ i \in overtaken'[o]
    PROVE  MembersInductive'
  <1>1. ASSUME NEW o \in Handlers PROVE Knows(handler'[o], registry', overtaken'[o], blind')
    <2>1. CASE o = h
      BY <2>1
    <2>2. CASE o # h
      <3>1. handler[o] \in Command /\ Knows(handler[o], registry, overtaken[o], blind)
        BY DEF MembersInductive, MembersTypeOK, CommandsKnow
      <3> QED BY <2>2, <3>1, KnowsGrows
    <2> QED BY <2>1, <2>2
  <1> QED BY <1>1 DEF MembersInductive, CommandsKnow

LEMMA CommandMoves ==
    ASSUME MembersInductive, NEW h \in Handlers, NEW c \in Command, NEW over \in SUBSET Identities,
           handler' = [handler EXCEPT ![h] = c], overtaken' = [overtaken EXCEPT ![h] = over],
           UNCHANGED <<registry, blind>>, Knows(c, registry, over, blind)
    PROVE  MembersInductive'
  <1>1. /\ registry' = registry /\ blind' = blind
        /\ handler'[h] = c /\ overtaken'[h] = over
        /\ \A o \in Handlers \ {h} : handler'[o] = handler[o] /\ overtaken'[o] = overtaken[o]
        /\ MembersTypeOK'
    BY DEF MembersInductive, MembersTypeOK
  <1>2. RowsAgree'
    BY <1>1 DEF MembersInductive, RowsAgree
  <1>3. Knows(handler'[h], registry', overtaken'[h], blind')
    BY <1>1
  <1> QED BY <1>1, <1>2, <1>3, MembersStepKeeps

LEMMA CommandRests ==
    ASSUME MembersInductive, NEW h \in Handlers, NEW c \in Command,
           handler' = [handler EXCEPT ![h] = c], UNCHANGED <<registry, overtaken, blind>>,
           Knows(c, registry, overtaken[h], blind)
    PROVE  MembersInductive'
  <1>1. overtaken' = [overtaken EXCEPT ![h] = overtaken[h]] /\ overtaken[h] \in SUBSET Identities
    BY DEF MembersInductive, MembersTypeOK
  <1> QED BY <1>1, CommandMoves

LEMMA Resting == ASSUME NEW c, c.at \notin Working, NEW rows, NEW over, NEW unsure PROVE Knows(c, rows, over, unsure)
  BY DEF Knows

LEMMA FailingRests ==
    ASSUME MembersInductive, NEW h \in Handlers,
           handler' = [handler EXCEPT ![h] = Free], UNCHANGED <<registry, overtaken, blind>>
    PROVE  MembersInductive'
  BY FreeIsCommand, Resting, CommandRests DEF Working

LEMMA LinkCommandKeeps ==
    ASSUME MembersInductive, NEW h \in Handlers, NEW i \in Identities, NEW title \in RosterIds, LinkCommand(h, i, title)
    PROVE  MembersInductive'
  <1>1. PICK id \in RecordIds(title) :
           Begins(h, [Free EXCEPT !.at = "load", !.cmd = "link", !.left = <<i>>, !.row = Link(title, id)])
    BY DEF LinkCommand
  <1> DEFINE row == Link(title, id)
             c == [Free EXCEPT !.at = "load", !.cmd = "link", !.left = <<i>>, !.row = row]
  <1>2. row \in LinkRow /\ (row.id = Nobody \/ Agrees(row))
    BY DEF Link, LinkRow, RecordIds, Agrees
  <1> HIDE DEF row
  <1>3. c \in Command
    <2>1. <<i>> \in Seq(Identities) /\ "load" \in Working
      BY DEF Working
    <2> QED BY <1>2, <2>1, FreeIsCommand DEF Command
  <1>4. c.at = "load" /\ c.cmd = "link" /\ c.left = <<i>> /\ c.row = row
    BY DEF Free
  <1>5. Knows(c, registry, {}, blind)
    <2>1. i[1] \in Persons
      BY MembersAssumption DEF Identities
    <2>2. At(c, i[1]) /\ Len(c.left) = 1 /\ OfOneMember(row, i[1], blind)
      BY <1>2, <1>4 DEF At, OfOneMember
    <2> HIDE DEF c
    <2> QED BY <1>2, <1>4, <2>1, <2>2 DEF Knows
  <1>6. /\ handler' = [handler EXCEPT ![h] = c] /\ overtaken' = [overtaken EXCEPT ![h] = {}]
        /\ UNCHANGED <<registry, blind>>
    BY <1>1 DEF Begins, row
  <1> QED BY <1>3, <1>5, <1>6, CommandMoves

LEMMA SetupMembersKeeps == ASSUME MembersInductive, NEW h \in Handlers, SetupMembers(h) PROVE MembersInductive'
  <1> DEFINE c == [Free EXCEPT !.at = "next", !.cmd = "match", !.todo = Persons]
  <1>1. c \in Command /\ c.at \notin Working
    BY FreeIsCommand DEF Command, Working, Free
  <1>2. /\ handler' = [handler EXCEPT ![h] = c] /\ overtaken' = [overtaken EXCEPT ![h] = {}]
        /\ UNCHANGED <<registry, blind>>
    BY DEF SetupMembers, Begins
  <1> QED BY <1>1, <1>2, Resting, CommandMoves

LEMMA NextPersonKeeps == ASSUME MembersInductive, NEW h \in Handlers, NextPerson(h) PROVE MembersInductive'
  <1>1. overtaken' = [overtaken EXCEPT ![h] = {}] /\ UNCHANGED <<registry, blind>>
    BY DEF NextPerson
  <1>2. CASE handler[h].todo = {}
    BY <1>1, <1>2, FreeIsCommand, Resting, CommandMoves DEF NextPerson, Working
  <1>3. CASE handler[h].todo # {}
    <2>1. PICK p \in handler[h].todo :
             handler' = [handler EXCEPT ![h] = [Free EXCEPT !.at = "resolve", !.cmd = "match",
                            !.todo = handler[h].todo \ {p}, !.left = IdentitiesOf(p)]]
      BY <1>3 DEF NextPerson
    <2> DEFINE rest == handler[h].todo \ {p}
               c == [Free EXCEPT !.at = "resolve", !.cmd = "match", !.todo = rest, !.left = IdentitiesOf(p)]
    <2>2. p \in Persons /\ rest \in SUBSET Persons
      BY DEF MembersInductive, MembersTypeOK, Command
    <2> HIDE DEF rest
    <2>3. c \in Command
      BY <2>2, FreeIsCommand, PersonsIdentities DEF Command, Working
    <2>4. c.at = "resolve" /\ c.cmd = "match" /\ c.left = IdentitiesOf(p)
      BY DEF Free
    <2>5. Knows(c, registry, {}, blind)
      <3> HIDE DEF c
      <3>1. At(c, p) /\ Whole(c, p) /\ ~Half(c, p)
        BY <2>2, <2>4, AllIsWhole
      <3> QED BY <2>2, <2>4, <3>1 DEF Knows
    <2>6. handler' = [handler EXCEPT ![h] = c]
      BY <2>1 DEF rest
    <2> QED BY <1>1, <2>3, <2>5, <2>6, CommandMoves
  <1> QED BY <1>2, <1>3

\* Where a working command is.
LEMMA WorkingAt ==
    ASSUME MembersInductive, NEW h \in Handlers, handler[h].at \in Working
    PROVE  LET c == handler[h]
               p == Head(c.left)[1] IN
           /\ c \in Command /\ p \in Persons /\ At(c, p) /\ Head(c.left) \in Identities
           /\ registry[Head(c.left)] \in LinkRow \cup {Nobody} /\ c.left \in Seq(Identities)
           /\ c.cmd = "link" => Len(c.left) = 1 /\ c.at \in {"load", "flush"}
           /\ c.cmd # "none" /\ (c.cmd # "link" => Whole(c, p) \/ Half(c, p))
           /\ c.at = "resolve" => c.cmd = "match" /\ (Half(c, p) => registry[Jid(p)] = Nobody \/ Jid(p) \in overtaken[h])
           /\ c.at = "check" => c.cmd = "copy"
           /\ c.at # "resolve" => c.row \in LinkRow /\ OfOneMember(c.row, p, blind)
           /\ c.at # "resolve" /\ c.cmd # "link" /\ Half(c, p) => registry[Jid(p)] # Nobody
           /\ c.at \in {"load", "flush"} /\ c.cmd = "match" =>
                 \A n \in DOMAIN c.left : registry[c.left[n]] = Nobody \/ c.left[n] \in overtaken[h]
           /\ c.at = "load" /\ c.cmd = "copy" => registry[Head(c.left)] = Nobody \/ Head(c.left) \in overtaken[h]
           /\ c.at = "flush" /\ c.cmd # "link" => c.loaded = Nobody \/ Head(c.left) \in overtaken[h]
           /\ c.at = "flush" /\ c.loaded # Nobody =>
                 registry[Head(c.left)] # Nobody /\ (Agrees(c.loaded) \/ p \in blind)
  <1>1. Knows(handler[h], registry, overtaken[h], blind) /\ handler[h] \in Command
    BY DEF MembersInductive, MembersTypeOK, CommandsKnow
  <1>2. \A p : At(handler[h], p) => p = Head(handler[h].left)[1] /\ Head(handler[h].left) \in Identities
    BY DEF At
  <1>3. Head(handler[h].left) \in Identities
    BY <1>1, <1>2 DEF Knows
  <1>4. registry[Head(handler[h].left)] \in LinkRow \cup {Nobody}
    BY <1>3 DEF MembersInductive, MembersTypeOK
  <1>5. handler[h].left \in Seq(Identities)
    BY <1>1 DEF Command
  <1> QED BY <1>1, <1>2, <1>3, <1>4, <1>5 DEF Knows

\* The identities of the person that a whole or half command is at.
LEMMA LeftIs ==
    ASSUME NEW c, NEW p \in Persons, Whole(c, p) \/ Half(c, p)
    PROVE  \/ /\ Whole(c, p) /\ ~Half(c, p) /\ p \in HasLid /\ c.left = <<Jid(p), Lid(p)>>
              /\ Len(c.left) = 2 /\ Head(c.left) = Jid(p) /\ Tail(c.left) = <<Lid(p)>>
           \/ /\ Whole(c, p) /\ ~Half(c, p) /\ p \notin HasLid /\ c.left = <<Jid(p)>>
              /\ Len(c.left) = 1 /\ Head(c.left) = Jid(p)
           \/ /\ ~Whole(c, p) /\ Half(c, p) /\ p \in HasLid /\ c.left = <<Lid(p)>>
              /\ Len(c.left) = 1 /\ Head(c.left) = Lid(p)
  <1>1. CASE p \in HasLid /\ c.left = <<Jid(p), Lid(p)>>
    <2>1. c.left # <<Lid(p)>> /\ Len(c.left) = 2 /\ Head(c.left) = Jid(p) /\ Tail(c.left) = <<Lid(p)>>
      BY <1>1
    <2> QED BY <1>1, <2>1, PersonsIdentities DEF Whole, Half
  <1>2. CASE p \notin HasLid /\ c.left = <<Jid(p)>>
    <2>1. Len(c.left) = 1 /\ Head(c.left) = Jid(p)
      BY <1>2
    <2> QED BY <1>2, <2>1, PersonsIdentities DEF Whole, Half
  <1>3. CASE p \in HasLid /\ c.left = <<Lid(p)>>
    <2>1. Len(c.left) = 1 /\ Head(c.left) = Lid(p) /\ c.left # <<Jid(p), Lid(p)>>
      BY <1>3
    <2> QED BY <1>3, <2>1, PersonsIdentities DEF Whole, Half
  <1> QED BY <1>1, <1>2, <1>3, PersonsIdentities DEF Whole, Half

LEMMA LastLeft == ASSUME NEW c, Len(c.left) = 1 PROVE ~(Len(c.left) > 1)
  OBVIOUS

LEMMA LongLeft ==
    ASSUME NEW c, NEW p \in Persons, Whole(c, p) \/ Half(c, p), Len(c.left) > 1
    PROVE  /\ Whole(c, p) /\ p \in HasLid /\ c.left = <<Jid(p), Lid(p)>>
           /\ Head(c.left) = Jid(p) /\ Tail(c.left) = <<Lid(p)>>
  BY LeftIs, LastLeft

LEMMA ShortLeft ==
    ASSUME NEW c, NEW p \in Persons, Whole(c, p) \/ Half(c, p), ~(Len(c.left) > 1)
    PROVE  \/ Whole(c, p) /\ p \notin HasLid /\ c.left = <<Jid(p)>> /\ Head(c.left) = Jid(p)
           \/ Half(c, p) /\ p \in HasLid /\ c.left = <<Lid(p)>> /\ Head(c.left) = Lid(p)
  <1>1. ~(Len(c.left) = 2)
    OBVIOUS
  <1> QED BY <1>1, LeftIs

LEMMA NothingLeft == <<>> \in Seq(Identities)
  OBVIOUS

LEMMA DoneMoves ==
    ASSUME NEW h, NEW c, Done(h, c), c.at # "free"
    PROVE  handler' = [handler EXCEPT ![h] = [c EXCEPT !.loaded = Nobody]]
  BY DEF Done

LEMMA ResolveKeeps == ASSUME MembersInductive, NEW h \in Handlers, Resolve(h) PROVE MembersInductive'
  <1> DEFINE c == handler[h]
             p == Head(c.left)[1]
             row == registry[Head(c.left)]
  <1>1. /\ c.at = "resolve" /\ c.at \in Working /\ UNCHANGED <<registry, overtaken, blind>>
    BY DEF Resolve, Working
  <1>2. /\ c \in Command /\ p \in Persons /\ At(c, p) /\ Head(c.left) \in Identities
        /\ row \in LinkRow \cup {Nobody} /\ c.cmd = "match"
        /\ Whole(c, p) \/ Half(c, p)
        /\ Half(c, p) => registry[Jid(p)] = Nobody \/ Jid(p) \in overtaken[h]
    BY <1>1, WorkingAt
  <1>3. CASE row # Nobody
    <2> DEFINE d == [c EXCEPT !.at = "check", !.cmd = "copy", !.left = IdentitiesOf(p), !.row = row, !.loaded = Nobody]
    <2>1. handler' = [handler EXCEPT ![h] = d]
      <3>1. Done(h, Found(c, row))
        BY <1>3 DEF Resolve
      <3>2. Found(c, row) = [c EXCEPT !.at = "check", !.cmd = "copy", !.left = IdentitiesOf(p), !.row = row]
        BY DEF Found, All
      <3>3. Found(c, row).at = "check"
        BY <1>2, <3>2 DEF Command
      <3> HIDE DEF p, row
      <3>4. handler' = [handler EXCEPT ![h] = [Found(c, row) EXCEPT !.loaded = Nobody]]
        BY <3>1, <3>3, DoneMoves
      <3>5. [Found(c, row) EXCEPT !.loaded = Nobody] = d
        BY <3>2, <1>2 DEF Command
      <3> QED BY <3>4, <3>5
    <2>2. OfOneMember(row, p, blind) /\ row \in LinkRow
      BY <1>2, <1>3 DEF MembersInductive, RowsAgree, OfOneMember
    <2> HIDE DEF row, p
    <2>3. /\ d \in Command /\ d.at = "check" /\ d.cmd = "copy" /\ d.left = IdentitiesOf(p) /\ d.row = row
      BY <1>2, <2>2, PersonsIdentities DEF Command, Working
    <2>4. Knows(d, registry, overtaken[h], blind)
      <3> HIDE DEF d
      <3>1. At(d, p) /\ Whole(d, p) /\ ~Half(d, p)
        BY <1>2, <2>3, AllIsWhole
      <3> QED BY <1>2, <2>2, <2>3, <3>1 DEF Knows
    <2> QED BY <1>1, <2>1, <2>3, <2>4, CommandRests
  <1>4. CASE row = Nobody /\ Len(c.left) > 1
    <2> DEFINE rest == Tail(c.left)
               d == [c EXCEPT !.left = rest, !.loaded = Nobody]
    <2>1. /\ Whole(c, p) /\ p \in HasLid /\ c.left = <<Jid(p), Lid(p)>>
          /\ Head(c.left) = Jid(p) /\ rest = <<Lid(p)>>
      <3> HIDE DEF c, p
      <3> QED BY <1>2, <1>4, LongLeft
    <2>2. rest = <<Lid(p)>> /\ rest \in Seq(Identities) /\ Head(c.left) = Jid(p)
      <3>1. Lid(p) \in Identities
        BY <1>2, <2>1, PersonsIdentities
      <3> HIDE DEF p, rest
      <3> QED BY <2>1, <3>1
    <2>3. Done(h, [c EXCEPT !.left = Tail(@)])
      <3>1. Len(c.left) # 1
        BY <1>4, LastLeft
      <3> QED BY <1>4, <3>1, Zenon DEF Resolve
    <2> HIDE DEF rest
    <2>4. handler' = [handler EXCEPT ![h] = d]
      <3>1. Done(h, [c EXCEPT !.left = rest]) /\ [c EXCEPT !.left = rest].at # "free"
        BY <1>1, <1>2, <2>3 DEF rest, Command
      <3>2. [[c EXCEPT !.left = rest] EXCEPT !.loaded = Nobody] = d
        BY <1>2 DEF Command
      <3> QED BY <3>1, <3>2, DoneMoves
    <2>5. d \in Command /\ d.at = "resolve" /\ d.cmd = "match" /\ d.left = rest
      BY <1>1, <1>2, <2>2 DEF Command
    <2>6. Knows(d, registry, overtaken[h], blind)
      <3> HIDE DEF d
      <3>1. At(d, p) /\ Half(d, p)
        <4>1. Head(rest) = Lid(p) /\ rest # <<>> /\ Lid(p)[1] = p /\ Lid(p) \in Identities
          BY <1>2, <2>1, <2>2, PersonsIdentities DEF Lid
        <4> HIDE DEF p
        <4> QED BY <2>1, <2>2, <2>5, <4>1 DEF At, Half
      <3>2. registry[Jid(p)] = Nobody
        BY <1>4, <2>2
      <3> HIDE DEF p
      <3> QED BY <1>2, <2>5, <3>1, <3>2 DEF Knows
    <2> QED BY <1>1, <2>4, <2>5, <2>6, CommandRests
  <1>5. CASE row = Nobody /\ Len(c.left) = 1
    <2>1. PICK m \in Ranked :
             Done(h, IF m = Nobody THEN [c EXCEPT !.at = "next", !.left = <<>>]
                     ELSE [c EXCEPT !.at = "load", !.left = IdentitiesOf(p), !.row = Link(m, m)])
      <3>1. ~(Len(c.left) > 1)
        BY <1>5, LastLeft
      <3> QED BY <1>5, <3>1, Zenon DEF Resolve, All
    <2>2. CASE m = Nobody
      <3> DEFINE d == [c EXCEPT !.at = "next", !.left = <<>>, !.loaded = Nobody]
      <3>1. handler' = [handler EXCEPT ![h] = d]
        <4>1. Done(h, [c EXCEPT !.at = "next", !.left = <<>>]) /\ [c EXCEPT !.at = "next", !.left = <<>>].at # "free"
          BY <1>2, <2>1, <2>2 DEF Command
        <4>2. [[c EXCEPT !.at = "next", !.left = <<>>] EXCEPT !.loaded = Nobody] = d
          BY <1>2 DEF Command
        <4> QED BY <4>1, <4>2, DoneMoves
      <3>2. d \in Command /\ d.at \notin Working
        BY <1>2, NothingLeft DEF Command, Working
      <3> QED BY <1>1, <3>1, <3>2, Resting, CommandRests
    <2>3. CASE m # Nobody
      <3> DEFINE new == Link(m, m)
                 all == IdentitiesOf(p)
                 g == [c EXCEPT !.at = "load", !.left = all, !.row = new]
                 d == [c EXCEPT !.at = "load", !.left = all, !.row = new, !.loaded = Nobody]
      <3>1. new \in LinkRow /\ Agrees(new) /\ all \in Seq(Identities)
        BY <1>2, <2>3, PersonsIdentities DEF Link, LinkRow, Ranked, Agrees
      <3>2. Done(h, g)
        BY <2>1, <2>3
      <3> HIDE DEF new, all
      <3>3. handler' = [handler EXCEPT ![h] = d]
        <4>1. g.at # "free"
          BY <1>2 DEF Command
        <4>2. [g EXCEPT !.loaded = Nobody] = d
          BY <1>2 DEF Command
        <4> HIDE DEF g
        <4> QED BY <3>2, <4>1, <4>2, DoneMoves
      <3>4. d \in Command /\ d.at = "load" /\ d.cmd = "match" /\ d.left = all /\ d.row = new
        BY <1>2, <3>1 DEF Command, Working
      <3>5. \A n \in DOMAIN all : registry[all[n]] = Nobody \/ all[n] \in overtaken[h]
        <4>1. \/ all = <<Jid(p)>> /\ Head(c.left) = Jid(p)
              \/ all = <<Jid(p), Lid(p)>> /\ Head(c.left) = Lid(p) /\ Half(c, p)
          <5>1. \/ p \notin HasLid /\ Head(c.left) = Jid(p)
                \/ p \in HasLid /\ Half(c, p) /\ Head(c.left) = Lid(p)
            <6>1. ~(Len(c.left) > 1)
              BY <1>5, LastLeft
            <6> HIDE DEF c, p
            <6> QED BY <1>2, <6>1, ShortLeft
          <5>2. (p \in HasLid => all = <<Jid(p), Lid(p)>>) /\ (p \notin HasLid => all = <<Jid(p)>>)
            BY <1>2, PersonsIdentities DEF all
          <5> QED BY <5>1, <5>2
        <4> HIDE DEF p
        <4> QED BY <1>2, <1>5, <4>1
      <3>6. Knows(d, registry, overtaken[h], blind)
        <4>1. At(d, p) /\ Whole(d, p) /\ ~Half(d, p)
          <5> HIDE DEF d, p
          <5> QED BY <1>2, <3>4, AllIsWhole DEF all
        <4>2. OfOneMember(new, p, blind)
          BY <3>1 DEF OfOneMember
        <4> HIDE DEF d, p
        <4> QED BY <1>2, <3>1, <3>4, <3>5, <4>1, <4>2 DEF Knows
      <3> QED BY <1>1, <3>3, <3>4, <3>6, CommandRests
    <2> QED BY <2>2, <2>3
  <1> QED BY <1>1, <1>2, <1>3, <1>4, <1>5 DEF Resolve

LEMMA LoadLinkKeeps == ASSUME MembersInductive, NEW h \in Handlers, LoadLink(h) PROVE MembersInductive'
  <1> DEFINE c == handler[h]
             p == Head(c.left)[1]
             row == registry[Head(c.left)]
             d == [c EXCEPT !.at = "flush", !.loaded = row]
  <1>1. /\ c.at = "load" /\ c.at \in Working /\ UNCHANGED <<registry, overtaken, blind>>
        /\ handler' = [handler EXCEPT ![h] = d]
    BY DEF LoadLink, Working, MembersInductive, MembersTypeOK
  <1>2. /\ c \in Command /\ p \in Persons /\ At(c, p) /\ Head(c.left) \in Identities
        /\ c.left # <<>> /\ c.left \in Seq(Identities)
        /\ row \in LinkRow \cup {Nobody}
        /\ c.cmd = "link" => Len(c.left) = 1
        /\ c.cmd # "none" /\ (c.cmd # "link" => Whole(c, p) \/ Half(c, p))
        /\ c.row \in LinkRow /\ OfOneMember(c.row, p, blind)
        /\ c.cmd # "link" /\ Half(c, p) => registry[Jid(p)] # Nobody
        /\ c.cmd = "match" => \A n \in DOMAIN c.left : registry[c.left[n]] = Nobody \/ c.left[n] \in overtaken[h]
        /\ c.cmd = "copy" => registry[Head(c.left)] = Nobody \/ Head(c.left) \in overtaken[h]
    BY <1>1, WorkingAt DEF At
  <1>3. row = Nobody \/ Agrees(row) \/ p \in blind
    BY <1>2 DEF MembersInductive, RowsAgree
  <1>4. c.cmd # "link" => row = Nobody \/ Head(c.left) \in overtaken[h]
    <2>1. 1 \in DOMAIN c.left /\ c.left[1] = Head(c.left)
      BY <1>2
    <2>2. c.cmd \in {"none", "link", "match", "copy"}
      BY <1>2 DEF Command
    <2> QED BY <1>2, <2>1, <2>2
  <1> HIDE DEF row
  <1>5. /\ d \in Command /\ d.at = "flush" /\ d.loaded = row /\ d.row = c.row
        /\ d.cmd = c.cmd /\ d.left = c.left
    BY <1>2 DEF Command, Working
  <1> HIDE DEF d
  <1>6. At(d, p) /\ (Whole(d, p) <=> Whole(c, p)) /\ (Half(d, p) <=> Half(c, p))
    BY <1>2, <1>5 DEF At, Whole, Half
  <1>7. Knows(d, registry, overtaken[h], blind)
    <2>1. Agrees(row) \/ p \in blind \/ row = Nobody
      BY <1>3
    <2>2. row = registry[Head(d.left)]
      BY <1>5 DEF row
    <2> HIDE DEF p
    <2> QED BY <1>2, <1>4, <1>5, <1>6, <2>1, <2>2 DEF Knows
  <1> QED BY <1>1, <1>5, <1>7, CommandRests

\* What Onward makes of a command that is through with its first identity.
LEMMA OnwardIs ==
    ASSUME NEW c \in Command, NEW p \in Persons, At(c, p), c.cmd \in {"match", "copy"},
           Whole(c, p) \/ Half(c, p), c.row \in LinkRow
    PROVE  LET d == Onward(c)
               e == [d EXCEPT !.loaded = Nobody] IN
           /\ d.at # "free" /\ e \in Command
           /\ \/ /\ e.at = "next" /\ (c.left = <<Lid(p)>> \/ (p \notin HasLid /\ c.left = <<Jid(p)>>))
              \/ /\ e.at = IF c.cmd = "copy" THEN "check" ELSE "load"
                 /\ c.left = <<Jid(p), Lid(p)>> /\ e.left = <<Lid(p)>> /\ At(e, p) /\ Half(e, p) /\ ~Whole(e, p)
                 /\ e.cmd = c.cmd /\ e.row = c.row /\ p \in HasLid
  <1> DEFINE place == IF c.cmd = "copy" THEN "check" ELSE "load"
             rest == Tail(c.left)
             e == [Onward(c) EXCEPT !.loaded = Nobody]
  <1>1. c.left \in Seq(Identities) /\ Len(c.left) \in Nat
    BY DEF Command
  <1>2. CASE Len(c.left) > 1
    <2>1. Onward(c) = [c EXCEPT !.at = place, !.left = rest]
      BY <1>2 DEF Onward
    <2>2. c.left = <<Jid(p), Lid(p)>> /\ p \in HasLid /\ rest = <<Lid(p)>>
      BY <1>2, LongLeft
    <2>3. rest = <<Lid(p)>> /\ rest \in Seq(Identities) /\ Lid(p) \in Identities
      <3>1. Lid(p) \in Identities
        BY <2>2, PersonsIdentities
      <3> HIDE DEF rest
      <3> QED BY <2>2, <3>1
    <2>4. place \in {"check", "load"} /\ place \in Working
      BY DEF Working
    <2> HIDE DEF place, rest
    <2>5. e = [c EXCEPT !.at = place, !.left = rest, !.loaded = Nobody] /\ Onward(c).at = place
      BY <2>1 DEF Command
    <2>6. /\ e \in Command /\ e.at = place /\ e.left = rest /\ e.cmd = c.cmd /\ e.row = c.row
      BY <2>3, <2>4, <2>5 DEF Command
    <2> HIDE DEF e
    <2>7. At(e, p)
      <3>1. Lid(p)[1] = p
        BY DEF Lid
      <3> QED BY <2>3, <2>6, <3>1 DEF At
    <2>8. Half(e, p) /\ ~Whole(e, p)
      BY <2>2, <2>3, <2>6, PersonsIdentities DEF Half, Whole
    <2> QED BY <2>2, <2>3, <2>4, <2>5, <2>6, <2>7, <2>8 DEF e, place
  <1>3. CASE ~(Len(c.left) > 1)
    <2>1. Onward(c) = [c EXCEPT !.at = "next", !.left = <<>>]
      BY <1>3 DEF Onward
    <2>2. c.left = <<Lid(p)>> \/ (p \notin HasLid /\ c.left = <<Jid(p)>>)
      BY <1>3, ShortLeft
    <2>3. e = [c EXCEPT !.at = "next", !.left = <<>>, !.loaded = Nobody] /\ Onward(c).at = "next"
      BY <2>1 DEF Command
    <2>4. e \in Command /\ e.at = "next"
      BY <2>3, NothingLeft DEF Command, Working
    <2> QED BY <2>2, <2>3, <2>4
  <1> QED BY <1>2, <1>3

LEMMA CheckKeeps == ASSUME MembersInductive, NEW h \in Handlers, Check(h) PROVE MembersInductive'
  <1> DEFINE c == handler[h]
             p == Head(c.left)[1]
  <1>1. /\ c.at = "check" /\ c.at \in Working /\ UNCHANGED <<registry, overtaken, blind>>
    BY DEF Check, Working
  <1>2. /\ c \in Command /\ p \in Persons /\ At(c, p) /\ Head(c.left) \in Identities
        /\ c.cmd = "copy" /\ (Whole(c, p) \/ Half(c, p))
        /\ c.row \in LinkRow /\ OfOneMember(c.row, p, blind)
        /\ Half(c, p) => registry[Jid(p)] # Nobody
    BY <1>1, WorkingAt
  <1>3. CASE Unlinked(Head(c.left))
    <2> DEFINE d == [c EXCEPT !.at = "load", !.loaded = Nobody]
    <2>1. Done(h, [c EXCEPT !.at = "load"])
      BY <1>3 DEF Check
    <2>2. [c EXCEPT !.at = "load"].at # "free" /\ [[c EXCEPT !.at = "load"] EXCEPT !.loaded = Nobody] = d
      BY <1>2 DEF Command
    <2>3. handler' = [handler EXCEPT ![h] = d]
      BY <2>1, <2>2, DoneMoves
    <2>4. d \in Command /\ d.at = "load" /\ d.cmd = "copy" /\ d.left = c.left /\ d.row = c.row
      BY <1>2 DEF Command, Working
    <2> HIDE DEF d
    <2>5. At(d, p) /\ (Whole(d, p) <=> Whole(c, p)) /\ (Half(d, p) <=> Half(c, p))
      BY <1>2, <2>4 DEF At, Whole, Half
    <2>6. registry[Head(d.left)] = Nobody
      BY <1>3, <2>4 DEF Unlinked
    <2>7. Knows(d, registry, overtaken[h], blind)
      <3> HIDE DEF p
      <3> QED BY <1>2, <2>4, <2>5, <2>6 DEF Knows
    <2> QED BY <1>1, <2>3, <2>4, <2>7, CommandRests
  <1>4. CASE ~Unlinked(Head(c.left))
    <2> DEFINE e == [Onward(c) EXCEPT !.loaded = Nobody]
    <2>1. Done(h, Onward(c))
      BY <1>4 DEF Check
    <2>2. /\ Onward(c).at # "free" /\ e \in Command
          /\ \/ e.at = "next"
             \/ /\ e.at = "check" /\ c.left = <<Jid(p), Lid(p)>> /\ At(e, p) /\ Half(e, p) /\ ~Whole(e, p)
                /\ e.cmd = "copy" /\ e.row = c.row
      BY <1>2, OnwardIs
    <2>3. handler' = [handler EXCEPT ![h] = e]
      BY <2>1, <2>2, DoneMoves
    <2>4. Knows(e, registry, overtaken[h], blind)
      <3> HIDE DEF e
      <3>1. CASE e.at = "next"
        BY <3>1, Resting DEF Working
      <3>2. CASE e.at = "check"
        <4>1. c.left = <<Jid(p), Lid(p)>> => registry[Jid(p)] # Nobody
          BY <1>4 DEF Unlinked
        <4> HIDE DEF p
        <4> QED BY <1>2, <2>2, <3>2, <4>1 DEF Knows
      <3> QED BY <2>2, <3>1, <3>2
    <2> QED BY <1>1, <2>2, <2>3, <2>4, CommandRests
  <1> QED BY <1>3, <1>4

\* A flush leaves a row: the one that was asked for, or for each column of one
\* that was loaded what there is by now or what was asked for.
LEMMA FlushedLinkAgrees ==
    ASSUME NEW old \in LinkRow, NEW loaded \in LinkRow, NEW new \in LinkRow
    PROVE  /\ FlushedLink(old, loaded, new) \in LinkRow
           /\ Agrees(old) /\ Agrees(loaded) /\ Agrees(new) => Agrees(FlushedLink(old, loaded, new))
  BY MembersAssumption DEF FlushedLink, LinkRow, Agrees

\* What a commit that is not refused does to the registry.
LEMMA CommitWrites ==
    ASSUME MembersInductive, NEW h \in Handlers, CommitLink(h),
           ~(handler[h].loaded = Nobody /\ registry[Head(handler[h].left)] # Nobody)
    PROVE  LET c == handler[h]
               p == Head(c.left)[1]
               i == Head(c.left) IN
           /\ i \in Identities /\ registry'[i] \in LinkRow
           /\ Agrees(registry'[i]) \/ p \in blind'
           /\ \A j \in Identities \ {i} : registry'[j] = registry[j]
           /\ registry' \in [Identities -> LinkRow \cup {Nobody}]
           /\ blind \subseteq blind'
           /\ overtaken' = [o \in Handlers |-> IF o = h THEN overtaken[o] ELSE overtaken[o] \cup {i}]
           /\ Done(h, Onward(c))
  <1> DEFINE c == handler[h]
             p == Head(c.left)[1]
             i == Head(c.left)
             written == IF c.loaded = Nobody THEN c.row ELSE FlushedLink(registry[i], c.loaded, c.row)
  <1>1. /\ c.at = "flush" /\ c.at \in Working
        /\ registry' = [registry EXCEPT ![i] = IF c.loaded = Nobody THEN c.row ELSE FlushedLink(@, c.loaded, c.row)]
        /\ blind' = IF c.row.id = Nobody THEN blind \cup {p} ELSE blind
        /\ overtaken' = [o \in Handlers |-> IF o = h THEN overtaken[o] ELSE overtaken[o] \cup {i}]
        /\ Done(h, Onward(c))
    BY DEF CommitLink, Working
  <1>2. /\ c \in Command /\ i \in Identities /\ registry[i] \in LinkRow \cup {Nobody}
        /\ c.row \in LinkRow /\ OfOneMember(c.row, p, blind)
        /\ c.loaded # Nobody => registry[i] # Nobody /\ (Agrees(c.loaded) \/ p \in blind)
    BY <1>1, WorkingAt
  <1>3. c.loaded \in LinkRow \cup {Nobody} /\ registry \in [Identities -> LinkRow \cup {Nobody}]
    BY <1>2 DEF Command, MembersInductive, MembersTypeOK
  <1>4. registry[i] = Nobody \/ Agrees(registry[i]) \/ p \in blind
    BY <1>2 DEF MembersInductive, RowsAgree
  <1>5. written \in LinkRow /\ (Agrees(written) \/ p \in blind')
    <2>1. CASE c.loaded = Nobody
      BY <1>1, <1>2, <2>1 DEF OfOneMember
    <2>2. CASE c.loaded # Nobody
      BY <1>1, <1>2, <1>3, <1>4, <2>2, FlushedLinkAgrees DEF OfOneMember
    <2> QED BY <2>1, <2>2
  <1>6. registry' = [registry EXCEPT ![i] = written]
    BY <1>1
  <1> HIDE DEF written
  <1>7. registry'[i] = written /\ registry' \in [Identities -> LinkRow \cup {Nobody}]
        /\ \A j \in Identities \ {i} : registry'[j] = registry[j]
    BY <1>2, <1>3, <1>5, <1>6
  <1> QED BY <1>1, <1>2, <1>5, <1>7

LEMMA CommitLinkKeeps == ASSUME MembersInductive, NEW h \in Handlers, CommitLink(h) PROVE MembersInductive'
  <1> DEFINE c == handler[h]
             p == Head(c.left)[1]
             i == Head(c.left)
             e == [Onward(c) EXCEPT !.loaded = Nobody]
  <1>1. CASE c.loaded = Nobody /\ registry[i] # Nobody
    BY <1>1, FailingRests DEF CommitLink
  <1>2. CASE ~(c.loaded = Nobody /\ registry[i] # Nobody)
    <2>1. /\ i \in Identities /\ registry'[i] \in LinkRow /\ registry'[i] # Nobody
          /\ Agrees(registry'[i]) \/ p \in blind'
          /\ \A j \in Identities \ {i} : registry'[j] = registry[j]
          /\ registry' \in [Identities -> LinkRow \cup {Nobody}]
          /\ blind \subseteq blind'
          /\ overtaken' = [o \in Handlers |-> IF o = h THEN overtaken[o] ELSE overtaken[o] \cup {i}]
          /\ Done(h, Onward(c))
      BY <1>2, CommitWrites, MembersAssumption
    <2>2. /\ overtaken' \in [Handlers -> SUBSET Identities] /\ overtaken'[h] = overtaken[h]
          /\ \A o \in Handlers \ {h} : overtaken[o] \subseteq overtaken'[o] /\ i \in overtaken'[o]
      BY <2>1 DEF MembersInductive, MembersTypeOK
    <2>3. RowsAgree'
      <3> SUFFICES ASSUME NEW j \in Identities, registry'[j] # Nobody, j[1] \notin blind' PROVE Agrees(registry'[j])
        BY DEF RowsAgree
      <3>1. CASE j = i
        BY <2>1, <3>1
      <3>2. CASE j # i
        BY <2>1, <3>2 DEF MembersInductive, RowsAgree
      <3> QED BY <3>1, <3>2
    <2>4. \A j \in Identities : registry[j] # Nobody => registry'[j] # Nobody
      BY <2>1
    <2>5. \A o \in Handlers \ {h}, j \in Identities : registry[j] = Nobody => registry'[j] = Nobody \/ j \in overtaken'[o]
      BY <2>1, <2>2
    <2>6. /\ c.at = "flush" /\ c \in Command /\ p \in Persons /\ At(c, p)
          /\ c.cmd = "link" => Len(c.left) = 1
          /\ c.cmd # "none" /\ (c.cmd # "link" => Whole(c, p) \/ Half(c, p))
          /\ c.row \in LinkRow /\ OfOneMember(c.row, p, blind)
          /\ c.cmd = "match" => \A n \in DOMAIN c.left : registry[c.left[n]] = Nobody \/ c.left[n] \in overtaken[h]
      <3>1. c.at = "flush" /\ c.at \in Working
        BY DEF CommitLink, Working
      <3> QED BY <3>1, WorkingAt
    <2>7. CASE c.cmd = "link"
      <3>1. Onward(c) = [c EXCEPT !.at = "free", !.left = <<>>]
        <4>1. ~(Len(c.left) > 1)
          BY <2>6, <2>7, LastLeft
        <4> QED BY <2>7, <4>1 DEF Onward
      <3>2. Onward(c).at = "free"
        BY <2>6, <3>1 DEF Command
      <3>3. handler' = [handler EXCEPT ![h] = Free]
        BY <2>1, <3>2 DEF Done
      <3>4. /\ handler'[h] = Free /\ handler' \in [Handlers -> Command]
            /\ \A o \in Handlers \ {h} : handler'[o] = handler[o]
        BY <3>3, FreeIsCommand DEF MembersInductive, MembersTypeOK
      <3>5. Knows(handler'[h], registry', overtaken'[h], blind')
        BY <3>4, FreeIsCommand, Resting DEF Working
      <3>6. MembersTypeOK'
        BY <2>1, <2>2, <3>4 DEF MembersTypeOK
      <3> HIDE DEF i, c, p
      <3> QED BY <2>1, <2>2, <2>3, <2>4, <2>5, <3>4, <3>5, <3>6, MembersStepKeeps
    <2>8. CASE c.cmd # "link"
      <3>1. c.cmd \in {"match", "copy"}
        BY <2>6, <2>8 DEF Command
      <3>2. /\ Onward(c).at # "free" /\ e \in Command
            /\ \/ e.at = "next"
               \/ /\ e.at = IF c.cmd = "copy" THEN "check" ELSE "load"
                  /\ c.left = <<Jid(p), Lid(p)>> /\ e.left = <<Lid(p)>> /\ At(e, p) /\ Half(e, p) /\ ~Whole(e, p)
                  /\ e.cmd = c.cmd /\ e.row = c.row /\ p \in HasLid
        <4> HIDE DEF c, p
        <4> QED BY <2>6, <2>8, <3>1, OnwardIs DEF e
      <3>3. handler' = [handler EXCEPT ![h] = e]
        BY <2>1, <3>2, DoneMoves
      <3> HIDE DEF e
      <3>4. /\ handler'[h] = e /\ handler' \in [Handlers -> Command]
            /\ \A o \in Handlers \ {h} : handler'[o] = handler[o]
        BY <3>2, <3>3 DEF MembersInductive, MembersTypeOK
      <3>5. Knows(e, registry', overtaken[h], blind')
        <4>1. CASE e.at = "next"
          BY <4>1, Resting DEF Working
        <4>2. CASE e.at # "next"
          <5>1. /\ e.at \in {"check", "load"} /\ (e.at = "check" => e.cmd = "copy") /\ (e.at = "load" => e.cmd = "match")
                /\ c.left = <<Jid(p), Lid(p)>> /\ e.left = <<Lid(p)>> /\ At(e, p) /\ Half(e, p) /\ ~Whole(e, p)
                /\ e.cmd = c.cmd /\ e.cmd # "link" /\ e.row = c.row /\ p \in HasLid
            BY <3>1, <3>2, <4>2
          <5>2. i = Jid(p) /\ Jid(p) # Lid(p) /\ Lid(p) \in Identities
            <6>1. Head(<<Jid(p), Lid(p)>>) = Jid(p)
              OBVIOUS
            <6> QED BY <2>6, <5>1, <6>1, PersonsIdentities
          <5>3. registry'[Jid(p)] # Nobody /\ registry'[Lid(p)] = registry[Lid(p)]
            BY <2>1, <5>2
          <5>4. e.cmd = "match" => registry[Lid(p)] = Nobody \/ Lid(p) \in overtaken[h]
            <6>1. 2 \in DOMAIN c.left /\ c.left[2] = Lid(p)
              BY <5>1
            <6> HIDE DEF c, p
            <6> QED BY <2>6, <5>1, <6>1
          <5>5. OfOneMember(e.row, p, blind')
            BY <2>1, <2>6, <5>1 DEF OfOneMember
          <5>6. \A n \in DOMAIN e.left : e.left[n] = Lid(p)
            BY <5>1
          <5> HIDE DEF c, p, i
          <5> QED BY <2>6, <5>1, <5>3, <5>4, <5>5, <5>6 DEF Knows
        <4> QED BY <4>1, <4>2
      <3>6. Knows(handler'[h], registry', overtaken'[h], blind')
        BY <2>2, <3>4, <3>5
      <3>7. MembersTypeOK'
        BY <2>1, <2>2, <3>4 DEF MembersTypeOK
      <3> HIDE DEF i, c, p
      <3> QED BY <2>1, <2>2, <2>3, <2>4, <2>5, <3>4, <3>6, <3>7, MembersStepKeeps
    <2> QED BY <2>7, <2>8
  <1> QED BY <1>1, <1>2

LEMMA MembersNextKeeps == ASSUME MembersInductive, [MembersNext]_mvars PROVE MembersInductive'
  <1>1. CASE UNCHANGED mvars
    BY <1>1 DEF mvars, MembersInductive, MembersTypeOK, CommandsKnow, RowsAgree
  <1>2. ASSUME NEW h \in Handlers, HandlerFails(h) PROVE MembersInductive'
    BY <1>2, FailingRests DEF HandlerFails
  <1> QED BY <1>1, <1>2, LinkCommandKeeps, SetupMembersKeeps, NextPersonKeeps, ResolveKeeps, CheckKeeps,
             LoadLinkKeeps, CommitLinkKeeps DEF MembersNext

\* Which step it is when a command moves.
LEMMA WhoMoves ==
    ASSUME MembersInductive, MembersNext, NEW h \in Handlers, handler'[h] # handler[h]
    PROVE  \/ handler[h].at = "free" /\ handler'[h].at # "free"
           \/ NextPerson(h) \/ Resolve(h) \/ Check(h) \/ LoadLink(h) \/ CommitLink(h) \/ HandlerFails(h)
  <1>1. PICK o \in Handlers :
          \/ \E i \in Identities, title \in RosterIds : LinkCommand(o, i, title)
          \/ SetupMembers(o) \/ NextPerson(o) \/ Resolve(o) \/ Check(o)
          \/ LoadLink(o) \/ CommitLink(o) \/ HandlerFails(o)
    BY DEF MembersNext
  <1>2. /\ handler \in [Handlers -> Command]
        /\ \E c : handler' = [handler EXCEPT ![o] = c]
    <2>1. handler \in [Handlers -> Command]
      BY DEF MembersInductive, MembersTypeOK
    <2>2. LoadLink(o) => \E c : handler' = [handler EXCEPT ![o] = c]
      BY <2>1 DEF LoadLink
    <2>3. CommitLink(o) => \E c : handler' = [handler EXCEPT ![o] = c]
      BY DEF CommitLink, Done
    <2>4. NextPerson(o) => \E c : handler' = [handler EXCEPT ![o] = c]
      BY DEF NextPerson
    <2>5. Resolve(o) \/ Check(o) => \E c : handler' = [handler EXCEPT ![o] = c]
      BY DEF Resolve, Check, Done
    <2>6. SetupMembers(o) \/ HandlerFails(o) \/ (\E i \in Identities, title \in RosterIds : LinkCommand(o, i, title))
             => \E c : handler' = [handler EXCEPT ![o] = c]
      BY DEF SetupMembers, HandlerFails, LinkCommand, Begins
    <2> QED BY <1>1, <2>1, <2>2, <2>3, <2>4, <2>5, <2>6
  <1>3. o = h
    BY <1>2
  <1>4. CASE SetupMembers(h) \/ \E i \in Identities, title \in RosterIds : LinkCommand(h, i, title)
    <2>1. ASSUME SetupMembers(h) PROVE \E c : Begins(h, c) /\ c.at \in {"next", "load"}
      <3> DEFINE c == [Free EXCEPT !.at = "next", !.cmd = "match", !.todo = Persons]
      <3>1. Begins(h, c) /\ c.at = "next"
        BY <2>1 DEF SetupMembers, Free
      <3> HIDE DEF c
      <3> QED BY <3>1
    <2>2. ASSUME NEW i \in Identities, NEW title \in RosterIds, LinkCommand(h, i, title)
          PROVE  \E c : Begins(h, c) /\ c.at \in {"next", "load"}
      <3>1. PICK id \in RecordIds(title) :
              Begins(h, [Free EXCEPT !.at = "load", !.cmd = "link", !.left = <<i>>, !.row = Link(title, id)])
        BY <2>2 DEF LinkCommand
      <3> DEFINE c == [Free EXCEPT !.at = "load", !.cmd = "link", !.left = <<i>>, !.row = Link(title, id)]
      <3>2. Begins(h, c) /\ c.at = "load"
        BY <3>1 DEF Free
      <3> HIDE DEF c
      <3> QED BY <3>2
    <2>3. PICK c : Begins(h, c) /\ c.at \in {"next", "load"}
      BY <1>4, <2>1, <2>2
    <2> QED BY <1>2, <2>3 DEF Begins
  <1> QED BY <1>1, <1>3, <1>4

LEMMA LinksStandStep ==
    ASSUME MembersInductive, MembersNext, NEW h \in Handlers, NEW i \in Identities,
           handler[h].at = "flush", handler[h].cmd # "link", handler'[h] # handler[h],
           registry[i] # Nobody, registry'[i] # registry[i]
    PROVE  i \in overtaken[h]
  <1>1. CommitLink(h) \/ HandlerFails(h)
    BY WhoMoves DEF NextPerson, Resolve, Check, LoadLink
  <1>2. CommitLink(h)
    BY <1>1 DEF HandlerFails
  <1>3. ~(handler[h].loaded = Nobody /\ registry[Head(handler[h].left)] # Nobody)
    BY <1>2 DEF CommitLink
  <1>4. i = Head(handler[h].left)
    BY <1>2, <1>3, CommitWrites
  <1>5. handler[h].loaded = Nobody \/ Head(handler[h].left) \in overtaken[h]
    BY WorkingAt DEF Working
  <1> QED BY <1>3, <1>4, <1>5

LEMMA WholePersonStep ==
    ASSUME MembersInductive, MembersNext, NEW h \in Handlers, NEW p \in Persons,
           handler[h].at \notin {"free", "next"}, handler[h].cmd # "link",
           handler'[h].at = "next", Head(handler[h].left)[1] = p, overtaken'[h] = {},
           NEW i \in Identities, NEW j \in Identities, i[1] = p, j[1] = p
    PROVE  registry'[i] = Nobody <=> registry'[j] = Nobody
  <1> DEFINE c == handler[h]
  <1>1. c \in Command /\ c.at \in Working /\ handler \in [Handlers -> Command]
    BY DEF MembersInductive, MembersTypeOK, Command
  <1>2. /\ At(c, p) /\ (Whole(c, p) \/ Half(c, p))
        /\ c.at = "resolve" => c.cmd = "match" /\ (Half(c, p) => registry[Jid(p)] = Nobody \/ Jid(p) \in overtaken[h])
        /\ c.at = "check" => c.cmd = "copy"
        /\ c.at # "resolve" => c.row \in LinkRow
        /\ c.at # "resolve" /\ Half(c, p) => registry[Jid(p)] # Nobody
        /\ c.cmd \in {"match", "copy"}
    BY <1>1, WorkingAt DEF Command
  <1>3. Resolve(h) \/ Check(h) \/ LoadLink(h) \/ CommitLink(h) \/ HandlerFails(h)
    BY <1>1, WhoMoves DEF NextPerson, Working
  <1>4. \A d : handler' = [handler EXCEPT ![h] = d] => d.at = "next"
    BY <1>1
  <1>5. ~HandlerFails(h) /\ ~LoadLink(h)
    <2>1. Free.at # "next"
      BY DEF Free
    <2>2. HandlerFails(h) => handler' = [handler EXCEPT ![h] = Free]
      BY DEF HandlerFails
    <2>3. LoadLink(h) => handler'[h].at = "flush"
      BY <1>1 DEF LoadLink, Command
    <2> QED BY <1>4, <2>1, <2>2, <2>3
  <1>6. \A k \in Identities : k[1] = p => k = Jid(p) \/ (p \in HasLid /\ k = Lid(p))
    BY PersonsIdentities
  \* All of them, and the first of two is not the last that was looked at.
  <1>7. SUFFICES \/ \A k \in Identities : k[1] = p => registry'[k] = Nobody
                 \/ \A k \in Identities : k[1] = p => registry'[k] # Nobody
    BY <1>7
  <1>8. CASE Resolve(h)
    <2>1. UNCHANGED <<registry, overtaken>> /\ c.at = "resolve"
      BY <1>8 DEF Resolve
    <2>2. registry[Head(c.left)] = Nobody /\ Len(c.left) = 1
      <3>1. ASSUME registry[Head(c.left)] # Nobody PROVE FALSE
        <4>1. Done(h, Found(c, registry[Head(c.left)]))
          BY <1>8, <3>1 DEF Resolve
        <4>2. Found(c, registry[Head(c.left)]).at = "check"
          BY <1>1 DEF Found, Command
        <4>3. handler' = [handler EXCEPT ![h] = [Found(c, registry[Head(c.left)]) EXCEPT !.loaded = Nobody]]
          BY <4>1, <4>2, DoneMoves
        <4>4. [Found(c, registry[Head(c.left)]) EXCEPT !.loaded = Nobody].at = "check"
          BY <1>1 DEF Found, Command
        <4> QED BY <1>4, <4>3, <4>4
      <3>2. ASSUME registry[Head(c.left)] = Nobody, Len(c.left) > 1 PROVE FALSE
        <4>1. Done(h, [c EXCEPT !.left = Tail(@)])
          <5>1. Len(c.left) # 1
            BY <3>2, LastLeft
          <5> QED BY <1>8, <3>2, <5>1, Zenon DEF Resolve
        <4>2. /\ [c EXCEPT !.left = Tail(@)].at = "resolve"
              /\ [[c EXCEPT !.left = Tail(@)] EXCEPT !.loaded = Nobody].at = "resolve"
          BY <1>1, <2>1 DEF Command
        <4>3. handler' = [handler EXCEPT ![h] = [[c EXCEPT !.left = Tail(@)] EXCEPT !.loaded = Nobody]]
          BY <4>1, <4>2, DoneMoves
        <4> QED BY <1>4, <4>2, <4>3
      <3> QED BY <1>8, <3>1, <3>2 DEF Resolve
    <2>3. registry[Jid(p)] = Nobody /\ (p \in HasLid => registry[Lid(p)] = Nobody)
      <3>1. \/ p \notin HasLid /\ Head(c.left) = Jid(p)
            \/ p \in HasLid /\ Half(c, p) /\ Head(c.left) = Lid(p)
        <4>1. ~(Len(c.left) > 1)
          BY <2>2, LastLeft
        <4> HIDE DEF c
        <4> QED BY <1>2, <4>1, ShortLeft
      <3> QED BY <1>2, <2>1, <2>2, <3>1
    <2> QED BY <1>6, <2>1, <2>3
  <1>9. CASE Check(h)
    <2>1. UNCHANGED registry /\ c.at = "check" /\ c.cmd = "copy"
      BY <1>2, <1>9 DEF Check
    <2>2. registry[Head(c.left)] # Nobody
      <3> SUFFICES ASSUME Unlinked(Head(c.left)) PROVE FALSE
        BY DEF Unlinked
      <3>1. Done(h, [c EXCEPT !.at = "load"])
        BY <1>9 DEF Check
      <3>2. [c EXCEPT !.at = "load"].at = "load" /\ [[c EXCEPT !.at = "load"] EXCEPT !.loaded = Nobody].at = "load"
        BY <1>1 DEF Command
      <3>3. handler' = [handler EXCEPT ![h] = [[c EXCEPT !.at = "load"] EXCEPT !.loaded = Nobody]]
        BY <3>1, <3>2, DoneMoves
      <3> QED BY <1>4, <3>2, <3>3
    <2>3. Done(h, Onward(c))
      BY <1>9, <2>2 DEF Check, Unlinked
    <2>4. c.left = <<Lid(p)>> \/ (p \notin HasLid /\ c.left = <<Jid(p)>>)
      <3>1. /\ Onward(c).at # "free"
            /\ [Onward(c) EXCEPT !.loaded = Nobody].at # "next" \/ c.left = <<Lid(p)>> \/ (p \notin HasLid /\ c.left = <<Jid(p)>>)
        <4> HIDE DEF c
        <4> QED BY <1>1, <1>2, <2>1, OnwardIs
      <3> QED BY <1>4, <2>3, <3>1, DoneMoves
    <2>5. registry[Jid(p)] # Nobody /\ (p \in HasLid => registry[Lid(p)] # Nobody)
      <3>1. c.left = <<Lid(p)>> => Half(c, p) /\ Head(c.left) = Lid(p)
        BY <1>2, LeftIs DEF Jid, Lid
      <3>2. c.left = <<Jid(p)>> => Head(c.left) = Jid(p)
        OBVIOUS
      <3> QED BY <1>2, <2>1, <2>2, <2>4, <3>1, <3>2
    <2> QED BY <1>6, <2>1, <2>5
  <1>10. CASE CommitLink(h)
    <2>1. c.at = "flush"
      BY <1>10 DEF CommitLink
    <2>2. ~(c.loaded = Nobody /\ registry[Head(c.left)] # Nobody)
      <3>1. Free.at # "next"
        BY DEF Free
      <3> QED BY <1>4, <1>10, <3>1 DEF CommitLink
    <2>3. /\ registry'[Head(c.left)] # Nobody /\ Done(h, Onward(c))
          /\ \A k \in Identities \ {Head(c.left)} : registry'[k] = registry[k]
      BY <1>10, <2>2, CommitWrites, MembersAssumption
    <2>4. c.cmd \in {"match", "copy"}
      BY <1>2
    <2>5. c.left = <<Lid(p)>> \/ (p \notin HasLid /\ c.left = <<Jid(p)>>)
      <3>1. /\ Onward(c).at # "free"
            /\ [Onward(c) EXCEPT !.loaded = Nobody].at # "next" \/ c.left = <<Lid(p)>> \/ (p \notin HasLid /\ c.left = <<Jid(p)>>)
        <4>1. c \in Command /\ At(c, p) /\ (Whole(c, p) \/ Half(c, p)) /\ c.row \in LinkRow
          BY <1>1, <1>2, <2>1
        <4>2. (IF c.cmd = "copy" THEN "check" ELSE "load") # "next"
          OBVIOUS
        <4> HIDE DEF c
        <4>3. /\ Onward(c).at # "free"
              /\ \/ c.left = <<Lid(p)>> \/ (p \notin HasLid /\ c.left = <<Jid(p)>>)
                 \/ [Onward(c) EXCEPT !.loaded = Nobody].at = IF c.cmd = "copy" THEN "check" ELSE "load"
          BY <4>1, <2>4, OnwardIs
        <4> QED BY <4>2, <4>3
      <3> DEFINE e == [Onward(c) EXCEPT !.loaded = Nobody]
      <3>2. handler' = [handler EXCEPT ![h] = e]
        BY <2>3, <3>1, DoneMoves
      <3> HIDE DEF e
      <3>3. e.at = "next"
        BY <1>4, <3>2
      <3> QED BY <3>1, <3>3 DEF e
    <2>6. registry'[Jid(p)] # Nobody /\ (p \in HasLid => registry'[Lid(p)] # Nobody)
      <3>1. c.left = <<Lid(p)>> => Half(c, p) /\ Head(c.left) = Lid(p)
        BY <1>2, LeftIs DEF Jid, Lid
      <3>2. c.left = <<Jid(p)>> => Head(c.left) = Jid(p)
        OBVIOUS
      <3>3. Jid(p) \in Identities
        BY PersonsIdentities
      <3> QED BY <1>2, <2>1, <2>3, <2>5, <3>1, <3>2, <3>3
    <2> QED BY <1>6, <2>6
  <1> QED BY <1>3, <1>5, <1>8, <1>9, <1>10

THEOREM MembersInductiveHolds == MembersSpec => []MembersInductive
  <1> QED BY MembersInitInductive, MembersNextKeeps, PTL DEF MembersSpec

\* A row's title and CMS id are one member's, whichever commands interleave
\* between link_member's read and its flush, but for persons that were linked
\* while the roster did not answer.
THEOREM RowsAlwaysAgree == MembersSpec => []RowsAgree
  <1>1. MembersInductive => RowsAgree
    BY DEF MembersInductive
  <1> QED BY <1>1, MembersInductiveHolds, PTL

\* No /setup-members takes back a link that was there when it came to the
\* person, for any number of commands at once.
THEOREM SetupNeverRelinks == MembersSpec => LinksStand
  <1>1. MembersInductive /\ [MembersNext]_mvars =>
          [\A h \in Handlers, i \in Identities :
             (handler[h].at = "flush" /\ handler[h].cmd # "link" /\ handler'[h] # handler[h]
              /\ registry[i] # Nobody /\ registry'[i] # registry[i])
                => i \in overtaken[h]]_mvars
    BY LinksStandStep
  <1> QED BY <1>1, MembersInductiveHolds, PTL DEF MembersSpec, LinksStand

\* /setup-members leaves a person linked by all identities or by none, unless
\* another command wrote one of them meanwhile, whatever failed before.
THEOREM PersonsAreWhole == MembersSpec => WholePerson
  <1>1. MembersInductive /\ [MembersNext]_mvars =>
          [\A h \in Handlers, p \in Persons :
             (handler[h].at \notin {"free", "next"} /\ handler[h].cmd # "link"
              /\ handler'[h].at = "next" /\ Head(handler[h].left)[1] = p /\ overtaken'[h] = {})
                => \A i, j \in Identities : i[1] = p /\ j[1] = p => (registry'[i] = Nobody <=> registry'[j] = Nobody)]_mvars
    BY WholePersonStep
  <1> QED BY <1>1, MembersInductiveHolds, PTL DEF MembersSpec, WholePerson
=============================================================================
