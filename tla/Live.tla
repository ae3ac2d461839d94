-------------------------------- MODULE Live --------------------------------
(***************************************************************************)
(* The live channel: from a write that committed, over the announcement    *)
(* that carries its topics, the bounded broadcast buffer and the event     *)
(* stream of each open tab, to the refresh that repaints the tab           *)
(* (store/turso_store.rs announce, in-core/src/live.rs, in-web/src/live.rs *)
(* and the scripts of in-web/src/layout.rs).                               *)
(*                                                                         *)
(* A page is the surface it shows; what it shows is not modelled, only     *)
(* which topics moved since it was rendered.                               *)
(***************************************************************************)
EXTENDS Naturals, Sequences, SequencesExt

CONSTANTS
    User,          \* the members
    Admin,         \* those with the admin flag
    Tab,           \* the open browser tabs
    Owner,         \* per tab: whose session it carries
    Writer,        \* requests that write
    Page,          \* bound: the pages a tab visits
    Kinds,         \* bound: the kinds of topic that ordinary writes announce
    Capacity,      \* of the broadcast buffer (256 in the code)
    MaxWrites,     \* bound: writes made
    MaxFlights     \* bound: fetches of one tab in the air at once

\* "secret" is the settings page that shows a key for the first and last time.
ASSUME LiveAssumption ==
    /\ Owner \in [Tab -> User]
    /\ "library" \in Page /\ Page \subseteq {"library", "shared", "trash", "settings", "secret"}
    /\ Admin \subseteq User
    /\ Capacity \in Nat \ {0} /\ MaxWrites \in Nat /\ MaxFlights \in Nat

Topics(kinds, u) == { [kind |-> k, id |-> u] : k \in kinds }
Topic == UNION { Topics({"library", "trash", "shares", "profile", "revoked",
                         "admin"}, u) : u \in User }

VARIABLES
    enabled,   \* the members whose account is not disabled
    writes,    \* writes made so far
    pending,   \* per writer: topics it has committed and not yet announced
    page,      \* per tab: what is on the screen, "out" for the sign-in page
    news,      \* per tab: topics of that page that moved since it was rendered
    stream,    \* per tab: its EventSource
    queue,     \* per tab: announcements in the buffer it has yet to read
    lagged,    \* per tab: announcements were dropped from under it
    timer,     \* per tab: the refresh is scheduled
    probe,     \* per tab: a question to /api/me is in the air
    flights,   \* per tab: the fetches of pages whose answer will be painted
    unlucky    \* per tab: a fault kept the news of its session from it

vars == <<enabled, writes, pending, page, news, stream, queue, lagged,
          timer, probe, flights, unlucky>>
screen == <<page, news>>
wire == <<stream, queue, lagged>>

Flight == [kind : {"refresh", "follow", "query"}, page : Page \cup {"out"},
           rendered : BOOLEAN, since : SUBSET Topic]

LiveType ==
    /\ enabled \subseteq User /\ writes \in 0..MaxWrites
    /\ \A w \in Writer : Range(pending[w]) \subseteq Topic
    /\ page \in [Tab -> Page \cup {"out"}]
    /\ news \in [Tab -> SUBSET Topic]
    /\ stream \in [Tab -> {"down", "admitted", "open", "dead"}]
    /\ \A tab \in Tab : /\ Range(queue[tab]) \subseteq Topic
                        /\ Len(queue[tab]) <= Capacity
                        /\ Range(flights[tab]) \subseteq Flight
                        /\ Len(flights[tab]) <= MaxFlights
    /\ lagged \in [Tab -> BOOLEAN] /\ timer \in [Tab -> BOOLEAN]
    /\ probe \in [Tab -> BOOLEAN] /\ unlucky \in [Tab -> BOOLEAN]

-----------------------------------------------------------------------------
(* What a reader may hear and what its page wants.                         *)

MayHear(topic, me) ==
    \/ topic.id = me
    \/ topic.kind = "profile"
    \/ topic.kind = "admin" /\ me \in Admin

Wanted(kind, p) ==
    \/ kind = "profile"
    \/ p \in {"settings", "secret"} /\ kind = "admin"
    \/ p = "shared" /\ kind = "shares"
    \/ p = "trash" /\ kind = "trash"
    \/ p \in {"library", "out"} /\ kind = "library"

Shows(tab, p) == { t \in Topic : MayHear(t, Owner[tab]) /\ Wanted(t.kind, p) }

-----------------------------------------------------------------------------
(* The writers.                                                            *)

Says(kind, u) == [kind |-> kind, id |-> u]

\* What the store announces, in order, after its writes: of the library, of
\* the trash, of a share between two members, of a member's row, of a face.
Announcements ==
    { ts \in UNION { { <<Says("library", u)>>,
                       <<Says("library", u), Says("trash", u)>>,
                       <<Says("shares", u), Says("shares", v)>>,
                       <<Says("admin", u)>>,
                       <<Says("admin", u), Says("profile", u)>>,
                       <<Says("profile", u)>> } : u \in User, v \in User } :
        \A i \in DOMAIN ts : ts[i].kind \in Kinds }

\* The write is in the database: every page rendered before it is out of date
\* in these topics, the one on the screen and the answers in the air alike.
Moves(topics) ==
    /\ news' = [tab \in Tab |-> news[tab] \cup (topics \cap Shows(tab, page[tab]))]
    /\ flights' = [tab \in Tab |-> [i \in DOMAIN flights[tab] |->
         [flights[tab][i] EXCEPT !.since = IF flights[tab][i].rendered
            THEN @ \cup (topics \cap Shows(tab, flights[tab][i].page)) ELSE @]]]

Write(w, ts) ==
    /\ pending[w] = <<>> /\ writes < MaxWrites
    /\ writes' = writes + 1
    /\ pending' = [pending EXCEPT ![w] = ts]
    /\ Moves(Range(ts))
    /\ UNCHANGED <<page, wire, timer, probe, unlucky>>

Commit(w) == \E ts \in Announcements : Write(w, ts) /\ UNCHANGED enabled

\* Enabling an account announces the same three topics as disabling it.
SetDisabled(w) == \E u \in User, disabled \in BOOLEAN :
    /\ Write(w, <<Says("admin", u), Says("profile", u), Says("revoked", u)>>)
    /\ enabled' = IF disabled THEN enabled \ {u} ELSE enabled \cup {u}

\* A receiver that has not read the oldest entry of a full buffer loses it and
\* is told so at its next read.
Announce(w) ==
    /\ pending[w] # <<>>
    /\ pending' = [pending EXCEPT ![w] = Tail(@)]
    /\ queue' = [tab \in Tab |->
         IF stream[tab] # "open" THEN queue[tab]
         ELSE Append(IF Len(queue[tab]) < Capacity THEN queue[tab]
                     ELSE Tail(queue[tab]), Head(pending[w]))]
    /\ lagged' = [tab \in Tab |-> lagged[tab] \/
                    (stream[tab] = "open" /\ Len(queue[tab]) = Capacity)]
    /\ UNCHANGED <<enabled, writes, screen, stream, timer, probe,
                   flights, unlucky>>

-----------------------------------------------------------------------------
(* The stream of a tab.                                                    *)

\* A full load of a page: a fresh document with a fresh stream.
Load(tab, p) ==
    LET in == Owner[tab] \in enabled IN
    /\ page' = [page EXCEPT ![tab] = IF in THEN p ELSE "out"]
    /\ news' = [news EXCEPT ![tab] = {}]
    /\ stream' = [stream EXCEPT ![tab] = IF in THEN "down" ELSE "dead"]
    /\ queue' = [queue EXCEPT ![tab] = <<>>]
    /\ lagged' = [lagged EXCEPT ![tab] = FALSE]
    /\ timer' = [timer EXCEPT ![tab] = FALSE]
    /\ probe' = [probe EXCEPT ![tab] = FALSE]
    /\ flights' = [flights EXCEPT ![tab] = <<>>]
    /\ unlucky' = [unlucky EXCEPT ![tab] = FALSE]
    /\ UNCHANGED <<enabled, writes, pending>>

Leave(tab) == Load(tab, "library")

\* The handler asks who this is first and subscribes afterwards.
Admit(tab) ==
    /\ stream[tab] = "down" /\ Owner[tab] \in enabled
    /\ stream' = [stream EXCEPT ![tab] = "admitted"]
    /\ UNCHANGED <<enabled, writes, pending, screen, queue, lagged,
                   timer, probe, flights, unlucky>>

\* Mutant: the script leaves every error to the EventSource.
RefuseQuietly(tab) ==
    /\ stream[tab] = "down"
    /\ stream' = [stream EXCEPT ![tab] = "dead"]
    /\ unlucky' = [unlucky EXCEPT ![tab] = @ \/ Owner[tab] \in enabled]
    /\ UNCHANGED <<enabled, writes, pending, screen, queue, lagged,
                   timer, probe, flights>>

\* A 401, for a member who is out or because the store could not say; to an
\* EventSource any answer but 200 is final.
Refuse(tab) ==
    /\ stream[tab] = "down"
    /\ stream' = [stream EXCEPT ![tab] = "dead"]
    /\ probe' = [probe EXCEPT ![tab] = TRUE]
    /\ unlucky' = [unlucky EXCEPT ![tab] = @ \/ Owner[tab] \in enabled]
    /\ UNCHANGED <<enabled, writes, pending, screen, queue, lagged,
                   timer, flights>>

Subscribe(tab) ==
    /\ stream[tab] = "admitted"
    /\ stream' = [stream EXCEPT ![tab] = "open"]
    /\ UNCHANGED <<enabled, writes, pending, screen, queue, lagged,
                   timer, probe, flights, unlucky>>

\* A burst of frames is one refresh: each one sets the timer anew.
Schedule(tab) == timer' = [timer EXCEPT ![tab] = TRUE]

\* Mutant: a lagging reader just reads on.
HearLaggedAndReadOn(tab) ==
    /\ stream[tab] = "open" /\ lagged[tab]
    /\ lagged' = [lagged EXCEPT ![tab] = FALSE]
    /\ UNCHANGED <<enabled, writes, pending, screen, stream, queue,
                   timer, probe, flights, unlucky>>

HearLagged(tab) ==
    /\ stream[tab] = "open" /\ lagged[tab]
    /\ lagged' = [lagged EXCEPT ![tab] = FALSE]
    /\ Schedule(tab)
    /\ UNCHANGED <<enabled, writes, pending, screen, stream, queue,
                   probe, flights, unlucky>>

HearTopic(tab) ==
    /\ stream[tab] = "open" /\ ~lagged[tab] /\ queue[tab] # <<>>
    /\ LET t == Head(queue[tab]) IN
       IF t.kind = "revoked" /\ MayHear(t, Owner[tab]) THEN Leave(tab)
       ELSE /\ queue' = [queue EXCEPT ![tab] = Tail(@)]
            /\ IF MayHear(t, Owner[tab]) /\ Wanted(t.kind, page[tab])
               THEN Schedule(tab) ELSE UNCHANGED timer
            /\ UNCHANGED <<enabled, writes, pending, screen, stream,
                           lagged, probe, flights, unlucky>>

\* The stream is gone, the browser opens another and the script asks /api/me.
Drop(tabs) ==
    /\ stream' = [tab \in Tab |-> IF tab \in tabs THEN "down" ELSE stream[tab]]
    /\ queue' = [tab \in Tab |-> IF tab \in tabs THEN <<>> ELSE queue[tab]]
    /\ lagged' = [tab \in Tab |-> tab \notin tabs /\ lagged[tab]]
    /\ probe' = [tab \in Tab |-> tab \in tabs \/ probe[tab]]

\* After five minutes the server ends the stream.
WindowEnds(tab) ==
    /\ stream[tab] = "open"
    /\ Drop({tab})
    /\ UNCHANGED <<enabled, writes, pending, screen, timer, flights,
                   unlucky>>

\* A stop or a crash ends every stream and takes what was not yet announced.
Restart ==
    /\ \/ \E tab \in Tab : stream[tab] \in {"admitted", "open"}
       \/ \E w \in Writer : pending[w] # <<>>
    /\ Drop({ tab \in Tab : stream[tab] \in {"admitted", "open"} })
    /\ pending' = [w \in Writer |-> <<>>]
    /\ UNCHANGED <<enabled, writes, screen, timer, flights, unlucky>>

\* Only a 401 makes the tab leave.
ProbeAnswered(tab) ==
    /\ probe[tab]
    /\ IF Owner[tab] \notin enabled THEN Leave(tab)
       ELSE /\ probe' = [probe EXCEPT ![tab] = FALSE]
            /\ UNCHANGED <<enabled, writes, pending, screen, wire,
                           timer, flights, unlucky>>

\* The store fails under the question, or the network does.
ProbeLost(tab) ==
    /\ probe[tab]
    /\ probe' = [probe EXCEPT ![tab] = FALSE]
    /\ unlucky' = [unlucky EXCEPT ![tab] = TRUE]
    /\ UNCHANGED <<enabled, writes, pending, screen, wire, timer,
                   flights>>

-----------------------------------------------------------------------------
(* The fetches of a tab. An answer counts while the navigation counter is  *)
(* where it was when the fetch began: a step of the counter forgets every  *)
(* fetch in the air.                                                       *)

Fetch(kind, p) == [kind |-> kind, page |-> p, rendered |-> FALSE, since |-> {}]

\* The timer fires; a page that shows a key is never refetched.
Refresh(tab) ==
    /\ timer[tab] /\ Len(flights[tab]) < MaxFlights
    /\ timer' = [timer EXCEPT ![tab] = FALSE]
    /\ flights' = [flights EXCEPT ![tab] = IF page[tab] = "secret" THEN @
                     ELSE Append(@, Fetch("refresh", page[tab]))]
    /\ UNCHANGED <<enabled, writes, pending, screen, wire, probe, unlucky>>

\* A link or a form, or a search that asks for the page anew: the counter steps,
\* and the page changes with the answer.
Go(tab, kind, p) ==
    /\ page[tab] # "out"
    /\ flights' = [flights EXCEPT ![tab] = <<Fetch(kind, p)>>]
    /\ UNCHANGED <<enabled, writes, pending, screen, wire, timer, probe,
                   unlucky>>

Follow(tab, p) == Go(tab, "follow", p)
Query(tab) == page[tab] = "library" /\ Go(tab, "query", "library")

\* Closing a dialog or the viewer steps the counter and fetches nothing.
CloseOverlay(tab) ==
    /\ page[tab] # "out" /\ flights[tab] # <<>>
    /\ flights' = [flights EXCEPT ![tab] = <<>>]
    /\ UNCHANGED <<enabled, writes, pending, screen, wire, timer, probe,
                   unlucky>>

\* The handler renders the page for whoever the session answers to now.
Render(tab, i) ==
    /\ ~flights[tab][i].rendered
    /\ flights' = [flights EXCEPT ![tab][i].rendered = TRUE,
         ![tab][i].page = IF Owner[tab] \in enabled THEN @ ELSE "out"]
    /\ UNCHANGED <<enabled, writes, pending, screen, wire, timer, probe,
                   unlucky>>

Paint(tab, i) ==
    /\ flights[tab][i].rendered
    /\ page' = [page EXCEPT ![tab] = flights[tab][i].page]
    /\ news' = [news EXCEPT ![tab] = flights[tab][i].since]
    /\ flights' = [flights EXCEPT ![tab] = RemoveAt(@, i)]
    /\ UNCHANGED <<enabled, writes, pending, wire, timer, probe, unlucky>>

\* A link whose fetch fails becomes a full load, anything else is forgotten.
FetchLost(tab, i) ==
    IF flights[tab][i].kind = "follow" THEN Load(tab, flights[tab][i].page)
    ELSE /\ flights' = [flights EXCEPT ![tab] = RemoveAt(@, i)]
         /\ UNCHANGED <<enabled, writes, pending, screen, wire, timer,
                        probe, unlucky>>

-----------------------------------------------------------------------------

Init ==
    /\ enabled = User /\ writes = 0
    /\ pending = [w \in Writer |-> <<>>]
    /\ page \in [Tab -> Page \ {"secret"}]
    /\ news = [tab \in Tab |-> {}]
    /\ stream = [tab \in Tab |-> "down"]
    /\ queue = [tab \in Tab |-> <<>>]
    /\ lagged = [tab \in Tab |-> FALSE]
    /\ timer = [tab \in Tab |-> FALSE]
    /\ probe = [tab \in Tab |-> FALSE]
    /\ flights = [tab \in Tab |-> <<>>]
    /\ unlucky = [tab \in Tab |-> FALSE]

StreamStep(tab) == Admit(tab) \/ Refuse(tab) \/ Subscribe(tab) \/ WindowEnds(tab)
Hear(tab) == HearLagged(tab) \/ HearTopic(tab)
Answer(tab) == \E i \in DOMAIN flights[tab] :
    Render(tab, i) \/ Paint(tab, i) \/ FetchLost(tab, i)

Next ==
    \/ \E w \in Writer : Commit(w) \/ SetDisabled(w) \/ Announce(w)
    \/ Restart
    \/ \E tab \in Tab :
         \/ StreamStep(tab) \/ Hear(tab)
         \/ ProbeAnswered(tab) \/ ProbeLost(tab)
         \/ Refresh(tab) \/ Answer(tab) \/ CloseOverlay(tab)
         \/ Query(tab)
         \/ \E p \in Page : Follow(tab, p)

\* The tasks of the server and of the browser run; the window is timed by the
\* server; an EventSource that lost its connection opens another.
Spec ==
    /\ Init /\ [][Next]_vars
    /\ \A w \in Writer : WF_vars(Announce(w))
    /\ \A tab \in Tab :
         /\ WF_vars(StreamStep(tab)) /\ WF_vars(Hear(tab))
         /\ WF_vars(ProbeAnswered(tab))
         /\ WF_vars(Refresh(tab)) /\ WF_vars(Answer(tab))

-----------------------------------------------------------------------------
(* Properties.                                                             *)

\* The news of a topic can still reach the tab.
OnItsWay(tab, t) ==
    \/ \E w \in Writer : t \in Range(pending[w])
    \/ stream[tab] = "open" /\ (lagged[tab] \/ t \in Range(queue[tab]))
    \/ timer[tab]
    \/ \E f \in Range(flights[tab]) : ~f.rendered \/ t \notin f.since

\* A page stays behind the database only where the design accepts it: the
\* stream is not open or ends; the refresh in the air is lost or dropped by the
\* closing of a dialog; the page shows a key; an answer is painted that was
\* rendered before what the screen showed already, or that belongs to another
\* page, whose topics the old one did not want. Every other step keeps the news
\* of each stale topic on its way: no lagging buffer, no burst of frames, no
\* write between a rendering and its painting loses it.
NewsIsLostOnlyThere ==
    [][\A tab \in Tab : \A t \in news'[tab] :
         (t \in news[tab] => OnItsWay(tab, t)) /\ ~OnItsWay(tab, t)' =>
            \/ stream[tab] # "open" \/ stream'[tab] # "open"
            \/ CloseOverlay(tab)
            \/ page[tab] = "secret"
            \/ \E i \in DOMAIN flights[tab] :
                 \/ FetchLost(tab, i)
                 \/ Paint(tab, i) /\ t \notin news[tab]]_vars

\* A tab whose member was disabled is on the sign-in page before long, whatever
\* it was doing and whichever announcements it missed, unless the account is
\* enabled again or a fault hid the answer that would have told it.
RevokedTabsLeave ==
    \A tab \in Tab : (Owner[tab] \notin enabled) ~>
        (page[tab] = "out" \/ Owner[tab] \in enabled \/ unlucky[tab])
=============================================================================
