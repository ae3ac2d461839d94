------------------------------- MODULE SignIn -------------------------------
(***************************************************************************)
(* Signing in and out (in-client/src/lib.rs): one browser with several     *)
(* tabs, the server, and im, the provider.  A tab that begins a sign-in    *)
(* leaves a flight in the browser's one _pkce cookie, comes back from im   *)
(* with a code, and the server exchanges it, checks the token against im's *)
(* keys, which it caches, and answers with the session cookie.  Every page *)
(* asks im about that session again.                                       *)
(*                                                                         *)
(* A request carries the cookies of the moment it is sent, and its answer  *)
(* sets or clears them when it arrives; tabs overtake each other.          *)
(***************************************************************************)
EXTENDS Naturals, FiniteSets

CONSTANTS
    Tab,           \* tabs of the browser
    None,          \* no cookie
    MaxFlights,    \* bound: sign-ins begun
    MaxKeys,       \* bound: signing keys of im
    MaxFaults      \* bound: what fails, is late, dies or is revoked

ASSUME SignInAssumption ==
    /\ MaxFlights \in Nat /\ MaxKeys \in Nat /\ MaxFaults \in Nat

VARIABLES
    pkce,       \* the flight cookie: None or [flight, lock]
    cookie,     \* the session cookie: None or [session, lock]
    tab,        \* what each tab waits for
    flights,    \* flights begun
    used,       \* flights whose code im has exchanged
    session,    \* per flight: the session minted for it, "none", "active" or "over"
    kid,        \* the key im signs with
    published,  \* the keys im publishes
    jwks,       \* the server's cache of them
    fresh,      \* and whether it is younger than an hour
    lock,       \* the in.key this process seals cookies with
    spoiled,    \* history: sign-ins that something came between
    signedOut,  \* history: a sign-out was asked for
    held,       \* history: sessions this browser has carried
    faults

vars == <<pkce, cookie, tab, flights, used, session, kid, published, jwks, fresh, lock,
          spoiled, signedOut, held, faults>>
browser == <<pkce, cookie, held>>
im      == <<used, session, kid, published>>
server  == <<jwks, fresh, lock>>
history == <<spoiled, signedOut>>

Flight == 1..MaxFlights

\* A request or an answer of a tab. `flight` is what the sign-in is about and
\* `carried` the cookie the request left with; an answer says what becomes of
\* the two cookies, "keep", "set" or "clear", and the key they are sealed with.
Quiet == [at |-> "quiet", flight |-> 0, carried |-> None, token |-> 0, doc |-> {},
          flightCookie |-> "keep", sessionCookie |-> "keep", seal |-> 0]

\* Cookies name a flight that was begun, tabs the step they are at.
SignInType ==
    /\ pkce = None \/ pkce \in [flight : 1..flights, lock : 1..lock]
    /\ cookie = None \/ cookie \in [session : used, lock : 1..lock]
    /\ \A t \in Tab :
         /\ DOMAIN tab[t] = DOMAIN Quiet
         /\ tab[t].at \in {"quiet", "authorize", "im", "callback", "exchange", "validate",
                           "fetch", "store", "find", "refetch", "restore", "findAgain",
                           "mint", "page", "logout", "imLogout", "answer"}
         /\ tab[t].flight \in 0..flights /\ tab[t].token \in 0..kid
         /\ tab[t].doc \subseteq 1..kid /\ tab[t].seal \in 0..lock
         /\ {tab[t].flightCookie, tab[t].sessionCookie} \subseteq {"keep", "set", "clear"}
    /\ flights \in 0..MaxFlights /\ used \subseteq 1..flights
    /\ session \in [Flight -> {"none", "active", "over"}]
    /\ kid \in 1..MaxKeys /\ published \subseteq 1..kid /\ jwks \subseteq 1..kid
    /\ {fresh, signedOut} \subseteq BOOLEAN
    /\ lock \in 1..(1 + faults) /\ faults \in 0..MaxFaults
    /\ spoiled \subseteq 0..flights /\ held \subseteq used

At(t, step) == tab[t].at = step
Goes(t, step) == tab' = [tab EXCEPT ![t].at = step]
Answered(t, f, s) ==
    tab' = [tab EXCEPT ![t].at = "answer", ![t].flightCookie = f, ![t].sessionCookie = s,
                       ![t].seal = IF s = "set" THEN lock ELSE 0]

Fault == faults < MaxFaults /\ faults' = faults + 1

\* What comes between other sign-ins under way and their end.
Spoils(fs) == spoiled' = spoiled \cup fs

Init ==
    /\ pkce = None /\ cookie = None /\ held = {}
    /\ tab = [t \in Tab |-> Quiet] /\ flights = 0
    /\ used = {} /\ session = [f \in Flight |-> "none"]
    /\ kid = 1 /\ published = {1}
    /\ jwks = {} /\ fresh = FALSE /\ lock = 1
    /\ spoiled = {} /\ signedOut = FALSE /\ faults = 0

-----------------------------------------------------------------------------
(* A sign-in.                                                              *)

\* A fresh verifier, state and nonce, sealed into the answer.
Login(t) ==
    /\ At(t, "quiet") /\ flights < MaxFlights
    /\ flights' = flights + 1
    /\ tab' = [tab EXCEPT ![t] = [Quiet EXCEPT !.at = "authorize", !.flight = flights',
                                         !.seal = lock]]
    /\ UNCHANGED <<browser, im, server, history, faults>>

\* The answer arrives: one cookie, whichever tab it is for. The tab is at im.
SetFlight(t) ==
    /\ At(t, "authorize")
    /\ pkce' = [flight |-> tab[t].flight, lock |-> tab[t].seal]
    /\ tab' = [tab EXCEPT ![t].at = "im", ![t].seal = 0]
    /\ Spoils({ f \in 1..flights : pkce # None /\ pkce.flight = f })
    /\ UNCHANGED <<cookie, held, flights, im, server, signedOut, faults>>

\* im signs the person in and sends the browser back with a code.
Return(t) ==
    /\ At(t, "im")
    /\ tab' = [tab EXCEPT ![t].at = "callback", ![t].carried = pkce]
    /\ UNCHANGED <<browser, flights, im, server, history, faults>>

\* Or says why not; the flight stays in its cookie.
ReturnRefused(t) ==
    /\ At(t, "im")
    /\ tab' = [tab EXCEPT ![t] = Quiet]
    /\ UNCHANGED <<browser, flights, im, server, history, faults>>

Opens(c) == c # None /\ c.lock = lock

\* No flight, or none that opens: the answer leaves the cookies alone. A flight
\* of another state is cleared from the browser all the same.
Callback(t) ==
    /\ At(t, "callback")
    /\ IF ~Opens(tab[t].carried) THEN Answered(t, "keep", "keep")
       ELSE IF tab[t].carried.flight # tab[t].flight THEN Answered(t, "clear", "keep")
       ELSE Goes(t, "exchange")
    /\ UNCHANGED <<browser, flights, im, server, history, faults>>

\* The ten minutes of a flight are over, and it is cleared.
CallbackLate(t) ==
    /\ At(t, "callback") /\ Opens(tab[t].carried) /\ Fault
    /\ Answered(t, "clear", "keep") /\ Spoils({tab[t].flight})
    /\ UNCHANGED <<browser, flights, im, server, signedOut>>

\* im takes a code once, with the verifier of its flight, and answers with a
\* token of its key and a session.
ExchangeCode(t) ==
    LET f == tab[t].flight IN
    /\ At(t, "exchange")
    /\ IF f \in used
       THEN Answered(t, "clear", "keep") /\ UNCHANGED <<used, session>>
       ELSE /\ used' = used \cup {f} /\ session' = [session EXCEPT ![f] = "active"]
            /\ tab' = [tab EXCEPT ![t].at = "validate", ![t].token = kid]
    /\ UNCHANGED <<browser, flights, kid, published, server, history, faults>>

\* Whatever the exchange asks of im goes unanswered, or is refused.
ExchangeFails(t) ==
    /\ tab[t].at \in {"exchange", "fetch", "refetch", "mint"} /\ Fault
    /\ Answered(t, "clear", "keep") /\ Spoils({tab[t].flight})
    /\ UNCHANGED <<browser, flights, im, server, signedOut>>

JwksStale == jwks = {} \/ ~fresh

ValidateIdToken(t) ==
    /\ At(t, "validate")
    /\ Goes(t, IF JwksStale THEN "fetch" ELSE "find")
    /\ UNCHANGED <<browser, flights, im, server, history, faults>>

\* im's keys are read, and only then written into the cache that all share.
FetchKeys(t) ==
    /\ tab[t].at \in {"fetch", "refetch"}
    /\ tab' = [tab EXCEPT ![t].at = IF At(t, "fetch") THEN "store" ELSE "restore",
                          ![t].doc = published]
    /\ UNCHANGED <<browser, flights, im, server, history, faults>>

\* A document that another tab read earlier takes the place of a newer one.
StoreKeys(t) ==
    /\ tab[t].at \in {"store", "restore"}
    /\ jwks' = tab[t].doc /\ fresh' = TRUE
    /\ Goes(t, IF At(t, "store") THEN "find" ELSE "findAgain")
    /\ Spoils({ tab[o].flight : o \in { o \in Tab \ {t} :
                  tab[o].token \in jwks \ jwks' /\ tab[o].at \in {"find", "findAgain"} } })
    /\ UNCHANGED <<browser, flights, im, lock, signedOut, faults>>

\* Mutant: a key that is not in the cache is not asked for.
FindOnce(t) ==
    /\ tab[t].at \in {"find", "findAgain"}
    /\ IF tab[t].token \in jwks THEN Goes(t, "mint") ELSE Answered(t, "clear", "keep")
    /\ UNCHANGED <<browser, flights, im, server, history, faults>>

\* An unknown key forces one more fetch; if it is unknown still, the token is
\* refused.
FindKey(t) ==
    /\ tab[t].at \in {"find", "findAgain"}
    /\ IF tab[t].token \in jwks THEN Goes(t, "mint")
       ELSE IF At(t, "find") THEN Goes(t, "refetch")
       ELSE Answered(t, "clear", "keep")
    /\ UNCHANGED <<browser, flights, im, server, history, faults>>

\* The signature holds, and the new session is asked about once before it is
\* handed out.
Mint(t) ==
    /\ At(t, "mint")
    /\ Answered(t, "clear", IF session[tab[t].flight] = "active" THEN "set" ELSE "keep")
    /\ UNCHANGED <<browser, flights, im, server, history, faults>>

-----------------------------------------------------------------------------
(* Pages and sign-outs.                                                    *)

Visit(t) ==
    /\ At(t, "quiet") /\ cookie # None
    /\ tab' = [tab EXCEPT ![t] = [Quiet EXCEPT !.at = "page", !.carried = cookie]]
    /\ UNCHANGED <<browser, flights, im, server, history, faults>>

\* Mutant: an answer that does not say who it is is taken for a revocation.
PageGivesUp(t) ==
    /\ At(t, "page") /\ Fault
    /\ Answered(t, "keep", "clear")
    /\ UNCHANGED <<browser, flights, im, server, history>>

\* A cookie that does not open is nobody's; a session that has ended takes its
\* cookie with it.
CurrentUser(t) ==
    /\ At(t, "page")
    /\ Answered(t, "keep",
         IF Opens(tab[t].carried) /\ session[tab[t].carried.session] # "active"
         THEN "clear" ELSE "keep")
    /\ UNCHANGED <<browser, flights, im, server, history, faults>>

\* "The question itself went unanswered": nothing was learned.
PageUnanswered(t) ==
    /\ At(t, "page") /\ Fault
    /\ Answered(t, "keep", "keep")
    /\ UNCHANGED <<browser, flights, im, server, history>>

\* The cookie goes first, whether or not the hop to im follows.
Logout(t) ==
    /\ At(t, "quiet") /\ cookie # None
    /\ signedOut' = TRUE
    /\ tab' = [tab EXCEPT ![t] = [Quiet EXCEPT !.at = "logout", !.sessionCookie = "clear"]]
    /\ UNCHANGED <<browser, flights, im, server, spoiled, faults>>

\* im ends the person's sessions and sends the browser back.
ImLogout(t) ==
    /\ At(t, "imLogout")
    /\ session' = [f \in Flight |-> IF session[f] = "active" THEN "over" ELSE session[f]]
    /\ Spoils(1..flights)
    /\ tab' = [tab EXCEPT ![t] = Quiet]
    /\ UNCHANGED <<browser, flights, used, kid, published, server, signedOut, faults>>

\* An answer arrives, and the browser does as it says.
Arrive(t) ==
    /\ tab[t].at \in {"answer", "logout"}
    /\ pkce' = IF tab[t].flightCookie = "clear" THEN None ELSE pkce
    /\ Spoils(IF tab[t].flightCookie = "clear" /\ pkce # None THEN {pkce.flight} \ {tab[t].flight}
              ELSE {})
    /\ cookie' = CASE tab[t].sessionCookie = "set"   -> [session |-> tab[t].flight,
                                                         lock |-> tab[t].seal]
                   [] tab[t].sessionCookie = "clear" -> None
                   [] OTHER                          -> cookie
    /\ held' = held \cup (IF cookie' = None THEN {} ELSE {cookie'.session})
    /\ tab' = [tab EXCEPT ![t] = IF At(t, "logout") THEN [Quiet EXCEPT !.at = "imLogout"] ELSE Quiet]
    /\ UNCHANGED <<flights, im, server, signedOut, faults>>

\* The tab is closed, or its person goes elsewhere; also at im's page.
GiveUp(t) ==
    /\ ~At(t, "quiet") /\ Fault
    /\ tab' = [tab EXCEPT ![t] = Quiet]
    /\ UNCHANGED <<browser, flights, im, server, history>>

-----------------------------------------------------------------------------
(* im and the server, beside all that.                                     *)

\* im signs with a new key; the one before may stay published, or go.
Rotate ==
    /\ kid < MaxKeys
    /\ kid' = kid + 1
    /\ published' \in {{kid'}, {kid, kid'}}
    /\ Spoils({ tab[t].flight : t \in { t \in Tab : tab[t].token # 0 } })
    /\ UNCHANGED <<browser, tab, flights, used, session, server, signedOut, faults>>

\* An admin ends a session, or its days are over.
Revoke(f) ==
    /\ session[f] = "active" /\ Fault
    /\ session' = [session EXCEPT ![f] = "over"] /\ Spoils({f})
    /\ UNCHANGED <<browser, tab, flights, used, kid, published, server, signedOut>>

AnHourPasses ==
    /\ fresh /\ fresh' = FALSE
    /\ UNCHANGED <<browser, tab, flights, im, jwks, lock, history, faults>>

\* The process dies with its cache and the requests it had; the key may be lost.
Restart ==
    /\ Fault
    /\ jwks' = {} /\ fresh' = FALSE /\ lock' \in {lock, lock + 1}
    /\ Spoils(1..flights)
    /\ tab' = [t \in Tab |-> IF tab[t].at \in {"quiet", "authorize", "im", "imLogout",
                                                 "answer", "logout"}
                             THEN tab[t] ELSE Quiet]
    /\ UNCHANGED <<browser, flights, im, signedOut>>

Next ==
    \/ \E t \in Tab :
         \/ Login(t) \/ SetFlight(t) \/ Return(t) \/ ReturnRefused(t)
         \/ Callback(t) \/ CallbackLate(t) \/ ExchangeCode(t) \/ ExchangeFails(t)
         \/ ValidateIdToken(t) \/ FetchKeys(t) \/ StoreKeys(t) \/ FindKey(t) \/ Mint(t)
         \/ Visit(t) \/ CurrentUser(t) \/ PageUnanswered(t)
         \/ Logout(t) \/ ImLogout(t) \/ Arrive(t) \/ GiveUp(t)
    \/ Rotate \/ AnHourPasses \/ Restart
    \/ \E f \in Flight : Revoke(f)

Spec == Init /\ [][Next]_vars

-----------------------------------------------------------------------------
(* Properties.                                                             *)

\* "Only an explicit `active: false` revokes": the browser's session cookie goes
\* when a sign-out was asked for, or im ended a session it carried; never for an
\* im that is silent or confused. (It may be a later session's cookie that the
\* late answer about an earlier one removes.)
CookieGoesOnWord ==
    [][cookie # None /\ cookie' = None =>
         signedOut \/ \E f \in held : session[f] = "over"]_vars

\* A tab whose sign-in nothing came between -- no other tab that began or ended
\* one meanwhile, no revocation, restart, late return or silent im, no key
\* exchanged under its feet -- is signed in, however old the cached keys are and
\* however often im has changed its key before.
AloneGetsIn ==
    [][\A t \in Tab :
         /\ tab[t].at \in {"callback", "exchange", "find", "findAgain", "mint"}
         /\ tab'[t].at = "answer" /\ tab[t].flight \notin spoiled'
         => tab'[t].sessionCookie = "set"]_vars
=============================================================================
