------------------------------ MODULE Uploader ------------------------------
(***************************************************************************)
(* The browser's half of a chunked upload: the walk of the script in       *)
(* in-web/src/drive.rs over one large file, and the five routes of         *)
(* in-web/src/upload.rs it calls.                                          *)
(*                                                                         *)
(* A call is a request on its way, then an answer on its way back.  The    *)
(* network may cut either: the tab sees an error, and a request that was   *)
(* cut, aborted or left behind by a reload may still reach the server.     *)
(* All tabs share the resume key of the file.  What the server does inside *)
(* one call, with every other request, is the subject of Upload; here a    *)
(* call is one step.                                                       *)
(*                                                                         *)
(* Files below a chunk's size, which go in one post, and the progress row  *)
(* are left out.                                                           *)
(***************************************************************************)
EXTENDS Integers, FiniteSets

CONSTANTS
    Tab,
    Sessions,   \* bound: upload sessions in all
    Pieces,     \* chunks of the file
    Tries,      \* attempts at one chunk
    MaxPicks,   \* bound: picks of the file in all
    MaxStray    \* bound: requests on their way that no tab waits for

ASSUME PiecesAssumption == Pieces \in Nat \ {0}
ASSUME TriesAssumption  == Tries \in Nat \ {0}
ASSUME BoundsAssumption == {Sessions, MaxPicks, MaxStray} \subseteq Nat

VARIABLES
    state,    \* upload_session: state, "late" for an active row past expires_at
    staged,   \* the chunk files of each session
    tab,      \* the script's variables in each tab
    key,      \* localStorage: the session saved under the file's identity
    stray,    \* requests on their way that no tab waits for
    picks     \* how often the file was picked

server == <<state, staged>>
vars   == <<state, staged, tab, key, stray, picks>>

Piece   == 1..Pieces
Session == 1..Sessions   \* upload_session ids, in the order they are made
Nobody  == 0             \* null
Id      == Session \cup {Nobody}

Request == [call : {"start", "status", "put", "finish", "abort"},
            session : Id, piece : 0..Pieces]

Answer  == [is : {"none", "ok", "expired", "short"},
            session : Id, uploaded : SUBSET Piece]

Script == [step      : {"idle", "probe", "start", "put", "finish"},
           session   : Id,
           skip      : SUBSET Piece,     \* staged, as the script knows it
           index     : Piece,
           attempt   : 0..Tries - 1,
           restarted : BOOLEAN,
           cancelled : BOOLEAN,
           answer    : Answer]           \* on its way back, if there is one

UploaderType ==
    /\ state \in [Session -> {"unborn", "active", "late", "done", "aborted"}]
    /\ staged \in [Session -> SUBSET Piece]
    /\ tab \in [Tab -> Script]
    /\ key \in Id
    /\ stray \subseteq Request
    /\ picks \in 0..MaxPicks

Say(is, session, uploaded) == [is |-> is, session |-> session, uploaded |-> uploaded]

NoAnswer == Say("none", Nobody, {})

Rest == [step |-> "idle", session |-> Nobody, skip |-> {}, index |-> 1,
         attempt |-> 0, restarted |-> FALSE, cancelled |-> FALSE, answer |-> NoAnswer]

Init ==
    /\ state = [s \in Session |-> "unborn"]
    /\ staged = [s \in Session |-> {}]
    /\ tab = [t \in Tab |-> Rest]
    /\ key = Nobody
    /\ stray = {}
    /\ picks = 0

-----------------------------------------------------------------------------
(* The server: what it answers to a request, and what that changes.  A     *)
(* session that is settled or expired still tells its status.              *)

Fresh  == {s \in Session : state[s] = "unborn"}
NextId == CHOOSE s \in Fresh : \A o \in Fresh : s <= o

Able(r) == r.call # "start" \/ Fresh # {}

Verdict(r) ==
    IF state[r.session] # "active" THEN "expired"
    ELSE IF r.call = "finish" /\ staged[r.session] # Piece THEN "short" ELSE "ok"

AnswerTo(r) ==
    CASE r.call = "start"  -> Say("ok", NextId, {})
      [] r.call = "status" -> Say("ok", Nobody, staged[r.session])
      [] r.call = "abort"  -> Say("ok", Nobody, {})
      [] r.call \in {"put", "finish"} -> Say(Verdict(r), Nobody, {})

Settle(s, how) ==
    /\ state' = [state EXCEPT ![s] = how]
    /\ staged' = [staged EXCEPT ![s] = {}]

Start(r) ==
    /\ r.call = "start"
    /\ state' = [state EXCEPT ![NextId] = "active"]
    /\ UNCHANGED staged

Put(r) ==
    /\ r.call = "put" /\ state[r.session] = "active"
    /\ staged' = [staged EXCEPT ![r.session] = @ \cup {r.piece}]
    /\ UNCHANGED state

Finish(r) ==
    /\ r.call = "finish" /\ state[r.session] = "active" /\ staged[r.session] = Piece
    /\ Settle(r.session, "done")

Abort(r) ==
    /\ r.call = "abort" /\ state[r.session] \in {"active", "late"}
    /\ Settle(r.session, "aborted")

Nothing(r) ==
    /\ \/ r.call = "status"
       \/ r.call \in {"put", "finish"} /\ AnswerTo(r).is # "ok"
       \/ r.call = "abort" /\ state[r.session] \in {"done", "aborted"}
    /\ UNCHANGED server

Serve(r) == Able(r) /\ (Start(r) \/ Put(r) \/ Finish(r) \/ Abort(r) \/ Nothing(r))

Expire(s) ==
    /\ state[s] = "active"
    /\ state' = [state EXCEPT ![s] = "late"]
    /\ UNCHANGED <<staged, tab, key, stray, picks>>

(* boot_sweeps: prune_expired_uploads.                                     *)
Boot ==
    /\ \E s \in Session : state[s] = "late"
    /\ state' = [s \in Session |-> IF state[s] = "late" THEN "aborted" ELSE state[s]]
    /\ staged' = [s \in Session |-> IF state[s] = "late" THEN {} ELSE staged[s]]
    /\ UNCHANGED <<tab, key, stray, picks>>

-----------------------------------------------------------------------------
(* The tab.                                                                *)

Asking(q) == q.step # "idle" /\ q.answer = NoAnswer

Asked(q) == [call |-> CASE q.step = "probe" -> "status" [] OTHER -> q.step,
             session |-> IF q.step = "start" THEN Nobody ELSE q.session,
             piece |-> IF q.step = "put" THEN q.index ELSE 0]

AbortOf(s) == [call |-> "abort", session |-> s, piece |-> 0]

Handle(t) ==
    /\ Asking(tab[t])
    /\ LET r == Asked(tab[t]) IN
       Serve(r) /\ tab' = [tab EXCEPT ![t].answer = AnswerTo(r)]
    /\ UNCHANGED <<key, stray, picks>>

HandleStray(r) ==
    /\ stray' = stray \ {r}
    /\ Serve(r)
    /\ UNCHANGED <<tab, key, picks>>

(* Of the requests nobody waits for, some are lost.                        *)
Leave(R) == \E kept \in SUBSET R :
    /\ Cardinality(stray \cup kept) <= MaxStray
    /\ stray' = stray \cup kept

Set(t, q) == tab' = [tab EXCEPT ![t] = [q EXCEPT !.answer = NoAnswer]]
End(t)    == tab' = [tab EXCEPT ![t] = Rest]

(* The walk from piece i on: skips what is staged, then the finish.        *)
Walk(t, q, i) ==
    LET missing == {j \in Piece \ q.skip : j >= i} IN
    IF q.cancelled THEN End(t)
    ELSE IF missing = {} THEN Set(t, [q EXCEPT !.step = "finish", !.skip = {}, !.index = 1, !.attempt = 0])
    ELSE Set(t, [q EXCEPT !.step = "put", !.attempt = 0,
                    !.index = CHOOSE j \in missing : \A k \in missing : j <= k])

(* The submit handler, sendBig: a saved session is probed.                 *)
Pick(t) ==
    /\ tab[t].step = "idle"
    /\ picks < MaxPicks
    /\ picks' = picks + 1
    /\ Set(t, [Rest EXCEPT !.step = IF key = Nobody THEN "start" ELSE "probe",
                                      !.session = key])
    /\ UNCHANGED <<server, key, stray>>

(* A session is at hand: a cancel that came before it aborts it.           *)
Armed(t, q) ==
    IF q.cancelled
    THEN /\ End(t)
         /\ key' = Nobody
         /\ Leave({AbortOf(q.session)})
    ELSE /\ Walk(t, q, 1)
         /\ key' = IF q.step = "start" THEN q.session ELSE key
         /\ UNCHANGED stray

Probed(t) ==
    LET q == tab[t] IN
    /\ q.step = "probe"
    /\ Armed(t, [q EXCEPT !.skip = q.answer.uploaded])

(* Mutant: the chunks of the old session are still skipped.                *)
StartedAsBefore(t) ==
    LET q == tab[t] IN
    /\ q.step = "start"
    /\ \/ /\ q.answer.is = "ok" /\ ~q.restarted
          /\ Armed(t, [q EXCEPT !.session = q.answer.session])
       \/ /\ q.answer.is = "ok" /\ q.restarted
          /\ key' = q.answer.session
          /\ Walk(t, [q EXCEPT !.session = q.answer.session], 1)
          /\ UNCHANGED stray

(* startChunked answers: the first session of the pick, or the second,     *)
(* for which nothing looks at a cancel but the walk.                       *)
Started(t) ==
    LET q == tab[t] IN
    /\ q.step = "start"
    /\ \/ /\ q.answer.is = "ok" /\ ~q.restarted
          /\ Armed(t, [q EXCEPT !.session = q.answer.session])
       \/ /\ q.answer.is = "ok" /\ q.restarted
          /\ key' = q.answer.session
          /\ Walk(t, [q EXCEPT !.session = q.answer.session, !.skip = {}], 1)
          /\ UNCHANGED stray

PutAnswered(t) ==
    LET q == tab[t] IN
    /\ q.step = "put"
    /\ \/ q.answer.is = "ok" /\ Walk(t, q, q.index + 1) /\ UNCHANGED key
       \/ /\ q.answer.is = "expired" /\ ~q.restarted
          /\ Set(t, [q EXCEPT !.step = "start", !.restarted = TRUE,
                              !.index = 1, !.attempt = 0])
          /\ key' = Nobody
       \/ q.answer.is = "expired" /\ q.restarted /\ End(t) /\ UNCHANGED key
    /\ UNCHANGED stray

(* A refused finish keeps the key.                                         *)
FinishAnswered(t) ==
    LET q == tab[t] IN
    /\ q.step = "finish"
    /\ IF q.answer.is = "ok"
       THEN End(t) /\ key' = Nobody
       ELSE End(t) /\ UNCHANGED key
    /\ UNCHANGED stray

Receive(t) ==
    /\ tab[t].answer # NoAnswer
    /\ Probed(t) \/ Started(t) \/ PutAnswered(t) \/ FinishAnswered(t)
    /\ UNCHANGED <<server, picks>>

(* The server refuses, with nothing done: the folder is gone, the quota is *)
(* spent, the database is busy.  A probe that is refused drops the key and *)
(* starts over; any other call fails the pick.                             *)
Refused(t) ==
    LET q == tab[t] IN
    /\ Asking(q)
    /\ IF q.step = "probe"
       THEN Set(t, [q EXCEPT !.step = "start", !.session = Nobody]) /\ key' = Nobody
       ELSE End(t) /\ UNCHANGED key
    /\ UNCHANGED <<server, stray, picks>>

(* What is still on its way when a tab gives a call up.                    *)
LeftBehind(q) == IF Asking(q) /\ q.step # "probe" THEN {Asked(q)} ELSE {}

(* Mutants: attempts are not counted; a finish that was cut starts over.   *)
MissedForEver(t, q) == Set(t, q)
MissedOrAgain(t, q) ==
    IF q.step = "finish" THEN Set(t, [q EXCEPT !.step = "start", !.restarted = TRUE])
    ELSE End(t)

(* A chunk is tried again, after a wait; any other call fails the pick.    *)
Missed(t, q) ==
    IF q.step = "put" /\ q.attempt < Tries - 1
    THEN Set(t, [q EXCEPT !.attempt = q.attempt + 1])
    ELSE End(t)

(* The network cuts the call, its request or its answer.                   *)
Cut(t) ==
    /\ tab[t].step # "idle"
    /\ Missed(t, tab[t])
    /\ Leave(LeftBehind(tab[t]))
    /\ UNCHANGED <<server, key, picks>>

(* u.cancel: before a session is at hand it only leaves a flag.  A chunk   *)
(* in flight, or waited for, ends the pick at once; a start or a finish    *)
(* does not.                                                               *)
Cancel(t) ==
    LET q == tab[t]
        armed == q.step \in {"put", "finish"} \/ q.restarted
    IN
    /\ q.step # "idle" /\ ~q.cancelled
    /\ key' = IF armed THEN Nobody ELSE key
    /\ Leave((IF armed THEN {AbortOf(q.session)} ELSE {})
             \cup (IF q.step = "put" THEN LeftBehind(q) ELSE {}))
    /\ IF q.step = "put" THEN End(t)
       ELSE tab' = [tab EXCEPT ![t].cancelled = TRUE]
    /\ UNCHANGED <<server, picks>>

(* The page goes away, and the script's variables with it.                 *)
Reload(t) ==
    /\ tab[t].step # "idle"
    /\ End(t)
    /\ Leave(LeftBehind(tab[t]))
    /\ UNCHANGED <<server, key, picks>>

Next ==
    \/ \E t \in Tab :
          \/ Pick(t) \/ Handle(t) \/ Receive(t) \/ Refused(t)
          \/ Cut(t) \/ Cancel(t) \/ Reload(t)
    \/ \E r \in stray : HandleStray(r)
    \/ \E s \in Session : Expire(s)
    \/ Boot

(* A call is answered or cut in the end, and the script goes on.           *)
Fairness == \A t \in Tab : WF_vars(Handle(t) \/ Receive(t) \/ Cut(t))

Spec == Init /\ [][Next]_vars /\ Fairness

-----------------------------------------------------------------------------
(* Properties.                                                             *)

(* Resumed, restarted, retried, or shared with another tab: a script that  *)
(* passed a piece by can rely on the server to hold it, as long as the     *)
(* session can still be finished, so that no finish comes up short.        *)
PassedIsHeld ==
    \A t \in Tab : LET q == tab[t] IN
       q.step \in {"put", "finish"} /\ state[q.session] = "active" =>
          (IF q.step = "finish" THEN Piece ELSE q.skip \cup 1..(q.index - 1))
             \subseteq staged[q.session]

(* A pick may open two sessions and try every call more than once, but it  *)
(* never puts two copies of the file into the drive.                       *)
OneCopyPerPick == Cardinality({s \in Session : state[s] = "done"}) <= picks

(* Every pick comes to an end and the form is usable again, whatever the   *)
(* network does to its calls.                                              *)
PicksEnd == \A t \in Tab : tab[t].step # "idle" ~> tab[t].step = "idle"
=============================================================================
