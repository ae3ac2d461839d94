--------------------------- MODULE UploaderProofs ---------------------------
(***************************************************************************)
(* What Uploader guarantees for any number of tabs, chunks, sessions and   *)
(* attempts: a script never passes a chunk its session does not hold, and  *)
(* a pick never leaves two copies.                                         *)
(***************************************************************************)
EXTENDS Uploader, FiniteSetTheorems, WellFoundedInduction, TLAPS

-----------------------------------------------------------------------------
(* The invariant.                                                          *)

Born(s) == s \in Session /\ state[s] # "unborn"

Open(s) == state[s] = "active"

(* A script asks about a session that was made.                            *)
AsksOfBorn(q) == q.step \in {"probe", "put", "finish"} => Born(q.session)

(* Before its first session is at hand a script skips nothing.             *)
SkipsNothing(q) == q.step = "probe" \/ (q.step = "start" /\ ~q.restarted) => q.skip = {}

(* An answer on its way to it is true when it arrives.                     *)
AnswerIsTrue(q) ==
    q.answer # NoAnswer =>
        /\ q.step # "idle"
        /\ q.step = "probe" /\ Open(q.session) => q.answer.uploaded \subseteq staged[q.session]
        /\ q.step = "start" => q.answer.is = "ok" /\ Born(q.answer.session)
        /\ q.step = "put" /\ q.answer.is = "ok" /\ Open(q.session) =>
              q.index \in staged[q.session]

(* What it passed by is held.                                              *)
Passed(q) == IF q.step = "finish" THEN Piece ELSE q.skip \cup 1..(q.index - 1)

PassesHeld(q) ==
    q.step \in {"put", "finish"} /\ Open(q.session) => Passed(q) \subseteq staged[q.session]

Sound(q) == AsksOfBorn(q) /\ SkipsNothing(q) /\ AnswerIsTrue(q) /\ PassesHeld(q)

ScriptsAreSound == \A t \in Tab : Sound(tab[t])
KeyIsBorn       == key # Nobody => Born(key)

(* A pick sends its finish once: what may yet become a copy, with the      *)
(* copies there are, is no more than the picks.                            *)
Hopeful(q) == q.step # "idle" /\ ~(q.step = "finish" /\ q.answer # NoAnswer)

Hopes  == {t \in Tab : Hopeful(tab[t])}
Adrift == {r \in stray : r.call = "finish"}
Copies == {s \in Session : state[s] = "done"}

CopiesArePicked ==
    /\ IsFiniteSet(stray) /\ IsFiniteSet(Hopes)
    /\ Cardinality(Copies) + Cardinality(Adrift) + Cardinality(Hopes) <= picks

(* What is on its way was sent by a script.                                *)
Sent(r) == r \in Request /\ (r.call = "put" => r.piece \in Piece)

StraysAreSent == \A r \in stray : Sent(r)

IInv ==
    /\ UploaderType
    /\ StraysAreSent
    /\ KeyIsBorn
    /\ ScriptsAreSound
    /\ CopiesArePicked

-----------------------------------------------------------------------------
(* Numbers.                                                                *)

(* A set of naturals has a least one.                                      *)
LEMMA LeastNumber ==
    ASSUME NEW S, S \subseteq Nat, S # {}
    PROVE  \E n \in S : \A m \in S : n <= m
<1>1. PICK n \in S : \A m \in S : <<m, n>> \notin OpToRel(<, Nat)
  BY NatLessThanWellFounded, WFMin
<1>2. \A m \in S : ~(m < n)
  BY <1>1 DEF OpToRel
<1> QED
  BY <1>2

(* The next session is one that was not made yet.                          *)
LEMMA NextIsFresh ==
    ASSUME Fresh # {}
    PROVE  NextId \in Session /\ state[NextId] = "unborn"
<1>1. Fresh \subseteq Nat
  BY BoundsAssumption DEF Fresh, Session
<1>2. \E s \in Fresh : \A o \in Fresh : s <= o
  BY <1>1, LeastNumber
<1>3. NextId \in Fresh
  BY <1>2 DEF NextId
<1> QED
  BY <1>3 DEF Fresh

-----------------------------------------------------------------------------
(* The server.                                                             *)

(* Sessions stay made, and one that is open was open and keeps its chunks. *)
Moves ==
    \A s \in Session :
       /\ Born(s) => Born(s)'
       /\ Born(s) /\ state'[s] = "active" => state[s] = "active" /\ staged[s] \subseteq staged'[s]

ServerType ==
    /\ state \in [Session -> {"unborn", "active", "late", "done", "aborted"}]
    /\ staged \in [Session -> SUBSET Piece]

(* What the server does for a request is such a move.                      *)
LEMMA ServeMoves ==
    ASSUME ServerType, NEW r, Sent(r), Serve(r)
    PROVE  ServerType' /\ Moves
<1> USE DEF ServerType, Moves, Born
<1>2. CASE Start(r)
  <2>1. NextId \in Session /\ state[NextId] = "unborn"
    BY <1>2, NextIsFresh DEF Serve, Able, Start
  <2> QED
    BY <1>2, <2>1 DEF Start
<1>3. CASE Put(r)
  BY <1>3 DEF Put, Sent
<1>4. CASE Finish(r) \/ Abort(r)
  BY <1>4 DEF Finish, Abort, Settle
<1>5. CASE Nothing(r)
  BY <1>5 DEF Nothing, server
<1> QED
  BY <1>2, <1>3, <1>4, <1>5 DEF Serve

(* A request makes a copy only where it asks for the finish.               *)
LEMMA ServeCopies ==
    ASSUME ServerType, NEW r, Sent(r), Serve(r)
    PROVE  /\ r.call # "finish" => Copies' = Copies
           /\ Copies' = Copies \/ Copies' = Copies \cup {r.session}
<1> USE DEF ServerType, Copies
<1>1. CASE Start(r)
  <2>1. NextId \in Session /\ state[NextId] = "unborn"
    BY <1>1, NextIsFresh DEF Serve, Able, Start
  <2> QED
    BY <1>1, <2>1 DEF Start
<1>2. CASE Put(r) \/ Nothing(r)
  BY <1>2 DEF Put, Nothing, server
<1>3. CASE Finish(r)
  <2>1. Copies' = Copies \/ Copies' = Copies \cup {r.session}
    BY <1>3 DEF Finish, Settle
  <2> QED
    BY <1>3, <2>1 DEF Finish
<1>4. CASE Abort(r)
  BY <1>4 DEF Abort, Settle
<1> QED
  BY <1>1, <1>2, <1>3, <1>4 DEF Serve

(* An answer has its fields, and an answer that is none is one.            *)
LEMMA SayIs ==
    ASSUME NEW is \in {"none", "ok", "expired", "short"}, NEW s \in Id, NEW held \in SUBSET Piece
    PROVE  /\ Say(is, s, held) \in Answer
           /\ Say(is, s, held).is = is
           /\ Say(is, s, held).session = s
           /\ Say(is, s, held).uploaded = held
  BY DEF Say, Answer

(* To have no answer is an answer.                                         *)
LEMMA NoAnswerIsOne == NoAnswer \in Answer
  BY SayIs DEF NoAnswer, Id

(* What the server answers to a script's call.                             *)
LEMMA AnswerSteps ==
    ASSUME ServerType, NEW q \in Script, q.step # "idle", Sound(q), Serve(Asked(q))
    PROVE  /\ AnswerTo(Asked(q)) \in Answer
           /\ LET a == AnswerTo(Asked(q))
              IN  /\ q.step = "probe" => a.uploaded = staged[q.session]
                  /\ q.step = "start" =>
                        a.is = "ok" /\ a.session \in Session /\ state'[a.session] # "unborn"
                  /\ q.step = "put" /\ a.is = "ok" => q.index \in staged'[q.session]
<1>1. q.step \in {"probe", "start", "put", "finish"}
  BY DEF Script
<1>2. PICK r : r = Asked(q)
  OBVIOUS
<1>3. /\ r.call = IF q.step = "probe" THEN "status" ELSE q.step
      /\ r.session = IF q.step = "start" THEN Nobody ELSE q.session
      /\ q.step = "put" => r.piece = q.index
  BY <1>1, <1>2 DEF Asked
<1>4. q.step # "start" => q.session \in Session
  BY <1>1 DEF Sound, AsksOfBorn, Born
<1>5. Serve(r)
  BY <1>2
<1>6. CASE q.step = "start"
  <2>1. Start(r)
    BY <1>3, <1>5, <1>6 DEF Serve, Start, Put, Finish, Abort, Nothing
  <2>2. NextId \in Session
    BY <1>3, <1>5, <1>6, NextIsFresh DEF Serve, Able
  <2>3. PICK n : n = NextId
    OBVIOUS
  <2>5. AnswerTo(r) = Say("ok", n, {})
    BY <1>3, <1>6, <2>3 DEF AnswerTo
  <2>6. state' = [state EXCEPT ![n] = "active"]
    BY <2>1, <2>3 DEF Start
  <2>7. n \in Session /\ state'[n] # "unborn"
    BY <2>2, <2>3, <2>6 DEF ServerType
  <2> HIDE DEF Born
  <2>8. AnswerTo(r) \in Answer /\ AnswerTo(r).is = "ok" /\ AnswerTo(r).session = n
    BY <2>5, <2>7, SayIs DEF Id
  <2> QED
    BY <1>2, <1>6, <2>7, <2>8
<1>7. CASE q.step = "probe"
  <2>1. AnswerTo(r) = Say("ok", Nobody, staged[q.session])
    BY <1>3, <1>7 DEF AnswerTo
  <2>2. staged[q.session] \in SUBSET Piece
    BY <1>4, <1>7 DEF ServerType
  <2>3. AnswerTo(r) \in Answer /\ AnswerTo(r).uploaded = staged[q.session]
    BY <2>1, <2>2, SayIs DEF Id
  <2> QED
    BY <1>2, <1>7, <2>3
<1>8. CASE q.step \in {"put", "finish"}
  <2>2. AnswerTo(r) = Say(Verdict(r), Nobody, {}) /\ Verdict(r) \in {"expired", "short", "ok"}
    BY <1>3, <1>8 DEF AnswerTo, Verdict
  <2>3. AnswerTo(r) \in Answer
    BY <2>2, SayIs DEF Id
  <2>4. ASSUME q.step = "put", AnswerTo(r).is = "ok" PROVE q.index \in staged'[q.session]
    <3>1. Put(r)
      BY <1>3, <1>5, <2>4 DEF Serve, Start, Put, Finish, Abort, Nothing
    <3> QED
      BY <1>3, <1>4, <2>4, <3>1 DEF Put, ServerType
  <2> QED
    BY <1>2, <1>8, <2>3, <2>4
<1> QED
  BY <1>1, <1>6, <1>7, <1>8

(* What a script relies on outlives what the server does.                  *)
LEMMA SoundStays ==
    ASSUME ServerType, Moves, NEW q \in Script, Sound(q)
    PROVE  Sound(q)'
<1> USE DEF Sound
<1>1. AsksOfBorn(q)'
  BY DEF AsksOfBorn, Moves, Born
<1>2. SkipsNothing(q)'
  BY DEF SkipsNothing
<1>3. q.step \in {"probe", "put", "finish"} /\ Open(q.session)' =>
         Open(q.session) /\ staged[q.session] \subseteq staged'[q.session]
  BY DEF AsksOfBorn, Moves, Open, Born
<1>4. PassesHeld(q)'
  BY <1>3 DEF PassesHeld, Passed, Open
<1>5. q.step = "start" /\ q.answer # NoAnswer => Born(q.answer.session)'
  BY DEF AnswerIsTrue, Moves, Born
<1>6. AnswerIsTrue(q)'
  BY <1>3, <1>5 DEF AnswerIsTrue, Open
<1> QED
  BY <1>1, <1>2, <1>4, <1>6

(* A script at rest.                                                       *)
LEMMA RestIsSound == Rest \in Script /\ Sound(Rest) /\ Rest.answer = NoAnswer
<1>1. 1 \in Piece /\ 0 \in 0..Tries - 1 /\ {} \in SUBSET Piece /\ Nobody \in Id
  BY PiecesAssumption, TriesAssumption DEF Piece, Id
<1>2. Rest \in Script /\ Rest.answer = NoAnswer /\ Rest.step = "idle"
  BY <1>1, NoAnswerIsOne DEF Rest, Script
<1> QED
  BY <1>2 DEF Sound, AsksOfBorn, SkipsNothing, AnswerIsTrue, PassesHeld

(* Where the script goes from a piece on: what it passes is held.          *)
LEMMA WalkSteps ==
    ASSUME NEW t, NEW q \in Script, NEW i \in Nat \ {0}, Walk(t, q, i),
           Born(q.session),
           Open(q.session) => q.skip \cup (1..(i - 1) \cap Piece) \subseteq staged[q.session]
    PROVE  \E new \in Script :
              /\ tab' = [tab EXCEPT ![t] = new]
              /\ Sound(new) /\ new.answer = NoAnswer
<1> DEFINE missing == {j \in Piece \ q.skip : j >= i}
<1>1. Rest \in Script /\ Sound(Rest) /\ Rest.answer = NoAnswer
  BY RestIsSound
<1>2. CASE q.cancelled
  BY <1>1, <1>2 DEF Walk, End
<1>3. CASE ~q.cancelled /\ missing = {}
  <2> DEFINE new == [[q EXCEPT !.step = "finish", !.skip = {}, !.index = 1, !.attempt = 0]
                        EXCEPT !.answer = NoAnswer]
  <2>1. tab' = [tab EXCEPT ![t] = new]
    BY <1>3 DEF Walk, Set
  <2>0. 1 \in Piece /\ 0 \in 0..Tries - 1 /\ {} \in SUBSET Piece
    BY PiecesAssumption, TriesAssumption DEF Piece
  <2>2. /\ new.step = "finish" /\ new.session = q.session /\ new.answer = NoAnswer
        /\ new \in Script
    BY <2>0, NoAnswerIsOne DEF Script
  <2> HIDE DEF new
  <2>3. Open(q.session) => Piece \subseteq staged[q.session]
    <3>1. \A j \in Piece : j \in q.skip \/ j \in 1..(i - 1)
      BY <1>3, PiecesAssumption DEF Piece
    <3> QED
      BY <3>1
  <2>4. Sound(new)
    BY <2>2, <2>3 DEF Sound, AsksOfBorn, SkipsNothing, AnswerIsTrue, PassesHeld, Passed
  <2> QED
    BY <2>1, <2>2, <2>4
<1>4. CASE ~q.cancelled /\ missing # {}
  <2> DEFINE n == CHOOSE j \in missing : \A k \in missing : j <= k
             new == [[q EXCEPT !.step = "put", !.attempt = 0, !.index = n]
                        EXCEPT !.answer = NoAnswer]
  <2>1. tab' = [tab EXCEPT ![t] = new]
    BY <1>4 DEF Walk, Set
  <2>2. n \in missing /\ \A k \in missing : n <= k
    <3>1. missing \subseteq Nat
      BY PiecesAssumption DEF Piece
    <3>2. \E j \in missing : \A k \in missing : j <= k
      <4> HIDE DEF missing
      <4> QED
        BY <1>4, <3>1, LeastNumber
    <3> HIDE DEF missing
    <3> QED
      BY <3>2
  <2>3. n \in Piece /\ n >= i
    BY <2>2
  <2> HIDE DEF n
  <2>4. /\ new.step = "put" /\ new.session = q.session /\ new.answer = NoAnswer
        /\ new.skip = q.skip /\ new.index = n
        /\ new \in Script
    <3>1. 0 \in 0..Tries - 1
      BY TriesAssumption
    <3> QED
      BY <2>3, <3>1, NoAnswerIsOne DEF Script
  <2> HIDE DEF new
  <2>5. \A j \in 1..(n - 1) : j \in q.skip \/ j \in 1..(i - 1) \cap Piece
    <3> SUFFICES ASSUME NEW j \in 1..(n - 1), j \notin q.skip, j >= i PROVE FALSE
      BY <2>3, PiecesAssumption DEF Piece
    <3>1. j \in missing
      BY <2>3, PiecesAssumption DEF Piece
    <3> QED
      BY <2>2, <2>3, <3>1, PiecesAssumption DEF Piece
  <2>6. Open(q.session) => q.skip \cup 1..(n - 1) \subseteq staged[q.session]
    BY <2>5
  <2>7. Sound(new)
    BY <2>4, <2>6 DEF Sound, AsksOfBorn, SkipsNothing, AnswerIsTrue, PassesHeld, Passed
  <2> QED
    BY <2>1, <2>4, <2>7
<1> QED
  BY <1>2, <1>3, <1>4
-----------------------------------------------------------------------------
(* The tab.                                                                *)

(* What a step of a tab leaves: a script that is sound, and one request    *)
(* for a finish at most that is on its way in place of the script's own.   *)
Calm(old, new)   == Adrift' = Adrift /\ (Hopeful(new) => Hopeful(old))
Drifts(old, new) == Hopeful(old) /\ ~Hopeful(new) /\ \E r : Adrift' = Adrift \cup {r}

Leaves(t) ==
    /\ KeyIsBorn' /\ key' \in Id
    /\ StraysAreSent' /\ IsFiniteSet(stray')
    /\ \E new \in Script :
          /\ tab' = [tab EXCEPT ![t] = new] /\ Sound(new)
          /\ Calm(tab[t], new) \/ Drifts(tab[t], new)

(* What the network keeps of the requests that are given up.               *)
LEMMA LeaveSteps ==
    ASSUME StraysAreSent, IsFiniteSet(stray), NEW R, IsFiniteSet(R), \A r \in R : Sent(r), Leave(R)
    PROVE  /\ StraysAreSent' /\ IsFiniteSet(stray')
           /\ (\A r \in R : r.call # "finish") => Adrift' = Adrift
           /\ \A f : R = {f} => Adrift' = Adrift \/ Adrift' = Adrift \cup {f}
<1>1. PICK kept \in SUBSET R : stray' = stray \cup kept
  BY DEF Leave
<1>2. IsFiniteSet(kept)
  BY FS_Subset
<1>3. IsFiniteSet(stray')
  BY <1>1, <1>2, FS_Union
<1>4. StraysAreSent'
  BY <1>1 DEF StraysAreSent, Sent
<1>5. (\A r \in R : r.call # "finish") => Adrift' = Adrift
  BY <1>1 DEF Adrift
<1>6. \A f : R = {f} => kept = {} \/ kept = {f}
  OBVIOUS
<1>7. \A f : R = {f} => Adrift' = Adrift \/ Adrift' = Adrift \cup {f}
  BY <1>1, <1>6 DEF Adrift
<1> QED
  BY <1>3, <1>4, <1>5, <1>7

(* The requests a tab gives up.                                            *)
LEMMA GivenUp ==
    ASSUME NEW q \in Script
    PROVE  /\ Sent(AbortOf(q.session)) /\ AbortOf(q.session).call = "abort"
           /\ q.step # "idle" => Sent(Asked(q))
           /\ q.step = "finish" <=> Asked(q).call = "finish"
<1>1. /\ q.step \in {"idle", "probe", "start", "put", "finish"}
      /\ q.session \in Id /\ q.index \in Piece /\ Nobody \in Id
      /\ q.index \in 0..Pieces /\ 0 \in 0..Pieces
  BY PiecesAssumption DEF Script, Piece, Id
<1>2. Sent(AbortOf(q.session)) /\ AbortOf(q.session).call = "abort"
  BY <1>1 DEF Sent, AbortOf, Request
<1>3. /\ Asked(q).call = IF q.step = "probe" THEN "status" ELSE q.step
      /\ Asked(q).session = IF q.step = "start" THEN Nobody ELSE q.session
      /\ Asked(q).piece = IF q.step = "put" THEN q.index ELSE 0
  BY <1>1 DEF Asked
<1>4. q.step # "idle" => Asked(q) \in Request
  BY <1>1, <1>3 DEF Asked, Request
<1> QED
  BY <1>1, <1>2, <1>3, <1>4 DEF Sent

(* What nobody gives up stays as it was.                                   *)
LEMMA NothingGivenUp ==
    ASSUME StraysAreSent, IsFiniteSet(stray), UNCHANGED stray
    PROVE  StraysAreSent' /\ IsFiniteSet(stray') /\ Adrift' = Adrift
  BY DEF StraysAreSent, Sent, Adrift

(* The script's part of the invariant.                                     *)
TabInv ==
    /\ UploaderType /\ StraysAreSent /\ IsFiniteSet(stray)
    /\ KeyIsBorn /\ ScriptsAreSound

(* A session is at hand.                                                   *)
LEMMA ArmedSteps ==
    ASSUME TabInv, NEW t \in Tab, NEW q \in Script, Armed(t, q), UNCHANGED state,
           Hopeful(tab[t]), Born(q.session), Open(q.session) => q.skip \subseteq staged[q.session]
    PROVE  Leaves(t)
<1>1. Born(q.session)' /\ q.session \in Id
  BY DEF Born, Id
<1>2. CASE q.cancelled
  <2>1. End(t) /\ key' = Nobody /\ Leave({AbortOf(q.session)})
    BY <1>2 DEF Armed
  <2>2. StraysAreSent' /\ IsFiniteSet(stray') /\ Adrift' = Adrift
    <3> DEFINE R == {AbortOf(q.session)}
    <3>1. IsFiniteSet(R)
      BY FS_Singleton
    <3>2. \A r \in R : Sent(r) /\ r.call # "finish"
      BY GivenUp
    <3>3. Leave(R) /\ StraysAreSent /\ IsFiniteSet(stray)
      BY <2>1 DEF TabInv
    <3> HIDE DEF R
    <3> QED
      BY <3>1, <3>2, <3>3, LeaveSteps
  <2>3. tab' = [tab EXCEPT ![t] = Rest]
    BY <2>1 DEF End
  <2>4. KeyIsBorn' /\ key' \in Id
    BY <2>1 DEF KeyIsBorn, Id
  <2>5. Calm(tab[t], Rest)
    BY <2>2 DEF Calm
  <2> QED
    BY <2>2, <2>3, <2>4, <2>5, RestIsSound DEF Leaves
<1>3. CASE ~q.cancelled
  <2>1. Walk(t, q, 1) /\ UNCHANGED stray
    BY <1>3 DEF Armed
  <2>2. key' = q.session \/ key' = key
    BY <1>3 DEF Armed
  <2>3. /\ 1 \in Nat \ {0}
        /\ Open(q.session) => q.skip \cup (1..(1 - 1) \cap Piece) \subseteq staged[q.session]
    OBVIOUS
  <2>4. PICK new \in Script : tab' = [tab EXCEPT ![t] = new] /\ Sound(new)
    BY <2>1, <2>3, WalkSteps
  <2>5. KeyIsBorn' /\ key' \in Id
    <3>1. CASE key' = q.session
      BY <1>1, <3>1 DEF KeyIsBorn, Born
    <3>2. CASE key' = key
      BY <3>2 DEF TabInv, UploaderType, KeyIsBorn, Born
    <3> QED
      BY <2>2, <3>1, <3>2
  <2> QED
    BY <2>1, <2>4, <2>5, NothingGivenUp DEF Leaves, Calm, TabInv
<1> QED
  BY <1>2, <1>3

(* A script of the type and the invariant.                                 *)
LEMMA ScriptOf ==
    ASSUME TabInv, NEW t \in Tab
    PROVE  /\ tab[t] \in Script /\ Sound(tab[t]) /\ ServerType
           /\ tab[t].step \in {"idle", "probe", "start", "put", "finish"}
  BY DEF TabInv, UploaderType, ScriptsAreSound, ServerType, Script

(* What Set leaves of a script: its fields, and no answer.                 *)
LEMMA SetIs ==
    ASSUME NEW t, NEW q \in Script, Set(t, q)
    PROVE  \E new \in Script :
              /\ tab' = [tab EXCEPT ![t] = new]
              /\ new.step = q.step /\ new.session = q.session /\ new.skip = q.skip
              /\ new.index = q.index /\ new.restarted = q.restarted
              /\ new.answer = NoAnswer
<1> DEFINE new == [q EXCEPT !.answer = NoAnswer]
<1>1. tab' = [tab EXCEPT ![t] = new]
  BY DEF Set
<1>2. /\ new.step = q.step /\ new.session = q.session /\ new.skip = q.skip
      /\ new.index = q.index /\ new.restarted = q.restarted
      /\ new.answer = NoAnswer /\ new \in Script
  BY NoAnswerIsOne DEF Script
<1> QED
  BY <1>1, <1>2

(* A key that stays, or is dropped.                                        *)
LEMMA KeyStays ==
    ASSUME TabInv, UNCHANGED state, key' = key \/ key' = Nobody
    PROVE  KeyIsBorn' /\ key' \in Id
<1>1. CASE key' = key
  BY <1>1 DEF TabInv, UploaderType, KeyIsBorn, Born
<1>2. CASE key' = Nobody
  BY <1>2 DEF KeyIsBorn, Id
<1> QED
  BY <1>1, <1>2

(* The start, an answer, a refusal: nothing is left on its way.            *)
LEMMA PickSteps ==
    ASSUME TabInv, NEW t \in Tab, Pick(t)
    PROVE  /\ KeyIsBorn' /\ key' \in Id /\ StraysAreSent' /\ IsFiniteSet(stray')
           /\ Adrift' = Adrift /\ ~Hopeful(tab[t])
           /\ \E new \in Script : tab' = [tab EXCEPT ![t] = new] /\ Sound(new)
<1> DEFINE q == [Rest EXCEPT !.step = IF key = Nobody THEN "start" ELSE "probe",
                             !.session = key]
<1>1. Set(t, q) /\ UNCHANGED <<server, key, stray>> /\ tab[t].step = "idle"
  BY DEF Pick
<1>2. key \in Id /\ (q.step = "start" \/ (q.step = "probe" /\ Born(q.session)))
  BY DEF TabInv, UploaderType, KeyIsBorn, Rest
<1>3. q \in Script /\ q.skip = {}
  BY <1>2, RestIsSound DEF Script, Rest
<1> HIDE DEF q
<1>4. PICK new \in Script :
         /\ tab' = [tab EXCEPT ![t] = new]
         /\ new.step = q.step /\ new.session = q.session /\ new.skip = q.skip
         /\ new.answer = NoAnswer
  BY <1>1, <1>3, SetIs
<1>5. Sound(new)
  BY <1>2, <1>3, <1>4 DEF Sound, AsksOfBorn, SkipsNothing, AnswerIsTrue, PassesHeld
<1>6. KeyIsBorn' /\ key' \in Id
  BY <1>1, KeyStays DEF server
<1> QED
  BY <1>1, <1>4, <1>5, <1>6, NothingGivenUp DEF TabInv, Hopeful

(* A script that reads its answer.                                         *)
LEMMA ReceiveSteps ==
    ASSUME TabInv, NEW t \in Tab, Receive(t)
    PROVE  Leaves(t)
<1> DEFINE q == tab[t]
<1>0. /\ q \in Script /\ Sound(q) /\ q.answer # NoAnswer /\ UNCHANGED state
      /\ q.answer \in Answer /\ q.session \in Id /\ q.skip \in SUBSET Piece
      /\ q.index \in Piece
  BY ScriptOf DEF Receive, server, Script
<1> USE DEF Sound, AsksOfBorn, SkipsNothing, AnswerIsTrue, PassesHeld
<1>1. CASE Probed(t)
  <2> DEFINE new == [q EXCEPT !.skip = q.answer.uploaded]
  <2>1. /\ new \in Script /\ new.session = q.session /\ new.skip = q.answer.uploaded
    BY <1>0 DEF Script, Answer
  <2>2. Armed(t, new) /\ q.step = "probe"
    BY <1>1 DEF Probed
  <2> HIDE DEF new
  <2>3. Hopeful(q) /\ Born(new.session)
        /\ (Open(new.session) => new.skip \subseteq staged[new.session])
    BY <1>0, <2>1, <2>2 DEF Hopeful
  <2> QED
    BY <1>0, <2>1, <2>2, <2>3, ArmedSteps
<1>2. CASE Started(t) /\ ~q.restarted
  <2> DEFINE new == [q EXCEPT !.session = q.answer.session]
  <2>1. new \in Script /\ new.session = q.answer.session /\ new.skip = q.skip
    BY <1>0 DEF Script, Answer
  <2>2. Armed(t, new) /\ q.step = "start"
    BY <1>2 DEF Started
  <2> HIDE DEF new
  <2>3. /\ Hopeful(q) /\ Born(new.session)
        /\ Open(new.session) => new.skip \subseteq staged[new.session]
    BY <1>0, <1>2, <2>1, <2>2 DEF Hopeful
  <2> QED
    BY <1>0, <2>1, <2>2, <2>3, ArmedSteps
<1>3. CASE Started(t) /\ q.restarted
  <2> DEFINE new == [q EXCEPT !.session = q.answer.session, !.skip = {}]
  <2>1. new \in Script /\ new.session = q.answer.session /\ new.skip = {}
    BY <1>0 DEF Script, Answer
  <2>2. Walk(t, new, 1) /\ q.step = "start" /\ key' = q.answer.session /\ UNCHANGED stray
    BY <1>3 DEF Started
  <2> HIDE DEF new
  <2>3. Hopeful(q) /\ Born(new.session)
    BY <1>0, <2>1, <2>2 DEF Hopeful
  <2>4. /\ 1 \in Nat \ {0}
        /\ Open(new.session) => new.skip \cup (1..(1 - 1) \cap Piece) \subseteq staged[new.session]
    BY <2>1
  <2>5. PICK next \in Script : tab' = [tab EXCEPT ![t] = next] /\ Sound(next)
    BY <2>1, <2>2, <2>3, <2>4, WalkSteps
  <2>6. KeyIsBorn' /\ key' \in Id
    BY <1>0, <2>1, <2>2, <2>3 DEF KeyIsBorn, Born, Id
  <2> QED
    BY <2>2, <2>3, <2>5, <2>6, NothingGivenUp DEF Leaves, Calm, TabInv
<1>4. CASE PutAnswered(t)
  <2>1. q.step = "put" /\ UNCHANGED stray /\ Hopeful(q) /\ Born(q.session)
    BY <1>0, <1>4 DEF PutAnswered, Hopeful
  <2>2. CASE q.answer.is = "ok" /\ Walk(t, q, q.index + 1) /\ UNCHANGED key
    <3>1. q.index + 1 \in Nat \ {0} /\ (q.index + 1) - 1 = q.index /\ q.index \in 1..Pieces
      BY <1>0, PiecesAssumption DEF Piece
    <3>2. 1..q.index = 1..(q.index - 1) \cup {q.index}
      BY <3>1
    <3>3. Open(q.session) =>
             q.skip \cup (1..((q.index + 1) - 1) \cap Piece) \subseteq staged[q.session]
      BY <1>0, <2>1, <2>2, <3>1, <3>2 DEF Passed
    <3>4. PICK next \in Script : tab' = [tab EXCEPT ![t] = next] /\ Sound(next)
      BY <1>0, <2>1, <2>2, <3>1, <3>3, WalkSteps
    <3> QED
      BY <1>0, <2>1, <2>2, <3>4, NothingGivenUp, KeyStays DEF Leaves, Calm, TabInv
  <2>3. CASE /\ Set(t, [q EXCEPT !.step = "start", !.restarted = TRUE, !.index = 1, !.attempt = 0])
             /\ key' = Nobody
    <3> DEFINE again == [q EXCEPT !.step = "start", !.restarted = TRUE, !.index = 1, !.attempt = 0]
    <3>1. 1 \in Piece /\ 0 \in 0..Tries - 1
      BY PiecesAssumption, TriesAssumption DEF Piece
    <3>2. again \in Script /\ again.step = "start" /\ again.restarted
      BY <1>0, <3>1 DEF Script
    <3>0. Set(t, again)
      BY <2>3
    <3> HIDE DEF again
    <3>3. PICK next \in Script :
             /\ tab' = [tab EXCEPT ![t] = next]
             /\ next.step = again.step /\ next.restarted = again.restarted
             /\ next.answer = NoAnswer
      BY <3>0, <3>2, SetIs
    <3>4. Sound(next)
      BY <3>2, <3>3
    <3> QED
      BY <1>0, <2>1, <2>3, <3>3, <3>4, NothingGivenUp, KeyStays DEF Leaves, Calm, TabInv
  <2>4. CASE End(t) /\ UNCHANGED key
    <3>1. tab' = [tab EXCEPT ![t] = Rest]
      BY <2>4 DEF End
    <3> QED
      BY <1>0, <2>1, <2>4, <3>1, RestIsSound, NothingGivenUp, KeyStays DEF Leaves, Calm, TabInv
  <2> QED
    BY <1>4, <2>2, <2>3, <2>4 DEF PutAnswered
<1>5. CASE FinishAnswered(t)
  <2>1. UNCHANGED stray /\ (key' = key \/ key' = Nobody)
    BY <1>5 DEF FinishAnswered
  <2>2. tab' = [tab EXCEPT ![t] = Rest]
    BY <1>5 DEF FinishAnswered, End
  <2>3. ~Hopeful(Rest)
    BY DEF Hopeful, Rest
  <2> QED
    BY <1>0, <2>1, <2>2, <2>3, RestIsSound, NothingGivenUp, KeyStays DEF Leaves, Calm, TabInv
<1> QED
  BY <1>1, <1>2, <1>3, <1>4, <1>5 DEF Receive

(* A script whose call is refused.                                         *)
LEMMA RefusedSteps ==
    ASSUME TabInv, NEW t \in Tab, Refused(t)
    PROVE  Leaves(t)
<1> DEFINE q == tab[t]
<1>0. q \in Script /\ Sound(q) /\ Asking(q) /\ UNCHANGED <<state, stray>>
  BY ScriptOf DEF Refused, server
<1>1. Hopeful(q)
  BY <1>0 DEF Asking, Hopeful
<1>2. CASE q.step = "probe"
  <2> DEFINE again == [q EXCEPT !.step = "start", !.session = Nobody]
  <2>1. again \in Script /\ again.step = "start" /\ again.skip = q.skip
    BY <1>0 DEF Script, Id
  <2>2. Set(t, again) /\ key' = Nobody
    BY <1>2 DEF Refused
  <2> HIDE DEF again
  <2>3. PICK new \in Script :
           /\ tab' = [tab EXCEPT ![t] = new]
           /\ new.step = again.step /\ new.skip = again.skip /\ new.answer = NoAnswer
    BY <2>1, <2>2, SetIs
  <2>4. Sound(new)
    BY <1>0, <1>2, <2>1, <2>3 DEF Sound, AsksOfBorn, SkipsNothing, AnswerIsTrue, PassesHeld
  <2> QED
    BY <1>0, <1>1, <2>2, <2>3, <2>4, NothingGivenUp, KeyStays DEF Leaves, Calm, TabInv
<1>3. CASE q.step # "probe"
  <2>1. tab' = [tab EXCEPT ![t] = Rest] /\ UNCHANGED key
    BY <1>3 DEF Refused, End
  <2> QED
    BY <1>0, <1>1, <2>1, RestIsSound, NothingGivenUp, KeyStays DEF Leaves, Calm, TabInv
<1> QED
  BY <1>2, <1>3

(* A script that gives its call up for good.                               *)
LEMMA EndSteps ==
    ASSUME TabInv, NEW t \in Tab, End(t), Leave(LeftBehind(tab[t])), UNCHANGED <<state, key>>,
           tab[t].step # "idle"
    PROVE  Leaves(t)
<1> DEFINE q == tab[t]
           R == LeftBehind(q)
<1>0. q \in Script /\ StraysAreSent /\ IsFiniteSet(stray) /\ Leave(R)
  BY ScriptOf DEF TabInv
<1>1. tab' = [tab EXCEPT ![t] = Rest] /\ ~Hopeful(Rest)
  BY DEF End, Hopeful, Rest
<1>2. R = {} \/ (Asking(q) /\ R = {Asked(q)})
  BY DEF LeftBehind
<1>3. IsFiniteSet(R) /\ \A r \in R : Sent(r)
  BY <1>0, <1>2, GivenUp, FS_Singleton, FS_EmptySet
<1>4. Adrift' = Adrift \/ (Hopeful(q) /\ Adrift' = Adrift \cup {Asked(q)})
  <2>1. CASE R = {}
    <3> HIDE DEF R
    <3> QED
      BY <1>0, <1>3, <2>1, LeaveSteps
  <2>2. CASE Asking(q) /\ R = {Asked(q)}
    <3>1. Hopeful(q)
      BY <2>2 DEF Asking, Hopeful
    <3> HIDE DEF R, q
    <3> QED
      BY <1>0, <1>3, <2>2, <3>1, LeaveSteps
  <2> QED
    BY <1>2, <2>1, <2>2
<1>5. StraysAreSent' /\ IsFiniteSet(stray')
  <2> HIDE DEF R
  <2> QED
    BY <1>0, <1>3, LeaveSteps
<1>6. Calm(q, Rest) \/ Drifts(q, Rest)
  BY <1>1, <1>4 DEF Calm, Drifts
<1>7. KeyIsBorn' /\ key' \in Id
  BY KeyStays
<1> QED
  BY <1>1, <1>5, <1>6, <1>7, RestIsSound DEF Leaves

(* A tab that is reloaded, or closed.                                      *)
LEMMA ReloadSteps ==
    ASSUME TabInv, NEW t \in Tab, Reload(t)
    PROVE  Leaves(t)
  BY EndSteps DEF Reload, server

(* A call whose answer is cut off.                                         *)
LEMMA CutSteps ==
    ASSUME TabInv, NEW t \in Tab, Cut(t)
    PROVE  Leaves(t)
<1> DEFINE q == tab[t]
           R == LeftBehind(q)
<1>0. q \in Script /\ Sound(q) /\ StraysAreSent /\ IsFiniteSet(stray) /\ Leave(R)
      /\ UNCHANGED <<state, key>> /\ q.step # "idle" /\ q.attempt \in 0..Tries - 1
  BY ScriptOf DEF TabInv, Cut, server, Script
<1>1. CASE End(t)
  BY <1>0, <1>1, EndSteps
<1>2. CASE q.step = "put" /\ q.attempt < Tries - 1
  <2> DEFINE again == [q EXCEPT !.attempt = q.attempt + 1]
  <2>1. q.attempt + 1 \in 0..Tries - 1
    BY <1>0, <1>2, TriesAssumption
  <2>2. /\ again \in Script /\ again.step = "put" /\ again.session = q.session
        /\ again.skip = q.skip /\ again.index = q.index
    BY <1>0, <1>2, <2>1 DEF Script
  <2>3. Set(t, again)
    BY <1>2 DEF Cut, Missed
  <2> HIDE DEF again
  <2>4. PICK new \in Script :
           /\ tab' = [tab EXCEPT ![t] = new]
           /\ new.step = again.step /\ new.session = again.session
           /\ new.skip = again.skip /\ new.index = again.index /\ new.answer = NoAnswer
    BY <2>2, <2>3, SetIs
  <2>5. Sound(new)
    BY <1>0, <1>2, <2>2, <2>4
       DEF Sound, AsksOfBorn, SkipsNothing, AnswerIsTrue, PassesHeld, Passed
  <2>6. IsFiniteSet(R) /\ \A r \in R : Sent(r) /\ r.call # "finish"
    BY <1>0, <1>2, GivenUp, FS_Singleton, FS_EmptySet DEF LeftBehind
  <2>7. StraysAreSent' /\ IsFiniteSet(stray') /\ Adrift' = Adrift
    <3> HIDE DEF R
    <3> QED
      BY <1>0, <2>6, LeaveSteps
  <2>8. Hopeful(q)
    BY <1>2 DEF Hopeful
  <2>9. KeyIsBorn' /\ key' \in Id
    BY <1>0, KeyStays
  <2> QED
    BY <2>4, <2>5, <2>7, <2>8, <2>9 DEF Leaves, Calm
<1> QED
  BY <1>1, <1>2 DEF Cut, Missed

(* A pick that is cancelled.                                               *)
LEMMA CancelSteps ==
    ASSUME TabInv, NEW t \in Tab, Cancel(t)
    PROVE  Leaves(t)
<1> DEFINE q == tab[t]
           armed == q.step \in {"put", "finish"} \/ q.restarted
           R == (IF armed THEN {AbortOf(q.session)} ELSE {})
                \cup (IF q.step = "put" THEN LeftBehind(q) ELSE {})
<1>0. /\ q \in Script /\ Sound(q) /\ StraysAreSent /\ IsFiniteSet(stray) /\ Leave(R)
      /\ UNCHANGED state /\ q.step # "idle" /\ (key' = key \/ key' = Nobody)
  BY ScriptOf DEF TabInv, Cancel, server
<1>1. IsFiniteSet(R) /\ \A r \in R : Sent(r) /\ r.call # "finish"
  <2>1. IsFiniteSet(R)
    BY FS_Singleton, FS_EmptySet, FS_Union DEF LeftBehind
  <2>2. \A r \in R : r = AbortOf(q.session) \/ (q.step = "put" /\ r = Asked(q))
    BY DEF LeftBehind
  <2> QED
    BY <1>0, <2>1, <2>2, GivenUp
<1>2. StraysAreSent' /\ IsFiniteSet(stray') /\ Adrift' = Adrift
  <2> HIDE DEF R
  <2> QED
    BY <1>0, <1>1, LeaveSteps
<1>3. KeyIsBorn' /\ key' \in Id
  BY <1>0, KeyStays
<1>4. CASE q.step = "put"
  <2>1. tab' = [tab EXCEPT ![t] = Rest] /\ ~Hopeful(Rest)
    BY <1>4 DEF Cancel, End, Hopeful, Rest
  <2> QED
    BY <1>2, <1>3, <2>1, RestIsSound DEF Leaves, Calm
<1>5. CASE q.step # "put"
  <2> DEFINE new == [q EXCEPT !.cancelled = TRUE]
  <2>1. tab' = [tab EXCEPT ![t] = new]
    BY <1>5 DEF Cancel
  <2>2. /\ new \in Script /\ new.step = q.step /\ new.session = q.session
        /\ new.skip = q.skip /\ new.index = q.index /\ new.answer = q.answer
        /\ new.restarted = q.restarted
    BY <1>0 DEF Script
  <2> HIDE DEF new
  <2>3. Sound(new)
    BY <1>0, <2>2 DEF Sound, AsksOfBorn, SkipsNothing, AnswerIsTrue, PassesHeld, Passed
  <2>4. Hopeful(new) <=> Hopeful(q)
    BY <2>2 DEF Hopeful
  <2> QED
    BY <1>2, <1>3, <2>1, <2>2, <2>3, <2>4 DEF Leaves, Calm
<1> QED
  BY <1>4, <1>5

(* A tab's call is served.                                                 *)
LEMMA HandleSteps ==
    ASSUME TabInv, NEW t \in Tab, Handle(t)
    PROVE  /\ Serve(Asked(tab[t])) /\ Sent(Asked(tab[t])) /\ Hopeful(tab[t])
           /\ tab[t].step = "finish" <=> Asked(tab[t]).call = "finish"
           /\ \E new \in Script :
                 /\ tab' = [tab EXCEPT ![t] = new] /\ Sound(new)'
                 /\ tab[t].step = "finish" => ~Hopeful(new)
<1>0. PICK q \in Script : q = tab[t]
  BY ScriptOf
<1> DEFINE r == Asked(q)
<1>1. Sound(q) /\ ServerType /\ q.step # "idle" /\ q.answer = NoAnswer
  BY <1>0, ScriptOf DEF Handle, Asking
<1>2. Serve(r) /\ Sent(r) /\ Hopeful(q) /\ (q.step = "finish" <=> r.call = "finish")
  BY <1>0, <1>1, GivenUp DEF Handle, Hopeful
<1>3. PICK a : a = AnswerTo(r)
  OBVIOUS
<1>4. /\ a \in Answer
      /\ q.step = "probe" => a.uploaded = staged[q.session]
      /\ q.step = "start" => a.is = "ok" /\ a.session \in Session /\ state'[a.session] # "unborn"
      /\ q.step = "put" /\ a.is = "ok" => q.index \in staged'[q.session]
  BY <1>1, <1>2, <1>3, AnswerSteps
<1>5. a.is # "none"
  BY <1>1, <1>3 DEF AnswerTo, Asked, Say, Verdict, Script
<1>6. a # NoAnswer
  BY <1>5 DEF NoAnswer, Say
<1> DEFINE new == [q EXCEPT !.answer = a]
<1>7. tab' = [tab EXCEPT ![t] = new]
  BY <1>0, <1>3 DEF Handle
<1>8. /\ new \in Script /\ new.step = q.step /\ new.session = q.session
      /\ new.skip = q.skip /\ new.index = q.index /\ new.answer = a
      /\ new.restarted = q.restarted
  BY <1>4 DEF Script
<1>9. Sound(q)' /\ Moves
  BY <1>1, <1>2, ServeMoves, SoundStays
<1>10. q.step = "probe" /\ Open(q.session)' => staged[q.session] \subseteq staged'[q.session]
  BY <1>1, <1>9 DEF Sound, AsksOfBorn, Moves, Open, Born
<1>11. PICK n \in Script : n = new
  BY <1>8
<1> HIDE DEF new
<1>12. AsksOfBorn(n)' /\ SkipsNothing(n)' /\ PassesHeld(n)'
  BY <1>8, <1>9, <1>11 DEF Sound, AsksOfBorn, SkipsNothing, PassesHeld, Passed
<1>13. AnswerIsTrue(n)'
  BY <1>1, <1>4, <1>8, <1>10, <1>11 DEF AnswerIsTrue, Born
<1>14. q.step = "finish" => ~Hopeful(n)
  BY <1>6, <1>8, <1>11 DEF Hopeful
<1>15. Sound(n)'
  BY <1>12, <1>13 DEF Sound
<1> QED
  BY <1>0, <1>2, <1>7, <1>11, <1>14, <1>15

-----------------------------------------------------------------------------
(* Every step.                                                             *)

(* A set with one element more, and with one less.                         *)
LEMMA OneMore ==
    ASSUME NEW S, IsFiniteSet(S), NEW x
    PROVE  /\ IsFiniteSet(S \cup {x}) /\ Cardinality(S \cup {x}) \in Nat
           /\ Cardinality(S \cup {x}) <= Cardinality(S) + 1
           /\ x \in S => Cardinality(S \cup {x}) = Cardinality(S)
<1>1. Cardinality(S) \in Nat
  BY FS_CardinalityType
<1>2. /\ IsFiniteSet(S \cup {x})
      /\ Cardinality(S \cup {x}) = IF x \in S THEN Cardinality(S) ELSE Cardinality(S) + 1
  BY FS_AddElement
<1> QED
  BY <1>1, <1>2

(* A finite set without one of its members.                                *)
LEMMA OneLess ==
    ASSUME NEW S, IsFiniteSet(S), NEW x
    PROVE  /\ IsFiniteSet(S \ {x}) /\ Cardinality(S \ {x}) \in Nat
           /\ Cardinality(S \ {x}) <= Cardinality(S)
           /\ x \in S => Cardinality(S \ {x}) = Cardinality(S) - 1
<1>1. Cardinality(S) \in Nat
  BY FS_CardinalityType
<1>2. /\ IsFiniteSet(S \ {x})
      /\ Cardinality(S \ {x}) = IF x \in S THEN Cardinality(S) - 1 ELSE Cardinality(S)
  BY FS_RemoveElement
<1>3. Cardinality(S \ {x}) \in Nat
  BY <1>2, FS_CardinalityType
<1> QED
  BY <1>1, <1>2, <1>3

(* The tabs that may yet send a finish, after one tab moved on.            *)
LEMMA HopesStep ==
    ASSUME NEW t \in Tab, NEW new, tab \in [Tab -> Script], tab' = [tab EXCEPT ![t] = new],
           IsFiniteSet(Hopes)
    PROVE  /\ IsFiniteSet(Hopes') /\ Cardinality(Hopes') \in Nat
           /\ Cardinality(Hopes') <= Cardinality(Hopes) + 1
           /\ (Hopeful(new) => Hopeful(tab[t])) => Cardinality(Hopes') <= Cardinality(Hopes)
           /\ Hopeful(tab[t]) /\ ~Hopeful(new) => Cardinality(Hopes') = Cardinality(Hopes) - 1
<1>1. \A u \in Tab : tab'[u] = IF u = t THEN new ELSE tab[u]
  OBVIOUS
<1>2. \A u \in Tab : u \in Hopes' <=> IF u = t THEN Hopeful(new) ELSE u \in Hopes
  BY <1>1 DEF Hopes, Hopeful
<1>3. Hopes \subseteq Tab /\ Hopes' \subseteq Tab
  BY DEF Hopes
<1>4. t \in Hopes <=> Hopeful(tab[t])
  BY DEF Hopes
<1>5. Cardinality(Hopes) \in Nat
  BY FS_CardinalityType
<1>6. CASE Hopeful(new)
  <2>1. Hopes' = Hopes \cup {t}
    BY <1>2, <1>3, <1>6
  <2>2. /\ IsFiniteSet(Hopes') /\ Cardinality(Hopes') \in Nat
        /\ Cardinality(Hopes') <= Cardinality(Hopes) + 1
        /\ t \in Hopes => Cardinality(Hopes') = Cardinality(Hopes)
    BY <2>1, OneMore
  <2> QED
    BY <1>4, <1>5, <1>6, <2>2
<1>7. CASE ~Hopeful(new)
  <2>1. Hopes' = Hopes \ {t}
    BY <1>2, <1>3, <1>7
  <2>2. /\ IsFiniteSet(Hopes') /\ Cardinality(Hopes') \in Nat
        /\ Cardinality(Hopes') <= Cardinality(Hopes)
        /\ t \in Hopes => Cardinality(Hopes') = Cardinality(Hopes) - 1
    BY <2>1, OneLess
  <2> QED
    BY <1>4, <1>5, <1>7, <2>2
<1> QED
  BY <1>6, <1>7

(* The three sets are finite.                                              *)
LEMMA Counted ==
    ASSUME UploaderType, CopiesArePicked
    PROVE  /\ IsFiniteSet(Copies) /\ IsFiniteSet(Adrift) /\ IsFiniteSet(Hopes)
           /\ Cardinality(Copies) \in Nat /\ Cardinality(Adrift) \in Nat
           /\ Cardinality(Hopes) \in Nat /\ picks \in Nat
<1>1. IsFiniteSet(Session)
  BY FS_Interval, BoundsAssumption DEF Session
<1>2. IsFiniteSet(Copies)
  BY <1>1, FS_Subset DEF Copies
<1>3. IsFiniteSet(Adrift)
  BY FS_Subset DEF Adrift, CopiesArePicked
<1> QED
  BY <1>2, <1>3, FS_CardinalityType DEF CopiesArePicked, UploaderType

(* The scripts that are not moved stay sound, with the one that is.        *)
LEMMA SoundAll ==
    ASSUME TabInv, Moves, NEW t \in Tab, NEW new \in Script, tab' = [tab EXCEPT ![t] = new],
           Sound(new)'
    PROVE  ScriptsAreSound' /\ tab' \in [Tab -> Script]
<1>1. tab \in [Tab -> Script]
  BY DEF TabInv, UploaderType
<1>2. tab' \in [Tab -> Script]
  BY <1>1
<1>3. ASSUME NEW u \in Tab PROVE Sound(tab[u])'
  <2>1. CASE u = t
    <3>1. tab'[u] = new
      BY <1>1, <2>1
    <3> QED
      BY <3>1 DEF Sound, AsksOfBorn, SkipsNothing, AnswerIsTrue, PassesHeld, Passed, Open, Born
  <2>2. CASE u # t
    <3>1. PICK p \in Script : p = tab[u] /\ tab'[u] = p
      BY <1>1, <2>2
    <3>2. Sound(p)'
      BY <3>1, ScriptOf, SoundStays
    <3> QED
      BY <3>1, <3>2 DEF Sound, AsksOfBorn, SkipsNothing, AnswerIsTrue, PassesHeld, Passed, Open, Born
  <2> QED
    BY <2>1, <2>2
<1> QED
  BY <1>2, <1>3 DEF ScriptsAreSound

(* A step of a tab with the server where it was.                           *)
LEMMA LeavesKeeps ==
    ASSUME IInv, NEW t \in Tab, Leaves(t), UNCHANGED <<server, picks>>
    PROVE  IInv'
<1>1. TabInv /\ Moves /\ ServerType
  BY DEF IInv, TabInv, CopiesArePicked, Moves, Born, server, ServerType, UploaderType
<1>2. PICK new \in Script :
         /\ tab' = [tab EXCEPT ![t] = new] /\ Sound(new)
         /\ Calm(tab[t], new) \/ Drifts(tab[t], new)
  BY DEF Leaves
<1>3. ScriptsAreSound' /\ tab' \in [Tab -> Script]
  BY <1>1, <1>2, SoundStays, SoundAll
<1>4. UploaderType'
  BY <1>3 DEF IInv, UploaderType, Leaves, StraysAreSent, Sent, server
<1>5. Copies' = Copies
  BY DEF Copies, server
<1>6. /\ IsFiniteSet(Copies) /\ IsFiniteSet(Adrift) /\ IsFiniteSet(Hopes)
      /\ Cardinality(Copies) \in Nat /\ Cardinality(Adrift) \in Nat
      /\ Cardinality(Hopes) \in Nat /\ picks \in Nat
      /\ Cardinality(Copies) + Cardinality(Adrift) + Cardinality(Hopes) <= picks
  BY Counted DEF IInv, CopiesArePicked
<1>7. /\ IsFiniteSet(Hopes') /\ Cardinality(Hopes') \in Nat
      /\ (Hopeful(new) => Hopeful(tab[t])) => Cardinality(Hopes') <= Cardinality(Hopes)
      /\ Hopeful(tab[t]) /\ ~Hopeful(new) => Cardinality(Hopes') = Cardinality(Hopes) - 1
  BY <1>2, <1>6, HopesStep DEF IInv, UploaderType
<1>8. CASE Calm(tab[t], new)
  BY <1>3, <1>4, <1>5, <1>6, <1>7, <1>8 DEF IInv, CopiesArePicked, Leaves, Calm, server
<1>9. CASE Drifts(tab[t], new)
  <2>1. PICK r : Adrift' = Adrift \cup {r}
    BY <1>9 DEF Drifts
  <2>2. Cardinality(Adrift') \in Nat /\ Cardinality(Adrift') <= Cardinality(Adrift) + 1
    BY <1>6, <2>1, OneMore
  <2> QED
    BY <1>3, <1>4, <1>5, <1>6, <1>7, <1>9, <2>2 DEF IInv, CopiesArePicked, Leaves, Drifts, server
<1> QED
  BY <1>2, <1>8, <1>9

(* A pick keeps the invariant.                                             *)
LEMMA PickKeeps ==
    ASSUME IInv, NEW t \in Tab, Pick(t)
    PROVE  IInv'
<1>1. TabInv /\ Moves /\ ServerType
  BY DEF IInv, TabInv, CopiesArePicked, Moves, Born, Pick, server, ServerType, UploaderType
<1>2. PICK new \in Script : tab' = [tab EXCEPT ![t] = new] /\ Sound(new)
  BY <1>1, PickSteps
<1>3. ScriptsAreSound' /\ tab' \in [Tab -> Script]
  BY <1>1, <1>2, SoundStays, SoundAll
<1>4. /\ KeyIsBorn' /\ key' \in Id /\ StraysAreSent' /\ IsFiniteSet(stray')
      /\ Adrift' = Adrift /\ ~Hopeful(tab[t])
  BY <1>1, PickSteps
<1>5. picks' = picks + 1 /\ picks' \in 0..MaxPicks
  BY BoundsAssumption DEF IInv, UploaderType, Pick
<1>6. UploaderType'
  BY <1>3, <1>4, <1>5 DEF IInv, UploaderType, StraysAreSent, Sent, server, Pick
<1>7. Copies' = Copies
  BY DEF Copies, server, Pick
<1>8. /\ IsFiniteSet(Copies) /\ IsFiniteSet(Adrift) /\ IsFiniteSet(Hopes)
      /\ Cardinality(Copies) \in Nat /\ Cardinality(Adrift) \in Nat
      /\ Cardinality(Hopes) \in Nat /\ picks \in Nat
      /\ Cardinality(Copies) + Cardinality(Adrift) + Cardinality(Hopes) <= picks
  BY Counted DEF IInv, CopiesArePicked
<1>9. /\ IsFiniteSet(Hopes') /\ Cardinality(Hopes') \in Nat
      /\ Cardinality(Hopes') <= Cardinality(Hopes) + 1
  BY <1>2, <1>8, HopesStep DEF IInv, UploaderType
<1> QED
  BY <1>3, <1>4, <1>5, <1>6, <1>7, <1>8, <1>9 DEF IInv, CopiesArePicked

(* Serving a request turns what asks for it into one copy at most.         *)
LEMMA CopyStep ==
    ASSUME UploaderType, CopiesArePicked, NEW r, Sent(r), Serve(r)
    PROVE  /\ Cardinality(Copies') \in Nat
           /\ Cardinality(Copies') <= Cardinality(Copies) + 1
           /\ r.call # "finish" => Copies' = Copies
<1>1. ServerType
  BY DEF UploaderType, ServerType
<1>2. IsFiniteSet(Copies) /\ Cardinality(Copies) \in Nat
  BY Counted
<1> QED
  BY <1>1, <1>2, ServeCopies, FS_AddElement

(* A call that reaches the server keeps it.                                *)
LEMMA HandleKeeps ==
    ASSUME IInv, NEW t \in Tab, Handle(t)
    PROVE  IInv'
<1> DEFINE r == Asked(tab[t])
<1>1. TabInv /\ ServerType
  BY DEF IInv, TabInv, CopiesArePicked, ServerType, UploaderType
<1>2. PICK new \in Script :
         /\ tab' = [tab EXCEPT ![t] = new] /\ Sound(new)'
         /\ tab[t].step = "finish" => ~Hopeful(new)
  BY <1>1, HandleSteps
<1>3. /\ Serve(r) /\ Sent(r) /\ Hopeful(tab[t])
      /\ tab[t].step = "finish" <=> r.call = "finish"
  BY <1>1, HandleSteps
<1>4. ServerType' /\ Moves
  BY <1>1, <1>3, ServeMoves
<1>5. ScriptsAreSound' /\ tab' \in [Tab -> Script]
  BY <1>1, <1>2, <1>4, SoundAll
<1>6. UNCHANGED <<key, stray, picks>>
  BY DEF Handle
<1>7. UploaderType'
  BY <1>4, <1>5, <1>6 DEF IInv, UploaderType, ServerType
<1>8. KeyIsBorn' /\ StraysAreSent' /\ IsFiniteSet(stray') /\ Adrift' = Adrift
  <2>1. KeyIsBorn'
    BY <1>4, <1>6 DEF IInv, KeyIsBorn, Moves, Born
  <2> QED
    BY <1>6, <2>1, NothingGivenUp DEF IInv, CopiesArePicked
<1>9. /\ Cardinality(Copies') \in Nat /\ Cardinality(Copies') <= Cardinality(Copies) + 1
      /\ r.call # "finish" => Copies' = Copies
  BY <1>3, CopyStep DEF IInv
<1>12. /\ IsFiniteSet(Hopes) /\ Cardinality(Copies) \in Nat /\ Cardinality(Adrift) \in Nat
       /\ Cardinality(Hopes) \in Nat /\ picks \in Nat
       /\ Cardinality(Copies) + Cardinality(Adrift) + Cardinality(Hopes) <= picks
  BY Counted DEF IInv, CopiesArePicked
<1>13. /\ IsFiniteSet(Hopes') /\ Cardinality(Hopes') \in Nat
       /\ Cardinality(Hopes') <= Cardinality(Hopes)
       /\ ~Hopeful(new) => Cardinality(Hopes') = Cardinality(Hopes) - 1
  BY <1>2, <1>3, <1>12, HopesStep DEF IInv, UploaderType
<1>14. Cardinality(Copies') + Cardinality(Hopes') <= Cardinality(Copies) + Cardinality(Hopes)
  BY <1>2, <1>3, <1>9, <1>12, <1>13
<1>15. CopiesArePicked'
  BY <1>6, <1>8, <1>9, <1>12, <1>13, <1>14 DEF CopiesArePicked
<1> QED
  BY <1>5, <1>7, <1>8, <1>15 DEF IInv

(* The steps of no tab: a request nobody waits for, the clock, a boot.     *)
LEMMA OthersKeep ==
    ASSUME IInv, Moves, ServerType', UNCHANGED <<tab, key, picks>>, stray' \subseteq stray,
           Cardinality(Copies') \in Nat,
           Cardinality(Copies') + Cardinality(Adrift') <= Cardinality(Copies) + Cardinality(Adrift)
    PROVE  IInv'
<1>1. UploaderType'
  BY DEF IInv, UploaderType, ServerType
<1>2. StraysAreSent' /\ KeyIsBorn'
  BY DEF IInv, StraysAreSent, Sent, KeyIsBorn, Moves, Born
<1>3. ScriptsAreSound'
  <2>1. ASSUME NEW u \in Tab PROVE Sound(tab[u])'
    <3>1. PICK p \in Script : p = tab[u] /\ tab'[u] = p /\ Sound(p) /\ ServerType
      BY DEF IInv, UploaderType, ServerType, ScriptsAreSound
    <3>2. Sound(p)'
      BY <3>1, SoundStays
    <3> QED
      BY <3>1, <3>2 DEF Sound, AsksOfBorn, SkipsNothing, AnswerIsTrue, PassesHeld, Passed, Open, Born
  <2> QED
    BY <2>1 DEF ScriptsAreSound
<1>4. IsFiniteSet(stray') /\ IsFiniteSet(Adrift') /\ Hopes' = Hopes
  <2>1. IsFiniteSet(stray')
    BY FS_Subset DEF IInv, CopiesArePicked
  <2>2. IsFiniteSet(Adrift')
    BY <2>1, FS_Subset DEF Adrift
  <2> QED
    BY <2>1, <2>2 DEF Hopes, Hopeful
<1>5. /\ IsFiniteSet(Hopes) /\ Cardinality(Copies) \in Nat /\ Cardinality(Adrift) \in Nat
      /\ Cardinality(Hopes) \in Nat /\ picks \in Nat
      /\ Cardinality(Copies) + Cardinality(Adrift) + Cardinality(Hopes) <= picks
  BY Counted DEF IInv, CopiesArePicked
<1>6. Cardinality(Adrift') \in Nat
  BY <1>4, FS_CardinalityType
<1>7. CopiesArePicked'
  BY <1>4, <1>5, <1>6 DEF CopiesArePicked
<1> QED
  BY <1>1, <1>2, <1>3, <1>7 DEF IInv

(* So does a call left behind that reaches it late.                        *)
LEMMA StrayKeeps ==
    ASSUME IInv, NEW r \in stray, HandleStray(r)
    PROVE  IInv'
<1>1. Sent(r) /\ Serve(r) /\ ServerType /\ UNCHANGED <<tab, key, picks>> /\ stray' = stray \ {r}
  BY DEF IInv, StraysAreSent, HandleStray, UploaderType, ServerType
<1>2. Moves /\ ServerType'
  BY <1>1, ServeMoves
<1>3. /\ Cardinality(Copies') \in Nat /\ Cardinality(Copies') <= Cardinality(Copies) + 1
      /\ r.call # "finish" => Copies' = Copies
  BY <1>1, CopyStep DEF IInv
<1>4. /\ Cardinality(Copies) \in Nat /\ Cardinality(Adrift) \in Nat /\ IsFiniteSet(Adrift)
  BY Counted DEF IInv
<1>5. Adrift' = IF r.call = "finish" THEN Adrift \ {r} ELSE Adrift
  BY <1>1 DEF Adrift
<1>6. r.call = "finish" => Cardinality(Adrift') = Cardinality(Adrift) - 1
  <2>1. r.call = "finish" => r \in Adrift
    BY DEF Adrift
  <2> QED
    BY <1>4, <1>5, <2>1, FS_RemoveElement
<1>7. Cardinality(Copies') + Cardinality(Adrift') <= Cardinality(Copies) + Cardinality(Adrift)
  BY <1>3, <1>4, <1>5, <1>6
<1> QED
  BY <1>1, <1>2, <1>3, <1>7, OthersKeep

(* So do an expiry and a boot.                                             *)
LEMMA ClockKeeps ==
    ASSUME IInv, (\E s \in Session : Expire(s)) \/ Boot
    PROVE  IInv'
<1>1. ServerType /\ UNCHANGED <<tab, key, picks, stray>>
  BY DEF IInv, UploaderType, ServerType, Expire, Boot
<1>2. Moves /\ ServerType' /\ Copies' = Copies
  <2>1. CASE \E s \in Session : Expire(s)
    BY <1>1, <2>1 DEF Expire, Moves, ServerType, Born, Copies
  <2>2. CASE Boot
    BY <1>1, <2>2 DEF Boot, Moves, ServerType, Born, Copies
  <2> QED
    BY <2>1, <2>2
<1>3. Adrift' = Adrift
  BY <1>1 DEF Adrift
<1>4. Cardinality(Copies) \in Nat /\ Cardinality(Adrift) \in Nat
  BY Counted DEF IInv
<1> QED
  BY <1>1, <1>2, <1>3, <1>4, OthersKeep

(* A page without a pick satisfies the invariant.                          *)
LEMMA InvInit == Init => IInv
<1> SUFFICES ASSUME Init PROVE IInv
  OBVIOUS
<1>1. UploaderType
  BY RestIsSound, BoundsAssumption DEF Init, UploaderType, Id
<1>2. StraysAreSent /\ KeyIsBorn
  BY DEF Init, StraysAreSent, KeyIsBorn
<1>3. ScriptsAreSound
  BY RestIsSound DEF Init, ScriptsAreSound
<1>4. Copies = {} /\ Adrift = {} /\ Hopes = {} /\ stray = {} /\ picks = 0
  BY DEF Init, Copies, Adrift, Hopes, Hopeful, Rest
<1>5. CopiesArePicked
  BY <1>4, FS_EmptySet DEF CopiesArePicked
<1> QED
  BY <1>1, <1>2, <1>3, <1>5 DEF IInv

(* Every step keeps it.                                                    *)
LEMMA InvNext == IInv /\ [Next]_vars => IInv'
<1> SUFFICES ASSUME IInv, [Next]_vars PROVE IInv'
  OBVIOUS
<1>0. TabInv
  BY DEF IInv, TabInv, CopiesArePicked
<1>1. CASE \E t \in Tab : Pick(t) \/ Handle(t)
  BY <1>1, PickKeeps, HandleKeeps
<1>2. ASSUME NEW t \in Tab, Receive(t) \/ Refused(t) \/ Cut(t) \/ Cancel(t) \/ Reload(t)
      PROVE  IInv'
  <2>1. Leaves(t)
    BY <1>0, <1>2, ReceiveSteps, RefusedSteps, CutSteps, CancelSteps, ReloadSteps
  <2>2. UNCHANGED <<server, picks>>
    BY <1>2 DEF Receive, Refused, Cut, Cancel, Reload
  <2> QED
    BY <2>1, <2>2, LeavesKeeps
<1>3. CASE \E r \in stray : HandleStray(r)
  BY <1>3, StrayKeeps
<1>4. CASE (\E s \in Session : Expire(s)) \/ Boot
  BY <1>4, ClockKeeps
<1>5. CASE UNCHANGED vars
  BY <1>5 DEF vars, IInv, UploaderType, StraysAreSent, Sent, KeyIsBorn, ScriptsAreSound, Sound,
              AsksOfBorn, SkipsNothing, AnswerIsTrue, PassesHeld, Passed, Open, Born,
              CopiesArePicked, Copies, Adrift, Hopes, Hopeful
<1> QED
  BY <1>1, <1>2, <1>3, <1>4, <1>5 DEF Next

-----------------------------------------------------------------------------
(* What follows.                                                           *)

(* The invariant holds in every reachable state.                           *)
THEOREM Invariance == Spec => []IInv
  BY InvInit, InvNext, PTL DEF Spec

(* The server's rows, the scripts, the key and what is on its way keep     *)
(* their types.                                                            *)
THEOREM TypeCorrect == Spec => []UploaderType
<1>1. IInv => UploaderType
  BY DEF IInv
<1> QED
  BY <1>1, Invariance, PTL

(* drive.rs skips only what the session holds, through resumes, restarts,  *)
(* retries and other tabs, for any number of tabs and chunks.              *)
THEOREM NothingIsPassedBy == Spec => []PassedIsHeld
<1>1. IInv => PassedIsHeld
  BY DEF IInv, ScriptsAreSound, Sound, PassesHeld, Passed, Open, PassedIsHeld
<1> QED
  BY <1>1, Invariance, PTL

(* However often a call is cut, retried or left behind, a pick leaves one  *)
(* copy at most.                                                           *)
THEOREM NoSecondCopy == Spec => []OneCopyPerPick
<1>1. ASSUME IInv PROVE OneCopyPerPick
  <2>1. /\ Cardinality(Copies) \in Nat /\ Cardinality(Adrift) \in Nat
        /\ Cardinality(Hopes) \in Nat /\ picks \in Nat
    BY <1>1, Counted DEF IInv
  <2>2. Cardinality(Copies) <= picks
    BY <1>1, <2>1 DEF IInv, CopiesArePicked
  <2> QED
    BY <2>2 DEF OneCopyPerPick, Copies
<1> QED
  BY <1>1, Invariance, PTL
=============================================================================
