---------------------------- MODULE SharesProofs -----------------------------
(***************************************************************************)
(* Nobody is served without a grant, a climb ends, and an answer is right  *)
(* before or after the one commit it may straddle: for any tree, any       *)
(* number of users and of requests, and any changes under their feet.      *)
(***************************************************************************)
EXTENDS Shares, FiniteSetTheorems, TLAPS

-----------------------------------------------------------------------------
(* The inductive invariant.                                                *)

Steps  == {"idle", "reach", "vet", "climb", "read", "bytes", "served", "refused"}
Asking == {"reach", "vet", "climb", "read"}

(* What an operation needs, and which of its questions may still be open.  *)
Needed(op) == IF op = "download" THEN Download ELSE View
Open(op)   == IF op = "download" THEN {<<View, Download>>, <<Download>>} ELSE {<<View>>}

(* The request knows of every grant its user has, and found no better one. *)
HeldIsHeld(q) ==
    q.step \in Asking \cup {"bytes"} =>
        /\ q.best \leq q.held
        /\ \A n \in Node : grants[n][q.user] \leq q.held

(* Its last question is the one the operation needs, and the bytes come    *)
(* after the answer.                                                       *)
QuestionsStand(q) ==
    /\ q.step \in Asking => q.needs \in Open(q.op)
    /\ q.step = "bytes" => q.user = Owner[q.node] \/ q.held \geq Needed(q.op)
    /\ q.step = "read" => q.chain # <<>>

(* Beside the item itself, the chain is of folders, no two of them alike.  *)
ChainIsSimple(q) ==
    \A i \in 2..Len(q.chain) :
        /\ q.chain[i] \in Folder
        /\ \A j \in 2..Len(q.chain) : i # j => q.chain[i] # q.chain[j]

Sound(q) == HeldIsHeld(q) /\ QuestionsStand(q) /\ ChainIsSimple(q)

IInv == SharesType /\ \A r \in Reader : Sound(ask[r])

(* A verdict that nothing but the owner or a grant explains.               *)
Earned(q) == q.user = Owner[q.node] \/ q.held \geq Needed(q.op)

-----------------------------------------------------------------------------
(* Operators.                                                              *)

USE DEF NoGrant, View, Download

(* The greater of two levels.                                              *)
LEMMA GreaterIs ==
    ASSUME NEW a \in 0..2, NEW b \in 0..2
    PROVE  /\ Greater(a, b) \in 0..2
           /\ a \leq Greater(a, b) /\ b \leq Greater(a, b)
           /\ \A c \in 0..2 : a \leq c /\ b \leq c => Greater(a, b) \leq c
BY DEF Greater

(* The best of some levels is one of them, and none is better.             *)
LEMMA BestIs ==
    ASSUME NEW S \in SUBSET (0..2), S # {}
    PROVE  Best(S) \in S /\ \A b \in S : b \leq Best(S)
<1>1. \E a \in S : \A b \in S : b \leq a
  <2>1. CASE 2 \in S
    BY <2>1
  <2>2. CASE 2 \notin S /\ 1 \in S
    BY <2>2
  <2>3. CASE 2 \notin S /\ 1 \notin S
    <3>1. \A b \in S : b = 0
      BY <2>3
    <3>2. PICK a \in S : TRUE
      OBVIOUS
    <3>3. \A b \in S : b \leq a
      BY <3>1, <3>2
    <3> QED
      BY <3>3
  <2> QED
    BY <2>1, <2>2, <2>3
<1> QED
  BY <1>1 DEF Best

(* The questions that may be open of a request, and which is the last.     *)
LEMMA OpenIs ==
    ASSUME NEW op, NEW s \in Open(op)
    PROVE  /\ Len(s) \in Nat /\ Needed(op) \in 0..2
           /\ Len(s) \leq 1 => Head(s) = Needed(op)
           /\ Len(s) > 1 => Tail(s) \in Open(op) /\ Tail(s) \in Seq({View, Download})
<1>1. /\ Len(<<1>>) = 1 /\ Head(<<1>>) = 1 /\ Len(<<2>>) = 1 /\ Head(<<2>>) = 2
      /\ Len(<<1, 2>>) = 2 /\ Tail(<<1, 2>>) = <<2>> /\ <<2>> \in Seq({View, Download})
  OBVIOUS
<1>2. CASE op = "download"
  <2>1. s \in {<<1, 2>>, <<2>>} /\ Open(op) = {<<1, 2>>, <<2>>} /\ Needed(op) = 2
    BY <1>2 DEF Open, Needed
  <2>2. CASE s = <<1, 2>>
    BY <1>1, <2>1, <2>2
  <2>3. CASE s = <<2>>
    BY <1>1, <2>1, <2>3
  <2> QED
    BY <2>1, <2>2, <2>3
<1>3. CASE op # "download"
  <2>1. s = <<1>> /\ Needed(op) = 1
    BY <1>3 DEF Open, Needed
  <2> QED
    BY <1>1, <2>1
<1> QED
  BY <1>2, <1>3

(* A request at rest.                                                      *)
LEMMA RestIs ==
    ASSUME NEW step \in Steps
    PROVE  /\ Rest(step) \in Ask
           /\ Rest(step).step = step /\ Rest(step).chain = <<>> /\ Rest(step).needs = <<>>
           /\ Rest(step).best = 0 /\ Rest(step).held = 0
<1>1. (CHOOSE u \in User : TRUE) \in User /\ (CHOOSE n \in Node : TRUE) \in Node
  BY IdsThere
<1>2. <<>> \in Seq({View, Download}) /\ <<>> \in Seq(Node)
  OBVIOUS
<1> QED
  BY <1>1, <1>2 DEF Rest, Ask, Steps

(* One that is at rest is sound.                                           *)
LEMMA RestIsSound ==
    ASSUME NEW step \in {"idle", "served", "refused"}
    PROVE  Rest(step) \in Ask /\ Sound(Rest(step)) /\ Rest(step).step = step
<1>1. /\ Rest(step) \in Ask
      /\ Rest(step).step = step /\ Rest(step).chain = <<>>
  BY RestIs DEF Steps
<1>2. 2..Len(<<>>) = {}
  OBVIOUS
<1> QED
  BY <1>1, <1>2 DEF Sound, HeldIsHeld, QuestionsStand, ChainIsSimple, Asking

(* One request's variables are set, the others' stay.                      *)
LEMMA GoIs ==
    ASSUME SharesType, NEW r \in Reader, NEW q \in Ask, Go(r, q)
    PROVE  /\ ask' \in [Reader -> Ask] /\ ask'[r] = q
           /\ \A s \in Reader : s # r => ask'[s] = ask[s]
BY DEF SharesType, Go

-----------------------------------------------------------------------------
(* The steps of a request.                                                 *)

(* A step of one request: it goes on soundly, and a yes is earned.         *)
SoundStep(r) ==
    \E q \in Ask : /\ Go(r, q) /\ Sound(q)
                   /\ Busy(r) /\ q.step = "served" => Earned(ask[r])

(* An answer is one, as long as a yes is earned.                           *)
LEMMA AnswerIsSound ==
    ASSUME NEW r \in Reader, NEW yes, Answer(r, yes), yes /\ Busy(r) => Earned(ask[r])
    PROVE  SoundStep(r)
<1>1. CASE yes
  BY <1>1, RestIsSound DEF Answer, SoundStep
<1>2. CASE ~yes
  BY <1>2, RestIsSound DEF Answer, SoundStep
<1> QED
  BY <1>1, <1>2

(* A question knows every grant of its user from the start.                *)
LEMMA QuestionIsSound ==
    ASSUME SharesType, NEW op \in {"preview", "download", "browse"},
           NEW u \in User, NEW n \in Node, NEW step \in {"reach", "vet", "bytes"},
           step = "bytes" => u = Owner[n]
    PROVE  Question(op, u, n, step) \in Ask /\ Sound(Question(op, u, n, step))
           /\ Question(op, u, n, step).step = step
<1> DEFINE S == {0} \cup {grants[m][u] : m \in Node}
           q == Question(op, u, n, step)
<1>1. S \in SUBSET (0..2)
  BY DEF SharesType
<1>2. Best(S) \in 0..2 /\ \A m \in Node : grants[m][u] \leq Best(S)
  BY <1>1, BestIs
<1>3. parent[n] \in Folder \cup {Root}
  BY DEF SharesType, TreeType
<1>4. <<View, Download>> \in Seq({View, Download}) /\ <<View>> \in Seq({View, Download})
  OBVIOUS
<1>5. Rest(step) \in Ask /\ Rest(step).step = step /\ Rest(step).chain = <<>>
      /\ Rest(step).best = 0
  BY RestIs DEF Steps
<1>6. /\ q \in Ask /\ q.op = op /\ q.user = u /\ q.node = n /\ q.step = step
      /\ q.chain = <<>> /\ q.best = 0 /\ q.held = Best(S)
      /\ q.needs = IF op = "download" THEN <<View, Download>> ELSE <<View>>
  <2> DEFINE h == Best(S)
             needs == IF op = "download" THEN <<View, Download>> ELSE <<View>>
  <2>1. h \in 0..2 /\ needs \in Seq({View, Download})
    BY <1>2, <1>4
  <2> DEFINE d == Rest(step)
  <2>2. q = [d EXCEPT !.op = op, !.user = u, !.node = n, !.cursor = parent[n],
                      !.needs = needs, !.held = h]
    BY DEF Question
  <2>3. d \in Ask /\ d.step = step /\ d.chain = <<>> /\ d.best = 0
    BY <1>5
  <2> HIDE DEF q, d, h, needs
  <2>4. q \in Ask
    BY <1>3, <2>1, <2>2, <2>3 DEF Ask
  <2>5. /\ q.op = op /\ q.user = u /\ q.node = n /\ q.held = h /\ q.needs = needs
        /\ q.step = d.step /\ q.chain = d.chain /\ q.best = d.best
    BY <2>2, <2>3 DEF Ask
  <2> QED
    BY <2>3, <2>4, <2>5 DEF h, needs
<1> HIDE DEF q
<1>7. HeldIsHeld(q)
  BY <1>1, <1>2, <1>6 DEF HeldIsHeld
<1>8. QuestionsStand(q)
  BY <1>6 DEF QuestionsStand, Open, Asking
<1>9. 2..Len(<<>>) = {}
  OBVIOUS
<1>10. ChainIsSimple(q)
  BY <1>6, <1>9 DEF ChainIsSimple
<1> QED
  BY <1>6, <1>7, <1>8, <1>10 DEF Sound, q

\* The requests that begin.
LEMMA OpenSteps ==
    ASSUME IInv, NEW r \in Reader, NEW u \in User,
           \/ \E n \in File, op \in {"preview", "download"} : OpenFile(r, op, u, n)
           \/ \E n \in Folder : OpenFolder(r, u, n)
    PROVE  SoundStep(r)
<1>1. SharesType /\ ~Busy(r)
  BY DEF IInv, OpenFile, OpenFolder
<1>2. ASSUME NEW op \in {"preview", "download", "browse"}, NEW n \in Node,
             NEW step \in {"reach", "vet", "bytes"}, step = "bytes" => u = Owner[n],
             Go(r, Question(op, u, n, step))
      PROVE  SoundStep(r)
  BY <1>1, <1>2, QuestionIsSound DEF SoundStep
<1>3. ASSUME Answer(r, FALSE) PROVE SoundStep(r)
  BY <1>3, AnswerIsSound
<1>4. ASSUME NEW n \in File, NEW op \in {"preview", "download"}, OpenFile(r, op, u, n)
      PROVE  SoundStep(r)
  BY <1>2, <1>3, <1>4 DEF OpenFile, Node
<1>5. ASSUME NEW n \in Folder, OpenFolder(r, u, n) PROVE SoundStep(r)
  BY <1>2, <1>3, <1>5 DEF OpenFolder, Node
<1> QED
  BY <1>4, <1>5

\* A request that changes only its step, its cursor or what it still asks.
LEMMA GoesOn ==
    ASSUME IInv, NEW r \in Reader, NEW q \in Ask, Go(r, q), ask[r].step \in Asking,
           q.step \in {"reach", "vet"}, q.op = ask[r].op, q.user = ask[r].user,
           q.best = ask[r].best, q.held = ask[r].held, q.chain = ask[r].chain,
           q.needs \in Open(q.op)
    PROVE  SoundStep(r)
<1>1. Sound(ask[r])
  BY DEF IInv
<1> QED
  BY <1>1 DEF Sound, HeldIsHeld, QuestionsStand, ChainIsSimple, SoundStep, Asking

\* The walk over the ancestors of a folder.
LEMMA ReachIsSound ==
    ASSUME IInv, NEW r \in Reader, Reach(r)
    PROVE  SoundStep(r)
<1> DEFINE q == ask[r]
<1>1. q \in Ask /\ q.step = "reach" /\ Sound(q)
  BY DEF IInv, SharesType, Reach
<1>2. q.needs \in Open(q.op)
  BY <1>1 DEF Sound, QuestionsStand, Asking
<1>3. CASE q.cursor = Root /\ q.user = Owner[q.node] /\ Answer(r, TRUE)
  BY <1>3, AnswerIsSound DEF Earned
<1>4. CASE Go(r, [q EXCEPT !.step = "vet"])
  <2> DEFINE n == [q EXCEPT !.step = "vet"]
  <2>1. /\ n \in Ask /\ n.step = "vet" /\ n.op = q.op /\ n.user = q.user /\ n.best = q.best
        /\ n.held = q.held /\ n.chain = q.chain /\ n.needs = q.needs
    BY <1>1 DEF Ask
  <2>2. Go(r, n)
    BY <1>4
  <2> HIDE DEF n
  <2> QED
    BY <1>1, <1>2, <2>1, <2>2, GoesOn DEF Asking
<1>5. CASE q.cursor \in Folder /\ Go(r, [q EXCEPT !.cursor = parent[q.cursor]])
  <2> DEFINE p == parent[q.cursor]
             n == [q EXCEPT !.cursor = p]
  <2>1. p \in Folder \cup {Root}
    BY <1>5 DEF IInv, SharesType, TreeType, Node
  <2>2. Go(r, n)
    BY <1>5
  <2> HIDE DEF p
  <2>3. /\ n \in Ask /\ n.step = "reach" /\ n.op = q.op /\ n.user = q.user /\ n.best = q.best
        /\ n.held = q.held /\ n.chain = q.chain /\ n.needs = q.needs
    BY <1>1, <2>1 DEF Ask
  <2> HIDE DEF n
  <2> QED
    BY <1>1, <1>2, <2>2, <2>3, GoesOn DEF Asking
<1>6. CASE Answer(r, FALSE)
  BY <1>6, AnswerIsSound
<1> QED
  BY <1>3, <1>4, <1>5, <1>6 DEF Reach

\* The look at the target, and the start of the climb.
LEMMA StartIsSound ==
    ASSUME IInv, NEW r \in Reader, VetTarget(r) \/ Start(r)
    PROVE  SoundStep(r)
<1> DEFINE q == ask[r]
<1>1. q \in Ask /\ Sound(q) /\ q.step \in {"vet", "climb"}
  BY DEF IInv, SharesType, VetTarget, Start
<1>2. /\ q.needs \in Open(q.op) /\ q.best \leq q.held /\ q.best \in 0..2 /\ q.held \in 0..2
      /\ \A n \in Node : grants[n][q.user] \leq q.held
  BY <1>1 DEF Sound, QuestionsStand, HeldIsHeld, Asking, Ask
<1>3. CASE Answer(r, FALSE)
  BY <1>3, AnswerIsSound
<1>4. CASE Go(r, [q EXCEPT !.step = "climb", !.chain = <<>>, !.best = NoGrant])
  <2> DEFINE n == [q EXCEPT !.step = "climb", !.chain = <<>>, !.best = NoGrant]
  <2>0. <<>> \in Seq(Node) /\ 0 \in NoGrant..Download
    OBVIOUS
  <2>1. /\ n \in Ask /\ n.step = "climb" /\ n.op = q.op /\ n.user = q.user /\ n.best = 0
        /\ n.held = q.held /\ n.chain = <<>> /\ n.needs = q.needs
    BY <1>1, <2>0 DEF Ask
  <2>2. Go(r, n)
    BY <1>4
  <2>3. 2..Len(<<>>) = {}
    OBVIOUS
  <2> HIDE DEF n
  <2>4. Sound(n)
    BY <1>2, <2>1, <2>3 DEF Sound, HeldIsHeld, QuestionsStand, ChainIsSimple, Asking
  <2> QED
    BY <2>1, <2>2, <2>4 DEF SoundStep
<1>5. CASE Start(r)
  <2> DEFINE c == IF q.node \in Folder THEN q.node ELSE parent[q.node]
             n == [q EXCEPT !.chain = <<q.node>>, !.cursor = c]
  <2>1. c \in Folder \cup {Root} /\ <<q.node>> \in Seq(Node) /\ q.step = "climb"
    BY <1>1, <1>5 DEF IInv, SharesType, TreeType, Ask, Start
  <2>2. Go(r, n)
    BY <1>5 DEF Start
  <2> HIDE DEF c
  <2>3. /\ n \in Ask /\ n.step = "climb" /\ n.op = q.op /\ n.user = q.user /\ n.best = q.best
        /\ n.held = q.held /\ n.chain = <<q.node>> /\ n.needs = q.needs
    BY <1>1, <2>1 DEF Ask
  <2>4. 2..Len(<<q.node>>) = {}
    OBVIOUS
  <2> HIDE DEF n
  <2>5. Sound(n)
    BY <1>2, <2>3, <2>4 DEF Sound, HeldIsHeld, QuestionsStand, ChainIsSimple, Asking
  <2> QED
    BY <2>2, <2>3, <2>5 DEF SoundStep
<1> QED
  BY <1>3, <1>4, <1>5 DEF VetTarget

\* A folder joins the chain if it was not met before.
LEMMA ClimbIsSound ==
    ASSUME IInv, NEW r \in Reader, Climb(r)
    PROVE  SoundStep(r)
<1> DEFINE q == ask[r]
<1>1. q \in Ask /\ Sound(q) /\ q.step = "climb" /\ q.chain # <<>>
  BY DEF IInv, SharesType, Climb
<1>2. /\ q.needs \in Open(q.op) /\ q.best \leq q.held
      /\ \A n \in Node : grants[n][q.user] \leq q.held
      /\ ChainIsSimple(q) /\ q.chain \in Seq(Node)
  BY <1>1 DEF Sound, QuestionsStand, HeldIsHeld, Asking, Ask
<1>3. CASE /\ q.cursor \in Folder \ Visited(q)
           /\ Go(r, [q EXCEPT !.chain = Append(q.chain, q.cursor), !.cursor = parent[q.cursor]])
  <2> DEFINE p == parent[q.cursor]
             c == Append(q.chain, q.cursor)
             n == [q EXCEPT !.chain = c, !.cursor = p]
  <2>1. p \in Folder \cup {Root} /\ q.cursor \in Node
    BY <1>3 DEF IInv, SharesType, TreeType, Node
  <2>2. /\ c \in Seq(Node) /\ Len(c) = Len(q.chain) + 1 /\ Len(q.chain) \in Nat
        /\ c[Len(q.chain) + 1] = q.cursor
        /\ \A i \in 1..Len(q.chain) : c[i] = q.chain[i]
    BY <1>2, <2>1
  <2>3. Go(r, n)
    BY <1>3
  <2> HIDE DEF p, c
  <2>4. /\ n \in Ask /\ n.step = "climb" /\ n.op = q.op /\ n.user = q.user /\ n.best = q.best
        /\ n.held = q.held /\ n.chain = c /\ n.needs = q.needs
    BY <1>1, <2>1, <2>2 DEF Ask
  <2> HIDE DEF n
  <2>5. ChainIsSimple(n)
    <3>1. \A i \in 2..Len(q.chain) : q.chain[i] # q.cursor
      BY <1>3 DEF Visited
    <3>2. \A i \in 2..Len(c) : i \in 2..Len(q.chain) \/ i = Len(q.chain) + 1
      BY <2>2
    <3>3. \A i \in 2..Len(q.chain) : i \in 1..Len(q.chain)
      BY <2>2
    <3>4. q.cursor \in Folder
      BY <1>3
    <3> HIDE DEF q
    <3> QED
      BY <1>2, <2>2, <2>4, <3>1, <3>2, <3>3, <3>4 DEF ChainIsSimple
  <2>6. Sound(n)
    BY <1>2, <2>4, <2>5 DEF Sound, HeldIsHeld, QuestionsStand, Asking
  <2> QED
    BY <2>3, <2>4, <2>6 DEF SoundStep
<1>4. CASE Go(r, [q EXCEPT !.step = "read"])
  <2> DEFINE n == [q EXCEPT !.step = "read"]
  <2>1. /\ n \in Ask /\ n.step = "read" /\ n.op = q.op /\ n.user = q.user /\ n.best = q.best
        /\ n.held = q.held /\ n.chain = q.chain /\ n.needs = q.needs
    BY <1>1 DEF Ask
  <2>2. Go(r, n)
    BY <1>4
  <2> HIDE DEF n
  <2>3. Sound(n)
    BY <1>1, <1>2, <2>1 DEF Sound, HeldIsHeld, QuestionsStand, ChainIsSimple, Asking
  <2> QED
    BY <2>1, <2>2, <2>3 DEF SoundStep
<1> QED
  BY <1>3, <1>4 DEF Climb

\* One grant of the chain is read, and the last brings the verdict.
LEMMA ReadIsSound ==
    ASSUME IInv, NEW r \in Reader, ReadGrant(r)
    PROVE  SoundStep(r)
<1> DEFINE q    == ask[r]
           g    == grants[Head(q.chain)][q.user]
           best == Greater(q.best, g)
<1>1. q \in Ask /\ Sound(q) /\ q.step = "read"
  BY DEF IInv, SharesType, ReadGrant
<1>2. /\ q.needs \in Open(q.op) /\ q.best \leq q.held /\ q.best \in 0..2 /\ q.held \in 0..2
      /\ \A n \in Node : grants[n][q.user] \leq q.held
      /\ ChainIsSimple(q) /\ q.chain \in Seq(Node) /\ q.chain # <<>>
      /\ q.user \in User /\ q.node \in Node
  BY <1>1 DEF Sound, QuestionsStand, HeldIsHeld, Asking, Ask
<1>3. Head(q.chain) \in Node /\ Len(q.chain) \in Nat /\ Len(q.chain) > 0
  BY <1>2
<1>4. g \in 0..2 /\ g \leq q.held
  BY <1>2, <1>3 DEF IInv, SharesType
<1>5. best \in 0..2 /\ best \leq q.held
  BY <1>2, <1>4, GreaterIs
<1> DEFINE yes   == best \geq Head(q.needs)
           more  == [q EXCEPT !.best = best, !.chain = Tail(q.chain)]
           again == [q EXCEPT !.step = "vet", !.needs = Tail(q.needs)]
           last  == [Rest("bytes") EXCEPT !.op = q.op, !.user = q.user,
                        !.node = q.node, !.held = q.held,
                        !.before = q.before, !.changes = q.changes]
<1>6. \/ Len(q.chain) > 1 /\ Go(r, more)
      \/ yes /\ Len(q.needs) > 1 /\ Go(r, again)
      \/ yes /\ ~(Len(q.needs) > 1) /\ Go(r, last)
      \/ ~(yes /\ Len(q.needs) > 1) /\ Answer(r, yes)
  <2>1. IF Len(q.chain) > 1 THEN Go(r, more)
        ELSE IF yes /\ Len(q.needs) > 1 THEN Go(r, again)
        ELSE IF yes /\ q.node \in File THEN Go(r, last)
        ELSE Answer(r, yes)
    BY DEF ReadGrant, Combined, Opens
  <2> HIDE DEF yes, more, again, last
  <2> QED
    BY <2>1
<1>7. CASE Len(q.chain) > 1 /\ Go(r, more)
  <2> DEFINE c == Tail(q.chain)
             n == [q EXCEPT !.best = best, !.chain = c]
  <2>1. Go(r, n)
    BY <1>7
  <2>2. /\ c \in Seq(Node) /\ Len(c) = Len(q.chain) - 1
        /\ \A i \in 1..Len(c) : c[i] = q.chain[i + 1]
    BY <1>2, <1>3
  <2> HIDE DEF c, best
  <2>3. c # <<>>
    <3>1. Len(c) # 0
      BY <1>3, <1>7, <2>2
    <3> QED
      BY <3>1
  <2>4. /\ n \in Ask /\ n.step = "read" /\ n.op = q.op /\ n.user = q.user /\ n.best = best
        /\ n.held = q.held /\ n.chain = c /\ n.needs = q.needs
    BY <1>1, <1>5, <2>2 DEF Ask
  <2> HIDE DEF n
  <2>5. ChainIsSimple(n)
    <3>1. \A i \in 2..Len(c) : /\ i \in 1..Len(c) /\ i + 1 \in 2..Len(q.chain)
                               /\ c[i] = q.chain[i + 1]
      BY <1>3, <2>2
    <3>2. \A i, j \in 2..Len(c) : i # j => i + 1 # j + 1
      OBVIOUS
    <3> HIDE DEF q
    <3> QED
      BY <1>2, <2>4, <3>1, <3>2 DEF ChainIsSimple
  <2>6. Sound(n)
    BY <1>2, <1>5, <2>3, <2>4, <2>5 DEF Sound, HeldIsHeld, QuestionsStand, Asking
  <2> QED
    BY <2>1, <2>4, <2>6 DEF SoundStep
<1>8. /\ Len(q.needs) \in Nat /\ Needed(q.op) \in 0..2
      /\ Len(q.needs) \leq 1 => Head(q.needs) = Needed(q.op)
      /\ Len(q.needs) > 1 => Tail(q.needs) \in Open(q.op) /\ Tail(q.needs) \in Seq({View, Download})
  BY <1>2, OpenIs
<1>9. yes /\ ~(Len(q.needs) > 1) => Earned(q)
  <2> SUFFICES ASSUME yes, ~(Len(q.needs) > 1) PROVE Earned(q)
    OBVIOUS
  <2>1. Head(q.needs) = Needed(q.op)
    BY <1>8
  <2>2. best \geq Needed(q.op)
    BY <2>1
  <2> HIDE DEF best
  <2>3. q.held \geq Needed(q.op)
    BY <1>2, <1>5, <1>8, <2>2
  <2> QED
    BY <2>3 DEF Earned
<1>10. CASE yes /\ Len(q.needs) > 1 /\ Go(r, again)
  <2> DEFINE t == Tail(q.needs)
             n == [q EXCEPT !.step = "vet", !.needs = t]
  <2>1. Go(r, n)
    BY <1>10
  <2>2. t \in Open(q.op) /\ t \in Seq({View, Download})
    BY <1>8, <1>10
  <2> HIDE DEF t
  <2>3. /\ n \in Ask /\ n.step = "vet" /\ n.op = q.op /\ n.user = q.user /\ n.best = q.best
        /\ n.held = q.held /\ n.chain = q.chain /\ n.needs = t
    BY <1>1, <2>2 DEF Ask
  <2> HIDE DEF n
  <2>4. Sound(n)
    BY <1>2, <2>2, <2>3 DEF Sound, HeldIsHeld, QuestionsStand, ChainIsSimple, Asking
  <2> QED
    BY <2>1, <2>3, <2>4 DEF SoundStep
<1>11. CASE yes /\ ~(Len(q.needs) > 1) /\ Go(r, last)
  <2>1. /\ last \in Ask /\ last.step = "bytes" /\ last.op = q.op /\ last.user = q.user
        /\ last.best = 0 /\ last.held = q.held /\ last.chain = <<>> /\ last.node = q.node
    <3> DEFINE d == Rest("bytes")
    <3>1. d \in Ask /\ d.step = "bytes" /\ d.chain = <<>> /\ d.best = 0
      BY RestIs DEF Steps
    <3>2. /\ q.op \in {"preview", "download", "browse"} /\ q.user \in User /\ q.node \in Node
          /\ q.held \in 0..2 /\ q.before \in BOOLEAN /\ q.changes \in 0..2
      BY <1>1 DEF Ask
    <3>3. last = [d EXCEPT !.op = q.op, !.user = q.user, !.node = q.node, !.held = q.held,
                           !.before = q.before, !.changes = q.changes]
      OBVIOUS
    <3> HIDE DEF d, q, last
    <3>4. last \in Ask
      BY <3>1, <3>2, <3>3 DEF Ask
    <3>5. /\ last.op = q.op /\ last.user = q.user /\ last.node = q.node /\ last.held = q.held
          /\ last.step = d.step /\ last.chain = d.chain /\ last.best = d.best
      BY <3>1, <3>3 DEF Ask
    <3> QED
      BY <3>1, <3>4, <3>5
  <2>2. 2..Len(<<>>) = {}
    OBVIOUS
  <2>3. Earned(q)
    BY <1>9, <1>11
  <2> HIDE DEF last, yes
  <2>4. Sound(last)
    BY <1>2, <2>1, <2>2, <2>3
    DEF Sound, HeldIsHeld, QuestionsStand, ChainIsSimple, Asking, Earned
  <2> QED
    BY <1>11, <2>1, <2>4 DEF SoundStep
<1>12. CASE ~(yes /\ Len(q.needs) > 1) /\ Answer(r, yes)
  <2> HIDE DEF yes
  <2> QED
    BY <1>9, <1>12, AnswerIsSound
<1> HIDE DEF yes, more, again, last
<1> QED
  BY <1>6, <1>7, <1>10, <1>11, <1>12

\* The bytes go to whom the verdict let pass.
LEMMA BytesAreSound ==
    ASSUME IInv, NEW r \in Reader, ReadBytes(r)
    PROVE  SoundStep(r)
<1>1. Sound(ask[r]) /\ ask[r].step = "bytes" /\ Answer(r, ask[r].node \in rows)
  BY DEF IInv, ReadBytes
<1>2. Earned(ask[r])
  BY <1>1 DEF Sound, QuestionsStand, Earned
<1> QED
  BY <1>1, <1>2, AnswerIsSound

(* Every step of a request is sound, and changes nothing else but conn.    *)
RequestStep(r) ==
    \/ \E u \in User :
          \/ \E n \in File, op \in {"preview", "download"} : OpenFile(r, op, u, n)
          \/ \E n \in Folder : OpenFolder(r, u, n)
    \/ Reach(r) \/ VetTarget(r) \/ Start(r) \/ Climb(r) \/ ReadGrant(r) \/ ReadBytes(r)

\* What the lemmas above say together.
LEMMA RequestIsSound ==
    ASSUME IInv, NEW r \in Reader, RequestStep(r)
    PROVE  /\ SoundStep(r)
           /\ UNCHANGED <<tree, grants, vetted>> /\ conn' \in Reader \cup {Free}
<1>1. SoundStep(r)
  BY OpenSteps, ReachIsSound, StartIsSound, ClimbIsSound, ReadIsSound, BytesAreSound
     DEF RequestStep
<1>2. conn \in Reader \cup {Free}
  BY DEF IInv, SharesType
<1>3. CASE ReadGrant(r)
  BY <1>1, <1>2, <1>3 DEF ReadGrant
<1>4. CASE VetTarget(r)
  BY <1>1, <1>2, <1>4 DEF VetTarget
<1>5. CASE ~ReadGrant(r) /\ ~VetTarget(r)
  BY <1>1, <1>2, <1>5 DEF RequestStep, OpenFile, OpenFolder, Reach, Start, Climb, ReadBytes
<1> QED
  BY <1>3, <1>4, <1>5

-----------------------------------------------------------------------------
(* The steps of everybody else.                                            *)

(* Every request notices a commit: what it knows of its user's grants      *)
(* grows with them, and nothing else of it changes.                        *)
LEMMA NoticedIs ==
    ASSUME SharesType, NEW u, NEW l \in 0..2, Noticed(u, l)
    PROVE  /\ ask' \in [Reader -> Ask]
           /\ \A r \in Reader :
                LET p == ask[r]  q == ask'[r] IN
                /\ q.step = p.step /\ q.op = p.op /\ q.user = p.user /\ q.node = p.node
                /\ q.needs = p.needs /\ q.chain = p.chain /\ q.best = p.best
                /\ p.held \in 0..2 /\ q.held \in 0..2 /\ p.held \leq q.held
                /\ Busy(r) /\ p.user = u => l \leq q.held
<1>1. ASSUME NEW r \in Reader
      PROVE  /\ ask'[r] \in Ask
             /\ LET p == ask[r]  q == ask'[r] IN
                /\ q.step = p.step /\ q.op = p.op /\ q.user = p.user /\ q.node = p.node
                /\ q.needs = p.needs /\ q.chain = p.chain /\ q.best = p.best
                /\ p.held \in 0..2 /\ q.held \in 0..2 /\ p.held \leq q.held
                /\ Busy(r) /\ p.user = u => l \leq q.held
  <2> DEFINE p == ask[r]
             c == IF p.changes = 0 THEN 1 ELSE 2
             b == p.changes = 0 /\ RightNow(p)
             h == IF p.user = u THEN Greater(p.held, l) ELSE p.held
             n == [p EXCEPT !.changes = c, !.before = b, !.held = h]
  <2>1. p \in Ask
    BY DEF SharesType
  <2>2. p.held \in 0..2
    BY <2>1 DEF Ask
  <2>3. c \in 0..2 /\ b \in BOOLEAN /\ h \in 0..2 /\ p.held \leq h /\ (p.user = u => l \leq h)
    BY <2>2, GreaterIs
  <2>4. ask'[r] = IF Busy(r) THEN n ELSE p
    BY DEF Noticed
  <2> HIDE DEF c, b, h
  <2>5. /\ n \in Ask /\ n.step = p.step /\ n.op = p.op /\ n.user = p.user /\ n.node = p.node
        /\ n.needs = p.needs /\ n.chain = p.chain /\ n.best = p.best /\ n.held = h
    BY <2>1, <2>3 DEF Ask
  <2> HIDE DEF n, p
  <2> QED
    BY <2>1, <2>2, <2>3, <2>4, <2>5 DEF p
<1>2. DOMAIN ask' = Reader /\ ask' = [r \in Reader |-> ask'[r]]
  BY DEF Noticed
<1> QED
  BY <1>1, <1>2

\* As long as grants grow only by what is noticed, requests stay sound.
LEMMA NoticedIsSound ==
    ASSUME IInv, NEW u, NEW l \in 0..2, Noticed(u, l),
           \A n \in Node, v \in User : grants'[n][v] \leq grants[n][v] \/ (v = u /\ grants'[n][v] = l),
           grants' \in [Node -> [User -> 0..2]],
           NEW r \in Reader
    PROVE  Sound(ask[r])'
<1> DEFINE p == ask[r]
           q == ask'[r]
<1>1. SharesType /\ Sound(p) /\ p \in Ask
  BY DEF IInv, SharesType
<1>2. /\ q \in Ask
      /\ q.step = p.step /\ q.op = p.op /\ q.user = p.user /\ q.node = p.node
      /\ q.needs = p.needs /\ q.chain = p.chain /\ q.best = p.best
      /\ p.held \in 0..2 /\ q.held \in 0..2 /\ p.held \leq q.held
      /\ Busy(r) /\ p.user = u => l \leq q.held
  BY <1>1, NoticedIs
<1>3. p.user \in User /\ p.best \in 0..2 /\ Needed(p.op) \in 0..2
  BY <1>1 DEF Ask, Needed
<1>4. p.step \in Asking \cup {"bytes"} => Busy(r)
  BY DEF Asking, Busy
<1> HIDE DEF p, q
<1>5. ASSUME p.step \in Asking \cup {"bytes"}
      PROVE  /\ q.best \leq q.held
             /\ \A n \in Node : grants'[n][q.user] \leq q.held
  <2>1. p.best \leq p.held /\ \A n \in Node : grants[n][p.user] \leq p.held
    BY <1>1, <1>5 DEF Sound, HeldIsHeld
  <2>2. q.best \leq q.held
    BY <1>2, <1>3, <2>1
  <2>3. ASSUME NEW n \in Node PROVE grants'[n][q.user] \leq q.held
    <3>1. grants[n][p.user] \in 0..2 /\ grants'[n][p.user] \in 0..2
      BY <1>1, <1>3 DEF SharesType
    <3>2. grants[n][p.user] \leq p.held
      BY <2>1
    <3>3. CASE grants'[n][p.user] \leq grants[n][p.user]
      BY <1>2, <3>1, <3>2, <3>3
    <3>4. CASE p.user = u /\ grants'[n][p.user] = l
      BY <1>2, <1>4, <1>5, <3>4
    <3> QED
      BY <1>3, <3>3, <3>4
  <2> QED
    BY <2>2, <2>3
<1>6. ASSUME p.step = "bytes" PROVE q.user = Owner[q.node] \/ q.held \geq Needed(q.op)
  BY <1>1, <1>2, <1>3, <1>6 DEF Sound, QuestionsStand
<1>7. q = ask'[r]
  BY DEF q
<1> QED
  BY <1>1, <1>2, <1>5, <1>6, <1>7 DEF Sound, HeldIsHeld, QuestionsStand, ChainIsSimple

\* The tree keeps its type.
LEMMA TreeSteps ==
    ASSUME TreeType
    PROVE  /\ \A n \in Node, p \in Folder \cup {Root} : Move(n, p) => TreeType'
           /\ \A n \in Node : Trash(n) => TreeType'
           /\ \A S \in SUBSET trashed : \A n \in S : Restore(n, S) => TreeType'
           /\ \A D \in SUBSET trashed : Purge(D) => TreeType'
<1>1. \A n \in Node, p \in Folder \cup {Root} : Move(n, p) => TreeType'
  BY DEF TreeType, Move
<1>2. ASSUME NEW n \in Node, Trash(n) PROVE TreeType'
  <2>1. Sub(n) \subseteq rows
    BY DEF Sub
  <2> QED
    BY <1>2, <2>1 DEF TreeType, Trash
<1>3. \A S \in SUBSET trashed : \A n \in S : Restore(n, S) => TreeType'
  BY DEF TreeType, Restore
<1>4. \A D \in SUBSET trashed : Purge(D) => TreeType'
  BY DEF TreeType, Purge
<1> QED
  BY <1>1, <1>2, <1>3, <1>4

(* A commit of anybody but the requests.                                   *)
OthersStep ==
    \/ TreeStep
    \/ \E D \in SUBSET trashed : PurgeShared(D)
    \/ \E n \in Node, u \in User :
          \/ Unshare(n, u)
          \/ \E l \in {View, Download} : Vet(n, u, l) \/ Grant(n, u, l)

\* Such a commit keeps the invariant, and answers nobody.
LEMMA OthersAreSound ==
    ASSUME IInv, OthersStep
    PROVE  IInv' /\ \A r \in Reader : ask'[r].step = ask[r].step
<1>1. /\ SharesType /\ TreeType /\ grants \in [Node -> [User -> 0..2]]
      /\ Free \notin Reader
  BY NobodyReads DEF IInv, SharesType
<1>2. ASSUME NEW u, NEW l \in 0..2, Noticed(u, l), TreeType',
             grants' \in [Node -> [User -> 0..2]], vetted' \subseteq vetted, conn' = conn,
             \A n \in Node, v \in User : grants'[n][v] \leq grants[n][v]
                                            \/ (v = u /\ grants'[n][v] = l)
      PROVE  IInv' /\ \A r \in Reader : ask'[r].step = ask[r].step
  <2>1. /\ ask' \in [Reader -> Ask]
        /\ \A r \in Reader : ask'[r].step = ask[r].step
    BY <1>1, <1>2, NoticedIs
  <2>2. \A r \in Reader : Sound(ask[r])'
    BY <1>2, NoticedIsSound
  <2>3. SharesType'
    BY <1>1, <1>2, <2>1 DEF SharesType
  <2> QED
    BY <2>1, <2>2, <2>3 DEF IInv
<1>3. CASE TreeStep
  <2>1. TreeType'
    BY <1>1, <1>3, TreeSteps DEF TreeStep, Node
  <2> QED
    BY <1>1, <1>2, <1>3, <2>1 DEF TreeStep
<1>4. ASSUME NEW D \in SUBSET trashed, PurgeShared(D)
      PROVE  IInv' /\ \A r \in Reader : ask'[r].step = ask[r].step
  <2>1. TreeType'
    BY <1>1, <1>4, TreeSteps DEF PurgeShared
  <2>2. \A n \in Node, v \in User : grants'[n][v] \in {0, grants[n][v]} /\ grants[n][v] \in 0..2
    BY <1>1, <1>4 DEF PurgeShared
  <2>3. \A n \in Node, v \in User : grants'[n][v] \leq grants[n][v]
    BY <2>2
  <2>4. grants' \in [Node -> [User -> 0..2]]
    BY <1>1, <1>4 DEF PurgeShared
  <2> QED
    BY <1>2, <1>4, <2>1, <2>3, <2>4 DEF PurgeShared
<1>5. ASSUME NEW n \in Node, NEW u \in User, Unshare(n, u)
      PROVE  IInv' /\ \A r \in Reader : ask'[r].step = ask[r].step
  <2>1. TreeType'
    BY <1>1, <1>5 DEF Unshare, tree, TreeType
  <2>2. \A m \in Node, v \in User : grants'[m][v] \in {0, grants[m][v]} /\ grants[m][v] \in 0..2
    BY <1>1, <1>5 DEF Unshare
  <2>3. \A m \in Node, v \in User : grants'[m][v] \leq grants[m][v]
    BY <2>2
  <2>4. grants' \in [Node -> [User -> 0..2]]
    BY <1>1, <1>5 DEF Unshare
  <2> QED
    BY <1>2, <1>5, <2>1, <2>3, <2>4 DEF Unshare
<1>6. ASSUME NEW n \in Node, NEW u \in User, NEW l \in {1, 2}, Grant(n, u, l)
      PROVE  IInv' /\ \A r \in Reader : ask'[r].step = ask[r].step
  <2>1. TreeType'
    BY <1>1, <1>6 DEF Grant, tree, TreeType
  <2>2. \A m \in Node, v \in User : grants[m][v] \in 0..2 /\
            (grants'[m][v] = grants[m][v] \/ (v = u /\ grants'[m][v] = l))
    BY <1>1, <1>6 DEF Grant
  <2>3. \A m \in Node, v \in User : grants'[m][v] \leq grants[m][v] \/ (v = u /\ grants'[m][v] = l)
    BY <2>2
  <2>4. grants' \in [Node -> [User -> 0..2]]
    BY <1>1, <1>6 DEF Grant
  <2> QED
    BY <1>2, <1>6, <2>1, <2>3, <2>4 DEF Grant
<1>7. ASSUME NEW n \in Node, NEW u \in User, NEW l \in {1, 2}, Vet(n, u, l)
      PROVE  IInv' /\ \A r \in Reader : ask'[r].step = ask[r].step
  <2>1. UNCHANGED <<tree, grants, ask, conn>> /\ vetted' = {<<n, u, l>>}
    BY <1>7 DEF Vet
  <2>2. TreeType' /\ vetted' \subseteq Node \X User \X {View, Download}
    BY <1>1, <2>1 DEF tree, TreeType
  <2>3. SharesType'
    BY <1>1, <2>1, <2>2 DEF SharesType
  <2>4. \A r \in Reader : Sound(ask[r])'
    BY <2>1 DEF IInv, Sound, HeldIsHeld, QuestionsStand, ChainIsSimple
  <2> QED
    BY <2>1, <2>3, <2>4 DEF IInv
<1> QED
  BY <1>3, <1>4, <1>5, <1>6, <1>7 DEF OthersStep

-----------------------------------------------------------------------------
(* The invariant, and the theorems.                                        *)

\* Nobody asks at first.
LEMMA InvInit == SharesInit => IInv
<1> SUFFICES ASSUME SharesInit PROVE IInv
  OBVIOUS
<1>1. Rest("idle") \in Ask /\ Sound(Rest("idle"))
  BY RestIsSound
<1>2. SharesType
  BY <1>1 DEF SharesInit, SharesType, TreeType, Grown
<1> QED
  BY <1>1, <1>2 DEF SharesInit, IInv

\* A step is a sound one of one request, or of somebody else.
LEMMA InvNext ==
    ASSUME IInv, SharesNext
    PROVE  /\ IInv'
           /\ \A r \in Reader : Busy(r) /\ ask'[r].step = "served" => Earned(ask[r])
<1>1. ASSUME NEW r \in Reader, RequestStep(r)
      PROVE  /\ IInv'
             /\ \A s \in Reader : Busy(s) /\ ask'[s].step = "served" => Earned(ask[s])
  <2>1. PICK q \in Ask : /\ Go(r, q) /\ Sound(q)
                         /\ Busy(r) /\ q.step = "served" => Earned(ask[r])
    BY <1>1, RequestIsSound DEF SoundStep
  <2>2. UNCHANGED <<tree, grants, vetted>> /\ conn' \in Reader \cup {Free}
    BY <1>1, RequestIsSound
  <2>3. /\ ask' \in [Reader -> Ask] /\ ask'[r] = q
        /\ \A s \in Reader : s # r => ask'[s] = ask[s]
    BY <2>1, GoIs DEF IInv
  <2>4. SharesType'
    BY <2>2, <2>3 DEF IInv, SharesType, TreeType, tree
  <2>5. ASSUME NEW p, Sound(p) PROVE HeldIsHeld(p)' /\ QuestionsStand(p)' /\ ChainIsSimple(p)'
    BY <2>2, <2>5 DEF Sound, HeldIsHeld, QuestionsStand, ChainIsSimple
  <2>6. IInv'
    <3>1. ASSUME NEW s \in Reader PROVE Sound(ask[s])'
      <4>1. Sound(ask'[s])
        BY <2>1, <2>3 DEF IInv
      <4> QED
        BY <4>1, <2>5 DEF Sound
    <3> QED
      BY <2>4, <3>1 DEF IInv
  <2>7. ASSUME NEW s \in Reader, Busy(s), ask'[s].step = "served" PROVE Earned(ask[s])
    <3>1. CASE s = r
      BY <2>1, <2>3, <2>7, <3>1
    <3>2. CASE s # r
      BY <2>3, <2>7, <3>2 DEF Busy
    <3> QED
      BY <3>1, <3>2
  <2> QED
    BY <2>6, <2>7
<1> QED
  BY <1>1, OthersAreSound DEF SharesNext, OthersStep, RequestStep, Busy

(* The invariant holds in every reachable state.                           *)
THEOREM Invariance == SharesSpec => []IInv
<1>1. IInv /\ [SharesNext]_vars => IInv'
  <2>1. IInv /\ SharesNext => IInv'
    BY InvNext
  <2>2. IInv /\ UNCHANGED vars => IInv'
    BY DEF vars, shares, tree, IInv, SharesType, TreeType, Sound, HeldIsHeld, QuestionsStand,
           ChainIsSimple
  <2> QED
    BY <2>1, <2>2
<1> QED
  BY <1>1, InvInit, PTL DEF SharesSpec

(* The grants, the requests and the tree keep their types.                 *)
THEOREM TypeCorrect == SharesSpec => []SharesType
<1>1. IInv => SharesType
  BY DEF IInv
<1> QED
  BY <1>1, Invariance, PTL

(* Whatever moves, is shared or withdrawn while a request runs, whoever is *)
(* served is the owner or held a sufficient grant on something meanwhile   *)
(* (effective_grant, can_see, can_download).                               *)
THEOREM ServedHeldAGrant == SharesSpec => YesNeedsAGrant
<1>1. ASSUME IInv, [SharesNext]_vars
      PROVE  [\A r \in Reader : LET q == ask[r] IN
                Answers(r) /\ Yes(r) /\ q.user # Owner[q.node] =>
                    q.held >= (IF q.op = "download" THEN Download ELSE View)]_vars
  BY <1>1, InvNext DEF Answers, Yes, Earned, Needed
<1> QED
  BY <1>1, Invariance, PTL DEF SharesSpec, YesNeedsAGrant

\* A chain without repetition is no longer than there are folders.
LEMMA SimpleIsShort ==
    ASSUME NEW q \in Ask, ChainIsSimple(q)
    PROVE  Len(q.chain) \leq Cardinality(Folder) + 1
<1>1. Len(q.chain) \in Nat /\ Cardinality(Folder) \in Nat
  BY FoldersEnd, FS_CardinalityType DEF Ask
<1>2. CASE Len(q.chain) = 0
  BY <1>1, <1>2
<1>3. CASE Len(q.chain) # 0
  <2> DEFINE k == Len(q.chain) - 1
             f == [i \in 1..k |-> q.chain[i + 1]]
  <2>1. k \in Nat /\ \A i \in 1..k : i + 1 \in 2..Len(q.chain)
    BY <1>1, <1>3
  <2>2. f \in [1..k -> Folder]
    BY <2>1 DEF ChainIsSimple
  <2>3. ASSUME NEW i \in 1..k, NEW j \in 1..k, f[i] = f[j] PROVE i = j
    <3>1. q.chain[i + 1] = q.chain[j + 1]
      BY <2>3
    <3>2. i + 1 = j + 1
      BY <2>1, <3>1 DEF ChainIsSimple
    <3> QED
      BY <3>2
  <2> HIDE DEF f
  <2>4. f \in Injection(1..k, Folder)
    BY <2>2, <2>3 DEF Injection, IsInjective
  <2>5. Cardinality(1..k) \leq Cardinality(Folder)
    BY <2>4, FoldersEnd, FS_Injection
  <2>6. Cardinality(1..k) = k
    BY <2>1, FS_Interval
  <2> QED
    BY <1>1, <2>1, <2>5, <2>6
<1> QED
  BY <1>2, <1>3

(* A climb visits a folder once at most, however they are moved under its  *)
(* feet, so it ends and lets the connection go.                            *)
THEOREM ClimbEnds == SharesSpec => []ClimbIsBounded
<1>1. IInv => ClimbIsBounded
  BY SimpleIsShort DEF IInv, SharesType, Sound, ClimbIsBounded
<1> QED
  BY <1>1, Invariance, PTL

-----------------------------------------------------------------------------
(* The answers.  What a request has read so far was right before a change  *)
(* or is right after it: the invariant says where the rest of it will lead *)
(* if the world stands still from now on.                                  *)

(* A folder and the folders above it, by their parents.                    *)
Parents       == [Node -> Folder \cup {Root}]
Upward(up, S) == \A f \in S : up[f] \in S \cup {Root}
AncBy(up, c)  == {a \in Folder : c \in Folder /\ \A S \in SUBSET Folder :
                                     c \in S /\ Upward(up, S) => a \in S}
Forest(up)    == \A S \in SUBSET Folder \ {{}} : \E f \in S : up[f] \notin S

Anc(c)  == AncBy(parent, c)
Base(n) == IF n \in Folder THEN n ELSE parent[n]

Whole ==
    /\ TreeType
    /\ \A n \in rows : parent[n] \in rows \cup {Root}
    /\ \A n \in Node \ rows : parent[n] = Root
    /\ \A n \in rows \ trashed : parent[n] = Root \/ Live(parent[n])
    /\ Forest(parent)

(* A grant of a level on the item or above it.                             *)
Enough(u, n, l) == \E a \in {n} \cup Anc(Base(n)) : grants[a][u] >= l

(* The chain so far, and what is still to come of it.                      *)
Chained(q) == {q.chain[i] : i \in 1..Len(q.chain)}
LiveAnc(c) == IF Live(c) THEN Anc(c) ELSE {}

Ahead(q) ==
    IF q.step = "read" THEN Chained(q)
    ELSE IF q.chain = <<>> THEN {q.node} \cup LiveAnc(Base(q.node))
    ELSE Chained(q) \cup LiveAnc(q.cursor)

Sees(q, l) == q.best >= l \/ \E a \in Ahead(q) : grants[a][q.user] >= l

(* What a request comes to if nothing else is committed.                   *)
Fated(q) ==
    /\ q.step = "reach" => /\ q.cursor = Root \/ Live(q.cursor)
                           /\ q.user = Owner[q.node] \/ RightNow(q)
    /\ q.step = "vet" => RightNow(q)
    /\ q.step \in {"climb", "read"} => /\ Sees(q, Head(q.needs))
                                       /\ Len(q.needs) > 1 => RightNow(q)
    /\ q.step = "bytes" => q.node \in rows

(* A climb on the tree it began on.                                        *)
OnItsWay(q) ==
    /\ q.chain[1] = q.node
    /\ Anc(Base(q.node)) = Visited(q) \cup Anc(q.cursor)
    /\ Visited(q) \cap Anc(q.cursor) = {}
    /\ \A f \in Visited(q) : parent[f] \in Visited(q) \cup {q.cursor}
    /\ Base(q.node) \in Visited(q) \cup {q.cursor}

(* No commit since the request began: it has read what is so.              *)
Undisturbed(q) ==
    /\ q.step \in Asking => Live(q.node)
    /\ q.step = "reach" => q.cursor \in Anc(q.node) \cup {Root}
    /\ q.step \in {"climb", "read"} =>
          /\ \A a \in Chained(q) : Live(a)
          /\ \A l \in {View, Download} : Sees(q, l) <=> Enough(q.user, q.node, l)
    /\ q.step = "climb" /\ q.chain # <<>> => OnItsWay(q)
    /\ q.step = "bytes" => RightNow(q)

(* One commit: it comes to what was right before, or to what is right.     *)
Fair(q) == (Fated(q) <=> RightNow(q)) \/ (Fated(q) <=> q.before)

(* And what it met it will not meet again.                                 *)
Walks(q) ==
    /\ q.step \in Asking => q.node \in rows
    /\ q.step = "climb" /\ q.chain # <<>> => Visited(q) \cap LiveAnc(q.cursor) = {}

Momentary(q) ==
    q.step \in Asking \cup {"bytes"} =>
        /\ q.changes = 0 => Undisturbed(q)
        /\ q.changes = 1 => Fair(q) /\ Walks(q)

(* Who needs a grant.                                                      *)
Stands(q) ==
    /\ q.step = "reach" => q.op = "browse" /\ q.node \in Folder
    /\ q.step \in {"vet", "climb", "read"} => q.user # Owner[q.node]
    /\ q.step = "climb" => q.best = NoGrant

(* Who climbs holds the connection.                                        *)
Holds(r) == ask[r].step \in {"climb", "read"} => conn = r

Moments == \A r \in Reader : Holds(r) /\ Stands(ask[r]) /\ Momentary(ask[r])

MInv == IInv /\ Whole /\ Moments

(* The folders above one are the least such set that holds it.             *)
LEMMA AncIs ==
    ASSUME NEW up \in Parents, NEW c \in Folder
    PROVE  /\ c \in AncBy(up, c) /\ AncBy(up, c) \in SUBSET Folder
           /\ Upward(up, AncBy(up, c))
           /\ \A S \in SUBSET Folder : c \in S /\ Upward(up, S) => AncBy(up, c) \subseteq S
<1>1. \A f \in Folder : up[f] \in Folder \cup {Root}
  BY DEF Parents, Node
<1>2. Upward(up, AncBy(up, c))
  BY <1>1 DEF AncBy, Upward
<1> QED
  BY <1>2 DEF AncBy

(* Nothing is above the root.                                              *)
LEMMA AncOfRoot == \A up : AncBy(up, Root) = {}
BY KindsApart DEF AncBy, Node

(* The folders above one are itself and those above its parent.            *)
LEMMA AncStep ==
    ASSUME NEW up \in Parents, NEW c \in Folder
    PROVE  AncBy(up, c) = {c} \cup AncBy(up, up[c])
<1>1. up[c] \in Folder \cup {Root}
  BY DEF Parents, Node
<1>2. {c} \cup AncBy(up, up[c]) \in SUBSET Folder
  BY DEF AncBy
<1>3. Upward(up, {c} \cup AncBy(up, up[c]))
  BY <1>1, AncIs, AncOfRoot DEF Upward
<1>4. AncBy(up, c) \subseteq {c} \cup AncBy(up, up[c])
  BY <1>2, <1>3, AncIs
<1>5. CASE up[c] = Root
  BY <1>4, <1>5, AncIs, AncOfRoot
<1>6. CASE up[c] \in Folder
  <2>1. up[c] \in AncBy(up, c)
    BY <1>6, AncIs, KindsApart DEF Upward, Node
  <2>2. AncBy(up, up[c]) \subseteq AncBy(up, c)
    BY <1>6, <2>1, AncIs
  <2> QED
    BY <1>4, <2>2, AncIs
<1> QED
  BY <1>1, <1>5, <1>6

(* No folder is above its own parent.                                      *)
LEMMA NoCircle ==
    ASSUME NEW up \in Parents, Forest(up), NEW c \in Folder
    PROVE  c \notin AncBy(up, up[c])
<1> SUFFICES ASSUME c \in AncBy(up, up[c]) PROVE FALSE
  OBVIOUS
<1> DEFINE S == {f \in AncBy(up, c) : c \in AncBy(up, f)}
<1>1. c \in S /\ S \in SUBSET Folder
  BY AncIs
<1>2. ASSUME NEW f \in S PROVE up[f] \in S
  <2>1. f \in Folder /\ f \in AncBy(up, c) /\ c \in AncBy(up, f)
    BY <1>1, <1>2
  <2>2. c \in AncBy(up, up[f])
    BY <2>1, AncStep
  <2>3. up[f] # Root
    BY <2>2, AncOfRoot
  <2>4. up[f] \in AncBy(up, c)
    BY <2>1, <2>3, AncIs DEF Upward
  <2> QED
    BY <2>2, <2>4
<1> QED
  BY <1>1, <1>2 DEF Forest

(* As long as none of them moves, the same folders are above one.          *)
LEMMA AncSame ==
    ASSUME NEW up \in Parents, NEW to \in Parents, NEW c \in Folder,
           \A f \in AncBy(up, c) : to[f] = up[f]
    PROVE  AncBy(to, c) = AncBy(up, c)
<1>1. c \in AncBy(up, c) /\ AncBy(up, c) \in SUBSET Folder /\ Upward(up, AncBy(up, c))
  BY AncIs
<1>2. Upward(to, AncBy(up, c))
  BY <1>1 DEF Upward
<1>3. AncBy(to, c) \subseteq AncBy(up, c)
  BY <1>1, <1>2, AncIs
<1>4. c \in AncBy(to, c) /\ AncBy(to, c) \in SUBSET Folder /\ Upward(to, AncBy(to, c))
  BY AncIs
<1>5. Upward(up, AncBy(to, c))
  BY <1>3, <1>4 DEF Upward
<1>6. AncBy(up, c) \subseteq AncBy(to, c)
  BY <1>4, <1>5, AncIs
<1> QED
  BY <1>3, <1>6

(* What is above a live folder is live, what is above a row is a row.      *)
LEMMA LiveAbove ==
    ASSUME Whole, NEW c \in Folder
    PROVE  /\ Live(c) => \A a \in Anc(c) : Live(a)
           /\ c \in rows => Anc(c) \subseteq rows
<1> DEFINE L == {f \in Folder : Live(f)}
           R == {f \in Folder : f \in rows}
<1>1. parent \in Parents
  BY DEF Whole, TreeType, Parents
<1>2. Upward(parent, L) /\ Upward(parent, R)
  BY DEF Whole, Upward, Live, TreeType, Node
<1>3. L \in SUBSET Folder /\ R \in SUBSET Folder
  OBVIOUS
<1>4. /\ c \in L => Anc(c) \subseteq L
      /\ c \in R => Anc(c) \subseteq R
  BY <1>1, <1>2, <1>3, AncIs DEF Anc
<1> QED
  BY <1>4

(* A row is under a folder if this is above the one it is in.              *)
LEMMA SubIs ==
    ASSUME Whole, NEW n \in rows
    PROVE  /\ \A a \in Folder : n \in Sub(a) <=> a \in Anc(Base(n))
           /\ \A x \in File : n \in Sub(x) <=> n = x
<1> DEFINE folders   == rows \cap Folder
           closed(a) == {S \in SUBSET folders :
                            \A f \in folders : f = a \/ parent[f] \in S => f \in S}
           inside(a) == {f \in folders : \A S \in closed(a) : f \in S}
<1>1. TreeType /\ parent \in Parents /\ n \in Node
  BY DEF Whole, TreeType, Parents
<1>2. \A a : Sub(a) = inside(a) \cup {x \in rows \cap File : x = a \/ parent[x] \in inside(a)}
  BY DEF Sub
<1>3. ASSUME NEW a \in Folder, NEW f \in folders
      PROVE  f \in inside(a) <=> a \in Anc(f)
  <2>1. ASSUME f \in inside(a) PROVE a \in Anc(f)
    <3> DEFINE S == {g \in folders : a \in Anc(g)}
    <3>1. S \in closed(a)
      <4>1. ASSUME NEW g \in folders, g = a \/ parent[g] \in S PROVE g \in S
        <5>1. Anc(g) = {g} \cup Anc(parent[g])
          BY <1>1, AncStep DEF Anc
        <5> QED
          BY <4>1, <5>1, <1>1, AncIs DEF Anc
      <4> QED
        BY <4>1
    <3> QED
      BY <2>1, <3>1
  <2>2. ASSUME a \in Anc(f), NEW S \in closed(a), f \notin S PROVE FALSE
    <3> DEFINE T == {g \in folders : g \notin S}
    <3>1. T \in SUBSET Folder /\ f \in T
      BY <2>2
    <3>2. Upward(parent, T)
      BY DEF Upward, Whole, TreeType, Node
    <3>3. a \in T
      BY <1>1, <2>2, <3>1, <3>2, AncIs DEF Anc
    <3> QED
      BY <3>3
  <2> QED
    BY <2>1, <2>2
<1>4. ASSUME NEW a \in Folder PROVE n \in Sub(a) <=> a \in Anc(Base(n))
  <2> HIDE DEF inside
  <2>1. inside(a) \subseteq folders
    BY DEF inside
  <2>2. CASE n \in Folder
    BY <1>2, <1>3, <2>2, KindsApart DEF Base
  <2>3. CASE n \in File
    <3>1. n # a /\ n \notin Folder
      BY <2>3, KindsApart
    <3>2. n \in Sub(a) <=> parent[n] \in inside(a)
      BY <1>2, <2>1, <2>3, <3>1
    <3>3. parent[n] \in folders \/ parent[n] = Root
      BY <1>1 DEF Whole, TreeType
    <3>4. CASE parent[n] \in folders
      BY <1>3, <3>1, <3>2, <3>4 DEF Base
    <3>5. CASE parent[n] = Root
      BY <2>1, <3>1, <3>2, <3>5, AncOfRoot, KindsApart DEF Anc, Base, Node
    <3> QED
      BY <3>3, <3>4, <3>5
  <2> QED
    BY <1>1, <2>2, <2>3 DEF Node
<1>5. ASSUME NEW x \in File PROVE n \in Sub(x) <=> n = x
  <2>1. {} \in closed(x)
    BY KindsApart
  <2>2. inside(x) = {}
    BY <2>1
  <2> HIDE DEF inside
  <2> QED
    BY <1>1, <1>2, <1>5, <2>2, KindsApart DEF Node
<1> QED
  BY <1>4, <1>5

(* Who is not the owner is right to ask for what is live, if a grant on it *)
(* or above it suffices.                                                   *)
LEMMA RightIs ==
    ASSUME SharesType, Whole, NEW op, NEW u \in User, NEW n \in Node, u # Owner[n]
    PROVE  Right(op, u, n) <=> Live(n) /\ Enough(u, n, Needed(op))
<1> DEFINE S == {0} \cup {grants[a][u] : a \in Above(n)}
<1>1. CASE ~Live(n)
  BY <1>1 DEF Right
<1>2. CASE Live(n)
  <2>1. n \in rows
    BY <1>2 DEF Live
  <2>2. Above(n) = {n} \cup Anc(Base(n))
    <3>1. Anc(Base(n)) \subseteq rows /\ (n \in Folder => n \in Anc(n))
      <4>1. Base(n) \in Folder \cup {Root}
        BY DEF Base, Whole, TreeType
      <4>2. Base(n) \in Folder => Base(n) \in rows
        BY <2>1, KindsApart DEF Base, Whole, Node
      <4> QED
        BY <4>1, <4>2, LiveAbove, AncOfRoot, AncIs DEF Whole, TreeType, Parents, Anc
    <3>2. n \in Folder => Base(n) = n
      BY DEF Base
    <3>3. \A a \in rows : a \in Folder \/ a \in File
      BY DEF Whole, TreeType, Node
    <3>4. Anc(Base(n)) \subseteq Folder
      BY DEF Anc, AncBy
    <3>5. ASSUME NEW a \in Above(n) PROVE a \in {n} \cup Anc(Base(n))
      BY <2>1, <3>3, <3>5, SubIs DEF Above
    <3>6. ASSUME NEW a \in Anc(Base(n)) PROVE a \in Above(n)
      BY <2>1, <3>1, <3>4, <3>6, SubIs DEF Above
    <3>7. n \in Above(n)
      BY <2>1, <3>1, <3>2, <3>3, SubIs DEF Above
    <3> QED
      BY <3>5, <3>6, <3>7
  <2>3. S \in SUBSET (0..2) /\ S # {}
    <3>1. Above(n) \subseteq Node
      BY DEF Above, Whole, TreeType
    <3> QED
      BY <3>1 DEF SharesType
  <2>4. Best(S) \in S /\ \A b \in S : b \leq Best(S)
    BY <2>3, BestIs
  <2>5. Level(u, n) = Best(S)
    BY DEF Level
  <2>6. ASSUME NEW l \in {1, 2} PROVE Best(S) >= l <=> Enough(u, n, l)
    <3>1. ASSUME Best(S) >= l PROVE Enough(u, n, l)
      <4> DEFINE b == Best(S)
      <4>0. b \in S /\ b \in 0..2 /\ b >= l
        BY <2>3, <2>4, <3>1
      <4> HIDE DEF b
      <4>1. b # 0
        BY <4>0
      <4>2. PICK a \in Above(n) : grants[a][u] = b
        BY <4>0, <4>1
      <4> QED
        BY <2>2, <4>0, <4>2 DEF Enough
    <3>2. ASSUME Enough(u, n, l) PROVE Best(S) >= l
      <4>1. PICK a \in Above(n) : grants[a][u] >= l
        BY <2>2, <3>2 DEF Enough
      <4>2. grants[a][u] \in S
        BY <4>1
      <4> DEFINE b == Best(S)
                 g == grants[a][u]
      <4>3. b \in 0..2 /\ g \in 0..2 /\ g \leq b /\ g >= l
        BY <2>3, <2>4, <4>1, <4>2
      <4> HIDE DEF b, g
      <4>4. b >= l
        BY <4>3
      <4> QED
        BY <4>4 DEF b
    <3> QED
      BY <3>1, <3>2
  <2>7. Needed(op) \in {1, 2} /\ Needed(op) = IF op = "download" THEN 2 ELSE 1
    BY DEF Needed
  <2>8. Right(op, u, n) <=> Level(u, n) >= Needed(op)
    BY <1>2, <2>7 DEF Right
  <2> QED
    BY <1>2, <2>5, <2>6, <2>7, <2>8
<1> QED
  BY <1>1, <1>2

(* An owner's own items are hers.                                          *)
LEMMA OwnRightIs ==
    ASSUME NEW op, NEW n \in Node
    PROVE  Right(op, Owner[n], n) <=> n \in rows /\ (op = "preview" \/ Live(n))
BY DEF Right

(* A grant for downloads is one to see.                                    *)
LEMMA EnoughForLess ==
    ASSUME SharesType, TreeType, NEW u \in User, NEW n \in Node, Enough(u, n, 2)
    PROVE  Enough(u, n, 1)
<1>1. PICK a \in {n} \cup Anc(Base(n)) : grants[a][u] >= 2
  BY DEF Enough
<1>2. a \in Node
  BY DEF Anc, AncBy, Node
<1>3. grants[a][u] \in 0..2
  BY <1>2 DEF SharesType
<1>4. grants[a][u] >= 1
  BY <1>1, <1>3
<1> QED
  BY <1>4 DEF Enough

(* A folder that goes to none that it is above leaves no circle.           *)
LEMMA MoveKeepsForest ==
    ASSUME NEW up \in Parents, Forest(up), NEW n \in Node, NEW p \in Folder \cup {Root},
           n \notin AncBy(up, p)
    PROVE  [up EXCEPT ![n] = p] \in Parents /\ Forest([up EXCEPT ![n] = p])
<1> DEFINE to == [up EXCEPT ![n] = p]
<1>1. to \in Parents /\ to[n] = p /\ \A f \in Folder : f # n => to[f] = up[f]
  BY DEF Parents, Node
<1> HIDE DEF to
<1>2. ASSUME NEW S \in SUBSET Folder, S # {}, \A f \in S : to[f] \in S PROVE FALSE
  <2>1. n \in S
    <3>1. PICK f \in S : up[f] \notin S
      BY <1>2 DEF Forest
    <3> QED
      BY <1>1, <1>2, <3>1
  <2>2. p \in S
    BY <1>1, <1>2, <2>1
  <2> DEFINE T == {f \in S : n \notin AncBy(up, f)}
  <2>3. p \in T /\ T \in SUBSET Folder
    BY <2>2
  <2>4. ASSUME NEW f \in T PROVE up[f] \in T
    <3>1. f \in Folder /\ AncBy(up, f) = {f} \cup AncBy(up, up[f])
      BY AncStep
    <3>2. f # n
      BY <3>1, <2>4
    <3>3. up[f] \in S
      BY <1>1, <1>2, <3>1, <3>2
    <3> QED
      BY <2>4, <3>1, <3>3
  <2> QED
    BY <2>3, <2>4 DEF Forest
<1> QED
  BY <1>1, <1>2 DEF Forest, to

(* A commit of the owner leaves a whole tree: what is live stays live but  *)
(* for what a deletion takes, which is all there is under it.              *)
LEMMA MoveIs ==
    ASSUME Whole, NEW n \in Node, NEW p \in Folder \cup {Root}, Move(n, p)
    PROVE  /\ Whole' /\ rows' = rows /\ trashed' = trashed
           /\ parent' = [parent EXCEPT ![n] = p] /\ n \notin Anc(p)
<1>1. /\ TreeType /\ parent \in Parents /\ parent' = [parent EXCEPT ![n] = p]
      /\ UNCHANGED <<rows, ids, trashed>> /\ Live(n) /\ (p = Root \/ Live(p))
  BY DEF Whole, TreeType, Parents, Move, LiveParent
<1>2. n \notin Anc(p)
  <2>1. CASE p = Root
    BY <2>1, AncOfRoot DEF Anc
  <2>2. CASE p \in Folder
    <3>1. p \in rows /\ Base(p) = p /\ p # Root
      BY <1>1, <2>2, KindsApart DEF Live, Base, Node
    <3>2. n \in Folder => n \notin Anc(p)
      BY <3>1, SubIs DEF Move
    <3> QED
      BY <3>2 DEF Anc, AncBy
  <2> QED
    BY <2>1, <2>2
<1>3. parent' \in Parents /\ Forest(parent')
  BY <1>1, <1>2, MoveKeepsForest DEF Whole, Anc
<1>4. TreeType'
  BY <1>1 DEF TreeType
<1>5. \A m \in Node : parent'[m] = IF m = n THEN p ELSE parent[m]
  BY <1>1 DEF Parents
<1>6. \A m \in rows : parent'[m] \in rows \cup {Root}
  BY <1>1, <1>5 DEF Whole, TreeType, Live
<1>7. \A m \in Node \ rows : parent'[m] = Root
  BY <1>1, <1>5 DEF Whole, Live
<1>8. \A m \in rows \ trashed : parent'[m] = Root \/ Live(parent'[m])
  BY <1>1, <1>5 DEF Whole, TreeType, Live
<1>9. Whole'
  BY <1>1, <1>3, <1>4, <1>6, <1>7, <1>8 DEF Whole, Live
<1> QED
  BY <1>1, <1>2, <1>9

\* A deletion.
LEMMA TrashIs ==
    ASSUME Whole, NEW n \in Node, Trash(n)
    PROVE  /\ Whole' /\ UNCHANGED <<rows, parent>>
           /\ \A m \in Node : m \in rows' \ trashed' => Live(m)
           /\ \A m \in Node : \A a \in Anc(Base(m)) :
                 m \in rows' \ trashed' => a \in rows' \ trashed'
<1>1. /\ TreeType /\ parent \in Parents /\ trashed' = trashed \cup Sub(n)
      /\ UNCHANGED <<rows, ids, parent>> /\ Live(n)
  BY DEF Whole, TreeType, Parents, Trash
<1>2. \A m \in Node : m \in rows' \ trashed' <=> Live(m) /\ m \notin Sub(n)
  BY <1>1 DEF Live
<1>3. Sub(n) \subseteq rows
  BY DEF Sub
<1>4. \A m \in rows : /\ n \in Folder => (m \in Sub(n) <=> n \in Anc(Base(m)))
                      /\ n \in File => (m \in Sub(n) <=> m = n)
  BY SubIs
<1>5. ASSUME NEW m \in Node, NEW a \in Anc(Base(m)), m \in rows' \ trashed'
      PROVE  a \in rows' \ trashed'
  <2>1. Live(m) /\ m \in rows /\ m \notin Sub(n)
    BY <1>2, <1>5 DEF Live
  <2>2. a \in Folder /\ Base(m) \in Folder
    BY <1>5 DEF Anc, AncBy
  <2>3. Live(Base(m))
    BY <2>1, <2>2, KindsApart DEF Whole, Base, Node, Live
  <2>4. Live(a)
    BY <2>2, <2>3, LiveAbove
  <2>5. a \notin Sub(n)
    <3>1. CASE n \in File
      BY <1>4, <2>2, <2>4, <3>1, KindsApart DEF Live
    <3>2. CASE n \in Folder
      <4>1. Anc(a) \subseteq Anc(Base(m))
        BY <1>1, <1>5, <2>2, AncIs DEF Anc
      <4>2. Base(a) = a
        BY <2>2 DEF Base
      <4> QED
        BY <1>4, <2>1, <2>4, <3>2, <4>1, <4>2 DEF Live
    <3> QED
      BY <3>1, <3>2 DEF Node
  <2> QED
    BY <1>2, <2>2, <2>4, <2>5 DEF Node
<1>6. ASSUME NEW m \in rows \ trashed' PROVE parent[m] = Root \/ parent[m] \in rows' \ trashed'
  <2>1. m \in Node /\ m \in rows' \ trashed' /\ Live(m) /\ m \in rows
    BY <1>1, <1>6 DEF TreeType, Live
  <2>2. CASE parent[m] \in Folder
    <3>1. parent[m] \in Anc(Base(m))
      <4>1. CASE m \in Folder
        BY <1>1, <2>2, <4>1, AncIs, KindsApart DEF Anc, Base, Upward, Node
      <4>2. CASE m \notin Folder
        BY <1>1, <2>2, <4>2, AncIs DEF Anc, Base
      <4> QED
        BY <4>1, <4>2
    <3> QED
      BY <1>5, <2>1, <3>1
  <2> QED
    BY <1>1, <2>1, <2>2 DEF TreeType
<1>7. TreeType'
  BY <1>1, <1>3 DEF TreeType
<1>8. Whole'
  <2>1. \A m \in rows' \ trashed' : parent'[m] = Root \/ parent'[m] \in rows' \ trashed'
    BY <1>1, <1>6
  <2> QED
    BY <1>1, <1>7, <2>1 DEF Whole, Live
<1> QED
  BY <1>1, <1>2, <1>5, <1>8

\* A restore.
LEMMA RestoreIs ==
    ASSUME Whole, NEW S \in SUBSET trashed, NEW n \in S, Restore(n, S)
    PROVE  /\ Whole' /\ UNCHANGED <<rows, parent>>
           /\ \A m \in Node : Live(m) => m \in rows' \ trashed'
<1>1. /\ TreeType /\ trashed' = trashed \ S /\ UNCHANGED <<rows, ids, parent>>
      /\ parent[n] \notin trashed /\ \A m \in S \ {n} : parent[m] \in S
  BY DEF Whole, Restore
<1>2. TreeType'
  BY <1>1 DEF TreeType
<1>3. ASSUME NEW m \in rows \ trashed' PROVE parent[m] = Root \/ parent[m] \in rows' \ trashed'
  BY <1>1 DEF Whole, Live, TreeType
<1>4. Whole'
  <2>1. \A m \in rows' \ trashed' : parent'[m] = Root \/ parent'[m] \in rows' \ trashed'
    BY <1>1, <1>3
  <2> QED
    BY <1>1, <1>2, <2>1 DEF Whole, Live
<1> QED
  BY <1>1, <1>4 DEF Live

\* A purge.
LEMMA PurgeIs ==
    ASSUME Whole, NEW D \in SUBSET trashed, Purge(D)
    PROVE  /\ Whole' /\ rows' = rows \ D
           /\ \A m \in Node : m \in rows' \ trashed' <=> Live(m)
           /\ \A m \in Node : Live(m) => parent'[m] = parent[m]
<1>1. /\ TreeType /\ parent \in Parents /\ rows' = rows \ D /\ trashed' = trashed \ D
      /\ parent' = [m \in Node |-> IF m \in D THEN Root ELSE parent[m]] /\ ids' = ids
      /\ \A m \in rows \ D : parent[m] \notin D
  BY DEF Whole, TreeType, Parents, Purge
<1>2. /\ TreeType' /\ parent' \in Parents
      /\ \A m \in Node : parent'[m] = IF m \in D THEN Root ELSE parent[m]
  BY <1>1 DEF TreeType, Parents
<1>3. \A m \in Node : m \in rows' \ trashed' <=> Live(m)
  BY <1>1 DEF Live
<1>4. Forest(parent')
  <2> SUFFICES ASSUME NEW S \in SUBSET Folder \ {{}}, \A f \in S : parent'[f] \in S
               PROVE  FALSE
    BY DEF Forest
  <2>1. \A f \in S : parent[f] \in S
    BY <1>2, KindsApart DEF Node
  <2> QED
    BY <2>1 DEF Whole, Forest
<1>5. \A m \in rows' : parent'[m] \in rows' \cup {Root}
  BY <1>1, <1>2 DEF Whole, TreeType
<1>6. \A m \in Node \ rows' : parent'[m] = Root
  BY <1>1, <1>2 DEF Whole
<1>7. \A m \in rows' \ trashed' : parent'[m] = Root \/ parent'[m] \in rows' \ trashed'
  BY <1>1, <1>2 DEF Whole, TreeType, Live
<1>8. Whole'
  BY <1>2, <1>4, <1>5, <1>6, <1>7 DEF Whole, Live
<1> QED
  BY <1>1, <1>2, <1>3, <1>8 DEF Live

(* What a climb has behind it leads where it is, as long as none of it     *)
(* moves; and it does not meet what it has behind it.                      *)
LEMMA PathStays ==
    ASSUME NEW up \in Parents, NEW to \in Parents, Forest(up), Forest(to),
           NEW P \in SUBSET Folder, NEW b \in Folder \cup {Root}, NEW c \in Folder \cup {Root},
           AncBy(up, b) = P \cup AncBy(up, c), P \cap AncBy(up, c) = {},
           \A f \in P : up[f] \in P \cup {c} /\ to[f] = up[f], b \in P \cup {c}
    PROVE  AncBy(to, b) = P \cup AncBy(to, c) /\ P \cap AncBy(to, c) = {}
<1>0. Root \notin Folder
  BY KindsApart DEF Node
<1>1. /\ c \in Folder => c \in AncBy(to, c) /\ c \in AncBy(up, c)
      /\ AncBy(to, c) \in SUBSET Folder /\ Upward(to, AncBy(to, c))
      /\ AncBy(up, c) \in SUBSET Folder /\ Upward(up, AncBy(up, c))
      /\ AncBy(to, Root) = {} /\ AncBy(up, Root) = {}
  BY AncIs, AncOfRoot DEF Upward
<1>2. CASE b = Root
  <2>1. P = {} /\ c = Root
    BY <1>0, <1>1, <1>2
  <2> QED
    BY <1>1, <1>2, <2>1
<1>3. CASE b \in Folder
  <2>1. AncBy(to, b) \subseteq P \cup AncBy(to, c)
    <3>1. Upward(to, P \cup AncBy(to, c)) /\ b \in P \cup AncBy(to, c)
      BY <1>1, <1>3 DEF Upward
    <3> QED
      BY <1>1, <1>3, <3>1, AncIs
  <2>2. P \subseteq AncBy(to, b)
    <3> DEFINE T == (AncBy(to, b) \cap P) \cup AncBy(up, c)
    <3>1. b \in AncBy(to, b) /\ Upward(to, AncBy(to, b))
      BY <1>3, AncIs
    <3>2. T \in SUBSET Folder /\ b \in T
      BY <1>1, <1>3, <3>1
    <3>3. Upward(up, T)
      BY <1>1, <3>1 DEF Upward
    <3>4. AncBy(up, b) \subseteq T
      BY <1>3, <3>2, <3>3, AncIs
    <3> QED
      BY <3>4
  <2>3. AncBy(to, c) \subseteq AncBy(to, b)
    <3>1. CASE c = Root
      BY <1>1, <3>1
    <3>2. CASE c \in Folder
      <4>1. c \in AncBy(to, b)
        <5>1. CASE P = {}
          BY <1>1, <3>2, <5>1
        <5>2. CASE P # {}
          <6>1. PICK f \in P : up[f] \notin P
            BY <5>2 DEF Forest
          <6>2. f \in AncBy(to, b) /\ to[f] = c
            BY <2>2, <6>1
          <6>3. Upward(to, AncBy(to, b))
            BY <1>3, AncIs
          <6> QED
            BY <1>0, <3>2, <6>2, <6>3 DEF Upward
        <5> QED
          BY <5>1, <5>2
      <4> QED
        BY <1>3, <3>2, <4>1, AncIs
    <3> QED
      BY <3>1, <3>2
  <2>4. ASSUME NEW g \in P, g \in AncBy(to, c) PROVE FALSE
    <3> DEFINE S == P \cup {f \in AncBy(to, c) : P \cap AncBy(to, f) # {}}
    <3>1. c \in Folder /\ c \in S
      BY <1>1, <2>4
    <3>2. ASSUME NEW f \in S PROVE to[f] \in S
      <4>1. CASE f \in P
        BY <3>1, <4>1
      <4>2. CASE f \notin P
        <5>1. f \in AncBy(to, c) /\ P \cap AncBy(to, f) # {}
          BY <3>2, <4>2
        <5>2. f \in Folder /\ AncBy(to, f) = {f} \cup AncBy(to, to[f])
          BY <1>1, <5>1, AncStep
        <5>3. P \cap AncBy(to, to[f]) # {}
          BY <4>2, <5>1, <5>2
        <5>4. to[f] \in AncBy(to, c)
          BY <1>1, <5>1, <5>3 DEF Upward
        <5> QED
          BY <5>3, <5>4
      <4> QED
        BY <4>1, <4>2
    <3>3. S \in (SUBSET Folder) \ {{}}
      BY <1>1, <3>1
    <3> QED
      BY <3>2, <3>3 DEF Forest
  <2> QED
    BY <2>1, <2>2, <2>3, <2>4
<1> QED
  BY <1>2, <1>3

(* The next question of a request is its last, or if it may see.           *)
LEMMA HeadIs ==
    ASSUME NEW op, NEW s \in Open(op)
    PROVE  /\ Head(s) \in {1, 2} /\ Needed(op) \in {1, 2}
           /\ ~(Len(s) > 1) => Head(s) = Needed(op)
           /\ Len(s) > 1 => Head(s) = 1 /\ Needed(op) = 2
<1>1. /\ Len(<<1>>) = 1 /\ Head(<<1>>) = 1 /\ Len(<<2>>) = 1 /\ Head(<<2>>) = 2
      /\ Len(<<1, 2>>) = 2 /\ Head(<<1, 2>>) = 1
  OBVIOUS
<1>2. CASE op = "download"
  <2>1. s \in {<<1, 2>>, <<2>>} /\ Needed(op) = 2
    BY <1>2 DEF Open, Needed
  <2>2. CASE s = <<1, 2>>
    BY <1>1, <2>1, <2>2
  <2>3. CASE s = <<2>>
    BY <1>1, <2>1, <2>3
  <2> QED
    BY <2>1, <2>2, <2>3
<1>3. CASE op # "download"
  <2>1. s = <<1>> /\ Needed(op) = 1
    BY <1>3 DEF Open, Needed
  <2> QED
    BY <1>1, <2>1
<1> QED
  BY <1>2, <1>3

(* Who sees what there is to be seen comes to what is right.               *)
LEMMA WhoSeesIsRight ==
    ASSUME SharesType, Whole, NEW q \in Ask, q.needs \in Open(q.op),
           q.step \in {"climb", "read"}, q.user # Owner[q.node], Live(q.node),
           Sees(q, Head(q.needs)) <=> Enough(q.user, q.node, Head(q.needs))
    PROVE  Fated(q) <=> RightNow(q)
<1>1. q.user \in User /\ q.node \in Node
  BY DEF Ask
<1>2. RightNow(q) <=> Enough(q.user, q.node, Needed(q.op))
  BY <1>1, RightIs DEF RightNow
<1>3. Fated(q) <=> Sees(q, Head(q.needs)) /\ (Len(q.needs) > 1 => RightNow(q))
  BY DEF Fated
<1>4. CASE ~(Len(q.needs) > 1)
  BY <1>2, <1>3, <1>4, HeadIs
<1>5. CASE Len(q.needs) > 1
  <2>1. Enough(q.user, q.node, 2) => Enough(q.user, q.node, 1)
    BY <1>1, EnoughForLess DEF Whole
  <2>2. Head(q.needs) = 1 /\ Needed(q.op) = 2
    BY <1>5, HeadIs
  <2> QED
    BY <1>2, <1>3, <1>5, <2>1, <2>2
<1> QED
  BY <1>4, <1>5

(* If nothing was committed, a request comes to what is right.             *)
LEMMA UndisturbedIsRight ==
    ASSUME SharesType, Whole, NEW q \in Ask, QuestionsStand(q), Stands(q), Undisturbed(q),
           q.step \in Asking \cup {"bytes"}
    PROVE  Fated(q) <=> RightNow(q)
<1>1. q.user \in User /\ q.node \in Node /\ parent \in Parents
  BY DEF Ask, Whole, TreeType, Parents
<1>2. CASE q.step = "reach"
  <2>1. Live(q.node) /\ q.cursor \in Anc(q.node) \cup {Root} /\ q.op = "browse" /\ q.node \in Folder
    BY <1>2 DEF Undisturbed, Stands, Asking
  <2>2. q.cursor = Root \/ Live(q.cursor)
    BY <2>1, LiveAbove
  <2>3. q.user = Owner[q.node] => RightNow(q)
    BY <2>1 DEF RightNow, Right, Live
  <2> QED
    BY <1>2, <2>2, <2>3 DEF Fated
<1>3. CASE q.step = "vet"
  BY <1>3 DEF Fated
<1>4. CASE q.step \in {"climb", "read"}
  <2>1. Live(q.node) /\ q.user # Owner[q.node] /\ q.needs \in Open(q.op)
    BY <1>4 DEF Undisturbed, Stands, Asking, QuestionsStand
  <2>2. Sees(q, Head(q.needs)) <=> Enough(q.user, q.node, Head(q.needs))
    BY <1>4, <2>1, HeadIs DEF Undisturbed
  <2> QED
    BY <1>4, <2>1, <2>2, WhoSeesIsRight
<1>5. CASE q.step = "bytes"
  BY <1>5 DEF Undisturbed, Fated, RightNow, Right, Live
<1> QED
  BY <1>2, <1>3, <1>4, <1>5 DEF Asking

-----------------------------------------------------------------------------
(* The answers: the steps of a request.                                    *)

(* A step of one request goes on as one that stands, and an answer is what *)
(* it has come to.                                                         *)
MomentStep(r) ==
    \E q \in Ask :
        /\ Go(r, q) /\ Stands(q) /\ Momentary(q)
        /\ q.step \in {"climb", "read"} => conn' = r
        /\ Busy(r) /\ ask[r].changes < 2 =>
              \/ q.step \in Asking \cup {"bytes"}
              \/ q.step = "served" <=> Fated(ask[r])

\* An answer.
LEMMA AnswerIsRight ==
    ASSUME NEW r \in Reader, NEW yes, Answer(r, yes),
           Busy(r) /\ ask[r].changes < 2 => (yes <=> Fated(ask[r]))
    PROVE  MomentStep(r)
<1>1. ASSUME NEW step \in {"served", "refused"}
      PROVE  /\ Rest(step) \in Ask /\ Rest(step).step = step
             /\ Stands(Rest(step)) /\ Momentary(Rest(step))
  BY RestIs DEF Steps, Stands, Momentary, Asking
<1>2. CASE yes
  BY <1>1, <1>2 DEF Answer, MomentStep
<1>3. CASE ~yes
  BY <1>1, <1>3 DEF Answer, MomentStep
<1> QED
  BY <1>2, <1>3

\* A request that goes on with the same question.
LEMMA GoesOnRight ==
    ASSUME MInv, NEW r \in Reader, NEW q \in Ask, Go(r, q), Busy(r),
           q.op = ask[r].op, q.user = ask[r].user, q.node = ask[r].node,
           q.changes = ask[r].changes, q.before = ask[r].before,
           q.step \in Asking \cup {"bytes"}, Stands(q), q.step \in {"climb", "read"} => conn' = r,
           Undisturbed(ask[r]) => Undisturbed(q),
           Walks(ask[r]) => Walks(q) /\ (Fated(q) <=> Fated(ask[r]))
    PROVE  MomentStep(r)
<1>1. Momentary(ask[r]) /\ ask[r].step \in Asking \cup {"bytes"}
  BY DEF MInv, Moments, Busy, Asking
<1>2. RightNow(q) <=> RightNow(ask[r])
  BY DEF RightNow
<1>3. Momentary(q)
  BY <1>1, <1>2 DEF Momentary, Fair
<1> QED
  BY <1>3 DEF MomentStep

\* A request that begins.
LEMMA OpenIsRight ==
    ASSUME MInv, NEW r \in Reader, NEW u \in User,
           \/ \E n \in File, op \in {"preview", "download"} : OpenFile(r, op, u, n)
           \/ \E n \in Folder : OpenFolder(r, u, n)
    PROVE  MomentStep(r)
<1>1. SharesType /\ ~Busy(r) /\ parent \in Parents
  BY DEF MInv, IInv, OpenFile, OpenFolder, SharesType, TreeType, Parents
<1>2. ASSUME NEW op \in {"preview", "download", "browse"}, NEW n \in Node,
             NEW step \in {"reach", "vet", "bytes"}, Go(r, Question(op, u, n, step)),
             step = "bytes" => u = Owner[n] /\ Right(op, u, n),
             step = "vet" => u # Owner[n] /\ Live(n),
             step = "reach" => op = "browse" /\ n \in Folder /\ Live(n)
      PROVE  MomentStep(r)
  <2> DEFINE q == Question(op, u, n, step)
  <2>1. q \in Ask
    BY <1>1, <1>2, QuestionIsSound
  <2>2. /\ q.step = step /\ q.op = op /\ q.user = u /\ q.node = n /\ q.cursor = parent[n]
        /\ q.changes = 0
    BY DEF Question, Rest
  <2> HIDE DEF q
  <2>3. Stands(q)
    BY <1>2, <2>2 DEF Stands
  <2>4. step = "reach" => parent[n] \in Anc(n) \cup {Root}
    BY <1>1, <1>2, AncIs DEF Anc, Upward
  <2>5. Undisturbed(q)
    BY <1>2, <2>2, <2>4 DEF Undisturbed, RightNow, Asking
  <2>6. Momentary(q)
    BY <2>2, <2>5 DEF Momentary
  <2>7. Go(r, q) /\ q.step \notin {"climb", "read"}
    BY <1>2, <2>2 DEF q
  <2> QED
    BY <1>1, <2>1, <2>3, <2>6, <2>7 DEF MomentStep
<1>3. ASSUME Answer(r, FALSE) PROVE MomentStep(r)
  BY <1>1, <1>3, AnswerIsRight
<1>4. ASSUME NEW n \in File, NEW op \in {"preview", "download"}, OpenFile(r, op, u, n)
      PROVE  MomentStep(r)
  <2>1. CASE n \in rows /\ u = Owner[n]
    BY <1>2, <1>3, <1>4, <2>1 DEF OpenFile, Right, Node
  <2>2. CASE ~(n \in rows /\ u = Owner[n])
    BY <1>2, <1>3, <1>4, <2>2 DEF OpenFile, Live, Node
  <2> QED
    BY <2>1, <2>2
<1>5. ASSUME NEW n \in Folder, OpenFolder(r, u, n) PROVE MomentStep(r)
  BY <1>2, <1>3, <1>5 DEF OpenFolder, Node
<1> QED
  BY <1>4, <1>5

\* The walk over the ancestors.
LEMMA ReachIsRight ==
    ASSUME MInv, NEW r \in Reader, Reach(r)
    PROVE  MomentStep(r)
<1> DEFINE p == ask[r]
<1>1. /\ SharesType /\ Whole /\ parent \in Parents /\ Stands(p)
      /\ p \in Ask /\ p.step = "reach" /\ Busy(r)
  BY DEF MInv, Moments, IInv, SharesType, Reach, Busy, Whole, TreeType, Parents
<1>2. p.op = "browse" /\ p.node \in Folder
  BY <1>1 DEF Stands
<1>3. CASE p.cursor = Root /\ p.user = Owner[p.node] /\ Answer(r, TRUE)
  <2>1. Fated(p)
    BY <1>1, <1>3 DEF Fated
  <2> QED
    BY <1>3, <2>1, AnswerIsRight
<1>4. CASE p.cursor = Root /\ p.user # Owner[p.node] /\ Go(r, [p EXCEPT !.step = "vet"])
  <2> DEFINE q == [p EXCEPT !.step = "vet"]
  <2>1. /\ q \in Ask /\ q.step = "vet" /\ q.op = p.op /\ q.user = p.user /\ q.node = p.node
        /\ q.changes = p.changes /\ q.before = p.before
    BY <1>1 DEF Ask
  <2>2. Go(r, q)
    BY <1>4
  <2> HIDE DEF q
  <2>3. Stands(q)
    BY <1>4, <2>1 DEF Stands
  <2>4. (Undisturbed(p) => Undisturbed(q)) /\ (Walks(p) => Walks(q))
    BY <1>1, <2>1 DEF Undisturbed, Walks, Asking
  <2>5. Fated(q) <=> Fated(p)
    BY <1>1, <1>4, <2>1 DEF Fated, RightNow
  <2>6. q.step \in Asking /\ q.step \notin {"climb", "read"}
    BY <2>1 DEF Asking
  <2> HIDE DEF p
  <2> QED
    BY <1>1, <2>1, <2>2, <2>3, <2>4, <2>5, <2>6, GoesOnRight DEF p
<1>5. CASE p.cursor \in Folder /\ Live(p.cursor) /\ Go(r, [p EXCEPT !.cursor = parent[p.cursor]])
  <2> DEFINE up == parent[p.cursor]
             q  == [p EXCEPT !.cursor = up]
  <2>1. up \in Folder \cup {Root} /\ (up = Root \/ Live(up))
    BY <1>1, <1>5 DEF Parents, Whole, Live, Node
  <2>2. Go(r, q)
    BY <1>5
  <2>3. p.cursor \in Anc(p.node) => up \in Anc(p.node) \cup {Root}
    BY <1>1, <1>2, <1>5, AncIs DEF Anc, Upward
  <2> HIDE DEF up
  <2>4. /\ q \in Ask /\ q.step = "reach" /\ q.op = p.op /\ q.user = p.user /\ q.node = p.node
        /\ q.changes = p.changes /\ q.before = p.before /\ q.cursor = up
    BY <1>1, <2>1 DEF Ask
  <2> HIDE DEF q
  <2>5. Stands(q)
    BY <1>1, <2>4 DEF Stands
  <2>6. p.cursor # Root
    BY <1>5, KindsApart DEF Node
  <2>7. (Undisturbed(p) => Undisturbed(q)) /\ (Walks(p) => Walks(q))
    BY <1>1, <2>3, <2>4, <2>6 DEF Undisturbed, Walks, Asking
  <2>8. Fated(q) <=> Fated(p)
    BY <1>1, <1>5, <2>1, <2>4 DEF Fated, RightNow
  <2>9. q.step \in Asking /\ q.step \notin {"climb", "read"}
    BY <2>4 DEF Asking
  <2> HIDE DEF p
  <2> QED
    BY <1>1, <2>2, <2>4, <2>5, <2>7, <2>8, <2>9, GoesOnRight DEF p
<1>6. CASE p.cursor \in Folder /\ ~Live(p.cursor) /\ Answer(r, FALSE)
  <2>1. p.cursor # Root
    BY <1>6, KindsApart DEF Node
  <2>2. ~Fated(p)
    BY <1>1, <1>6, <2>1 DEF Fated
  <2> QED
    BY <1>6, <2>2, AnswerIsRight
<1> QED
  BY <1>3, <1>4, <1>5, <1>6 DEF Reach

(* What is above a live item is live, and the root has nothing above it.   *)
LEMMA LiveAncIs ==
    ASSUME Whole
    PROVE  /\ \A c \in Folder \cup {Root} : c = Root \/ Live(c) => LiveAnc(c) = Anc(c)
           /\ \A n \in Node : Base(n) \in Folder \cup {Root}
           /\ \A n \in Node : Live(n) => /\ Base(n) = Root \/ Live(Base(n))
                                         /\ LiveAnc(Base(n)) = Anc(Base(n))
<1>1. \A c \in Folder \cup {Root} : c = Root \/ Live(c) => LiveAnc(c) = Anc(c)
  BY AncOfRoot DEF LiveAnc, Anc
<1>2. \A n \in Node : Base(n) \in Folder \cup {Root}
  BY DEF Whole, TreeType, Base
<1>3. \A n \in Node : Live(n) => Base(n) = Root \/ Live(Base(n))
  BY DEF Whole, Base, Live
<1> QED
  BY <1>1, <1>2, <1>3

\* The look at the target.
LEMMA VetIsRight ==
    ASSUME MInv, NEW r \in Reader, VetTarget(r)
    PROVE  MomentStep(r)
<1> DEFINE p == ask[r]
<1>1. /\ SharesType /\ Whole /\ Stands(p) /\ QuestionsStand(p)
      /\ p \in Ask /\ p.step = "vet" /\ Busy(r)
  BY DEF MInv, Moments, IInv, SharesType, Sound, VetTarget, Busy
<1>2. p.node \in Node /\ p.user \in User /\ p.user # Owner[p.node] /\ p.needs \in Open(p.op)
  BY <1>1 DEF Stands, QuestionsStand, Asking, Ask
<1>3. CASE Live(p.node)
  <2> DEFINE q == [p EXCEPT !.step = "climb", !.chain = <<>>, !.best = NoGrant]
  <2>1. Go(r, q) /\ conn' = r
    BY <1>3 DEF VetTarget
  <2>2. <<>> \in Seq(Node) /\ 0 \in NoGrant..Download
    OBVIOUS
  <2>3. /\ q \in Ask /\ q.step = "climb" /\ q.op = p.op /\ q.user = p.user /\ q.node = p.node
        /\ q.changes = p.changes /\ q.before = p.before /\ q.chain = <<>> /\ q.best = 0
        /\ q.needs = p.needs
    BY <1>1, <2>2 DEF Ask
  <2> HIDE DEF q
  <2>4. Stands(q)
    BY <1>2, <2>3 DEF Stands
  <2>5. Ahead(q) = {p.node} \cup Anc(Base(p.node))
    BY <1>1, <1>2, <1>3, <2>3, LiveAncIs DEF Ahead
  <2>6. \A l \in {1, 2} : Sees(q, l) <=> Enough(q.user, q.node, l)
    BY <2>3, <2>5 DEF Sees, Enough
  <2>7. Fated(q) <=> RightNow(q)
    BY <1>1, <1>2, <1>3, <2>3, <2>6, HeadIs, WhoSeesIsRight
  <2>8. Fated(q) <=> Fated(p)
    BY <1>1, <2>3, <2>7 DEF Fated, RightNow
  <2>9. 1..Len(<<>>) = {}
    OBVIOUS
  <2>10. Undisturbed(q)
    BY <1>3, <2>3, <2>6, <2>9 DEF Undisturbed, Chained, Asking
  <2>11. Walks(q)
    BY <1>3, <2>3 DEF Walks, Live
  <2>12. q.step \in Asking
    BY <2>3 DEF Asking
  <2> HIDE DEF p
  <2> QED
    BY <1>1, <2>1, <2>3, <2>4, <2>8, <2>10, <2>11, <2>12, GoesOnRight DEF p
<1>4. CASE ~Live(p.node)
  <2>1. Answer(r, FALSE)
    BY <1>4 DEF VetTarget
  <2>2. ~Fated(p)
    BY <1>1, <1>2, <1>4 DEF Fated, RightNow, Right
  <2> QED
    BY <2>1, <2>2, AnswerIsRight
<1> QED
  BY <1>3, <1>4

\* The climb starts where the item is.
LEMMA StartIsRight ==
    ASSUME MInv, NEW r \in Reader, Start(r)
    PROVE  MomentStep(r)
<1> DEFINE p == ask[r]
           c == Base(p.node)
           q == [p EXCEPT !.chain = <<p.node>>, !.cursor = c]
<1>1. /\ SharesType /\ Whole /\ Stands(p) /\ Go(r, q) /\ conn = r /\ conn' = conn
      /\ p \in Ask /\ p.step = "climb" /\ p.chain = <<>> /\ Busy(r)
  BY DEF MInv, Moments, Holds, IInv, SharesType, Start, Busy, Base
<1>2. p.node \in Node /\ c \in Folder \cup {Root}
  BY <1>1, LiveAncIs DEF Ask
<1>3. <<p.node>> \in Seq(Node) /\ <<p.node>> # <<>>
  BY <1>2
<1>4. 1..Len(<<p.node>>) = {1} /\ 2..Len(<<p.node>>) = {} /\ <<p.node>>[1] = p.node
  OBVIOUS
<1> HIDE DEF c
<1>5. /\ q \in Ask /\ q.step = "climb" /\ q.op = p.op /\ q.user = p.user /\ q.node = p.node
      /\ q.changes = p.changes /\ q.before = p.before /\ q.chain = <<p.node>> /\ q.best = p.best
      /\ q.needs = p.needs /\ q.cursor = c
  BY <1>1, <1>2, <1>3 DEF Ask
<1>6. Go(r, q)
  BY <1>1
<1> HIDE DEF q
<1>7. Stands(q)
  BY <1>1, <1>5 DEF Stands
<1>8. Chained(q) = {p.node} /\ Visited(q) = {}
  BY <1>4, <1>5 DEF Chained, Visited
<1>9. Ahead(q) = Ahead(p)
  BY <1>1, <1>3, <1>5, <1>8 DEF Ahead, c
<1>10. \A l : Sees(q, l) <=> Sees(p, l)
  BY <1>5, <1>9 DEF Sees
<1>11. Fated(q) <=> Fated(p)
  BY <1>1, <1>5, <1>10 DEF Fated, RightNow
<1>12. Walks(p) => Walks(q)
  BY <1>1, <1>5, <1>8 DEF Walks, Asking
<1>13. OnItsWay(q)
  BY <1>4, <1>5, <1>8 DEF OnItsWay, c
<1>14. Undisturbed(p) => Undisturbed(q)
  <2> SUFFICES ASSUME Undisturbed(p) PROVE Undisturbed(q)
    OBVIOUS
  <2>1. Live(p.node) /\ \A l \in {1, 2} : Sees(p, l) <=> Enough(p.user, p.node, l)
    BY <1>1 DEF Undisturbed, Asking
  <2> QED
    BY <1>5, <1>8, <1>10, <1>13, <2>1 DEF Undisturbed
<1>15. q.step \in Asking
  BY <1>5 DEF Asking
<1> HIDE DEF p
<1> QED
  BY <1>1, <1>5, <1>6, <1>7, <1>11, <1>12, <1>14, <1>15, GoesOnRight DEF p

(* A chain with one more, and with one less.                               *)
LEMMA AppendAdds ==
    ASSUME NEW t \in Seq(Node), NEW c \in Node, t # <<>>, NEW s, s = Append(t, c)
    PROVE  /\ s \in Seq(Node) /\ s # <<>> /\ s[1] = t[1]
           /\ {s[i] : i \in 1..Len(s)} = {t[i] : i \in 1..Len(t)} \cup {c}
           /\ {s[i] : i \in 2..Len(s)} = {t[i] : i \in 2..Len(t)} \cup {c}
<1>1. /\ s \in Seq(Node) /\ Len(s) = Len(t) + 1 /\ Len(t) \in Nat
      /\ s[Len(t) + 1] = c /\ \A i \in 1..Len(t) : s[i] = t[i]
  OBVIOUS
<1>2. Len(t) # 0
  OBVIOUS
<1>3. Len(s) # 0
  BY <1>1
<1>4. /\ \A i \in 1..Len(s) : i \in 1..Len(t) \/ i = Len(t) + 1
      /\ \A i \in 2..Len(s) : i \in 2..Len(t) \/ i = Len(t) + 1
      /\ \A i \in 1..Len(t) : i \in 1..Len(s)
      /\ \A i \in 2..Len(t) : i \in 2..Len(s) /\ i \in 1..Len(t)
      /\ Len(t) + 1 \in 1..Len(s) /\ Len(t) + 1 \in 2..Len(s) /\ 1 \in 1..Len(t)
  BY <1>1, <1>2
<1> QED
  BY <1>1, <1>3, <1>4

LEMMA TailLoses ==
    ASSUME NEW t \in Seq(Node), t # <<>>, NEW s, s = Tail(t)
    PROVE  /\ s \in Seq(Node) /\ Head(t) \in Node
           /\ {t[i] : i \in 1..Len(t)} = {Head(t)} \cup {s[i] : i \in 1..Len(s)}
           /\ ~(Len(t) > 1) => {t[i] : i \in 1..Len(t)} = {Head(t)}
<1>1. /\ s \in Seq(Node) /\ Len(s) = Len(t) - 1 /\ Len(t) \in Nat /\ Head(t) = t[1]
      /\ Head(t) \in Node /\ \A i \in 1..Len(s) : s[i] = t[i + 1]
  OBVIOUS
<1>2. Len(t) # 0
  OBVIOUS
<1>3. /\ \A i \in 1..Len(t) : i = 1 \/ (i - 1 \in 1..Len(s) /\ (i - 1) + 1 = i)
      /\ \A i \in 1..Len(s) : i + 1 \in 1..Len(t)
      /\ 1 \in 1..Len(t)
  BY <1>1, <1>2
<1>4. ASSUME NEW i \in 1..Len(t) PROVE t[i] = Head(t) \/ \E j \in 1..Len(s) : t[i] = s[j]
  <2>1. CASE i = 1
    BY <1>1, <2>1
  <2>2. CASE i # 1
    <3>1. i - 1 \in 1..Len(s) /\ (i - 1) + 1 = i
      BY <1>3, <2>2
    <3>2. s[i - 1] = t[i]
      BY <1>1, <3>1
    <3> QED
      BY <3>1, <3>2
  <2> QED
    BY <2>1, <2>2
<1>5. ~(Len(t) > 1) => Len(t) = 1
  BY <1>1, <1>2
<1>6. 1..1 = {1}
  OBVIOUS
<1>7. ~(Len(t) > 1) => {t[i] : i \in 1..Len(t)} = {Head(t)}
  BY <1>1, <1>5, <1>6
<1> QED
  BY <1>1, <1>3, <1>4, <1>7

\* One folder up, or the end of the climb.
LEMMA ClimbIsRight ==
    ASSUME MInv, NEW r \in Reader, Climb(r)
    PROVE  MomentStep(r)
<1> DEFINE p == ask[r]
<1>1. /\ SharesType /\ Whole /\ Stands(p) /\ conn = r /\ conn' = conn /\ parent \in Parents
      /\ p \in Ask /\ p.step = "climb" /\ p.chain # <<>> /\ Busy(r)
      /\ IF p.cursor \in Folder \ Visited(p) /\ Live(p.cursor)
         THEN Go(r, [p EXCEPT !.chain = Append(p.chain, p.cursor), !.cursor = parent[p.cursor]])
         ELSE Go(r, [p EXCEPT !.step = "read"])
  BY DEF MInv, Moments, Holds, IInv, SharesType, TreeType, Climb, Busy, Parents
<1>2. p.chain \in Seq(Node) /\ p.cursor \in Folder \cup {Root}
  BY <1>1 DEF Ask
<1>3. CASE p.cursor \in Folder \ Visited(p) /\ Live(p.cursor)
  <2> DEFINE c  == p.cursor
             up == parent[c]
             s  == Append(p.chain, c)
             q  == [p EXCEPT !.chain = s, !.cursor = up]
  <2>1. c \in Folder /\ c \in Node /\ up \in Folder \cup {Root} /\ (up = Root \/ Live(up))
    BY <1>1, <1>3 DEF Parents, Whole, Live, Node
  <2>2. /\ s \in Seq(Node) /\ s # <<>> /\ s[1] = p.chain[1]
        /\ {s[i] : i \in 1..Len(s)} = Chained(p) \cup {c}
        /\ {s[i] : i \in 2..Len(s)} = Visited(p) \cup {c}
    <3> DEFINE t == p.chain
    <3>1. t \in Seq(Node) /\ t # <<>> /\ c \in Node /\ s = Append(t, c)
      BY <1>1, <1>2, <2>1
    <3> HIDE DEF t, c, s
    <3>2. /\ s \in Seq(Node) /\ s # <<>> /\ s[1] = t[1]
          /\ {s[i] : i \in 1..Len(s)} = {t[i] : i \in 1..Len(t)} \cup {c}
          /\ {s[i] : i \in 2..Len(s)} = {t[i] : i \in 2..Len(t)} \cup {c}
      BY <3>1, AppendAdds
    <3> QED
      BY <3>2 DEF t, Chained, Visited
  <2>4. Go(r, q)
    BY <1>1, <1>3
  <2> HIDE DEF up, s
  <2>5. /\ q \in Ask /\ q.step = "climb" /\ q.op = p.op /\ q.user = p.user /\ q.node = p.node
        /\ q.changes = p.changes /\ q.before = p.before /\ q.chain = s /\ q.best = p.best
        /\ q.needs = p.needs /\ q.cursor = up
    BY <1>1, <2>1, <2>2 DEF Ask
  <2> HIDE DEF q
  <2>6. Stands(q)
    BY <1>1, <2>5 DEF Stands
  <2>7. Chained(q) = Chained(p) \cup {c} /\ Visited(q) = Visited(p) \cup {c}
    BY <2>2, <2>5 DEF Chained, Visited
  <2>8. Anc(c) = {c} \cup Anc(up) /\ LiveAnc(c) = Anc(c) /\ LiveAnc(up) = Anc(up) /\ c \notin Anc(up)
    <3>1. Anc(c) = {c} \cup Anc(up)
      BY <1>1, <2>1, AncStep DEF Anc, up
    <3>2. c \notin Anc(up)
      BY <1>1, <2>1, NoCircle DEF Anc, up, Whole
    <3> QED
      BY <1>1, <1>3, <2>1, <3>1, <3>2, LiveAncIs
  <2>10. Ahead(q) = Ahead(p)
    BY <1>1, <2>2, <2>5, <2>7, <2>8 DEF Ahead
  <2>11. \A l : Sees(q, l) <=> Sees(p, l)
    BY <2>5, <2>10 DEF Sees
  <2>12. Fated(q) <=> Fated(p)
    BY <1>1, <2>5, <2>11 DEF Fated, RightNow
  <2>13. Walks(p) => Walks(q)
    BY <1>1, <2>5, <2>7, <2>8 DEF Walks, Asking
  <2>14. OnItsWay(p) => OnItsWay(q)
    BY <2>2, <2>5, <2>7, <2>8 DEF OnItsWay, up
  <2>15. Undisturbed(p) => Undisturbed(q)
    <3> SUFFICES ASSUME Undisturbed(p) PROVE Undisturbed(q)
      OBVIOUS
    <3>1. /\ Live(p.node) /\ \A l \in {1, 2} : Sees(p, l) <=> Enough(p.user, p.node, l)
          /\ OnItsWay(p) /\ \A a \in Chained(p) : Live(a)
      BY <1>1 DEF Undisturbed, Asking
    <3>2. \A a \in Chained(q) : Live(a)
      BY <1>3, <2>7, <3>1
    <3> QED
      BY <2>5, <2>11, <2>14, <3>1, <3>2 DEF Undisturbed
  <2>16. q.step \in Asking
    BY <2>5 DEF Asking
  <2> HIDE DEF p
  <2> QED
    BY <1>1, <2>4, <2>5, <2>6, <2>12, <2>13, <2>15, <2>16, GoesOnRight DEF p
<1>4. CASE ~(p.cursor \in Folder \ Visited(p) /\ Live(p.cursor))
  <2> DEFINE q == [p EXCEPT !.step = "read"]
  <2>1. Go(r, q)
    BY <1>1, <1>4
  <2>2. /\ q \in Ask /\ q.step = "read" /\ q.op = p.op /\ q.user = p.user /\ q.node = p.node
        /\ q.changes = p.changes /\ q.before = p.before /\ q.chain = p.chain /\ q.best = p.best
        /\ q.needs = p.needs
    BY <1>1 DEF Ask
  <2> HIDE DEF q
  <2>3. Stands(q)
    BY <1>1, <2>2 DEF Stands
  <2>4. Visited(p) \cap LiveAnc(p.cursor) = {} => LiveAnc(p.cursor) = {}
    <3>1. CASE p.cursor = Root
      BY <3>1, AncOfRoot DEF LiveAnc, Anc
    <3>2. CASE ~Live(p.cursor)
      BY <3>2 DEF LiveAnc
    <3>3. CASE p.cursor \in Folder /\ Live(p.cursor)
      <4>1. p.cursor \in Visited(p)
        BY <1>4, <3>3
      <4>2. p.cursor \in LiveAnc(p.cursor)
        BY <1>1, <3>3, AncIs DEF LiveAnc, Anc
      <4> QED
        BY <4>1, <4>2
    <3> QED
      BY <1>2, <3>1, <3>2, <3>3
  <2>5. Visited(p) \cap LiveAnc(p.cursor) = {} => \A l : Sees(q, l) <=> Sees(p, l)
    <3>1. Chained(q) = Chained(p)
      BY <2>2 DEF Chained
    <3> QED
      BY <1>1, <2>2, <2>4, <3>1 DEF Sees, Ahead
  <2>6. Walks(p) => Walks(q) /\ (Fated(q) <=> Fated(p))
    <3>1. Walks(p) => Visited(p) \cap LiveAnc(p.cursor) = {}
      BY <1>1 DEF Walks
    <3> QED
      BY <1>1, <2>2, <2>5, <3>1 DEF Walks, Fated, RightNow, Asking
  <2>7. Undisturbed(p) => Undisturbed(q)
    <3> SUFFICES ASSUME Undisturbed(p) PROVE Undisturbed(q)
      OBVIOUS
    <3>1. /\ Live(p.node) /\ \A l \in {1, 2} : Sees(p, l) <=> Enough(p.user, p.node, l)
          /\ OnItsWay(p) /\ \A a \in Chained(p) : Live(a)
      BY <1>1 DEF Undisturbed, Asking
    <3>2. Visited(p) \cap LiveAnc(p.cursor) = {}
      BY <3>1 DEF OnItsWay, LiveAnc
    <3>3. Chained(q) = Chained(p)
      BY <2>2 DEF Chained
    <3> QED
      BY <2>2, <2>5, <3>1, <3>2, <3>3 DEF Undisturbed
  <2>8. q.step \in Asking
    BY <2>2 DEF Asking
  <2> HIDE DEF p
  <2> QED
    BY <1>1, <2>1, <2>2, <2>3, <2>6, <2>7, <2>8, GoesOnRight DEF p
<1> QED
  BY <1>3, <1>4

\* A grant of the chain, and the verdict.
LEMMA ReadIsRight ==
    ASSUME MInv, NEW r \in Reader, ReadGrant(r)
    PROVE  MomentStep(r)
<1> DEFINE p    == ask[r]
           t    == p.chain
           g    == grants[Head(t)][p.user]
           best == Greater(p.best, g)
           yes  == best >= Head(p.needs)
<1>1. /\ SharesType /\ Whole /\ Stands(p) /\ Sound(p) /\ conn = r
      /\ p \in Ask /\ p.step = "read" /\ Busy(r)
  BY DEF MInv, Moments, Holds, IInv, SharesType, ReadGrant, Busy
<1>2. /\ t \in Seq(Node) /\ t # <<>> /\ p.user \in User /\ p.node \in Node /\ p.best \in 0..2
      /\ p.needs \in Open(p.op) /\ p.user # Owner[p.node]
  BY <1>1 DEF Ask, Sound, QuestionsStand, Asking, Stands
<1>3. /\ Tail(t) \in Seq(Node) /\ Head(t) \in Node
      /\ Chained(p) = {Head(t)} \cup {Tail(t)[i] : i \in 1..Len(Tail(t))}
      /\ ~(Len(t) > 1) => Chained(p) = {Head(t)}
  <2>1. t \in Seq(Node) /\ t # <<>> /\ Chained(p) = {t[i] : i \in 1..Len(t)}
    BY <1>2 DEF Chained
  <2> DEFINE s == Tail(t)
             all == Chained(p)
  <2>2. s = Tail(t) /\ all = {t[i] : i \in 1..Len(t)}
    BY <2>1
  <2> HIDE DEF t, s, all
  <2>3. /\ s \in Seq(Node) /\ Head(t) \in Node
        /\ {t[i] : i \in 1..Len(t)} = {Head(t)} \cup {s[i] : i \in 1..Len(s)}
        /\ ~(Len(t) > 1) => {t[i] : i \in 1..Len(t)} = {Head(t)}
    BY <2>1, <2>2, TailLoses
  <2> QED
    BY <2>2, <2>3 DEF s, all
<1>4. g \in 0..2
  BY <1>1, <1>2, <1>3 DEF SharesType
<1>5. best \in 0..2 /\ \A l \in {1, 2} : best >= l <=> p.best >= l \/ g >= l
  <2> HIDE DEF g, p
  <2> QED
    BY <1>2, <1>4 DEF Greater
<1>6. /\ Head(p.needs) \in {1, 2} /\ Needed(p.op) \in {1, 2}
      /\ ~(Len(p.needs) > 1) => Head(p.needs) = Needed(p.op)
  BY <1>2, HeadIs
<1>7. Fated(p) <=> Sees(p, Head(p.needs)) /\ (Len(p.needs) > 1 => RightNow(p))
  BY <1>1 DEF Fated
<1>8. IF Len(t) > 1
      THEN Go(r, [p EXCEPT !.best = best, !.chain = Tail(t)]) /\ UNCHANGED conn
      ELSE /\ conn' = Free
           /\ IF yes /\ Len(p.needs) > 1
              THEN Go(r, [p EXCEPT !.step = "vet", !.needs = Tail(p.needs)])
              ELSE IF yes /\ p.node \in File
              THEN Go(r, [Rest("bytes") EXCEPT !.op = p.op, !.user = p.user,
                             !.node = p.node, !.held = p.held,
                             !.before = p.before, !.changes = p.changes])
              ELSE Answer(r, yes)
  BY DEF ReadGrant, Combined, Opens
<1> HIDE DEF best, g
<1>9. CASE Len(t) > 1
  <2> DEFINE s == Tail(t)
             q == [p EXCEPT !.best = best, !.chain = s]
  <2>1. Go(r, q) /\ conn' = r
    BY <1>1, <1>8, <1>9
  <2>2. s \in Seq(Node) /\ Chained(p) = {Head(t)} \cup {s[i] : i \in 1..Len(s)}
    BY <1>3
  <2> HIDE DEF s
  <2>3. /\ q \in Ask /\ q.step = "read" /\ q.op = p.op /\ q.user = p.user /\ q.node = p.node
        /\ q.changes = p.changes /\ q.before = p.before /\ q.chain = s /\ q.best = best
        /\ q.needs = p.needs
    BY <1>1, <1>5, <2>2 DEF Ask
  <2> HIDE DEF q
  <2>4. Stands(q)
    BY <1>1, <2>3 DEF Stands
  <2>5. Chained(p) = {Head(t)} \cup Chained(q)
    BY <2>2, <2>3 DEF Chained
  <2>6. ASSUME NEW l \in {1, 2} PROVE Sees(q, l) <=> Sees(p, l)
    <3>1. Ahead(q) = Chained(q) /\ Ahead(p) = {Head(t)} \cup Chained(q)
      BY <1>1, <2>3, <2>5 DEF Ahead
    <3>2. q.best >= l <=> p.best >= l \/ grants[Head(t)][p.user] >= l
      BY <1>5, <2>3 DEF g
    <3> HIDE DEF p, t
    <3> QED
      BY <2>3, <3>1, <3>2 DEF Sees
  <2>7. Fated(q) <=> Fated(p)
    BY <1>1, <1>6, <2>3, <2>6 DEF Fated, RightNow
  <2>8. Walks(p) => Walks(q)
    BY <1>1, <2>3 DEF Walks, Asking
  <2>9. Undisturbed(p) => Undisturbed(q)
    <3> SUFFICES ASSUME Undisturbed(p) PROVE Undisturbed(q)
      OBVIOUS
    <3>1. /\ Live(p.node) /\ \A l \in {1, 2} : Sees(p, l) <=> Enough(p.user, p.node, l)
          /\ \A a \in Chained(p) : Live(a)
      BY <1>1 DEF Undisturbed, Asking
    <3> QED
      BY <2>3, <2>5, <2>6, <3>1 DEF Undisturbed
  <2>10. q.step \in Asking
    BY <2>3 DEF Asking
  <2> HIDE DEF p
  <2> QED
    BY <1>1, <2>1, <2>3, <2>4, <2>7, <2>8, <2>9, <2>10, GoesOnRight DEF p
<1>10. ASSUME ~(Len(t) > 1) PROVE yes <=> Sees(p, Head(p.needs))
  <2>1. Ahead(p) = {Head(t)}
    BY <1>1, <1>3, <1>10 DEF Ahead
  <2>2. yes <=> p.best >= Head(p.needs) \/ grants[Head(t)][p.user] >= Head(p.needs)
    BY <1>5, <1>6 DEF g
  <2> HIDE DEF yes, p, t
  <2> QED
    BY <2>1, <2>2 DEF Sees, p
<1>11. CASE ~(Len(t) > 1) /\ yes /\ Len(p.needs) > 1
  <2> DEFINE n == Tail(p.needs)
             q == [p EXCEPT !.step = "vet", !.needs = n]
  <2>1. Go(r, q)
    BY <1>8, <1>11
  <2>2. n \in Seq({View, Download})
    BY <1>2, <1>11, OpenIs
  <2> HIDE DEF n
  <2>3. /\ q \in Ask /\ q.step = "vet" /\ q.op = p.op /\ q.user = p.user /\ q.node = p.node
        /\ q.changes = p.changes /\ q.before = p.before
    BY <1>1, <2>2 DEF Ask
  <2> HIDE DEF q
  <2>4. Stands(q)
    BY <1>2, <2>3 DEF Stands
  <2>5. Fated(q) <=> Fated(p)
    BY <1>7, <1>10, <1>11, <2>3 DEF Fated, RightNow
  <2>6. (Walks(p) => Walks(q)) /\ (Undisturbed(p) => Undisturbed(q))
    BY <1>1, <2>3 DEF Walks, Undisturbed, Asking
  <2>7. q.step \in Asking /\ q.step \notin {"climb", "read"}
    BY <2>3 DEF Asking
  <2> HIDE DEF p
  <2> QED
    BY <1>1, <2>1, <2>3, <2>4, <2>5, <2>6, <2>7, GoesOnRight DEF p
<1>12. CASE ~(Len(t) > 1) /\ yes /\ ~(Len(p.needs) > 1) /\ p.node \in File
  <2> DEFINE d == Rest("bytes")
             q == [d EXCEPT !.op = p.op, !.user = p.user, !.node = p.node, !.held = p.held,
                            !.before = p.before, !.changes = p.changes]
  <2>1. Go(r, q)
    BY <1>8, <1>12
  <2>2. d \in Ask /\ d.step = "bytes"
    BY RestIs DEF Steps
  <2>3. /\ p.op \in {"preview", "download", "browse"} /\ p.held \in 0..2
        /\ p.before \in BOOLEAN /\ p.changes \in 0..2
    BY <1>1 DEF Ask
  <2> HIDE DEF d, p
  <2>4. /\ q \in Ask /\ q.step = "bytes" /\ q.op = p.op /\ q.user = p.user /\ q.node = p.node
        /\ q.changes = p.changes /\ q.before = p.before
    BY <1>2, <2>2, <2>3 DEF Ask
  <2> HIDE DEF q
  <2> USE DEF p
  <2>5. Stands(q)
    BY <2>4 DEF Stands
  <2>6. Fated(p)
    BY <1>7, <1>10, <1>12
  <2>7. Walks(p) => Walks(q) /\ (Fated(q) <=> Fated(p))
    BY <1>1, <2>4, <2>6 DEF Walks, Fated, Asking
  <2>8. Undisturbed(p) => Undisturbed(q)
    <3> SUFFICES ASSUME Undisturbed(p) PROVE Undisturbed(q)
      OBVIOUS
    <3>1. p.step \in Asking \cup {"bytes"}
      BY <1>1 DEF Asking
    <3>2. RightNow(p)
      BY <1>1, <2>6, <3>1, UndisturbedIsRight DEF Sound
    <3> QED
      BY <2>4, <3>2 DEF Undisturbed, RightNow, Asking
  <2>9. q.step = "bytes"
    BY <2>4
  <2> HIDE DEF p
  <2> QED
    BY <1>1, <2>1, <2>4, <2>5, <2>7, <2>8, <2>9, GoesOnRight DEF p
<1>13. CASE ~(Len(t) > 1) /\ ~(yes /\ Len(p.needs) > 1) /\ ~(yes /\ p.node \in File)
  <2>1. Answer(r, yes)
    BY <1>8, <1>13
  <2>2. yes <=> Fated(p)
    BY <1>7, <1>10, <1>13
  <2> HIDE DEF yes
  <2> QED
    BY <2>1, <2>2, AnswerIsRight
<1> HIDE DEF yes, t
<1> QED
  BY <1>9, <1>11, <1>12, <1>13

\* The bytes.
LEMMA BytesAreRight ==
    ASSUME MInv, NEW r \in Reader, ReadBytes(r)
    PROVE  MomentStep(r)
<1>1. Fated(ask[r]) <=> ask[r].node \in rows
  BY DEF Fated, ReadBytes
<1>2. Answer(r, ask[r].node \in rows)
  BY DEF ReadBytes
<1> QED
  BY <1>1, <1>2, AnswerIsRight

-----------------------------------------------------------------------------
(* The answers: the commits of everybody else.                             *)

(* What holds of any whole tree, hence of the one a commit leaves.         *)
RightMeans ==
    SharesType /\ Whole =>
        /\ \A op : \A u \in User, n \in Node : u # Owner[n] =>
              (Right(op, u, n) <=> Live(n) /\ Enough(u, n, Needed(op)))
        /\ \A u \in User, n \in Node : Enough(u, n, 2) => Enough(u, n, 1)
        /\ \A c \in Folder \cup {Root} : c = Root \/ Live(c) => LiveAnc(c) = Anc(c)
        /\ \A n \in Node : Live(n) => LiveAnc(Base(n)) = Anc(Base(n))

\* So it does before and after.
LEMMA RightMeansAlways == RightMeans /\ RightMeans'
<1>1. RightMeans
  <2> SUFFICES ASSUME SharesType, Whole
               PROVE  /\ \A op : \A u \in User, n \in Node : u # Owner[n] =>
                            (Right(op, u, n) <=> Live(n) /\ Enough(u, n, Needed(op)))
                      /\ \A u \in User, n \in Node : Enough(u, n, 2) => Enough(u, n, 1)
                      /\ \A c \in Folder \cup {Root} : c = Root \/ Live(c) => LiveAnc(c) = Anc(c)
                      /\ \A n \in Node : Live(n) => LiveAnc(Base(n)) = Anc(Base(n))
    BY DEF RightMeans
  <2>1. \A op : \A u \in User, n \in Node : u # Owner[n] =>
           (Right(op, u, n) <=> Live(n) /\ Enough(u, n, Needed(op)))
    BY RightIs
  <2>2. \A u \in User, n \in Node : Enough(u, n, 2) => Enough(u, n, 1)
    BY EnoughForLess DEF Whole
  <2> QED
    BY <2>1, <2>2, LiveAncIs
<1>2. RightMeans'
  BY <1>1, PTL
<1> QED
  BY <1>1, <1>2

(* A commit leaves a whole tree.  It purges nothing live, and spares an    *)
(* item only with all that is above it.                                    *)
Commits ==
    /\ SharesType' /\ Whole'
    /\ \A m \in Node : Live(m) => m \in rows'
    /\ \A m \in Node : \A a \in Anc(Base(m)) : Live(m) /\ Live(m)' => Live(a)'

(* Before the climb, between questions and before the bytes, a request     *)
(* has little to lose to it.                                               *)
Disturbs(q) ==
    /\ (Fated(q)' <=> RightNow(q)') \/ (Fated(q)' <=> RightNow(q))
    /\ Walks(q)'

\* The steps that read the tree alone.
LEMMA WalkDisturbed ==
    ASSUME MInv, Commits, NEW q \in Ask, Stands(q), Undisturbed(q),
           q.step \in {"reach", "vet", "bytes"}
    PROVE  Disturbs(q)
<1>1. q.node \in Node
  BY DEF Ask
<1>2. Walks(q)'
  BY <1>1 DEF Commits, Walks, Undisturbed, Asking
<1>3. CASE q.step = "reach"
  <2>1. /\ Live(q.node) /\ q.cursor \in Anc(q.node) \cup {Root} /\ q.op = "browse"
        /\ Base(q.node) = q.node
    BY <1>3 DEF Undisturbed, Stands, Asking, Base
  <2>2. q.cursor # Root /\ ~(Live(q.cursor)') => ~(Live(q.node)')
    BY <1>1, <2>1 DEF Commits
  <2>3. Fated(q)' <=> /\ q.cursor = Root \/ Live(q.cursor)'
                      /\ q.user = Owner[q.node] \/ RightNow(q)'
    BY <1>3 DEF Fated
  <2>4. RightNow(q)' => Live(q.node)'
    BY <2>1 DEF RightNow, Right
  <2>5. q.user = Owner[q.node] => RightNow(q)
    BY <2>1 DEF RightNow, Right, Live
  <2> QED
    BY <1>2, <2>2, <2>3, <2>4, <2>5 DEF Disturbs
<1>4. CASE q.step = "vet"
  BY <1>2, <1>4 DEF Disturbs, Fated
<1>5. CASE q.step = "bytes"
  <2>1. Fated(q)' <=> q.node \in rows'
    BY <1>5 DEF Fated
  <2>2. RightNow(q)' => q.node \in rows'
    BY DEF RightNow, Right, Live
  <2>3. RightNow(q)
    BY <1>5 DEF Undisturbed
  <2> QED
    BY <1>2, <2>1, <2>2, <2>3 DEF Disturbs
<1> QED
  BY <1>3, <1>4, <1>5

\* What a climb sees decides, before or after.
LEMMA SightDisturbed ==
    ASSUME MInv, Commits, NEW q \in Ask, QuestionsStand(q), Stands(q), Undisturbed(q),
           q.step \in {"climb", "read"}, Walks(q)',
           \A l \in {1, 2} : \/ Sees(q, l)' <=> Live(q.node)' /\ Enough(q.user, q.node, l)'
                             \/ Sees(q, l)' <=> Enough(q.user, q.node, l)
    PROVE  Disturbs(q)
<1>1. /\ q.user \in User /\ q.node \in Node /\ q.user # Owner[q.node] /\ Live(q.node)
      /\ q.needs \in Open(q.op) /\ SharesType /\ Whole /\ SharesType' /\ Whole'
  BY DEF Ask, Stands, Undisturbed, Asking, QuestionsStand, Commits, MInv, IInv
<1>2. RightNow(q) <=> Enough(q.user, q.node, Needed(q.op))
  BY <1>1, RightMeansAlways DEF RightMeans, RightNow
<1>3. RightNow(q)' <=> Live(q.node)' /\ Enough(q.user, q.node, Needed(q.op))'
  BY <1>1, RightMeansAlways DEF RightMeans, RightNow
<1>4. /\ Enough(q.user, q.node, 2) => Enough(q.user, q.node, 1)
      /\ Enough(q.user, q.node, 2)' => Enough(q.user, q.node, 1)'
  BY <1>1, RightMeansAlways DEF RightMeans
<1>5. Fated(q)' <=> Sees(q, Head(q.needs))' /\ (Len(q.needs) > 1 => RightNow(q)')
  BY DEF Fated
<1>6. /\ Head(q.needs) \in {1, 2}
      /\ ~(Len(q.needs) > 1) => Head(q.needs) = Needed(q.op)
      /\ Len(q.needs) > 1 => Head(q.needs) = 1 /\ Needed(q.op) = 2
  BY <1>1, HeadIs
<1>7. CASE ~(Len(q.needs) > 1)
  <2> DEFINE l == Needed(q.op)
  <2>1. l \in {1, 2} /\ Head(q.needs) = l
    BY <1>6, <1>7
  <2> QED
    BY <1>2, <1>3, <1>5, <1>7, <2>1 DEF Disturbs
<1>8. CASE Len(q.needs) > 1
  <2>1. Head(q.needs) = 1 /\ Needed(q.op) = 2
    BY <1>6, <1>8
  <2>2. Fated(q)' <=> Sees(q, 1)' /\ RightNow(q)'
    BY <1>5, <1>8, <2>1
  <2>3. \/ Sees(q, 1)' <=> Live(q.node)' /\ Enough(q.user, q.node, 1)'
        \/ Sees(q, 1)' <=> Enough(q.user, q.node, 1)
    OBVIOUS
  <2>4. RightNow(q) <=> Enough(q.user, q.node, 2)
    BY <1>2, <2>1
  <2>5. RightNow(q)' <=> Live(q.node)' /\ Enough(q.user, q.node, 2)'
    BY <1>3, <2>1
  <2> QED
    BY <1>4, <2>2, <2>3, <2>4, <2>5 DEF Disturbs
<1> QED
  BY <1>7, <1>8

\* Where a climb stands, if nothing was committed.
LEMMA ClimbStands ==
    ASSUME MInv, NEW q \in Ask, Undisturbed(q), q.step = "climb", q.chain # <<>>
    PROVE  /\ OnItsWay(q) /\ q.node \in Node /\ Live(q.node) /\ Visited(q) \in SUBSET Folder
           /\ Chained(q) = {q.node} \cup Visited(q)
           /\ q.cursor \in Folder \cup {Root} /\ (q.cursor = Root \/ Live(q.cursor))
           /\ q.cursor \in Folder => q.cursor \in Anc(Base(q.node))
<1>1. /\ OnItsWay(q) /\ q.node \in Node /\ Live(q.node) /\ Whole /\ parent \in Parents
      /\ q.cursor \in Folder \cup {Root} /\ q.chain \in Seq(Node)
  BY DEF Undisturbed, Ask, Asking, MInv, Whole, TreeType, Parents
<1>2. Visited(q) \in SUBSET Folder
  BY <1>1 DEF OnItsWay, Anc, AncBy
<1>3. Base(q.node) \in Folder \cup {Root} /\ (Base(q.node) = Root \/ Live(Base(q.node)))
  BY <1>1, LiveAncIs
<1>4. q.cursor \in Folder => q.cursor \in Anc(Base(q.node))
  BY <1>1, AncIs DEF OnItsWay, Anc
<1>5. q.cursor \in Folder => Live(q.cursor)
  BY <1>1, <1>3, <1>4, LiveAbove, AncOfRoot DEF Anc
<1>6. Chained(q) = {q.node} \cup Visited(q)
  <2>1. Len(q.chain) \in Nat /\ Len(q.chain) # 0
    BY <1>1
  <2>2. /\ 1 \in 1..Len(q.chain)
        /\ \A i \in 1..Len(q.chain) : i = 1 \/ i \in 2..Len(q.chain)
        /\ \A i \in 2..Len(q.chain) : i \in 1..Len(q.chain)
    BY <2>1
  <2> QED
    BY <1>1, <2>2 DEF OnItsWay, Chained, Visited
<1> QED
  BY <1>1, <1>2, <1>4, <1>5, <1>6

\* A commit that leaves what is live where it is.
LEMMA KeptDisturbed ==
    ASSUME MInv, Commits,
           \A m \in Node : Live(m) => parent'[m] = parent[m] /\ grants'[m] = grants[m],
           NEW q \in Ask, QuestionsStand(q), Stands(q), Undisturbed(q),
           q.step \in {"climb", "read"}
    PROVE  Disturbs(q)
<1> DEFINE n == q.node
           b == Base(n)
<1>1. /\ n \in Node /\ Live(n) /\ SharesType /\ Whole /\ Whole' /\ SharesType'
      /\ parent \in Parents /\ parent' \in Parents
      /\ \A l \in {1, 2} : Sees(q, l) <=> Enough(q.user, n, l)
      /\ \A a \in Chained(q) : Live(a)
  BY DEF Ask, Undisturbed, Asking, MInv, IInv, Commits, Whole, TreeType, Parents
<1>2. n \in rows'
  BY <1>1 DEF Commits
<1>3. \A a : Live(a) => a \in Node
  BY <1>1 DEF Live, Whole, TreeType
<1>4. /\ b \in Folder \cup {Root} /\ b' = b /\ (b = Root \/ Live(b))
      /\ b \in Folder => b \in Anc(b)
  BY <1>1, LiveAncIs, AncIs DEF Base, Anc
<1> HIDE DEF b
<1>5. ASSUME NEW c \in Folder \cup {Root}, c = Root \/ Live(c)
      PROVE  /\ AncBy(parent', c) = Anc(c) /\ LiveAnc(c) = Anc(c)
             /\ \A a \in Anc(c) : Live(a)
  <2>1. CASE c = Root
    BY <2>1, AncOfRoot DEF Anc, LiveAnc
  <2>2. CASE c \in Folder
    <3>1. \A a \in Anc(c) : Live(a)
      BY <1>1, <1>5, <2>2, LiveAbove, KindsApart DEF Node
    <3>2. \A a \in AncBy(parent, c) : parent'[a] = parent[a]
      BY <1>3, <3>1 DEF Anc
    <3> QED
      BY <1>1, <1>5, <2>2, <3>1, <3>2, AncSame, KindsApart DEF Anc, LiveAnc, Node
  <2> QED
    BY <2>1, <2>2
<1>6. \A a : Live(a) => grants'[a] = grants[a]
  BY <1>3
<1>7. CASE q.step = "read"
  <2>1. \A l \in {1, 2} : Sees(q, l)' <=> Sees(q, l)
    <3>1. Ahead(q) = Chained(q) /\ Ahead(q)' = Chained(q)
      BY <1>7 DEF Ahead, Chained
    <3> QED
      BY <1>1, <1>6, <3>1 DEF Sees
  <2>2. Walks(q)'
    BY <1>2, <1>7 DEF Walks
  <2> QED
    BY <1>1, <2>1, <2>2, SightDisturbed
<1>8. ASSUME q.step = "climb", NEW F \in SUBSET Node, \A a \in F : Live(a),
             NEW c \in Folder \cup {Root}, c = Root \/ Live(c), c \in Folder => c \in Anc(b),
             Ahead(q) = F \cup LiveAnc(c), Ahead(q)' = F \cup LiveAnc(c)'
      PROVE  \A l \in {1, 2} : \/ Sees(q, l)' <=> Live(n)' /\ Enough(q.user, n, l)'
                               \/ Sees(q, l)' <=> Enough(q.user, n, l)
  <2>1. /\ AncBy(parent', c) = Anc(c) /\ LiveAnc(c) = Anc(c)
        /\ \A a \in Anc(c) : Live(a)
    BY <1>5, <1>8
  <2>2. LiveAnc(c)' = IF Live(c)' THEN Anc(c) ELSE {}
    BY <2>1 DEF LiveAnc, Anc
  <2>3. \A a \in Ahead(q) : grants'[a] = grants[a]
    BY <1>6, <1>8, <2>1
  <2>4. CASE c = Root \/ Live(c)'
    <3>1. c = Root => Anc(c) = {}
      BY AncOfRoot DEF Anc
    <3>2. Ahead(q)' = Ahead(q)
      BY <1>8, <2>1, <2>2, <2>4, <3>1
    <3>3. \A l : Sees(q, l)' <=> Sees(q, l)
      BY <2>3, <3>2 DEF Sees
    <3> QED
      BY <1>1, <3>3
  <2>5. CASE c \in Folder /\ ~(Live(c)')
    <3>1. ~(Live(n)')
      BY <1>1, <1>8, <2>5 DEF Commits, b
    <3>2. Ahead(q)' \subseteq Ahead(q)
      BY <1>8, <2>2, <2>5
    <3>3. \A l : Sees(q, l)' => Sees(q, l)
      BY <2>3, <3>2 DEF Sees
    <3> QED
      BY <1>1, <3>1, <3>3
  <2> QED
    BY <1>8, <2>4, <2>5
<1>9. CASE q.step = "climb" /\ q.chain = <<>>
  <2>1. Ahead(q) = {n} \cup LiveAnc(b) /\ Ahead(q)' = {n} \cup LiveAnc(b)'
    BY <1>4, <1>9 DEF Ahead, b
  <2>2. Walks(q)'
    BY <1>2, <1>9 DEF Walks
  <2>3. \A l \in {1, 2} : \/ Sees(q, l)' <=> Live(n)' /\ Enough(q.user, n, l)'
                          \/ Sees(q, l)' <=> Enough(q.user, n, l)
    <3>1. {n} \in SUBSET Node
      BY <1>1
    <3> QED
      BY <1>1, <1>4, <1>8, <1>9, <2>1, <3>1
  <2> QED
    BY <2>2, <2>3, SightDisturbed
<1>10. CASE q.step = "climb" /\ q.chain # <<>>
  <2> DEFINE c == q.cursor
             F == Chained(q)
  <2>1. /\ OnItsWay(q) /\ c \in Folder \cup {Root} /\ (c = Root \/ Live(c))
        /\ c \in Folder => c \in Anc(b)
    BY <1>10, ClimbStands DEF b
  <2>2. Ahead(q) = F \cup LiveAnc(c) /\ Ahead(q)' = F \cup LiveAnc(c)'
    BY <1>10 DEF Ahead, Chained
  <2>3. F \in SUBSET Node
    BY <1>1, <1>3
  <2>4. \A l \in {1, 2} : \/ Sees(q, l)' <=> Live(n)' /\ Enough(q.user, n, l)'
                          \/ Sees(q, l)' <=> Enough(q.user, n, l)
    <3> HIDE DEF F, c
    <3> QED
      BY <1>1, <1>8, <1>10, <2>1, <2>2, <2>3 DEF F
  <2>5. Walks(q)'
    <3>1. AncBy(parent', c) = Anc(c)
      BY <1>5, <2>1
    <3>2. LiveAnc(c)' \subseteq Anc(c)
      BY <3>1 DEF LiveAnc, Anc
    <3>3. Visited(q) \cap Anc(c) = {}
      BY <2>1 DEF OnItsWay
    <3>4. Visited(q)' = Visited(q)
      BY DEF Visited
    <3> QED
      BY <1>2, <3>2, <3>3, <3>4 DEF Walks
  <2> QED
    BY <2>4, <2>5, SightDisturbed
<1> QED
  BY <1>7, <1>9, <1>10

\* A move of a folder ahead of a climb shows it what is above the item now,
\* any other move what was above it before.
LEMMA MoveDisturbed ==
    ASSUME MInv, Commits, NEW m \in Node, NEW p \in Folder \cup {Root},
           Move(m, p), grants' = grants,
           NEW q \in Ask, QuestionsStand(q), Stands(q), Undisturbed(q),
           q.step \in {"climb", "read"}
    PROVE  Disturbs(q)
<1> DEFINE n == q.node
           c == q.cursor
           b == Base(n)
<1>1. /\ n \in Node /\ Live(n) /\ SharesType /\ Whole /\ Whole' /\ SharesType'
      /\ parent \in Parents /\ parent' \in Parents
      /\ \A l \in {1, 2} : Sees(q, l) <=> Enough(q.user, n, l)
  BY DEF Ask, Undisturbed, Asking, MInv, IInv, Commits, Whole, TreeType, Parents
<1>2. /\ rows' = rows /\ trashed' = trashed /\ parent' = [parent EXCEPT ![m] = p]
  BY <1>1, MoveIs
<1>3. /\ \A a : Live(a)' <=> Live(a)
      /\ \A a \in Node : a # m => parent'[a] = parent[a]
      /\ n \in rows' /\ Live(n)'
  BY <1>1, <1>2 DEF Live, Parents
<1>4. CASE q.step = "read"
  <2>1. Ahead(q) = Chained(q) /\ Ahead(q)' = Chained(q)
    BY <1>4 DEF Ahead, Chained
  <2>2. \A l \in {1, 2} : Sees(q, l)' <=> Sees(q, l)
    BY <2>1 DEF Sees
  <2>3. Walks(q)'
    BY <1>3, <1>4 DEF Walks
  <2> QED
    BY <1>1, <2>2, <2>3, SightDisturbed
<1>5. ASSUME q.step = "climb", Ahead(q)' = {n} \cup Anc(Base(n))'
      PROVE  \A l \in {1, 2} : Sees(q, l)' <=> Live(n)' /\ Enough(q.user, n, l)'
  <2>1. q.best = 0
    BY <1>5 DEF Stands
  <2>2. Ahead(q)' = {n} \cup Anc(Base(n))'
    BY <1>5
  <2>3. \A l \in {1, 2} : Sees(q, l)' <=> \E a \in Ahead(q)' : grants'[a][q.user] >= l
    BY <2>1 DEF Sees
  <2>4. \A l : Enough(q.user, n, l)' <=> \E a \in {n} \cup Anc(Base(n))' : grants'[a][q.user] >= l
    BY DEF Enough
  <2> QED
    BY <1>3, <2>2, <2>3, <2>4
<1>6. CASE q.step = "climb" /\ q.chain = <<>>
  <2>1. Ahead(q)' = {n} \cup LiveAnc(Base(n))'
    BY <1>6 DEF Ahead
  <2>2. LiveAnc(Base(n))' = Anc(Base(n))'
    BY <1>1, <1>3, RightMeansAlways DEF RightMeans
  <2>3. \A l \in {1, 2} : Sees(q, l)' <=> Live(n)' /\ Enough(q.user, n, l)'
    BY <1>5, <1>6, <2>1, <2>2
  <2>4. Walks(q)'
    BY <1>3, <1>6 DEF Walks
  <2> QED
    BY <2>3, <2>4, SightDisturbed
<1>7. CASE q.step = "climb" /\ q.chain # <<>>
  <2> DEFINE P == Visited(q)
  <2>1. /\ OnItsWay(q) /\ P \in SUBSET Folder /\ Chained(q) = {n} \cup P
        /\ c \in Folder \cup {Root} /\ (c = Root \/ Live(c))
    BY <1>7, ClimbStands
  <2>2. /\ Ahead(q) = Chained(q) \cup LiveAnc(c) /\ Ahead(q)' = Chained(q) \cup LiveAnc(c)'
        /\ Visited(q)' = P
    BY <1>7 DEF Ahead, Chained, Visited
  <2>3. /\ Anc(b) = P \cup Anc(c) /\ P \cap Anc(c) = {} /\ b \in P \cup {c}
        /\ \A f \in P : parent[f] \in P \cup {c}
    BY <2>1 DEF OnItsWay
  <2>4. CASE m \notin Anc(c)
    <3>1. AncBy(parent', c) = Anc(c)
      <4>1. CASE c = Root
        BY <4>1, AncOfRoot DEF Anc
      <4>2. CASE c \in Folder
        <5>1. \A f \in AncBy(parent, c) : f \in Node /\ f # m
          BY <2>4 DEF Anc, AncBy, Node
        <5> QED
          BY <1>1, <1>3, <4>2, <5>1, AncSame DEF Anc
      <4> QED
        BY <2>1, <4>1, <4>2
    <3>2. LiveAnc(c)' = LiveAnc(c) /\ LiveAnc(c)' \subseteq Anc(c)
      BY <1>3, <3>1 DEF LiveAnc, Anc
    <3>3. \A l \in {1, 2} : Sees(q, l)' <=> Sees(q, l)
      <4>1. Ahead(q)' = Ahead(q)
        BY <2>2, <3>2
      <4> QED
        BY <4>1 DEF Sees
    <3>4. Walks(q)'
      BY <1>3, <2>2, <2>3, <3>2 DEF Walks
    <3> QED
      BY <1>1, <3>3, <3>4, SightDisturbed
  <2>5. CASE m \in Anc(c)
    <3>1. m \in Folder /\ m \notin P
      BY <2>3, <2>5 DEF Anc, AncBy
    <3>2. b' = b /\ b \in Folder \cup {Root}
      <4>1. n \notin Folder => n # m
        BY <3>1
      <4> QED
        BY <1>1, <1>3, <4>1, LiveAncIs DEF Base
    <3>3. \A f \in P : parent[f] \in P \cup {c} /\ parent'[f] = parent[f]
      BY <1>3, <2>1, <2>3, <3>1 DEF Node
    <3>4. Forest(parent) /\ Forest(parent')
      BY <1>1 DEF Whole
    <3>5. AncBy(parent', b) = P \cup AncBy(parent', c) /\ P \cap AncBy(parent', c) = {}
      <4>1. AncBy(parent, b) = P \cup AncBy(parent, c) /\ P \cap AncBy(parent, c) = {}
        BY <2>3 DEF Anc
      <4> HIDE DEF b, c, P
      <4> QED
        BY <1>1, <2>1, <2>3, <3>2, <3>3, <3>4, <4>1, PathStays
    <3>6. LiveAnc(c)' = Anc(c)'
      <4>1. c = Root \/ Live(c)'
        BY <1>3, <2>1
      <4> QED
        BY <1>1, <2>1, <4>1, RightMeansAlways DEF RightMeans
    <3>7. Anc(c)' = AncBy(parent', c) /\ Anc(Base(n))' = AncBy(parent', b)
      BY <3>2 DEF Anc
    <3>8. Ahead(q)' = {n} \cup Anc(Base(n))'
      BY <2>1, <2>2, <3>5, <3>6, <3>7
    <3>9. \A l \in {1, 2} : Sees(q, l)' <=> Live(n)' /\ Enough(q.user, n, l)'
      BY <1>5, <1>7, <3>8
    <3>10. Walks(q)'
      BY <1>3, <2>2, <3>5, <3>6, <3>7 DEF Walks
    <3> QED
      BY <3>9, <3>10, SightDisturbed
  <2> QED
    BY <2>4, <2>5
<1> QED
  BY <1>4, <1>6, <1>7

\* Every commit leaves a whole tree, and no request worse off than it says.
LEMMA CommitDisturbs ==
    ASSUME MInv,
           \/ TreeStep
           \/ \E D \in SUBSET trashed : PurgeShared(D)
           \/ \E n \in Node, u \in User :
                 Unshare(n, u) \/ \E l \in {View, Download} : Grant(n, u, l)
    PROVE  /\ Commits
           /\ \A q \in Ask : /\ QuestionsStand(q) /\ Stands(q) /\ Undisturbed(q)
                             /\ q.step \in Asking \cup {"bytes"}
                             /\ q.step \in {"climb", "read"} => conn \in Reader
                             => Disturbs(q)
<1>1. IInv /\ Whole /\ SharesType /\ parent \in Parents
  BY DEF MInv, IInv, Whole, TreeType, Parents
<1>2. SharesType'
  BY <1>1, OthersAreSound DEF OthersStep, IInv
<1>3. \A m \in Node : \A a \in Anc(Base(m)) : Live(m) => Live(a)
  BY <1>1, LiveAncIs, LiveAbove, AncOfRoot DEF Anc
<1>4. \A m \in Node : \A a \in Anc(Base(m)) : a \in Node
  BY DEF Anc, AncBy, Node
<1>5. ASSUME Commits,
             \A q \in Ask : /\ QuestionsStand(q) /\ Stands(q) /\ Undisturbed(q)
                            /\ q.step \in {"climb", "read"} /\ conn \in Reader
                            => Disturbs(q)
      PROVE  /\ Commits
             /\ \A q \in Ask : /\ QuestionsStand(q) /\ Stands(q) /\ Undisturbed(q)
                               /\ q.step \in Asking \cup {"bytes"}
                               /\ q.step \in {"climb", "read"} => conn \in Reader
                               => Disturbs(q)
  <2>1. \A q \in Ask : /\ QuestionsStand(q) /\ Stands(q) /\ Undisturbed(q)
                       /\ q.step \in {"reach", "vet", "bytes"}
                       => Disturbs(q)
    BY <1>5, WalkDisturbed
  <2> QED
    BY <1>5, <2>1 DEF Asking
<1>6. ASSUME NEW n \in Node, NEW p \in Folder \cup {Root}, Move(n, p), grants' = grants
      PROVE  /\ Commits
             /\ \A q \in Ask : /\ QuestionsStand(q) /\ Stands(q) /\ Undisturbed(q)
                               /\ q.step \in {"climb", "read"} /\ conn \in Reader
                               => Disturbs(q)
  <2>1. Whole' /\ rows' = rows /\ trashed' = trashed
    BY <1>1, <1>6, MoveIs
  <2>2. Commits
    BY <1>2, <1>3, <2>1 DEF Commits, Live
  <2> QED
    BY <1>6, <2>2, MoveDisturbed
<1>7. ASSUME Whole', rows' = rows, parent' = parent, grants' = grants,
             \A m \in Node : \A a \in Anc(Base(m)) :
                Live(m) /\ m \in rows' \ trashed' => a \in rows' \ trashed'
      PROVE  /\ Commits
             /\ \A q \in Ask : /\ QuestionsStand(q) /\ Stands(q) /\ Undisturbed(q)
                               /\ q.step \in {"climb", "read"} /\ conn \in Reader
                               => Disturbs(q)
  <2>1. Commits
    BY <1>2, <1>7 DEF Commits, Live
  <2> QED
    BY <1>7, <2>1, KeptDisturbed
<1>8. CASE TreeStep
  <2>1. grants' = grants
    BY <1>8 DEF TreeStep
  <2>2. CASE \E n \in Node : \E p \in (Folder \cup {Root}) \ {parent[n]} : Move(n, p)
    BY <1>5, <1>6, <2>1, <2>2
  <2>3. ASSUME NEW n \in Node, Trash(n) PROVE Commits /\ \A q \in Ask :
            /\ QuestionsStand(q) /\ Stands(q) /\ Undisturbed(q)
            /\ q.step \in {"climb", "read"} /\ conn \in Reader
            => Disturbs(q)
    <3>1. /\ Whole' /\ UNCHANGED <<rows, parent>>
          /\ \A m \in Node : \A a \in Anc(Base(m)) :
                m \in rows' \ trashed' => a \in rows' \ trashed'
      BY <1>1, <2>3, TrashIs
    <3> QED
      BY <1>7, <2>1, <3>1
  <2>4. ASSUME NEW S \in SUBSET trashed, NEW n \in S, Restore(n, S) PROVE Commits /\ \A q \in Ask :
            /\ QuestionsStand(q) /\ Stands(q) /\ Undisturbed(q)
            /\ q.step \in {"climb", "read"} /\ conn \in Reader
            => Disturbs(q)
    <3>1. /\ Whole' /\ UNCHANGED <<rows, parent>>
          /\ \A m \in Node : Live(m) => m \in rows' \ trashed'
      BY <1>1, <2>4, RestoreIs
    <3>2. \A m \in Node : \A a \in Anc(Base(m)) :
             Live(m) /\ m \in rows' \ trashed' => a \in rows' \ trashed'
      BY <1>3, <1>4, <3>1
    <3> QED
      BY <1>7, <2>1, <3>1, <3>2
  <2> QED
    BY <1>5, <1>8, <2>2, <2>3, <2>4 DEF TreeStep, Node
<1>9. ASSUME NEW D \in SUBSET trashed, PurgeShared(D) PROVE Commits /\ \A q \in Ask :
            /\ QuestionsStand(q) /\ Stands(q) /\ Undisturbed(q)
            /\ q.step \in {"climb", "read"} /\ conn \in Reader
            => Disturbs(q)
  <2>1. /\ Whole' /\ rows' = rows \ D
        /\ \A m \in Node : m \in rows' \ trashed' <=> Live(m)
        /\ \A m \in Node : Live(m) => parent'[m] = parent[m]
    BY <1>1, <1>9, PurgeIs DEF PurgeShared
  <2>2. \A m \in Node : Live(m) => m \notin D /\ m \in rows
    BY DEF Live
  <2>3. \A m \in Node : Live(m) => grants'[m] = grants[m]
    <3>1. grants' = [m \in Node |-> IF m \in D THEN [u \in User |-> NoGrant] ELSE grants[m]]
      BY <1>9 DEF PurgeShared
    <3> QED
      BY <2>2, <3>1
  <2>4. Commits
    BY <1>2, <1>3, <1>4, <2>1, <2>2 DEF Commits, Live
  <2> QED
    BY <2>1, <2>3, <2>4, KeptDisturbed
<1>10. ASSUME UNCHANGED tree, conn = Free PROVE Commits /\ \A q \in Ask :
            /\ QuestionsStand(q) /\ Stands(q) /\ Undisturbed(q)
            /\ q.step \in {"climb", "read"} /\ conn \in Reader
            => Disturbs(q)
  <2>1. Whole'
    BY <1>1, <1>10 DEF Whole, TreeType, tree, Live
  <2>2. Commits
    BY <1>2, <1>3, <1>10, <2>1 DEF Commits, Live, tree
  <2> QED
    BY <1>10, <2>2, NobodyReads
<1>11. \A n \in Node, u \in User : Unshare(n, u) \/ (\E l \in {View, Download} : Grant(n, u, l))
          => UNCHANGED tree /\ conn = Free
  BY DEF Unshare, Grant
<1> QED
  BY <1>5, <1>8, <1>9, <1>10, <1>11

-----------------------------------------------------------------------------
(* The answers: the invariant, and the theorem.                            *)

\* What a request may notice of a commit is that there was one.
LEMMA NoticedKeeps ==
    ASSUME SharesType, NEW u, NEW l, Noticed(u, l), NEW r \in Reader
    PROVE  LET p == ask[r]  q == ask'[r] IN
           /\ q.step = p.step /\ q.op = p.op /\ q.user = p.user /\ q.node = p.node
           /\ q.needs = p.needs /\ q.chain = p.chain /\ q.best = p.best /\ q.cursor = p.cursor
           /\ Busy(r) => q.changes = (IF p.changes = 0 THEN 1 ELSE 2)
           /\ Busy(r) /\ p.changes = 0 => (q.before <=> RightNow(p))
<1> DEFINE p == ask[r]
           c == IF p.changes = 0 THEN 1 ELSE 2
           b == p.changes = 0 /\ RightNow(p)
           h == IF p.user = u THEN Greater(p.held, l) ELSE p.held
           n == [p EXCEPT !.changes = c, !.before = b, !.held = h]
<1>1. p \in Ask /\ ask'[r] = IF Busy(r) THEN n ELSE p
  BY DEF SharesType, Noticed
<1>2. (p.changes = 0 => c = 1) /\ (p.changes # 0 => c = 2) /\ (p.changes = 0 => (b <=> RightNow(p)))
  OBVIOUS
<1> HIDE DEF c, b, h
<1>3. /\ n.step = p.step /\ n.op = p.op /\ n.user = p.user /\ n.node = p.node
      /\ n.needs = p.needs /\ n.chain = p.chain /\ n.best = p.best /\ n.cursor = p.cursor
      /\ n.changes = c /\ n.before = b
  BY <1>1 DEF Ask
<1> HIDE DEF n, p
<1> QED
  BY <1>1, <1>2, <1>3 DEF p, c

\* A request is as it was if the world is.
LEMMA SameWorld ==
    ASSUME UNCHANGED <<tree, grants>>, NEW q
    PROVE  (Momentary(q)' <=> Momentary(q)) /\ (Whole' <=> Whole)
<1>1. rows' = rows /\ trashed' = trashed /\ parent' = parent /\ grants' = grants /\ ids' = ids
  BY DEF tree
<1>2. \A n : (Live(n)' <=> Live(n)) /\ Sub(n)' = Sub(n) /\ Base(n)' = Base(n) /\ Anc(n)' = Anc(n)
  BY <1>1 DEF Live, Sub, Base, Anc
<1>3. \A n : LiveAnc(n)' = LiveAnc(n) /\ Above(n)' = Above(n)
  BY <1>1, <1>2 DEF LiveAnc, Above
<1>4. \A u, n : Level(u, n)' = Level(u, n)
  BY <1>1, <1>3 DEF Level
<1>5. \A u, n, l : Enough(u, n, l)' <=> Enough(u, n, l)
  BY <1>1, <1>2 DEF Enough
<1>6. RightNow(q)' <=> RightNow(q)
  BY <1>1, <1>2, <1>4 DEF RightNow, Right
<1>7. Ahead(q)' = Ahead(q)
  BY <1>2, <1>3 DEF Ahead, Chained
<1>8. \A l : Sees(q, l)' <=> Sees(q, l)
  BY <1>1, <1>7 DEF Sees
<1>9. Fated(q)' <=> Fated(q)
  BY <1>1, <1>2, <1>6, <1>8 DEF Fated
<1>10. OnItsWay(q)' <=> OnItsWay(q)
  BY <1>1, <1>2 DEF OnItsWay, Visited
<1>11. Undisturbed(q)' <=> Undisturbed(q)
  BY <1>2, <1>5, <1>6, <1>8, <1>10 DEF Undisturbed, Chained
<1>12. (Walks(q)' <=> Walks(q)) /\ (Fair(q)' <=> Fair(q))
  BY <1>1, <1>3, <1>6, <1>9 DEF Walks, Fair, Visited
<1>13. Momentary(q)' <=> Momentary(q)
  BY <1>11, <1>12 DEF Momentary
<1>14. Whole' <=> Whole
  BY <1>1, <1>2 DEF Whole, TreeType
<1> QED
  BY <1>13, <1>14

\* Every step of a request.
LEMMA RequestIsRight ==
    ASSUME MInv, NEW r \in Reader, RequestStep(r)
    PROVE  MomentStep(r) /\ (conn' = conn \/ conn = Free \/ conn = r)
<1>1. MomentStep(r)
  BY OpenIsRight, ReachIsRight, VetIsRight, StartIsRight, ClimbIsRight, ReadIsRight,
     BytesAreRight DEF RequestStep
<1>2. CASE ReadGrant(r)
  BY <1>1, <1>2 DEF ReadGrant, MInv, Moments, Holds
<1>3. CASE VetTarget(r)
  BY <1>1, <1>3 DEF VetTarget
<1>4. CASE ~ReadGrant(r) /\ ~VetTarget(r)
  BY <1>1, <1>4 DEF RequestStep, OpenFile, OpenFolder, Reach, Start, Climb, ReadBytes
<1> QED
  BY <1>2, <1>3, <1>4

\* At first nobody asks and the tree has grown.
LEMMA MomentsInit == SharesInit => MInv
<1> SUFFICES ASSUME SharesInit PROVE MInv
  OBVIOUS
<1>1. IInv
  BY InvInit
<1>2. Whole
  BY DEF SharesInit, Grown, Whole, TreeType, Forest, Live, Node
<1>3. \A r \in Reader : ask[r].step = "idle"
  BY RestIs DEF SharesInit, Steps
<1>4. Moments
  BY <1>3 DEF Moments, Holds, Stands, Momentary, Asking
<1> QED
  BY <1>1, <1>2, <1>4 DEF MInv

\* A step keeps what is said of the answers, and an answer is what the
\* request had come to.
LEMMA MomentsNext ==
    ASSUME MInv, SharesNext
    PROVE  /\ MInv'
           /\ \A r \in Reader : Answers(r) /\ ask[r].changes < 2 => (Yes(r) <=> Fated(ask[r]))
<1>1. IInv /\ IInv' /\ Whole /\ SharesType /\ Free \notin Reader
  BY InvNext, NobodyReads DEF MInv, IInv
<1>2. ASSUME NEW r \in Reader, RequestStep(r)
      PROVE  /\ MInv'
             /\ \A s \in Reader : Answers(s) /\ ask[s].changes < 2 => (Yes(s) <=> Fated(ask[s]))
  <2>1. MomentStep(r) /\ (conn' = conn \/ conn = Free \/ conn = r) /\ UNCHANGED <<tree, grants>>
    BY <1>1, <1>2, RequestIsRight, RequestIsSound
  <2>2. PICK q \in Ask :
          /\ Go(r, q) /\ Stands(q) /\ Momentary(q)
          /\ q.step \in {"climb", "read"} => conn' = r
          /\ Busy(r) /\ ask[r].changes < 2 =>
                \/ q.step \in Asking \cup {"bytes"}
                \/ q.step = "served" <=> Fated(ask[r])
    BY <2>1 DEF MomentStep
  <2>3. /\ ask' \in [Reader -> Ask] /\ ask'[r] = q
        /\ \A s \in Reader : s # r => ask'[s] = ask[s]
    BY <1>1, <2>2, GoIs
  <2>4. Whole'
    BY <1>1, <2>1, SameWorld
  <2>5. ASSUME NEW s \in Reader
        PROVE  Holds(s)' /\ Stands(ask[s])' /\ Momentary(ask[s])'
    <3>1. PICK p : p = ask'[s]
      OBVIOUS
    <3>2. Stands(p) /\ Momentary(p)
      BY <2>2, <2>3, <3>1 DEF MInv, Moments
    <3>3. Momentary(p)'
      BY <2>1, <3>2, SameWorld
    <3>4. p.step \in {"climb", "read"} => conn' = s
      <4>1. CASE s = r
        BY <2>2, <2>3, <3>1, <4>1
      <4>2. CASE s # r
        BY <1>1, <2>1, <2>3, <3>1, <4>2 DEF MInv, Moments, Holds
      <4> QED
        BY <4>1, <4>2
    <3>5. Momentary(ask[s])'
      BY <3>1, <3>3 DEF Momentary, Undisturbed, Fair, Walks, Fated, Sees, Ahead, Chained,
                       OnItsWay, Visited, RightNow
    <3> QED
      BY <3>1, <3>2, <3>4, <3>5 DEF Stands, Holds
  <2>6. MInv'
    BY <1>1, <2>4, <2>5 DEF MInv, Moments
  <2>7. ASSUME NEW s \in Reader, Answers(s), ask[s].changes < 2
        PROVE  Yes(s) <=> Fated(ask[s])
    <3>1. s = r
      BY <2>3, <2>7 DEF Answers, Busy
    <3>2. Busy(r) /\ q.step \notin Asking \cup {"bytes"}
      BY <2>3, <2>7, <3>1 DEF Answers, Busy, Asking
    <3> QED
      BY <2>2, <2>3, <2>7, <3>1, <3>2 DEF Yes
  <2> QED
    BY <2>6, <2>7
<1>3. ASSUME OthersStep
      PROVE  /\ MInv'
             /\ \A s \in Reader : Answers(s) /\ ask[s].changes < 2 => (Yes(s) <=> Fated(ask[s]))
  <2>1. \A s \in Reader : ~Answers(s)
    BY <1>1, <1>3, OthersAreSound DEF Answers, Busy
  <2>2. CASE \E n \in Node, u \in User : \E l \in {View, Download} : Vet(n, u, l)
    <3>1. UNCHANGED <<tree, grants, ask, conn>>
      BY <2>2 DEF Vet
    <3>2. Whole'
      BY <1>1, <3>1, SameWorld
    <3>3. ASSUME NEW s \in Reader PROVE Holds(s)' /\ Stands(ask[s])' /\ Momentary(ask[s])'
      <4>1. PICK p : p = ask[s]
        OBVIOUS
      <4>2. Holds(s) /\ Stands(p) /\ Momentary(p)
        BY <4>1 DEF MInv, Moments
      <4>3. Momentary(p)'
        BY <3>1, <4>2, SameWorld
      <4>4. ask'[s] = p
        BY <3>1, <4>1
      <4>5. Momentary(ask[s])'
        BY <4>3, <4>4 DEF Momentary, Undisturbed, Fair, Walks, Fated, Sees, Ahead, Chained,
                         OnItsWay, Visited, RightNow
      <4> QED
        BY <3>1, <4>2, <4>4, <4>5 DEF Stands, Holds
    <3> QED
      BY <1>1, <2>1, <3>2, <3>3 DEF MInv, Moments
  <2>3. CASE \/ TreeStep
             \/ \E D \in SUBSET trashed : PurgeShared(D)
             \/ \E n \in Node, u \in User :
                 Unshare(n, u) \/ \E l \in {View, Download} : Grant(n, u, l)
    <3>1. /\ Commits
          /\ \A q \in Ask : /\ QuestionsStand(q) /\ Stands(q) /\ Undisturbed(q)
                            /\ q.step \in Asking \cup {"bytes"}
                            /\ q.step \in {"climb", "read"} => conn \in Reader
                            => Disturbs(q)
      BY <2>3, CommitDisturbs
    <3>2. (\E u, l : Noticed(u, l)) /\ conn' = conn
      BY <2>3 DEF TreeStep, PurgeShared, Unshare, Grant
    <3>3. ASSUME NEW s \in Reader PROVE Holds(s)' /\ Stands(ask[s])' /\ Momentary(ask[s])'
      <4>1. PICK p \in Ask : p = ask[s]
        BY <1>1 DEF SharesType
      <4>2. PICK q : q = ask'[s]
        OBVIOUS
      <4>3. /\ q.step = p.step /\ q.op = p.op /\ q.user = p.user /\ q.node = p.node
            /\ q.needs = p.needs /\ q.chain = p.chain /\ q.best = p.best /\ q.cursor = p.cursor
            /\ Busy(s) => q.changes = (IF p.changes = 0 THEN 1 ELSE 2)
            /\ Busy(s) /\ p.changes = 0 => (q.before <=> RightNow(p))
        BY <1>1, <3>2, <4>1, <4>2, NoticedKeeps
      <4>4. Holds(s) /\ Stands(p) /\ Momentary(p) /\ QuestionsStand(p)
        BY <1>1, <4>1 DEF MInv, Moments, IInv, Sound
      <4>5. Stands(q)
        BY <4>3, <4>4 DEF Stands
      <4>6. q.step \in {"climb", "read"} => conn = s
        BY <4>1, <4>3, <4>4 DEF Holds
      <4>7. Momentary(q)'
        <5> SUFFICES ASSUME q.step \in Asking \cup {"bytes"}, q.changes \in {0, 1}
                     PROVE  q.changes = 1 /\ Fair(q)' /\ Walks(q)'
          BY DEF Momentary
        <5>1. Busy(s)
          BY <4>1, <4>3 DEF Busy, Asking
        <5>2. q.changes = 1 /\ p.changes = 0 /\ (q.before <=> RightNow(p))
          BY <4>3, <5>1
        <5>3. Undisturbed(p)
          BY <4>3, <4>4, <5>2 DEF Momentary
        <5>4. Disturbs(p)
          BY <3>1, <4>3, <4>4, <4>6, <5>3
        <5>5. /\ (Fated(q)' <=> Fated(p)') /\ (RightNow(q)' <=> RightNow(p)')
              /\ Walks(q)' <=> Walks(p)'
          BY <4>3 DEF Fated, Sees, Ahead, Chained, RightNow, Walks, Visited
        <5> QED
          BY <5>2, <5>4, <5>5 DEF Disturbs, Fair
      <4>8. Momentary(ask[s])'
        BY <4>2, <4>7 DEF Momentary, Undisturbed, Fair, Walks, Fated, Sees, Ahead, Chained,
                         OnItsWay, Visited, RightNow
      <4> QED
        BY <3>2, <4>2, <4>5, <4>6, <4>8 DEF Stands, Holds
    <3> QED
      BY <1>1, <2>1, <3>1, <3>3 DEF MInv, Moments, Commits
  <2> QED
    BY <1>3, <2>2, <2>3 DEF OthersStep
<1> QED
  BY <1>2, <1>3 DEF SharesNext, OthersStep, RequestStep

\* What is said of the answers holds in every reachable state.
LEMMA MomentsAlways == SharesSpec => []MInv
<1>1. MInv /\ [SharesNext]_vars => MInv'
  <2>1. MInv /\ SharesNext => MInv'
    BY MomentsNext
  <2>2. ASSUME MInv, UNCHANGED vars PROVE MInv'
    <3>1. UNCHANGED <<tree, grants, vetted, ask, conn>>
      BY <2>2 DEF vars, shares
    <3>2. IInv' /\ Whole'
      <4>1. IInv'
        BY <2>2, <3>1 DEF MInv, tree, IInv, SharesType, TreeType, Sound, HeldIsHeld,
                          QuestionsStand, ChainIsSimple
      <4> QED
        BY <2>2, <3>1, <4>1, SameWorld DEF MInv
    <3>3. ASSUME NEW s \in Reader PROVE Holds(s)' /\ Stands(ask[s])' /\ Momentary(ask[s])'
      <4>1. PICK p : p = ask[s]
        OBVIOUS
      <4>2. Holds(s) /\ Stands(p) /\ Momentary(p)
        BY <2>2, <4>1 DEF MInv, Moments
      <4>3. Momentary(p)'
        BY <3>1, <4>2, SameWorld
      <4>4. ask'[s] = p
        BY <3>1, <4>1
      <4>5. Momentary(ask[s])'
        BY <4>3, <4>4 DEF Momentary, Undisturbed, Fair, Walks, Fated, Sees, Ahead, Chained,
                         OnItsWay, Visited, RightNow
      <4> QED
        BY <3>1, <4>2, <4>4, <4>5 DEF Stands, Holds
    <3> QED
      BY <3>2, <3>3 DEF MInv, Moments
  <2> QED
    BY <2>1, <2>2
<1> QED
  BY <1>1, MomentsInit, PTL DEF SharesSpec

(* Unless two commits fall between its reads, a request for what is shared *)
(* is answered as it should have been before the one or after it, for any  *)
(* tree, and never by a mixture of the two (current_folder, can_see,       *)
(* can_download, effective_grant, bytes_response).                         *)
THEOREM AnswersAreRight == SharesSpec => AnswersAreOfOneMoment
<1>1. ASSUME MInv, [SharesNext]_vars
      PROVE  [\A r \in Reader : LET q == ask[r] IN
                Answers(r) /\ q.changes < 2 =>
                    Yes(r) = RightNow(q) \/ (q.changes = 1 /\ Yes(r) = q.before)]_vars
  <2> SUFFICES ASSUME SharesNext, NEW r \in Reader, Answers(r), ask[r].changes < 2
               PROVE  Yes(r) = RightNow(ask[r]) \/ (ask[r].changes = 1 /\ Yes(r) = ask[r].before)
    BY <1>1
  <2>1. PICK q \in Ask : q = ask[r]
    BY <1>1 DEF MInv, IInv, SharesType
  <2>2. Yes(r) <=> Fated(q)
    BY <1>1, <2>1, MomentsNext
  <2>3. /\ Momentary(q) /\ q.step \in Asking \cup {"bytes"} /\ q.changes \in {0, 1}
        /\ SharesType /\ Whole /\ QuestionsStand(q) /\ Stands(q) /\ q.before \in BOOLEAN
    BY <1>1, <2>1 DEF MInv, Moments, IInv, Sound, Answers, Busy, Asking, Ask
  <2>4. Undisturbed(q) => (Fated(q) <=> RightNow(q))
    BY <2>3, UndisturbedIsRight
  <2>5. (Fated(q) <=> RightNow(q)) \/ (q.changes = 1 /\ (Fated(q) <=> q.before))
    BY <2>3, <2>4 DEF Momentary, Fair
  <2>6. Yes(r) \in BOOLEAN /\ RightNow(q) \in BOOLEAN
    BY DEF Yes, RightNow, Right
  <2> QED
    BY <2>1, <2>2, <2>3, <2>5, <2>6
<1> QED
  BY <1>1, MomentsAlways, PTL DEF SharesSpec, AnswersAreOfOneMoment
=============================================================================
