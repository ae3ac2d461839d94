--------------------------- MODULE IdentityProofs ---------------------------
(***************************************************************************)
(* What Identity guarantees for any number of people, requests and         *)
(* services' keys: who writes is alone with the rows from what it reads to *)
(* what it commits.                                                        *)
(***************************************************************************)
EXTENDS Identity, FiniteSetTheorems, TLAPS

-----------------------------------------------------------------------------
(* The invariant.                                                          *)

\* The mirror files a member while it has one, and disables who has a row.
MembersAreThere ==
    /\ sync.pc \in {"begun", "disable"} => sync.todo # {}
    /\ sync.pc = "disable" => row[Current.sub] # None

\* Requests come in their order.
NewcomersAreIdle == \A w \in Worker : w > visits => req[w].pc = "idle"

\* A transaction that is open has the write lock.
LocksAreHeld ==
    /\ \A w \in Worker : req[w].pc \in {"begun", "minted"} => lock = w
    /\ sync.pc = "begun" => lock = Sync

\* And so what it read is still so.
ReadingsHold ==
    /\ \A w \in Worker : req[w].pc = "begun" => (req[w].empty <=> NoRows)
    /\ \A w \in Worker : req[w].pc = "minted" => (req[w].empty <=> accounts = 0)
    /\ sync.pc = "begun" => (sync.empty <=> NoRows)

\* One administrator by the bootstrap rule, whose row is never taken away.
FirstsHaveRows == \A s \in firsts : row[s] # None /\ \A t \in firsts : s = t

IInv ==
    /\ IdentityType
    /\ MembersAreThere
    /\ NewcomersAreIdle
    /\ LocksAreHeld
    /\ ReadingsHold
    /\ FirstsHaveRows
    /\ OneAccount

-----------------------------------------------------------------------------

(* A person who is provisioned has a row, everybody else the one they had. *)
LEMMA ProvisionGivesARow ==
    ASSUME IdentityType, NEW s \in Sub, NEW face \in Faces,
           NEW admin \in BOOLEAN \cup {None}, NEW empty \in BOOLEAN,
           Provision(s, face, admin, empty)
    PROVE  /\ row' \in [Sub -> Person \cup {None}]
           /\ row'[s] \in Person /\ row'[s] # None
           /\ \A t \in Sub \ {s} : row'[t] = row[t]
<1> DEFINE new == IF row[s] = None
                  THEN [face |-> face, disabled |-> FALSE,
                        admin |-> IF admin # None THEN admin ELSE empty]
                  ELSE [face |-> face, disabled |-> row[s].disabled,
                        admin |-> IF admin # None THEN admin ELSE row[s].admin]
<1>1. row' = [row EXCEPT ![s] = new]
  BY DEF Provision
<1>2. row \in [Sub -> Person \cup {None}]
  BY DEF IdentityType
<1>3. new \in Person
  <2>1. CASE row[s] = None
    BY <2>1 DEF Person
  <2>2. CASE row[s] # None
    <3>1. row[s] \in Person
      BY <1>2, <2>2
    <3> QED
      BY <2>2, <3>1 DEF Person
  <2> QED
    BY <2>1, <2>2
<1> HIDE DEF new
<1> QED
  BY <1>1, <1>2, <1>3, WordsType

(* The bootstrap rule makes an administrator of the first person only.     *)
LEMMA ProvisionMakesOne ==
    ASSUME IdentityType, FirstsHaveRows, NEW s \in Sub, NEW face \in Faces,
           NEW admin \in BOOLEAN \cup {None}, NEW empty \in BOOLEAN,
           empty => NoRows, Provision(s, face, admin, empty)
    PROVE  FirstsHaveRows' /\ firsts' \subseteq Sub
<1>1. /\ firsts \subseteq Sub
      /\ row'[s] # None /\ \A t \in Sub \ {s} : row'[t] = row[t]
  BY ProvisionGivesARow DEF IdentityType
<1>2. CASE empty /\ firsts' = firsts \cup {s}
  <2>1. firsts = {}
    BY <1>1, <1>2 DEF FirstsHaveRows, NoRows
  <2> QED
    BY <1>1, <1>2, <2>1 DEF FirstsHaveRows
<1>3. CASE firsts' = firsts
  BY <1>1, <1>3 DEF FirstsHaveRows
<1> QED
  BY <1>2, <1>3 DEF Provision

(* A member the mirror has yet to file.                                    *)
LEMMA CurrentIsAMember ==
    ASSUME IdentityType, sync.todo # {}
    PROVE  /\ Current \in sync.todo
           /\ Current.sub \in Sub /\ Current.word \in Person
           /\ Current.word.face \in Faces /\ Current.word.admin \in BOOLEAN
           /\ Current.word.disabled \in BOOLEAN
<1>1. Current \in sync.todo
  BY DEF Current
<1>2. sync.todo \subseteq [sub : Sub, word : Words]
  BY DEF IdentityType, Reader, Event
<1>3. Current.sub \in Sub /\ Current.word \in Words
  BY <1>1, <1>2
<1> QED
  BY <1>1, <1>3, WordsType DEF Person

-----------------------------------------------------------------------------
(* Types.                                                                  *)

\* A request that goes on knows whose it is.
Knows(r) ==
    r.pc # "idle" => r.sub \in Sub /\ (r.pc \in {"asked", "begun"} => r.face \in Faces)

(* A request that is set to a sound value leaves all requests sound.       *)
LEMMA RequestStep ==
    ASSUME IdentityType, NEW w \in Worker, NEW r \in Request, Knows(r),
           req' = [req EXCEPT ![w] = r]
    PROVE  /\ req' \in [Worker -> Request]
           /\ \A v \in Worker : Knows(req'[v])
BY DEF IdentityType, Knows

(* A request that is over, or that asks, begins, mints or sets a price.    *)
LEMMA RequestSteps ==
    ASSUME IdentityType, NEW w \in Worker
    PROVE  /\ Idle \in Request /\ Knows(Idle)
           /\ \A pc \in {"begun", "minting", "minted", "pricing"}, empty \in BOOLEAN :
                (pc = "begun" => req[w].pc = "asked") /\ req[w].pc # "idle" =>
                LET r == [req[w] EXCEPT !.pc = pc, !.empty = empty]
                IN  r \in Request /\ Knows(r)
           /\ \A pc \in {"minting", "pricing"} :
                req[w].pc # "idle" =>
                LET r == [req[w] EXCEPT !.pc = pc] IN r \in Request /\ Knows(r)
BY DEF IdentityType, Request, Idle, Knows

(* The loops of the process, and what each of their steps leaves.          *)
LEMMA LoopSteps ==
    ASSUME IdentityType, MembersAreThere
    PROVE  /\ \A pc \in {"pass", "mirror", "begun", "disable"}, empty, open \in BOOLEAN,
                 todo \in SUBSET Event :
                /\ [pc |-> pc, empty |-> empty, open |-> open, todo |-> todo] \in Reader
                /\ [sync EXCEPT !.pc = pc, !.empty = empty] \in Reader
                /\ [sync EXCEPT !.pc = pc, !.open = open] \in Reader
                /\ [sync EXCEPT !.pc = pc] \in Reader
                /\ [sync EXCEPT !.open = open] \in Reader
                /\ [sync EXCEPT !.todo = todo] \in Reader
           /\ Filed \in Reader
<1>1. sync \in Reader /\ Filed \in Reader
  BY DEF IdentityType, Reader, Filed
<1> SUFFICES ASSUME NEW pc \in {"pass", "mirror", "begun", "disable"}, NEW empty \in BOOLEAN,
                    NEW open \in BOOLEAN, NEW todo \in SUBSET Event
    PROVE  /\ [pc |-> pc, empty |-> empty, open |-> open, todo |-> todo] \in Reader
           /\ [sync EXCEPT !.pc = pc, !.empty = empty] \in Reader
           /\ [sync EXCEPT !.pc = pc, !.open = open] \in Reader
           /\ [sync EXCEPT !.pc = pc] \in Reader
           /\ [sync EXCEPT !.open = open] \in Reader
           /\ [sync EXCEPT !.todo = todo] \in Reader
  BY <1>1
<1>2. [pc |-> pc, empty |-> empty, open |-> open, todo |-> todo] \in Reader
  BY DEF Reader
<1>3. [sync EXCEPT !.pc = pc, !.empty = empty] \in Reader
  BY <1>1 DEF Reader
<1>4. [sync EXCEPT !.pc = pc, !.open = open] \in Reader
  BY <1>1 DEF Reader
<1>5. [sync EXCEPT !.pc = pc] \in Reader
  BY <1>1 DEF Reader
<1>6. [sync EXCEPT !.open = open] \in Reader /\ [sync EXCEPT !.todo = todo] \in Reader
  BY <1>1 DEF Reader
<1> QED
  BY <1>2, <1>3, <1>4, <1>5, <1>6

(* The stream of events stays one.                                         *)
LEMMA EventSteps ==
    ASSUME IdentityType
    PROVE  /\ \A e \in Event : Append(events, e) \in Seq(Event)
           /\ events # <<>> => Head(events) \in Event /\ Tail(events) \in Seq(Event)
           /\ <<>> \in Seq(Event)
BY DEF IdentityType

\* The types that a request, the rows, the loops and the rest have to keep.
RequestsType == req \in [Worker -> Request] /\ \A w \in Worker : Knows(req[w])
RowsType == row \in [Sub -> Person \cup {None}] /\ firsts \subseteq Sub
LoopsType == sync \in Reader /\ events \in Seq(Event)
RestType ==
    /\ word \in [Sub -> Words] /\ limit \in Limits
    /\ lock \in Worker \cup {Sync, Free} /\ visits \in 0..MaxVisits
    /\ beat \in [limit : Limits, keyed : BOOLEAN] \cup {None}
    /\ accounts \in Nat /\ key \in BOOLEAN /\ ceiling \in Limits
    /\ upsets \in 0..MaxUpsets

(* The type invariant, in the four parts that different steps write.       *)
LEMMA TypeParts == IdentityType <=> RequestsType /\ RowsType /\ LoopsType /\ RestType
BY DEF IdentityType, RequestsType, RowsType, LoopsType, RestType, Knows

(* Who writes what.                                                        *)
LEMMA WhoWrites ==
    ASSUME [Next]_vars
    PROVE  /\ \/ \E w \in Worker :
                  \/ Introspect(w) \/ BeginSight(w) \/ CommitSight(w)
                  \/ DisableUser(w) \/ MintGate(w) \/ MintBegin(w) \/ MintCommit(w)
                  \/ RotateKey(w) \/ RevokeKey(w) \/ QuotaGate(w) \/ SetQuota(w)
              \/ UNCHANGED req
           /\ \/ \E w \in Worker : CommitSight(w) \/ DisableUser(w)
              \/ MirrorCommit \/ MirrorDisabled
              \/ UNCHANGED people
           /\ (\E w \in Worker : MintCommit(w)) \/ UNCHANGED accounts
           /\ \/ \E w \in Worker : BeginSight(w) \/ CommitSight(w) \/ MintBegin(w) \/ MintCommit(w)
              \/ MirrorBegin \/ MirrorCommit \/ MirrorFails
              \/ UNCHANGED lock
           /\ \/ Pass \/ MirrorBegin \/ MirrorCommit \/ MirrorDisabled \/ MirrorFails
              \/ OpenStream \/ HearEvent \/ StreamEnds \/ StreamRefused
              \/ UNCHANGED sync
           /\ \/ \E s \in Sub : ChangeWord(s)
              \/ HearEvent \/ StreamEnds
              \/ UNCHANGED events
<1> USE DEF im, people, service
<1>1. CASE \E s \in Sub : ChangeWord(s)
  BY <1>1 DEF ChangeWord
<1>2. CASE ChangeLimit \/ Beat \/ ApplyFails
  BY <1>2 DEF ChangeLimit, Beat, FetchFamily, FindKey, ApplyLimit, ApplyFails
<1>3. ASSUME NEW w \in Worker, Introspect(w) \/ Sight(w)
      PROVE  UNCHANGED <<accounts, sync, events>>
  BY <1>3 DEF Introspect, Sight, BeginSight, CommitSight
<1>4. ASSUME NEW w \in Worker, Introspect(w) \/ BeginSight(w) PROVE UNCHANGED people
  BY <1>4 DEF Introspect, BeginSight
<1>5. ASSUME NEW w \in Worker, Introspect(w) PROVE UNCHANGED lock
  BY <1>5 DEF Introspect
<1>6. ASSUME NEW w \in Worker, Settings(w) PROVE UNCHANGED <<sync, events>>
  BY <1>6 DEF Settings, DisableUser, MintGate, MintBegin, MintCommit, RotateKey, RevokeKey,
              QuotaGate, SetQuota
<1>7. ASSUME NEW w \in Worker, Settings(w), ~DisableUser(w) PROVE UNCHANGED people
  BY <1>7 DEF Settings, MintGate, MintBegin, MintCommit, RotateKey, RevokeKey, QuotaGate, SetQuota
<1>8. ASSUME NEW w \in Worker, Settings(w), ~MintCommit(w) PROVE UNCHANGED accounts
  BY <1>8 DEF Settings, DisableUser, MintGate, MintBegin, RotateKey, RevokeKey, QuotaGate, SetQuota
<1>9. ASSUME NEW w \in Worker, Settings(w), ~MintCommit(w), ~MintBegin(w) PROVE UNCHANGED lock
  BY <1>9 DEF Settings, DisableUser, MintGate, RotateKey, RevokeKey, QuotaGate, SetQuota
<1>10. CASE \E w \in Worker : Introspect(w) \/ Sight(w)
  BY <1>3, <1>4, <1>5, <1>10 DEF Sight
<1>11. CASE \E w \in Worker : Settings(w)
  BY <1>6, <1>7, <1>8, <1>9, <1>11 DEF Settings
<1>12. CASE Mirror \/ MirrorFails \/ HearEvent \/ StreamEnds \/ StreamRefused
  BY <1>12 DEF Mirror, Pass, MirrorBegin, MirrorCommit, MirrorDisabled, MirrorFails,
               OpenStream, HearEvent, StreamEnds, StreamRefused
<1>13. CASE UNCHANGED vars
  BY <1>13 DEF vars
<1> QED
  BY <1>1, <1>2, <1>10, <1>11, <1>12, <1>13 DEF Next

(* Requests keep their type.                                               *)
LEMMA RequestsStep ==
    ASSUME IdentityType, MembersAreThere, [Next]_vars PROVE RequestsType'
<1>1. ASSUME NEW w \in Worker, Introspect(w) PROVE RequestsType'
  <2>1. PICK s \in Sub : req' = [req EXCEPT ![w] =
            [pc |-> "asked", sub |-> s, face |-> word[s].face, empty |-> FALSE]]
    BY <1>1 DEF Introspect
  <2>2. word[s].face \in Faces
    BY DEF IdentityType, Faces
  <2> DEFINE r == [pc |-> "asked", sub |-> s, face |-> word[s].face, empty |-> FALSE]
  <2>3. r \in Request /\ Knows(r)
    BY <2>2 DEF Request, Knows
  <2> HIDE DEF r
  <2> QED
    BY <2>1, <2>3, RequestStep DEF r, RequestsType
<1>2. ASSUME NEW w \in Worker, BeginSight(w) PROVE RequestsType'
  <2> DEFINE r == [req[w] EXCEPT !.pc = "begun", !.empty = NoRows]
  <2>1. r \in Request /\ Knows(r)
    BY <1>2, RequestSteps DEF BeginSight, NoRows
  <2>2. req' = [req EXCEPT ![w] = r]
    BY <1>2 DEF BeginSight, Step
  <2> HIDE DEF r
  <2> QED
    BY <2>1, <2>2, RequestStep DEF RequestsType
<1>3. ASSUME NEW w \in Worker, CommitSight(w) PROVE RequestsType'
  <2> DEFINE r == [Idle EXCEPT !.pc = "admin", !.sub = req[w].sub]
  <2>1. r \in Request /\ Knows(r)
    BY <1>3 DEF CommitSight, IdentityType, Request, Idle, Knows
  <2>2. req' = [req EXCEPT ![w] = Idle] \/ req' = [req EXCEPT ![w] = r]
    BY <1>3 DEF CommitSight
  <2> HIDE DEF r
  <2> QED
    BY <2>1, <2>2, RequestStep, RequestSteps DEF RequestsType
<1>4. ASSUME NEW w \in Worker, DisableUser(w) PROVE RequestsType'
  BY <1>4, RequestStep, RequestSteps DEF DisableUser, RequestsType
<1>5. ASSUME NEW w \in Worker, MintGate(w) PROVE RequestsType'
  <2> DEFINE r == [req[w] EXCEPT !.pc = "minting"]
  <2>1. r \in Request /\ Knows(r)
    BY <1>5, RequestSteps DEF MintGate, NoRows
  <2>2. req' = [req EXCEPT ![w] = r]
    BY <1>5 DEF MintGate, Step
  <2> HIDE DEF r
  <2> QED
    BY <2>1, <2>2, RequestStep DEF RequestsType
<1>6. ASSUME NEW w \in Worker, MintBegin(w) PROVE RequestsType'
  <2> DEFINE r == [req[w] EXCEPT !.pc = "minted", !.empty = (accounts = 0)]
  <2>1. r \in Request /\ Knows(r)
    BY <1>6, RequestSteps DEF MintBegin, NoRows
  <2>2. req' = [req EXCEPT ![w] = r]
    BY <1>6 DEF MintBegin, Step
  <2> HIDE DEF r
  <2> QED
    BY <2>1, <2>2, RequestStep DEF RequestsType
<1>7. ASSUME NEW w \in Worker, MintCommit(w) PROVE RequestsType'
  BY <1>7, RequestStep, RequestSteps DEF MintCommit, RequestsType
<1>8. ASSUME NEW w \in Worker, RotateKey(w) PROVE RequestsType'
  BY <1>8, RequestStep, RequestSteps DEF RotateKey, RequestsType
<1>9. ASSUME NEW w \in Worker, RevokeKey(w) PROVE RequestsType'
  BY <1>9, RequestStep, RequestSteps DEF RevokeKey, RequestsType
<1>10. ASSUME NEW w \in Worker, QuotaGate(w) PROVE RequestsType'
  <2> DEFINE r == [req[w] EXCEPT !.pc = "pricing"]
  <2>1. r \in Request /\ Knows(r)
    BY <1>10, RequestSteps DEF QuotaGate, NoRows
  <2>2. req' = [req EXCEPT ![w] = r]
    BY <1>10 DEF QuotaGate, Step
  <2> HIDE DEF r
  <2> QED
    BY <2>1, <2>2, RequestStep DEF RequestsType
<1>11. ASSUME NEW w \in Worker, SetQuota(w) PROVE RequestsType'
  BY <1>11, RequestStep, RequestSteps DEF SetQuota, RequestsType
<1>12. ASSUME UNCHANGED req PROVE RequestsType'
  BY <1>12, TypeParts DEF RequestsType, Knows
<1> QED
  BY <1>1, <1>2, <1>3, <1>4, <1>5, <1>6, <1>7, <1>8, <1>9, <1>10, <1>11, <1>12, WhoWrites

(* The rows keep theirs.                                                   *)
LEMMA RowsStep ==
    ASSUME IdentityType, MembersAreThere, [Next]_vars PROVE RowsType'
<1>1. ASSUME NEW w \in Worker, CommitSight(w) PROVE RowsType'
  <2>1. req[w].sub \in Sub /\ req[w].face \in Faces /\ req[w].empty \in BOOLEAN
    BY <1>1 DEF CommitSight, IdentityType, Request
  <2>2. Provision(req[w].sub, req[w].face, None, req[w].empty)
    BY <1>1 DEF CommitSight
  <2>3. firsts' \subseteq Sub
    BY <2>1, <2>2 DEF Provision, IdentityType
  <2> QED
    BY <2>1, <2>2, <2>3, ProvisionGivesARow DEF RowsType
<1>2. ASSUME NEW s \in Sub, NEW disabled \in BOOLEAN, row[s] # None,
             row' = [row EXCEPT ![s].disabled = disabled], UNCHANGED firsts
      PROVE  RowsType'
  <2>1. row[s] \in Person /\ row \in [Sub -> Person \cup {None}]
    BY <1>2 DEF IdentityType
  <2>2. [row[s] EXCEPT !.disabled = disabled] \in Person
    BY <2>1 DEF Person
  <2> QED
    BY <1>2, <2>1, <2>2, TypeParts DEF RowsType
<1>3. ASSUME NEW w \in Worker, DisableUser(w) PROVE RowsType'
  BY <1>2, <1>3 DEF DisableUser
<1>4. ASSUME MirrorCommit PROVE RowsType'
  <2>1. sync.todo # {} /\ sync.empty \in BOOLEAN
    BY <1>4 DEF MirrorCommit, MembersAreThere, IdentityType, Reader
  <2>2. Provision(Current.sub, Current.word.face, Current.word.admin, sync.empty)
    BY <1>4 DEF MirrorCommit
  <2>3. Current.sub \in Sub /\ Current.word.face \in Faces /\ Current.word.admin \in BOOLEAN
    BY <2>1, CurrentIsAMember
  <2>4. firsts' \subseteq Sub
    BY <2>2, <2>3 DEF Provision, IdentityType
  <2> QED
    BY <2>1, <2>2, <2>3, <2>4, ProvisionGivesARow DEF RowsType
<1>5. ASSUME MirrorDisabled PROVE RowsType'
  <2>1. Current.sub \in Sub /\ Current.word.disabled \in BOOLEAN
    BY <1>5, CurrentIsAMember DEF MirrorDisabled, MembersAreThere
  <2> QED
    BY <1>2, <1>5, <2>1 DEF MirrorDisabled, MembersAreThere
<1>6. ASSUME UNCHANGED people PROVE RowsType'
  BY <1>6, TypeParts DEF RowsType, people
<1> QED
  BY <1>1, <1>3, <1>4, <1>5, <1>6, WhoWrites

(* The mirror and its stream keep theirs.                                  *)
LEMMA LoopsStep ==
    ASSUME IdentityType, MembersAreThere, [Next]_vars PROVE LoopsType'
<1>1. sync' \in Reader
  <2>1. ASSUME Pass PROVE sync' \in Reader
    <3>1. { [sub |-> s, word |-> word[s]] : s \in Sub } \in SUBSET Event
      BY DEF IdentityType, Event
    <3> HIDE DEF Event
    <3> QED
      BY <2>1, <3>1 DEF Pass, Reader
  <2>2. ASSUME MirrorBegin PROVE sync' \in Reader
    <3>1. NoRows \in BOOLEAN
      BY DEF NoRows
    <3> QED
      BY <2>2, <3>1 DEF MirrorBegin, IdentityType, Reader
  <2>3. ASSUME MirrorCommit PROVE sync' \in Reader
    BY <2>3, LoopSteps DEF MirrorCommit
  <2>4. ASSUME MirrorDisabled \/ MirrorFails PROVE sync' \in Reader
    BY <2>4, LoopSteps DEF MirrorDisabled, MirrorFails
  <2>5. ASSUME HearEvent PROVE sync' \in Reader
    <3>1. {Head(events)} \in SUBSET Event
      BY <2>5, EventSteps DEF HearEvent
    <3> QED
      BY <2>5, <3>1, LoopSteps DEF HearEvent
  <2>6. ASSUME OpenStream \/ StreamEnds \/ StreamRefused PROVE sync' \in Reader
    BY <2>6, LoopSteps DEF OpenStream, StreamEnds, StreamRefused
  <2>7. ASSUME UNCHANGED sync PROVE sync' \in Reader
    BY <2>7 DEF IdentityType
  <2> QED
    BY <2>1, <2>2, <2>3, <2>4, <2>5, <2>6, <2>7, WhoWrites
<1>2. events' \in Seq(Event)
  <2>1. ASSUME NEW s \in Sub, ChangeWord(s) PROVE events' \in Seq(Event)
    <3>1. PICK w \in Words : events' = IF sync.open THEN Append(events, [sub |-> s, word |-> w])
                                        ELSE events
      BY <2>1 DEF ChangeWord
    <3>2. [sub |-> s, word |-> w] \in Event
      BY DEF Event
    <3> QED
      BY <3>1, <3>2, EventSteps DEF IdentityType
  <2>2. ASSUME HearEvent \/ StreamEnds PROVE events' \in Seq(Event)
    BY <2>2, EventSteps DEF HearEvent, StreamEnds
  <2>3. ASSUME UNCHANGED events PROVE events' \in Seq(Event)
    BY <2>3 DEF IdentityType
  <2> QED
    BY <2>1, <2>2, <2>3, WhoWrites
<1> QED
  BY <1>1, <1>2 DEF LoopsType

(* The lock, the directory, the keys and the counters keep theirs.         *)
LEMMA RestStep ==
    ASSUME IdentityType, MembersAreThere, [Next]_vars PROVE RestType'
<1> USE IdentityAssumption
<1>1. lock' \in Worker \cup {Sync, Free}
  BY WhoWrites DEF IdentityType, Begin, Commit, BeginSight, CommitSight, MintBegin,
                   MintCommit, MirrorBegin, MirrorCommit, MirrorFails
<1>2. RestType
  BY TypeParts
<1>3. ASSUME NEW s \in Sub, ChangeWord(s) PROVE RestType'
  BY <1>2, <1>3 DEF RestType, ChangeWord, Upset, service
<1>4. ASSUME NEW w \in Worker, Introspect(w) PROVE RestType'
  BY <1>2, <1>4 DEF RestType, Introspect, im, service, Worker
<1>5. ASSUME NEW w \in Worker, Sight(w) PROVE RestType'
  BY <1>1, <1>2, <1>5 DEF RestType, Sight, BeginSight, CommitSight, im, service
<1>6. ASSUME NEW w \in Worker, Settings(w) PROVE RestType'
  <2> USE DEF RestType, im, service
  <2>1. CASE DisableUser(w) \/ MintGate(w) \/ RotateKey(w) \/ RevokeKey(w)
    BY <1>2, <2>1 DEF DisableUser, MintGate, RotateKey, RevokeKey
  <2>2. CASE MintBegin(w)
    BY <1>1, <1>2, <2>2 DEF MintBegin
  <2>3. CASE MintCommit(w)
    <3>1. CASE key
      BY <1>1, <1>2, <2>3, <3>1 DEF MintCommit
    <3>2. CASE ~key
      <4>1. accounts' \in {accounts, accounts + 1} /\ key' = TRUE /\ ceiling' \in {House, ceiling}
        BY <2>3, <3>2 DEF MintCommit
      <4> QED
        BY <1>1, <1>2, <2>3, <4>1 DEF MintCommit
    <3> QED
      BY <3>1, <3>2
  <2>4. CASE QuotaGate(w)
    BY <1>2, <2>4 DEF QuotaGate, Upset
  <2>5. CASE SetQuota(w)
    BY <1>2, <2>5 DEF SetQuota
  <2> QED
    BY <1>6, <2>1, <2>2, <2>3, <2>4, <2>5 DEF Settings
<1>7. ASSUME ChangeLimit \/ Beat \/ ApplyFails PROVE RestType'
  <2> USE DEF RestType, im, service
  <2>1. CASE ChangeLimit \/ ApplyFails
    BY <1>2, <2>1 DEF ChangeLimit, ApplyFails, Upset
  <2>2. CASE FetchFamily
    BY <1>2, <2>2 DEF FetchFamily
  <2>3. CASE FindKey \/ ApplyLimit
    BY <1>2, <2>3 DEF FindKey, ApplyLimit
  <2> QED
    BY <1>7, <2>1, <2>2, <2>3 DEF Beat
<1>8. ASSUME Mirror \/ MirrorFails \/ HearEvent \/ StreamEnds \/ StreamRefused PROVE RestType'
  BY <1>1, <1>2, <1>8 DEF RestType, Mirror, Pass, MirrorBegin, MirrorCommit, MirrorDisabled,
                    OpenStream, MirrorFails, HearEvent, StreamEnds, StreamRefused, Upset,
                    im, service
<1>9. CASE UNCHANGED vars
  BY <1>2, <1>9 DEF RestType, vars, im, service
<1> QED
  BY <1>3, <1>4, <1>5, <1>6, <1>7, <1>8, <1>9 DEF Next

(* So every variable keeps its type.                                       *)
LEMMA TypeStep ==
    ASSUME IdentityType, MembersAreThere, [Next]_vars PROVE IdentityType'
BY RequestsStep, RowsStep, LoopsStep, RestStep, TypeParts
   DEF IdentityType, RequestsType, RowsType, LoopsType, RestType, Knows

-----------------------------------------------------------------------------
(* The other parts of the invariant, step by step.                         *)

(* A row, once it is there, stays there.                                   *)
LEMMA RowsStay ==
    ASSUME IdentityType, MembersAreThere, [Next]_vars, NEW s \in Sub, row[s] # None
    PROVE  row'[s] # None
<1>1. ASSUME NEW w \in Worker, CommitSight(w) PROVE row'[s] # None
  <2>1. req[w].sub \in Sub /\ req[w].face \in Faces /\ req[w].empty \in BOOLEAN
    BY <1>1 DEF CommitSight, IdentityType, Request
  <2>2. Provision(req[w].sub, req[w].face, None, req[w].empty)
    BY <1>1 DEF CommitSight
  <2> QED
    BY <2>1, <2>2, ProvisionGivesARow
<1>2. ASSUME NEW t \in Sub, NEW disabled, row' = [row EXCEPT ![t].disabled = disabled],
             row' \in [Sub -> Person \cup {None}], disabled \in BOOLEAN, row[t] # None
      PROVE  row'[s] # None
  <2>1. row[t] \in Person /\ row \in [Sub -> Person \cup {None}]
    BY <1>2 DEF IdentityType
  <2>2. [row[t] EXCEPT !.disabled = disabled] \in Person
    BY <1>2, <2>1 DEF Person
  <2> QED
    BY <1>2, <2>1, <2>2, WordsType
<1>3. row' \in [Sub -> Person \cup {None}]
  BY RowsStep DEF RowsType
<1>4. ASSUME NEW w \in Worker, DisableUser(w) PROVE row'[s] # None
  BY <1>2, <1>3, <1>4 DEF DisableUser
<1>5. ASSUME MirrorCommit PROVE row'[s] # None
  <2>1. sync.todo # {} /\ sync.empty \in BOOLEAN
    BY <1>5 DEF MirrorCommit, MembersAreThere, IdentityType, Reader
  <2>2. Provision(Current.sub, Current.word.face, Current.word.admin, sync.empty)
    BY <1>5 DEF MirrorCommit
  <2> QED
    BY <2>1, <2>2, CurrentIsAMember, ProvisionGivesARow
<1>6. ASSUME MirrorDisabled PROVE row'[s] # None
  <2>1. Current.sub \in Sub /\ Current.word.disabled \in BOOLEAN
    BY <1>6, CurrentIsAMember DEF MirrorDisabled, MembersAreThere
  <2> QED
    BY <1>2, <1>3, <1>6, <2>1 DEF MirrorDisabled, MembersAreThere
<1>7. ASSUME UNCHANGED people PROVE row'[s] # None
  BY <1>7 DEF people
<1> QED
  BY <1>1, <1>4, <1>5, <1>6, <1>7, WhoWrites

(* Where the mirror is after a step other than its first write's.          *)
LEMMA ReaderSteps ==
    ASSUME sync \in Reader,
           \/ Pass \/ MirrorDisabled \/ MirrorFails \/ OpenStream \/ HearEvent \/ StreamEnds
           \/ StreamRefused
    PROVE  sync'.pc \in {"pass", "mirror"}
<1>1. Filed.pc = "mirror"
  BY DEF Filed, Reader
<1>2. CASE MirrorDisabled \/ MirrorFails
  BY <1>1, <1>2 DEF MirrorDisabled, MirrorFails
<1>3. CASE Pass
  BY <1>3 DEF Pass
<1>4. CASE OpenStream \/ StreamEnds \/ StreamRefused
  BY <1>4 DEF OpenStream, StreamEnds, StreamRefused, Reader
<1>5. CASE HearEvent
  BY <1>5 DEF HearEvent, Reader
<1> QED
  BY <1>2, <1>3, <1>4, <1>5

(* The mirror files members while it has one, and disables who has a row.  *)
LEMMA MembersStep ==
    ASSUME IdentityType, MembersAreThere, [Next]_vars PROVE MembersAreThere'
<1>1. ASSUME MirrorCommit PROVE MembersAreThere'
  <2>1. sync.todo # {} /\ sync.empty \in BOOLEAN
    BY <1>1 DEF MirrorCommit, MembersAreThere, IdentityType, Reader
  <2>2. row'[Current.sub] # None
    BY <1>1, <2>1, CurrentIsAMember, ProvisionGivesARow DEF MirrorCommit
  <2>3. CASE sync' = Filed
    BY <2>3 DEF Filed, MembersAreThere, IdentityType, Reader
  <2>4. CASE sync' = [sync EXCEPT !.pc = "disable", !.empty = FALSE]
    <3>1. sync'.todo = sync.todo
      BY <2>4 DEF IdentityType, Reader
    <3> QED
      BY <2>1, <2>2, <3>1 DEF MembersAreThere, Current
  <2> QED
    BY <1>1, <2>3, <2>4 DEF MirrorCommit
<1>2. ASSUME UNCHANGED sync PROVE MembersAreThere'
  <2>1. sync.pc = "disable" => Current.sub \in Sub /\ row[Current.sub] # None
    BY CurrentIsAMember DEF MembersAreThere
  <2>2. sync.pc = "disable" => row'[Current.sub] # None
    BY <2>1, RowsStay
  <2> QED
    BY <1>2, <2>2 DEF MembersAreThere, Current
<1>3. sync \in Reader
  BY DEF IdentityType
<1>4. ASSUME Pass \/ MirrorDisabled \/ MirrorFails \/ OpenStream \/ HearEvent \/ StreamEnds
             \/ StreamRefused
      PROVE  sync'.pc \in {"pass", "mirror"}
  BY <1>4, ReaderSteps DEF IdentityType
<1>5. ASSUME MirrorBegin PROVE MembersAreThere'
  BY <1>3, <1>5 DEF MirrorBegin, MembersAreThere, Reader
<1> QED
  BY <1>1, <1>2, <1>4, <1>5, WhoWrites DEF MembersAreThere

(* Who holds the lock writes alone.                                        *)
LEMMA HolderIsAlone ==
    ASSUME IdentityType, [Next]_vars, lock # Free
    PROVE  \/ UNCHANGED <<lock, people, accounts>>
           \/ lock \in Worker /\ (CommitSight(lock) \/ MintCommit(lock))
           \/ lock = Sync /\ (MirrorCommit \/ MirrorFails)
<1>1. ASSUME NEW w \in Worker, CommitSight(w) \/ MintCommit(w) PROVE lock = w
  BY <1>1 DEF CommitSight, MintCommit
<1>2. ASSUME MirrorCommit PROVE lock = Sync
  BY <1>2 DEF MirrorCommit
<1>3. ASSUME MirrorFails PROVE lock = Sync \/ UNCHANGED <<lock, people, accounts>>
  BY <1>3 DEF MirrorFails, Commit, people, service
<1>4. ASSUME NEW w \in Worker PROVE ~DisableUser(w) /\ ~BeginSight(w) /\ ~MintBegin(w)
  BY DEF DisableUser, BeginSight, MintBegin, Begin
<1>5. ~MirrorBegin /\ ~MirrorDisabled
  BY DEF MirrorBegin, MirrorDisabled, Begin
<1> QED
  BY <1>1, <1>2, <1>3, <1>4, <1>5, WhoWrites

(* A commit is the end of a transaction.                                   *)
LEMMA CommitEnds ==
    ASSUME req \in [Worker -> Request], NEW v \in Worker, CommitSight(v) \/ MintCommit(v)
    PROVE  /\ req'[v].pc \in {"idle", "admin"}
           /\ \A w \in Worker \ {v} : req'[w] = req[w]
<1> DEFINE r == [Idle EXCEPT !.pc = "admin", !.sub = req[v].sub]
<1>1. req' = [req EXCEPT ![v] = Idle] \/ req' = [req EXCEPT ![v] = r]
  BY DEF CommitSight, MintCommit
<1>2. Idle.pc = "idle" /\ r.pc = "admin"
  BY DEF Idle
<1> HIDE DEF r
<1> QED
  BY <1>1, <1>2

(* What becomes of a request.                                              *)
LEMMA RequestsApart ==
    ASSUME IdentityType, NewcomersAreIdle, [Next]_vars, NEW v \in Worker
    PROVE  \/ req'[v] = req[v]
           \/ BeginSight(v) \/ MintBegin(v)
           \/ req'[v].pc \notin {"begun", "minted"}
<1>0. req \in [Worker -> Request]
  BY DEF IdentityType
<1>1. ASSUME NEW w \in Worker,
             \/ CommitSight(w) \/ DisableUser(w) \/ MintCommit(w) \/ RotateKey(w) \/ RevokeKey(w)
             \/ SetQuota(w)
      PROVE  req'[v] = req[v] \/ req'[v].pc \notin {"begun", "minted"}
  <2>1. CASE CommitSight(w) \/ MintCommit(w)
    BY <1>0, <2>1, CommitEnds
  <2>2. ASSUME req' = [req EXCEPT ![w] = Idle] PROVE req'[v] = req[v] \/ req'[v].pc = "idle"
    BY <1>0, <2>2 DEF Idle
  <2> QED
    BY <1>1, <2>1, <2>2 DEF DisableUser, RotateKey, RevokeKey, SetQuota
<1>4. ASSUME NEW w \in Worker, Introspect(w)
      PROVE  req'[v] = req[v] \/ req'[v].pc \notin {"begun", "minted"}
  BY <1>0, <1>4 DEF Introspect
<1>2. ASSUME NEW w \in Worker, MintGate(w) \/ QuotaGate(w)
      PROVE  req'[v] = req[v] \/ req'[v].pc \notin {"begun", "minted"}
  BY <1>0, <1>2 DEF MintGate, QuotaGate, Step, Request
<1>3. ASSUME NEW w \in Worker, BeginSight(w) \/ MintBegin(w), w # v PROVE req'[v] = req[v]
  BY <1>0, <1>3 DEF BeginSight, MintBegin
<1> QED
  BY <1>1, <1>2, <1>3, <1>4, WhoWrites

(* A request that has not come yet holds nothing.                          *)
LEMMA NewcomersStep ==
    ASSUME IdentityType, NewcomersAreIdle, [Next]_vars PROVE NewcomersAreIdle'
<1>0. req \in [Worker -> Request] /\ visits \in Nat /\ Worker \subseteq Nat
  BY IdentityAssumption DEF IdentityType, Worker
<1>1. ASSUME NEW w \in Worker, Introspect(w) PROVE NewcomersAreIdle'
  BY <1>0, <1>1 DEF Introspect, NewcomersAreIdle
<1>2. ASSUME UNCHANGED visits,
             UNCHANGED req \/ \E w \in Worker : /\ req[w].pc # "idle"
                                             /\ \A v \in Worker \ {w} : req'[v] = req[v]
      PROVE  NewcomersAreIdle'
  BY <1>2 DEF NewcomersAreIdle
<1>3. ASSUME NEW w \in Worker, Sight(w)
      PROVE  /\ UNCHANGED visits /\ req[w].pc # "idle"
             /\ \A v \in Worker \ {w} : req'[v] = req[v]
  BY <1>0, <1>3 DEF Sight, BeginSight, CommitSight
<1>4. ASSUME NEW w \in Worker, Settings(w)
      PROVE  /\ UNCHANGED visits /\ req[w].pc # "idle"
             /\ \A v \in Worker \ {w} : req'[v] = req[v]
  BY <1>0, <1>4 DEF Settings, DisableUser, MintGate, MintBegin, MintCommit, RotateKey,
                    RevokeKey, QuotaGate, SetQuota, Step
<1>5. ASSUME ~\E w \in Worker : Introspect(w) \/ Sight(w) \/ Settings(w)
      PROVE  UNCHANGED <<visits, req>>
  BY <1>5 DEF Next, Mirror, Beat, vars, ChangeWord, ChangeLimit, Pass, MirrorBegin,
              MirrorCommit, MirrorDisabled, MirrorFails, OpenStream, HearEvent, StreamEnds,
              StreamRefused, FetchFamily, FindKey, ApplyLimit, ApplyFails
<1> QED
  BY <1>1, <1>2, <1>3, <1>4, <1>5

(* What the mirror is about to do.                                         *)
LEMMA MirrorApart ==
    ASSUME IdentityType, [Next]_vars
    PROVE  \/ sync' = sync /\ ~MirrorCommit /\ ~MirrorFails
           \/ MirrorBegin
           \/ sync'.pc # "begun"
<1>0. sync \in Reader
  BY DEF IdentityType
<1>1. ASSUME Pass \/ MirrorCommit \/ MirrorDisabled \/ MirrorFails \/ OpenStream \/ HearEvent
             \/ StreamEnds \/ StreamRefused
      PROVE  sync'.pc # "begun"
  <2>1. CASE MirrorCommit
    <3>1. Filed.pc = "mirror" /\ [sync EXCEPT !.pc = "disable", !.empty = FALSE].pc = "disable"
      BY <1>0 DEF Filed, Reader
    <3> QED
      BY <2>1, <3>1 DEF MirrorCommit
  <2> QED
    BY <1>0, <1>1, <2>1, ReaderSteps
<1> QED
  BY <1>1, WhoWrites

(* Who has begun a transaction holds the lock.                             *)
LEMMA LocksStep ==
    ASSUME IdentityType, NewcomersAreIdle, LocksAreHeld, [Next]_vars PROVE LocksAreHeld'
<1>1. ASSUME NEW v \in Worker, req'[v].pc \in {"begun", "minted"} PROVE lock' = v
  <2>1. CASE BeginSight(v) \/ MintBegin(v)
    BY <2>1 DEF BeginSight, MintBegin, Begin
  <2>2. CASE req'[v] = req[v]
    <3>1. lock = v /\ lock # Free /\ lock # Sync
      BY <1>1, <2>2, IdentityAssumption DEF LocksAreHeld, Worker, Free, Sync
    <3>2. CASE CommitSight(v) \/ MintCommit(v)
      <4>1. req'[v].pc \in {"idle", "admin"}
        BY <3>2, CommitEnds DEF IdentityType
      <4> QED
        BY <1>1, <4>1
    <3> QED
      BY <3>1, <3>2, HolderIsAlone
  <2> QED
    BY <1>1, <2>1, <2>2, RequestsApart
<1>2. ASSUME sync'.pc = "begun" PROVE lock' = Sync
  <2>1. CASE MirrorBegin
    BY <2>1 DEF MirrorBegin, Begin
  <2>2. CASE sync' = sync /\ ~MirrorCommit /\ ~MirrorFails
    <3>1. lock = Sync /\ lock # Free /\ lock \notin Worker
      BY <1>2, <2>2, IdentityAssumption DEF LocksAreHeld, Worker, Free, Sync
    <3> QED
      BY <2>2, <3>1, HolderIsAlone
  <2> QED
    BY <1>2, <2>1, <2>2, MirrorApart
<1> QED
  BY <1>1, <1>2 DEF LocksAreHeld

(* What a transaction has read stays true until it commits.                *)
LEMMA ReadingsStep ==
    ASSUME IdentityType, NewcomersAreIdle, LocksAreHeld, ReadingsHold, [Next]_vars
    PROVE  ReadingsHold'
<1>0. req \in [Worker -> Request] /\ sync \in Reader
  BY DEF IdentityType
<1>1. ASSUME UNCHANGED <<people, accounts>>
      PROVE  (NoRows' <=> NoRows) /\ accounts' = accounts
  BY <1>1 DEF NoRows, people
<1>2. ASSUME NEW v \in Worker, req'[v].pc \in {"begun", "minted"}
      PROVE  /\ req'[v].pc = "begun" => (req'[v].empty <=> NoRows')
             /\ req'[v].pc = "minted" => (req'[v].empty <=> accounts' = 0)
  <2>1. CASE BeginSight(v)
    BY <1>0, <1>1, <2>1 DEF BeginSight, service, Request
  <2>2. CASE MintBegin(v)
    BY <1>0, <1>1, <2>2 DEF MintBegin, service, Request
  <2>3. CASE req'[v] = req[v]
    <3>1. lock = v /\ lock # Free /\ lock # Sync
      BY <1>2, <2>3, IdentityAssumption DEF LocksAreHeld, Worker, Free, Sync
    <3>2. CASE CommitSight(v) \/ MintCommit(v)
      <4>1. req'[v].pc \in {"idle", "admin"}
        BY <3>2, CommitEnds DEF IdentityType
      <4> QED
        BY <1>2, <4>1
    <3>3. CASE UNCHANGED <<people, accounts>>
      BY <1>1, <2>3, <3>3 DEF ReadingsHold
    <3> QED
      BY <3>1, <3>2, <3>3, HolderIsAlone
  <2> QED
    BY <1>2, <2>1, <2>2, <2>3, RequestsApart
<1>3. ASSUME sync'.pc = "begun" PROVE sync'.empty <=> NoRows'
  <2>1. CASE MirrorBegin
    BY <1>0, <1>1, <2>1 DEF MirrorBegin, service, Reader
  <2>2. CASE sync' = sync /\ ~MirrorCommit /\ ~MirrorFails
    <3>1. lock = Sync /\ lock # Free /\ lock \notin Worker
      BY <1>3, <2>2, IdentityAssumption DEF LocksAreHeld, Worker, Free, Sync
    <3>2. UNCHANGED <<people, accounts>>
      BY <2>2, <3>1, HolderIsAlone
    <3> QED
      BY <1>1, <1>3, <2>2, <3>2 DEF ReadingsHold
  <2> QED
    BY <1>3, <2>1, <2>2, MirrorApart
<1> QED
  BY <1>2, <1>3 DEF ReadingsHold

(* Whoever was made the first administrator has a row, and is alone.       *)
LEMMA FirstsStep ==
    ASSUME IdentityType, MembersAreThere, LocksAreHeld, ReadingsHold, FirstsHaveRows, [Next]_vars
    PROVE  FirstsHaveRows'
<1>1. ASSUME NEW w \in Worker, CommitSight(w) PROVE FirstsHaveRows'
  <2>1. /\ req[w].sub \in Sub /\ req[w].face \in Faces /\ req[w].empty \in BOOLEAN
        /\ req[w].pc = "begun"
    BY <1>1 DEF CommitSight, IdentityType, Request
  <2>2. Provision(req[w].sub, req[w].face, None, req[w].empty)
    BY <1>1 DEF CommitSight
  <2>3. req[w].empty => NoRows
    BY <2>1 DEF ReadingsHold
  <2> QED
    BY <2>1, <2>2, <2>3, ProvisionMakesOne
<1>2. ASSUME MirrorCommit PROVE FirstsHaveRows'
  <2>1. sync.todo # {} /\ sync.empty \in BOOLEAN /\ (sync.empty => NoRows)
    BY <1>2 DEF MirrorCommit, MembersAreThere, IdentityType, Reader, ReadingsHold
  <2>2. Provision(Current.sub, Current.word.face, Current.word.admin, sync.empty)
    BY <1>2 DEF MirrorCommit
  <2> QED
    BY <2>1, <2>2, CurrentIsAMember, ProvisionMakesOne
<1>3. ASSUME UNCHANGED firsts PROVE FirstsHaveRows'
  BY <1>3, RowsStay DEF FirstsHaveRows, IdentityType
<1>4. ASSUME NEW w \in Worker, DisableUser(w) PROVE UNCHANGED firsts
  BY <1>4 DEF DisableUser
<1>5. ASSUME MirrorDisabled \/ UNCHANGED people PROVE UNCHANGED firsts
  BY <1>5 DEF MirrorDisabled, people
<1> QED
  BY <1>1, <1>2, <1>3, <1>4, <1>5, WhoWrites

(* No second account is minted on a reading that found none.               *)
LEMMA AccountStep ==
    ASSUME IdentityType, ReadingsHold, OneAccount, [Next]_vars PROVE OneAccount'
<1>1. ASSUME NEW w \in Worker, MintCommit(w) PROVE OneAccount'
  <2>1. req[w].empty <=> accounts = 0
    BY <1>1 DEF MintCommit, ReadingsHold
  <2>2. accounts' = accounts \/ (req[w].empty /\ accounts' = accounts + 1)
    BY <1>1 DEF MintCommit, service
  <2> QED
    BY <2>1, <2>2 DEF OneAccount, IdentityType
<1> QED
  BY <1>1, WhoWrites DEF OneAccount

-----------------------------------------------------------------------------

(* An empty database satisfies the invariant.                              *)
LEMMA InvInit == Init => IInv
<1> SUFFICES ASSUME Init PROVE IInv
  OBVIOUS
<1> USE IdentityAssumption, WordsType DEF Init
<1>1. RequestsType
  <2>1. Idle \in Request /\ Knows(Idle)
    BY DEF Request, Idle, Knows
  <2> QED
    BY <2>1 DEF RequestsType
<1>2. RowsType
  BY DEF RowsType
<1>5. RestType
  <2>1. lock \in Worker \cup {Sync, Free} /\ visits \in 0..MaxVisits /\ upsets \in 0..MaxUpsets
    OBVIOUS
  <2> QED
    BY <2>1 DEF RestType
<1>3. LoopsType
  BY DEF LoopsType, Reader
<1>4. MembersAreThere /\ NewcomersAreIdle /\ LocksAreHeld /\ ReadingsHold /\ FirstsHaveRows
      /\ OneAccount
  BY DEF MembersAreThere, NewcomersAreIdle, LocksAreHeld, ReadingsHold, FirstsHaveRows,
         OneAccount, Idle
<1> QED
  BY <1>1, <1>2, <1>3, <1>4, <1>5, TypeParts DEF IInv

(* Every reachable state satisfies the invariant.                          *)
THEOREM Invariance == Spec => []IInv
<1>1. IInv /\ [Next]_vars => IInv'
  BY TypeStep, MembersStep, NewcomersStep, LocksStep, ReadingsStep, FirstsStep, AccountStep
     DEF IInv
<1> QED
  BY <1>1, InvInit, PTL DEF Spec

(* Every variable stays in its type; a row that is there is a person's.    *)
THEOREM TypeCorrect == Spec => []IdentityType
<1>1. IInv => IdentityType
  BY DEF IInv
<1> QED
  BY <1>1, Invariance, PTL

(* However many people are first seen at once, by requests and by the      *)
(* mirror, one at most becomes administrator by the bootstrap rule         *)
(* (provision_user's BEGIN IMMEDIATE around its count).                    *)
THEOREM OneFirst == Spec => []OneBootstrapAdmin
<1>1. ASSUME IInv PROVE OneBootstrapAdmin
  <2>1. firsts = {} \/ \E s : firsts = {s}
    BY <1>1 DEF IInv, FirstsHaveRows
  <2>2. Cardinality(firsts) \in {0, 1}
    BY <2>1, FS_EmptySet, FS_Singleton
  <2> QED
    BY <2>2 DEF OneBootstrapAdmin
<1> QED
  BY <1>1, Invariance, PTL

(* A service has one account at most, however mints and revocations cross  *)
(* (create_service_key looks for the account in its transaction).          *)
THEOREM OneAccountEach == Spec => []OneAccount
<1>1. IInv => OneAccount
  BY DEF IInv
<1> QED
  BY <1>1, Invariance, PTL
=============================================================================
