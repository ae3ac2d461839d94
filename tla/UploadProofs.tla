---------------------------- MODULE UploadProofs -----------------------------
(* The invariant of Upload and what follows from it, for every value of    *)
(* the constants.                                                          *)
EXTENDS Upload, FiniteSetTheorems, TLAPS

-----------------------------------------------------------------------------
(* Counting bytes.                                                         *)

(* A row of n bytes holds n bytes.                                         *)
LEMMA BlockSize ==
    ASSUME NEW a, NEW n \in Nat
    PROVE  IsFiniteSet({a} \X (1..n)) /\ Cardinality({a} \X (1..n)) = n
<1> DEFINE S == {a} \X (1..n)
           f == [i \in 1..n |-> <<a, i>>]
<1>1. f \in Bijection(1..n, S)
  <2>1. f \in [1..n -> S]
    OBVIOUS
  <2>2. \A i, j \in 1..n : f[i] = f[j] => i = j
    OBVIOUS
  <2>3. \A b \in S : \E i \in 1..n : f[i] = b
    OBVIOUS
  <2> HIDE DEF f, S
  <2> QED
    BY <2>1, <2>2, <2>3 DEF Bijection, Injection, Surjection, IsInjective
<1>2. ExistsBijection(1..n, S)
  BY <1>1 DEF ExistsBijection
<1> QED
  BY <1>2, FS_CountingElements, FS_NatBijection

(* Adding bytes that were not there.                                       *)
LEMMA AddBlock ==
    ASSUME NEW S, IsFiniteSet(S), NEW a, NEW n \in Nat, S \cap ({a} \X (1..n)) = {}
    PROVE  /\ IsFiniteSet(S \cup ({a} \X (1..n)))
           /\ Cardinality(S \cup ({a} \X (1..n))) = Cardinality(S) + n
           /\ Cardinality(S) \in Nat
<1>1. IsFiniteSet({a} \X (1..n)) /\ Cardinality({a} \X (1..n)) = n
  BY BlockSize
<1>2. Cardinality(S) \in Nat /\ Cardinality({}) = 0
  BY FS_CardinalityType, FS_EmptySet
<1>3. ASSUME NEW T, T = {a} \X (1..n)
      PROVE  /\ IsFiniteSet(S \cup T)
             /\ Cardinality(S \cup T) = Cardinality(S) + n
  <2>1. IsFiniteSet(T) /\ Cardinality(T) = n /\ S \cap T = {}
    BY <1>1, <1>3
  <2>2. /\ IsFiniteSet(S \cup T)
        /\ Cardinality(S \cup T) = Cardinality(S) + Cardinality(T) - Cardinality(S \cap T)
    BY <2>1, FS_Union
  <2>3. Cardinality(S \cap T) = 0
    BY <1>2, <2>1
  <2>4. Cardinality(S \cup T) = Cardinality(S) + n
    <3>1. ASSUME NEW c \in Nat, NEW d, NEW e, d = c + n - e, e = 0 PROVE d = c + n
      BY <3>1
    <3> QED
      BY <1>2, <2>1, <2>2, <2>3, <3>1
  <2> QED
    BY <2>2, <2>4
<1> QED
  BY <1>2, <1>3

(* What the rows of u hold, beside x.                                      *)
Others(u, x) == Stored(u) \ ({x} \X Nat)

(* The bytes of a user are those of x and those of the others.             *)
LEMMA StoredSplits ==
    ASSUME TypeOK, NEW x \in rows
    PROVE  /\ Stored(Owner[x]) = Others(Owner[x], x) \cup ({x} \X (1..size[x]))
           /\ Others(Owner[x], x) \cap ({x} \X (1..size[x])) = {}
<1> USE DEF TypeOK
<1>1. size[x] \in Nat /\ 1..size[x] \subseteq Nat
  OBVIOUS
<1>2. {x} \X (1..size[x]) \subseteq Stored(Owner[x])
  BY DEF Stored
<1>3. ASSUME NEW b \in Stored(Owner[x]), b \in {x} \X Nat PROVE b \in {x} \X (1..size[x])
  BY <1>3 DEF Stored
<1> QED
  BY <1>1, <1>2, <1>3 DEF Others

(* A write leaves the bytes of every other row, and of every other user.   *)
LEMMA WriteStored ==
    ASSUME TypeOK, NEW x \in File, NEW n \in Nat,
           rows' = rows \cup {x}, size' = [size EXCEPT ![x] = n]
    PROVE  /\ Stored(Owner[x])' = Others(Owner[x], x) \cup ({x} \X (1..n))
           /\ Others(Owner[x], x) \cap ({x} \X (1..n)) = {}
           /\ \A u \in User : u # Owner[x] => Stored(u)' = Stored(u)
<1> USE DEF TypeOK
<1>1. /\ \A y \in rows' : y # x => y \in rows /\ size'[y] = size[y]
      /\ x \in rows' /\ size'[x] = n /\ 1..n \subseteq Nat
  OBVIOUS
<1>2. ASSUME NEW y \in rows, y # x PROVE size'[y] = size[y] /\ y \in rows'
  BY <1>2
<1>3. ASSUME NEW b \in Stored(Owner[x])'
      PROVE  b \in Others(Owner[x], x) \cup ({x} \X (1..n))
  BY <1>1 DEF Stored, Others
<1>4. ASSUME NEW b \in Others(Owner[x], x) PROVE b \in Stored(Owner[x])'
  <2>1. PICK y \in rows : Owner[y] = Owner[x] /\ b \in {y} \X (1..size[y])
    BY DEF Others, Stored
  <2>2. y # x
    BY <2>1 DEF Others
  <2> QED
    BY <1>2, <2>1, <2>2 DEF Stored
<1>5. {x} \X (1..n) \subseteq Stored(Owner[x])'
  BY <1>1 DEF Stored
<1>6. ASSUME NEW u \in User, u # Owner[x] PROVE Stored(u)' = Stored(u)
  <2>1. {y \in rows' : Owner[y] = u} = {y \in rows : Owner[y] = u}
    BY <1>1, <1>2, <1>6
  <2>2. \A y \in {z \in rows : Owner[z] = u} : size'[y] = size[y]
    BY <1>2, <1>6
  <2> QED
    BY <2>1, <2>2 DEF Stored
<1>7. Others(Owner[x], x) \cap ({x} \X (1..n)) = {}
  BY <1>1 DEF Others
<1> QED
  BY <1>3, <1>4, <1>5, <1>6, <1>7

(* A removal leaves the others.                                            *)
LEMMA RemoveStored ==
    ASSUME TypeOK, NEW x \in rows,
           rows' = rows \ {x}, size' = [size EXCEPT ![x] = 0]
    PROVE  /\ Stored(Owner[x])' = Others(Owner[x], x)
           /\ \A u \in User : u # Owner[x] => Stored(u)' = Stored(u)
<1> USE DEF TypeOK
<1>1. \A y \in rows : y # x <=> y \in rows'
  OBVIOUS
<1>2. \A y \in rows' : y \in rows /\ y # x /\ size'[y] = size[y]
  OBVIOUS
<1>3. ASSUME NEW b \in Stored(Owner[x])' PROVE b \in Others(Owner[x], x)
  BY <1>2 DEF Stored, Others
<1>4. ASSUME NEW b \in Others(Owner[x], x) PROVE b \in Stored(Owner[x])'
  <2>1. PICK y \in rows : Owner[y] = Owner[x] /\ b \in {y} \X (1..size[y])
    BY DEF Others, Stored
  <2>2. y # x
    BY <2>1 DEF Others
  <2> QED
    BY <1>1, <1>2, <2>1, <2>2 DEF Stored
<1>5. ASSUME NEW u \in User, u # Owner[x] PROVE Stored(u)' = Stored(u)
  <2>1. {y \in rows' : Owner[y] = u} = {y \in rows : Owner[y] = u}
    BY <1>1, <1>2, <1>5
  <2>2. \A y \in {z \in rows : Owner[z] = u} : size'[y] = size[y]
    BY <1>1, <1>2, <1>5
  <2> QED
    BY <2>1, <2>2 DEF Stored
<1> QED
  BY <1>3, <1>4, <1>5

-----------------------------------------------------------------------------
(* What a write and a removal do to usage.                                 *)

(* The rest of the owner's bytes is finite, and usage counts it and x.     *)
LEMMA UsedSplits ==
    ASSUME IInv, NEW x \in File
    PROVE  LET rest == Others(Owner[x], x)
           IN /\ IsFiniteSet(rest) /\ Cardinality(rest) \in Nat
              /\ used[Owner[x]] = Cardinality(rest) + size[x]
<1> DEFINE rest == Others(Owner[x], x)
<1> USE DEF IInv
<1>1. Owner[x] \in User /\ size[x] \in Nat
  BY OwnersType DEF TypeOK
<1>2. IsFiniteSet(Stored(Owner[x])) /\ used[Owner[x]] = Cardinality(Stored(Owner[x]))
  BY <1>1 DEF BytesAreFinite, UsedIsStored
<1>3. IsFiniteSet(rest) /\ Cardinality(rest) \in Nat
  BY <1>2, FS_Subset, FS_CardinalityType DEF Others
<1>4. CASE x \in rows
  <2>1. /\ Stored(Owner[x]) = rest \cup ({x} \X (1..size[x]))
        /\ rest \cap ({x} \X (1..size[x])) = {}
    BY <1>4, StoredSplits
  <2> HIDE DEF rest, IInv
  <2>2. Cardinality(rest \cup ({x} \X (1..size[x]))) = Cardinality(rest) + size[x]
    BY <1>1, <1>3, <2>1, AddBlock
  <2> QED
    BY <1>2, <1>3, <2>1, <2>2 DEF rest
<1>5. CASE x \notin rows
  <2>1. rest = Stored(Owner[x])
    BY <1>5 DEF Others, Stored
  <2> QED
    BY <1>2, <1>3, <1>5, <2>1 DEF RowsAreNoted
<1> QED
  BY <1>3, <1>4, <1>5

(* Usage after a write is the rest and the bytes written.                  *)
LEMMA WriteBytes ==
    ASSUME IInv, NEW x \in File, NEW n \in Nat, NEW from, Write(x, n, from)
    PROVE  /\ used' = [used EXCEPT ![Owner[x]] = Cardinality(Others(Owner[x], x)) + n]
           /\ \A u \in User : IsFiniteSet(Stored(u)') /\ used'[u] = Cardinality(Stored(u)')
<1>1. Owner[x] \in User /\ TypeOK
  BY OwnersType DEF IInv
<1>2. /\ Stored(Owner[x])' = Others(Owner[x], x) \cup ({x} \X (1..n))
      /\ Others(Owner[x], x) \cap ({x} \X (1..n)) = {}
      /\ \A u \in User : u # Owner[x] => Stored(u)' = Stored(u)
  BY <1>1, WriteStored DEF Write
<1>3. /\ IsFiniteSet(Stored(Owner[x])')
      /\ Cardinality(Stored(Owner[x])') = Cardinality(Others(Owner[x], x)) + n
  <2>1. IsFiniteSet(Others(Owner[x], x))
    BY UsedSplits
  <2>2. LET new == Others(Owner[x], x) \cup ({x} \X (1..n))
        IN IsFiniteSet(new) /\ Cardinality(new) = Cardinality(Others(Owner[x], x)) + n
    BY <1>2, <2>1, AddBlock
  <2> QED
    BY <1>2, <2>2
<1>4. used' = [used EXCEPT ![Owner[x]] = Cardinality(Stored(Owner[x])')]
  BY DEF Write, RefreshUsage
<1>5. ASSUME NEW u \in User
      PROVE  IsFiniteSet(Stored(u)') /\ used'[u] = Cardinality(Stored(u)')
  <2>1. IsFiniteSet(Stored(u)) /\ used[u] = Cardinality(Stored(u)) /\ used \in [User -> Nat]
    BY DEF IInv, BytesAreFinite, UsedIsStored, TypeOK
  <2>2. CASE u = Owner[x]
    BY <1>3, <1>4, <2>1, <2>2
  <2>3. CASE u # Owner[x]
    BY <1>2, <1>4, <2>1, <2>3
  <2> QED
    BY <2>2, <2>3
<1> QED
  BY <1>3, <1>4, <1>5

(* Usage after a removal is the rest.                                      *)
LEMMA RemoveBytes ==
    ASSUME IInv, NEW x \in File, Remove(x)
    PROVE  /\ used' = [used EXCEPT ![Owner[x]] = Cardinality(Others(Owner[x], x))]
           /\ \A u \in User : IsFiniteSet(Stored(u)') /\ used'[u] = Cardinality(Stored(u)')
<1>1. Owner[x] \in User /\ TypeOK /\ x \in rows
  BY OwnersType DEF IInv, Remove
<1>2. /\ Stored(Owner[x])' = Others(Owner[x], x)
      /\ \A u \in User : u # Owner[x] => Stored(u)' = Stored(u)
  BY <1>1, RemoveStored DEF Remove
<1>4. used' = [used EXCEPT ![Owner[x]] = Cardinality(Stored(Owner[x])')]
  BY DEF Remove, RefreshUsage
<1>5. ASSUME NEW u \in User
      PROVE  IsFiniteSet(Stored(u)') /\ used'[u] = Cardinality(Stored(u)')
  <2>1. IsFiniteSet(Stored(u)) /\ used[u] = Cardinality(Stored(u)) /\ used \in [User -> Nat]
    BY DEF IInv, BytesAreFinite, UsedIsStored, TypeOK
  <2>2. CASE u = Owner[x]
    BY <1>2, <1>4, <2>1, <2>2, UsedSplits
  <2>3. CASE u # Owner[x]
    BY <1>2, <1>4, <2>1, <2>3
  <2> QED
    BY <2>2, <2>3
<1> QED
  BY <1>2, <1>4, <1>5

-----------------------------------------------------------------------------
(* What a step is, seen from the rows.                                     *)

Add(x, n) ==
    /\ Write(x, n, Direct)
    /\ writer = Free
    /\ x \in Service \/ source[x] = {}
    /\ Fits(Owner[x], Taken(Owner[x], {}), n) \/ Fits(Owner[x], ChargedWithout(x), n)
    /\ UNCHANGED <<quota, sessions, conn, writer, task>>

(* Rows change by a write, a removal, or the commit of a finish.           *)
LEMMA RowSteps ==
    ASSUME [Next]_vars
    PROVE  \/ UNCHANGED files
           \/ \E x \in File, n \in Sizes : Add(x, n)
           \/ \E x \in File : Remove(x)
           \/ \E w \in Worker, x \in File : CommitFinish(w, x)
<1> USE DEF files, vars
<1>1. ASSUME NEW x \in File, NEW n \in Sizes, InsertFile(x, n) PROVE Add(x, n)
  BY <1>1 DEF InsertFile, Add
<1>2. ASSUME NEW x \in File, NEW n \in Sizes, InsertServiceFile(x, n) PROVE Add(x, n)
  BY <1>2 DEF InsertServiceFile, Add
<1>3. ASSUME NEW x \in File, DeleteServiceFile(x) \/ PurgeFile(x) PROVE Remove(x)
  BY <1>3 DEF DeleteServiceFile, PurgeFile
<1>4. ASSUME NEW u \in User, NEW q \in Quotas, SetUserQuota(u, q) PROVE UNCHANGED files
  BY <1>4 DEF SetUserQuota
<1>5. ASSUME NEW w \in Worker, NEW s \in Session,
             \/ BeginCreate(w, s) \/ BeginFinish(w, s) \/ Abort(w, s)
             \/ \E i \in 1..(Size[s] + 1) : BeginChunk(w, s, i)
      PROVE  UNCHANGED files
  BY <1>5 DEF BeginCreate, BeginFinish, Abort, BeginChunk
<1>6. ASSUME NEW w \in Worker, BeginPrune(w) \/ Abandon(w) PROVE UNCHANGED files
  BY <1>6 DEF BeginPrune, Abandon
<1>7. ASSUME NEW w \in Worker, RequestStep(w), ~(\E x \in File : CommitFinish(w, x))
      PROVE  UNCHANGED files
  BY <1>7 DEF RequestStep, InsertSession, StageChunk, RecordReceived, Assemble, VetFinish,
              RefuseFinish, PruneOne, EndPrune, Cleanup
<1>8. ASSUME Boot \/ \E s \in Session : Expire(s) PROVE UNCHANGED files
  BY <1>8 DEF Boot, Expire
<1> HIDE DEF files, vars
<1>9. ASSUME UNCHANGED vars PROVE UNCHANGED files
  BY <1>9 DEF vars, files
<1> QED
  BY <1>1, <1>2, <1>3, <1>4, <1>5, <1>6, <1>7, <1>8, <1>9 DEF Next

-----------------------------------------------------------------------------
(* What a step is, seen from the sessions.                                 *)

(* A state changes in one of four ways, and never back.                    *)
StateStep(s) ==
    \/ /\ state[s] = "unborn" /\ state'[s] = "active"
       /\ \E w \in Worker : InsertSession(w) /\ s \in task[w].session
    \/ /\ state[s] = "active" /\ state'[s] = "done"
       /\ \E w \in Worker, x \in File : CommitFinish(w, x)
    \/ /\ state[s] = "active" /\ state'[s] = "aborted" /\ writer = Free
    \/ /\ state[s] \in {"done", "unborn"} /\ state'[s] = "aborted" /\ writer = Free
       /\ \E w \in Worker : PruneOne(w)

\* A session's state changes only along one of the edges StateStep lists.
LEMMA StateSteps ==
    ASSUME IInv, [Next]_vars, NEW s \in Session, state'[s] # state[s]
    PROVE  StateStep(s)
<1> USE DEF IInv, TypeOK, vars, files, sessions
<1>1. ASSUME NEW w \in Worker, InsertSession(w) PROVE StateStep(s)
  <2>1. PICK r \in task[w].session :
            task[w].op = "create" /\ state' = [state EXCEPT ![r] = "active"]
    BY <1>1 DEF InsertSession
  <2>2. r = s /\ state'[s] = "active"
    BY <2>1
  <2>3. state[s] = "unborn"
    BY <2>1, <2>2 DEF LocksAreHeld
  <2> QED
    BY <1>1, <2>1, <2>2, <2>3 DEF StateStep
<1>2. ASSUME NEW w \in Worker, NEW x \in File, CommitFinish(w, x) PROVE StateStep(s)
  <2>1. PICK r \in task[w].session :
            task[w].op = "commit" /\ state' = [state EXCEPT ![r] = "done"]
    BY <1>2 DEF CommitFinish
  <2>2. r = s /\ state'[s] = "done"
    BY <2>1
  <2>3. state[s] = "active"
    BY <2>1, <2>2 DEF VettedFits
  <2> QED
    BY <1>2, <2>2, <2>3 DEF StateStep
<1>3. ASSUME NEW w \in Worker, PruneOne(w) PROVE StateStep(s)
  <2>1. state'[s] = "aborted" /\ writer = Free
    BY <1>3 DEF PruneOne
  <2> QED
    BY <1>3, <2>1 DEF StateStep
<1>4. ASSUME NEW w \in Worker, NEW r \in Session, Abort(w, r) PROVE StateStep(s)
  BY <1>4 DEF Abort, StateStep
<1>5. ASSUME NEW x \in File, NEW n \in Sizes, InsertFile(x, n) \/ InsertServiceFile(x, n)
      PROVE  FALSE
  BY <1>5 DEF InsertFile, InsertServiceFile
<1>6. ASSUME NEW x \in File, DeleteServiceFile(x) \/ PurgeFile(x) PROVE FALSE
  BY <1>6 DEF DeleteServiceFile, PurgeFile, Remove
<1>7. ASSUME NEW u \in User, NEW q \in Quotas, SetUserQuota(u, q) PROVE FALSE
  BY <1>7 DEF SetUserQuota
<1>8. ASSUME NEW w \in Worker, NEW r \in Session,
             \/ BeginCreate(w, r) \/ BeginFinish(w, r)
             \/ \E i \in 1..(Size[r] + 1) : BeginChunk(w, r, i)
      PROVE  FALSE
  BY <1>8 DEF BeginCreate, BeginFinish, BeginChunk
<1>9. ASSUME NEW w \in Worker,
             \/ BeginPrune(w) \/ Abandon(w) \/ StageChunk(w) \/ RecordReceived(w)
             \/ Assemble(w) \/ VetFinish(w) \/ RefuseFinish(w) \/ EndPrune(w) \/ Cleanup(w)
      PROVE  FALSE
  BY <1>9 DEF BeginPrune, Abandon, StageChunk, RecordReceived, Assemble, VetFinish,
              RefuseFinish, EndPrune, Cleanup
<1>10. ASSUME Boot \/ (\E r \in Session : Expire(r)) \/ UNCHANGED vars PROVE FALSE
  BY <1>10 DEF Boot, Expire
<1> HIDE DEF IInv, TypeOK, vars, files, sessions
<1> QED
  BY <1>1, <1>2, <1>3, <1>4, <1>5, <1>6, <1>7, <1>8, <1>9, <1>10 DEF Next, RequestStep

(* The claims stay finite: at most one session opens at a time.            *)
LEMMA ClaimsStayFinite ==
    ASSUME IInv, [Next]_vars, NEW u \in User
    PROVE  IsFiniteSet(Claimed(u, {})')
<1>1. IsFiniteSet(Claimed(u, {}))
  BY DEF IInv, BytesAreFinite
<1>2. CASE \A s \in Session : state'[s] = "active" => state[s] = "active"
  <2>1. Claimed(u, {})' \subseteq Claimed(u, {})
    BY <1>2 DEF Claimed
  <2> QED
    BY <1>1, <2>1, FS_Subset
<1>3. CASE ~ \A s \in Session : state'[s] = "active" => state[s] = "active"
  <2>1. PICK s \in Session : state'[s] = "active" /\ state[s] # "active"
    BY <1>3
  <2>2. PICK w \in Worker : InsertSession(w) /\ s \in task[w].session
    BY <2>1, StateSteps DEF StateStep
  <2>3. \A r \in Session : r # s => state'[r] = state[r]
    BY <2>1, <2>2 DEF InsertSession, IInv, TypeOK
  <2>4. Claimed(u, {})' \subseteq Claimed(u, {}) \cup ({s} \X (1..Size[s]))
    BY <2>3 DEF Claimed
  <2>5. IsFiniteSet({s} \X (1..Size[s]))
    BY SizeType, BlockSize
  <2> QED
    BY <1>1, <2>4, <2>5, FS_Union, FS_Subset
<1> QED
  BY <1>2, <1>3

(* Usage stays what is stored.                                             *)
LEMMA BytesStep ==
    ASSUME IInv, [Next]_vars
    PROVE  BytesAreFinite' /\ UsedIsStored'
<1> DEFINE Counted == \A u \in User : IsFiniteSet(Stored(u)') /\ used'[u] = Cardinality(Stored(u)')
<1>1. Counted
  <2>1. CASE UNCHANGED files
    <3>1. \A u \in User : Stored(u)' = Stored(u)
      BY <2>1 DEF Stored, files
    <3> QED
      BY <2>1, <3>1 DEF IInv, BytesAreFinite, UsedIsStored, files
  <2>2. ASSUME NEW x \in File, NEW n \in Sizes, Add(x, n)
        PROVE  Counted
    BY <2>2, SizesType, WriteBytes DEF Add
  <2>3. ASSUME NEW x \in File, Remove(x)
        PROVE  Counted
    BY <2>3, RemoveBytes
  <2>4. ASSUME NEW w \in Worker, NEW x \in File, CommitFinish(w, x)
        PROVE  Counted
    <3>1. PICK s \in task[w].session : Write(x, Size[s], s)
      BY <2>4 DEF CommitFinish
    <3>2. s \in Session /\ Size[s] \in Nat
      BY SizeType DEF IInv, TypeOK, Task
    <3> QED
      BY <3>1, <3>2, WriteBytes
  <2> QED
    BY <2>1, <2>2, <2>3, <2>4, RowSteps
<1> QED
  BY <1>1, ClaimsStayFinite DEF BytesAreFinite, UsedIsStored

-----------------------------------------------------------------------------
(* The parts of the invariant, each kept by a step.                        *)

(* Every variable stays in its type.                                       *)
LEMMA FilesType ==
    ASSUME IInv, [Next]_vars
    PROVE  /\ used' \in [User -> Nat] /\ rows' \subseteq File /\ size' \in [File -> Nat]
           /\ source' \in [File -> SUBSET (Session \cup {Direct})]
<1> USE DEF IInv, TypeOK
<1>1. CASE UNCHANGED files
  BY <1>1 DEF files
<1>2. ASSUME NEW x \in File, NEW n \in Nat, NEW from \in Session \cup {Direct}, Write(x, n, from)
      PROVE  /\ used' \in [User -> Nat] /\ rows' \subseteq File /\ size' \in [File -> Nat]
             /\ source' \in [File -> SUBSET (Session \cup {Direct})]
  <2>1. Owner[x] \in User /\ Cardinality(Others(Owner[x], x)) + n \in Nat
    BY OwnersType, UsedSplits
  <2>2. used' = [used EXCEPT ![Owner[x]] = Cardinality(Others(Owner[x], x)) + n]
    BY <1>2, WriteBytes
  <2> QED
    BY <1>2, <2>1, <2>2 DEF Write
<1>3. ASSUME NEW x \in File, Remove(x)
      PROVE  /\ used' \in [User -> Nat] /\ rows' \subseteq File /\ size' \in [File -> Nat]
             /\ source' \in [File -> SUBSET (Session \cup {Direct})]
  BY <1>3, RemoveBytes, UsedSplits, OwnersType DEF Remove
<1>4. ASSUME NEW w \in Worker, NEW x \in File, CommitFinish(w, x)
      PROVE  \E n \in Nat, s \in Session : Write(x, n, s)
  BY <1>4, SizeType DEF CommitFinish, Task
<1> HIDE DEF IInv, TypeOK
<1> QED
  BY <1>1, <1>2, <1>3, <1>4, RowSteps, SizesType DEF Add

(* A request is idle, or one of the records in Task.                       *)
LEMMA TaskStep ==
    ASSUME TypeOK, NEW w \in Worker, NEW t \in Task, task' = [task EXCEPT ![w] = t]
    PROVE  task' \in [Worker -> Task]
BY DEF TypeOK

\* A worker with nothing in hand is a well-formed task.
LEMMA IdleType == Idle \in Task
BY DEF Idle, Task

\* Every step of the upload path leaves every worker a well-formed task.
LEMMA TaskType ==
    ASSUME IInv, [Next]_vars
    PROVE  task' \in [Worker -> Task]
<1>1. /\ \A w \in Worker : task[w] \in Task
      /\ \A s \in Session : Size[s] \in Nat /\ Chunks(s) \subseteq Nat
  BY SizeType DEF IInv, TypeOK, Chunks
<1>2. ASSUME NEW x \in File, NEW n \in Sizes, InsertFile(x, n) \/ InsertServiceFile(x, n)
      PROVE  task' = task
  BY <1>2 DEF InsertFile, InsertServiceFile
<1>3. ASSUME NEW x \in File, DeleteServiceFile(x) \/ PurgeFile(x) PROVE task' = task
  BY <1>3 DEF DeleteServiceFile, PurgeFile, Remove
<1>4. ASSUME NEW u \in User, NEW q \in Quotas, SetUserQuota(u, q) PROVE task' = task
  BY <1>4 DEF SetUserQuota
<1>5. ASSUME NEW w \in Worker, NEW s \in Session,
             \/ BeginCreate(w, s) \/ BeginFinish(w, s) \/ Abort(w, s)
             \/ \E i \in 1..(Size[s] + 1) : BeginChunk(w, s, i)
      PROVE  \E t \in Task : task' = [task EXCEPT ![w] = t]
  BY <1>1, <1>5, IdleType DEF BeginCreate, BeginFinish, Abort, BeginChunk, Start, Idle, Task
<1>6. ASSUME NEW w \in Worker, BeginPrune(w)
      PROVE  \E t \in Task : task' = [task EXCEPT ![w] = t]
  BY <1>6 DEF BeginPrune, Start, Idle, Task, IInv, TypeOK
<1>7. ASSUME NEW w \in Worker,
             \/ InsertSession(w) \/ RecordReceived(w) \/ RefuseFinish(w)
             \/ Cleanup(w) \/ Abandon(w)
      PROVE  task' = [task EXCEPT ![w] = Idle]
  BY <1>7 DEF InsertSession, RecordReceived, RefuseFinish, Cleanup, Abandon, Finish
<1>8. ASSUME NEW w \in Worker,
             Assemble(w) \/ VetFinish(w) \/ PruneOne(w) \/ EndPrune(w)
      PROVE  \E t \in Task : task' = [task EXCEPT ![w] = t]
  BY <1>1, <1>8 DEF Assemble, VetFinish, PruneOne, EndPrune, Go, Task
<1>9. ASSUME NEW w \in Worker, NEW x \in File, CommitFinish(w, x)
      PROVE  \E t \in Task : task' = [task EXCEPT ![w] = t]
  BY <1>1, <1>9 DEF CommitFinish, Go, Task
<1>10. ASSUME NEW w \in Worker, StageChunk(w)
       PROVE  \E t \in Task : task' = [task EXCEPT ![w] = t]
  <2>1. PICK s \in task[w].session :
            /\ staged' = [staged EXCEPT ![s] = @ \cup {task[w].chunk}]
            /\ Go(w, [task[w] EXCEPT !.op = "record", !.sum = Cardinality(staged'[s])])
    BY <1>10 DEF StageChunk
  <2>2. s \in Session /\ task[w].op = "stage"
    BY <1>1, <1>10 DEF StageChunk, Task
  <2>3. staged'[s] \subseteq Chunks(s) /\ Size[s] \in Nat
    BY <2>1, <2>2, SizeType DEF IInv, TypeOK, OneSession
  <2>4. IsFiniteSet(staged'[s])
    <3>1. IsFiniteSet(Chunks(s))
      BY <2>3, FS_Interval DEF Chunks
    <3> QED
      BY <2>3, <3>1, FS_Subset
  <2>5. Cardinality(staged'[s]) \in Nat
    BY <2>4, FS_CardinalityType
  <2> QED
    BY <1>1, <2>1, <2>5 DEF Go, Task
<1>11. ASSUME Boot PROVE task' \in [Worker -> Task]
  BY <1>11, IdleType DEF Boot
<1>12. ASSUME (\E s \in Session : Expire(s)) \/ UNCHANGED vars PROVE task' = task
  BY <1>12 DEF Expire, vars
<1> QED
  BY <1>2, <1>3, <1>4, <1>5, <1>6, <1>7, <1>8, <1>9, <1>10, <1>11, <1>12,
     TaskStep, IdleType DEF Next, RequestStep, IInv, TypeOK

(* The other variables of the sessions, and the locks.                     *)
LEMMA TypeStep ==
    ASSUME IInv, [Next]_vars
    PROVE  TypeOK'
<1> DEFINE Rest ==
        /\ quota \in [User -> Nat]
        /\ state \in [Session -> {"unborn", "active", "done", "aborted"}]
        /\ expired \subseteq Session
        /\ received \in [Session -> Nat]
        /\ staged \in [Session -> SUBSET Nat] /\ \A s \in Session : staged[s] \subseteq Chunks(s)
        /\ conn \in Worker \cup {Free} /\ writer \in Worker \cup {Free}
        /\ boots \in Nat /\ sweepDue \in BOOLEAN
<1>1. Rest /\ \A w \in Worker : task[w] \in Task
  BY DEF IInv, TypeOK
<1>2. ASSUME NEW x \in File, NEW n \in Sizes, InsertFile(x, n) \/ InsertServiceFile(x, n)
      PROVE  Rest'
  BY <1>1, <1>2 DEF InsertFile, InsertServiceFile, sessions, server, Chunks
<1>3. ASSUME NEW x \in File, DeleteServiceFile(x) \/ PurgeFile(x) PROVE Rest'
  BY <1>1, <1>3 DEF DeleteServiceFile, PurgeFile, Remove, sessions, server, Chunks
<1>4. ASSUME NEW u \in User, NEW q \in Quotas, SetUserQuota(u, q) PROVE Rest'
  BY <1>1, <1>4, SizesType DEF SetUserQuota, sessions, server, Chunks
<1>5. ASSUME NEW w \in Worker, NEW s \in Session,
             \/ BeginCreate(w, s) \/ BeginFinish(w, s) \/ Abort(w, s)
             \/ \E i \in 1..(Size[s] + 1) : BeginChunk(w, s, i)
      PROVE  Rest'
  BY <1>1, <1>5 DEF BeginCreate, BeginFinish, Abort, BeginChunk, sessions, server, Chunks
<1>6. ASSUME NEW w \in Worker,
             \/ BeginPrune(w) \/ Abandon(w) \/ Assemble(w) \/ VetFinish(w)
             \/ RefuseFinish(w) \/ EndPrune(w)
      PROVE  Rest'
  BY <1>1, <1>6 DEF BeginPrune, Abandon, Assemble, VetFinish, RefuseFinish, EndPrune,
                    sessions, server, Chunks
<1>7. ASSUME NEW w \in Worker, InsertSession(w) \/ PruneOne(w) \/ Cleanup(w) PROVE Rest'
  BY <1>1, <1>7 DEF InsertSession, PruneOne, Cleanup, server, Chunks, Task
<1>8. ASSUME NEW w \in Worker, StageChunk(w) PROVE Rest'
  <2>1. PICK s \in task[w].session : staged' = [staged EXCEPT ![s] = @ \cup {task[w].chunk}]
    BY <1>8 DEF StageChunk
  <2>2. s \in Session /\ task[w].chunk \in Chunks(s) /\ task[w].chunk \in Nat
    BY <1>1, <1>8, <2>1 DEF StageChunk, Task, IInv, OneSession
  <2> QED
    <3>1. staged' \in [Session -> SUBSET Nat] /\ \A r \in Session : staged'[r] \subseteq Chunks(r)
      BY <1>1, <2>1, <2>2
    <3> QED
      BY <1>1, <1>8, <3>1 DEF StageChunk, server, Chunks
<1>9. ASSUME NEW w \in Worker, RecordReceived(w) PROVE Rest'
  BY <1>1, <1>9 DEF RecordReceived, server, Chunks, Task
<1>10. ASSUME NEW w \in Worker, NEW x \in File, CommitFinish(w, x) PROVE Rest'
  <2>1. PICK s \in task[w].session :
            /\ state' = [state EXCEPT ![s] = "done"]
            /\ received' = [received EXCEPT ![s] = Size[s]]
            /\ writer' = Free
            /\ UNCHANGED <<quota, expired, staged, conn, server>>
    BY <1>10 DEF CommitFinish
  <2>2. s \in Session /\ Size[s] \in Nat
    BY <1>1, SizeType DEF Task
  <2> QED
    BY <1>1, <2>1, <2>2 DEF server, Chunks
<1>11. ASSUME Boot PROVE Rest'
  <2>1. /\ boots' \in Nat /\ sweepDue' \in BOOLEAN /\ conn' = Free /\ writer' = Free
        /\ UNCHANGED <<quota, state, expired, received, staged>>
    BY <1>1, <1>11 DEF Boot, sessions
  <2> QED
    BY <1>1, <2>1 DEF Chunks
<1>12. ASSUME NEW s \in Session, Expire(s) PROVE Rest'
  BY <1>1, <1>12 DEF Expire, server, Chunks
<1>13. ASSUME UNCHANGED vars PROVE Rest'
  BY <1>1, <1>13 DEF vars, Chunks
<1>14. Rest'
  <2> HIDE DEF Rest
  <2> QED
    BY <1>2, <1>3, <1>4, <1>5, <1>6, <1>7, <1>8, <1>9, <1>10, <1>11, <1>12, <1>13
    DEF Next, RequestStep
<1> QED
  BY <1>14, FilesType, TaskType DEF TypeOK

(* What a lock is held for, of one request.                                *)
Held(w) ==
    /\ task[w].op = "create" => conn = w /\ \A s \in task[w].session : state[s] = "unborn"
    /\ task[w].op = "prune" => conn = w
    /\ task[w].op = "commit" => writer = w
    /\ task[w].op \notin {"idle", "prune", "cleanup"} =>
          \E s \in Session : task[w].session = {s}
    /\ task[w].op = "stage" => \A s \in task[w].session : task[w].chunk \in Chunks(s)

\* A worker with nothing in hand holds no session's lock, so it keeps Held.
LEMMA IdleHolds ==
    ASSUME NEW w \in Worker, task'[w] = Idle PROVE Held(w)'
BY DEF Held, Idle

(* A request keeps what it holds while its own variables and its locks stay.*)
LEMMA Bystander ==
    ASSUME NEW w \in Worker, Held(w), task'[w] = task[w],
           conn = w => conn' = w, writer = w => writer' = w,
           task[w].op = "create" =>
               \A s \in task[w].session : state[s] = "unborn" => state'[s] = "unborn"
    PROVE  Held(w)'
BY DEF Held, Chunks

(* A step of one request leaves what the others hold.                      *)
LEMMA LockSteps ==
    ASSUME IInv, [Next]_vars, NEW w \in Worker
    PROVE  Held(w)'
<1>1. /\ \A v \in Worker : Held(v) /\ task[v] \in Task
      /\ TypeOK
      /\ Free \notin Worker
  BY NobodyType DEF IInv, TypeOK, Held, LocksAreHeld, OneSession
<1>2. CASE task' = task /\ conn' = conn /\ writer' = writer /\ state' = state
  BY <1>1, <1>2 DEF Held, Chunks
<1>3. ASSUME NEW x \in File, NEW n \in Sizes, InsertFile(x, n) \/ InsertServiceFile(x, n)
      PROVE  Held(w)'
  BY <1>2, <1>3 DEF InsertFile, InsertServiceFile, sessions
<1>4. ASSUME NEW x \in File, DeleteServiceFile(x) \/ PurgeFile(x) PROVE Held(w)'
  BY <1>2, <1>4 DEF DeleteServiceFile, PurgeFile, Remove, sessions
<1>5. ASSUME NEW u \in User, NEW q \in Quotas, SetUserQuota(u, q) PROVE Held(w)'
  BY <1>2, <1>5 DEF SetUserQuota, sessions
<1>6. ASSUME NEW v \in Worker, NEW s \in Session, BeginCreate(v, s) PROVE Held(w)'
  BY <1>1, <1>6 DEF BeginCreate, Start, Idle, Held, sessions, TypeOK, Chunks
<1>7. ASSUME NEW v \in Worker, NEW s \in Session,
             BeginFinish(v, s) \/ \E i \in 1..(Size[s] + 1) : BeginChunk(v, s, i)
      PROVE  Held(w)'
  <2>1. CASE BeginFinish(v, s)
    BY <1>1, <2>1 DEF BeginFinish, Start, Idle, Held, sessions, TypeOK, Chunks
  <2>2. ASSUME NEW i \in 1..(Size[s] + 1), BeginChunk(v, s, i) PROVE Held(w)'
    <3>1. CASE w = v
      BY <1>1, <2>2, <3>1 DEF BeginChunk, Start, Idle, Held, TypeOK, Chunks
    <3>2. CASE w # v
      BY <1>1, <2>2, <3>2, Bystander DEF BeginChunk, Start, sessions, TypeOK
    <3> QED
      BY <3>1, <3>2
  <2> QED
    BY <1>7, <2>1, <2>2
<1>8. ASSUME NEW v \in Worker, NEW s \in Session, Abort(v, s) PROVE Held(w)'
  BY <1>1, <1>8 DEF Abort, Start, Idle, Held, TypeOK, Chunks
<1>9. ASSUME NEW v \in Worker, BeginPrune(v) PROVE Held(w)'
  BY <1>1, <1>9 DEF BeginPrune, Start, Idle, Held, sessions, TypeOK, Chunks
<1>10. ASSUME NEW v \in Worker, Abandon(v) PROVE Held(w)'
  BY <1>1, <1>10 DEF Abandon, Finish, Idle, Held, sessions, TypeOK, Chunks
<1>11. ASSUME NEW v \in Worker, InsertSession(v) PROVE Held(w)'
  BY <1>1, <1>11 DEF InsertSession, Finish, Idle, Held, TypeOK, Chunks
<1>12. ASSUME NEW v \in Worker, StageChunk(v) PROVE Held(w)'
  <2>1. CASE w = v
    BY <1>1, <1>12, <2>1 DEF StageChunk, Go, Held, TypeOK, Task
  <2>2. CASE w # v
    BY <1>1, <1>12, <2>2, Bystander DEF StageChunk, Go, TypeOK
  <2> QED
    BY <2>1, <2>2
<1>13. ASSUME NEW v \in Worker, RecordReceived(v) \/ RefuseFinish(v) \/ Cleanup(v)
       PROVE  Held(w)'
  <2>1. CASE w = v
    BY <1>1, <1>13, <2>1, IdleHolds DEF RecordReceived, RefuseFinish, Cleanup, Finish, TypeOK
  <2>2. CASE w # v
    BY <1>1, <1>13, <2>2, Bystander
    DEF RecordReceived, RefuseFinish, Cleanup, Finish, sessions, TypeOK
  <2> QED
    BY <2>1, <2>2
<1>14. ASSUME NEW v \in Worker, Assemble(v) \/ VetFinish(v) PROVE Held(w)'
  <2>1. CASE w = v
    <3>1. /\ task'[w].op \in {"finish", "commit"} /\ task'[w].session = task[w].session
          /\ task'[w].op = "commit" => writer' = w
          /\ task[w].op \in {"assemble", "finish"}
      <4>1. CASE Assemble(v)
        BY <1>1, <2>1, <4>1 DEF Assemble, Go, TypeOK, Task
      <4>2. CASE VetFinish(v)
        BY <1>1, <2>1, <4>2 DEF VetFinish, Go, TypeOK, Task
      <4> QED
        BY <1>14, <4>1, <4>2
    <3> QED
      BY <1>1, <3>1 DEF Held
  <2>2. CASE w # v
    BY <1>1, <1>14, <2>2, Bystander DEF Assemble, VetFinish, Go, sessions, TypeOK
  <2> QED
    BY <2>1, <2>2
<1>15. ASSUME NEW v \in Worker, NEW x \in File, CommitFinish(v, x) PROVE Held(w)'
  <2>1. PICK s \in task[v].session :
            /\ task[v].op = "commit"
            /\ state' = [state EXCEPT ![s] = "done"]
            /\ writer' = Free /\ conn' = conn
            /\ task' = [task EXCEPT ![v] = [task[v] EXCEPT !.op = "cleanup"]]
    BY <1>15 DEF CommitFinish, Go
  <2>2. state[s] = "active" /\ writer = v
    BY <1>1, <2>1 DEF IInv, VettedFits, Held
  <2>3. CASE w = v
    BY <1>1, <2>1, <2>3 DEF Held, TypeOK, Task
  <2>4. CASE w # v
    <3>1. \A r \in Session : state[r] = "unborn" => state'[r] = "unborn"
      BY <1>1, <2>1, <2>2 DEF TypeOK
    <3> QED
      BY <1>1, <2>1, <2>2, <2>4, <3>1, Bystander DEF TypeOK, Task
  <2> QED
    BY <2>3, <2>4
<1>16. ASSUME NEW v \in Worker, PruneOne(v) PROVE Held(w)'
  BY <1>1, <1>16 DEF PruneOne, Go, Held, TypeOK, Task, Chunks
<1>17. ASSUME NEW v \in Worker, EndPrune(v) PROVE Held(w)'
  BY <1>1, <1>17 DEF EndPrune, Go, Held, sessions, TypeOK, Task, Chunks
<1>18. ASSUME Boot PROVE Held(w)'
  BY <1>18, IdleHolds DEF Boot
<1>19. ASSUME (\E s \in Session : Expire(s)) \/ UNCHANGED vars PROVE Held(w)'
  BY <1>2, <1>19 DEF Expire, vars
<1> QED
  BY <1>3, <1>4, <1>5, <1>6, <1>7, <1>8, <1>9, <1>10, <1>11, <1>12, <1>13, <1>14,
     <1>15, <1>16, <1>17, <1>18, <1>19 DEF Next, RequestStep

(* While a finish is between its second look and its commit, nothing that  *)
(* it looked at changes.                                                   *)
Vetted(w) ==
    task[w].op = "commit" =>
        \A s \in task[w].session :
            state[s] = "active" /\ Fits(Owner[s], used[Owner[s]], Size[s])

\* What commit_blob's transaction read before its insert is still true at the insert.
LEMMA VettedSteps ==
    ASSUME IInv, [Next]_vars, NEW w \in Worker
    PROVE  Vetted(w)'
<1>1. /\ TypeOK /\ Vetted(w) /\ Free \notin Worker /\ task[w] \in Task
      /\ task[w].op = "commit" => writer = w
  BY NobodyType DEF IInv, TypeOK, VettedFits, Vetted, LocksAreHeld
<1>2. CASE task'[w] = task[w] /\ state' = state /\ used' = used /\ quota' = quota
  BY <1>1, <1>2 DEF Vetted, Fits
<1>3. CASE task'[w].op # "commit"
  BY <1>3 DEF Vetted
<1>4. CASE writer = Free /\ task'[w] = task[w]
  BY <1>1, <1>3, <1>4
<1>5. ASSUME NEW x \in File, NEW n \in Sizes, InsertFile(x, n) \/ InsertServiceFile(x, n)
      PROVE  Vetted(w)'
  BY <1>4, <1>5 DEF InsertFile, InsertServiceFile
<1>6. ASSUME NEW x \in File, DeleteServiceFile(x) \/ PurgeFile(x) PROVE Vetted(w)'
  BY <1>4, <1>6 DEF DeleteServiceFile, PurgeFile, Remove
<1>7. ASSUME NEW u \in User, NEW q \in Quotas, SetUserQuota(u, q) PROVE Vetted(w)'
  BY <1>4, <1>7 DEF SetUserQuota
<1>8. ASSUME NEW v \in Worker, NEW s \in Session,
             \/ BeginCreate(v, s) \/ BeginFinish(v, s)
             \/ \E i \in 1..(Size[s] + 1) : BeginChunk(v, s, i)
      PROVE  Vetted(w)'
  <2>1. quota' = quota /\ used' = used /\ state' = state
    BY <1>8 DEF BeginCreate, BeginFinish, BeginChunk, files, sessions
  <2>2. CASE w # v
    BY <1>1, <1>2, <1>8, <2>1, <2>2 DEF BeginCreate, BeginFinish, BeginChunk, Start, TypeOK
  <2>3. CASE w = v
    <3>1. CASE BeginCreate(v, s)
      BY <1>1, <1>3, <2>3, <3>1 DEF BeginCreate, Start, Idle, TypeOK
    <3>2. CASE BeginFinish(v, s)
      BY <1>1, <1>3, <2>3, <3>2 DEF BeginFinish, Start, Idle, TypeOK
    <3>3. ASSUME NEW i \in 1..(Size[s] + 1), BeginChunk(v, s, i) PROVE Vetted(w)'
      BY <1>1, <1>3, <2>3, <3>3 DEF BeginChunk, Start, Idle, TypeOK
    <3> QED
      BY <1>8, <3>1, <3>2, <3>3
  <2> QED
    BY <2>2, <2>3
<1>9. ASSUME NEW v \in Worker, NEW s \in Session, Abort(v, s) PROVE Vetted(w)'
  BY <1>1, <1>3, <1>4, <1>9 DEF Abort, Start, Idle, TypeOK
<1>10. ASSUME NEW v \in Worker, BeginPrune(v) \/ Abandon(v) PROVE Vetted(w)'
  <2>1. quota' = quota /\ used' = used /\ state' = state
    BY <1>10 DEF BeginPrune, Abandon, files, sessions
  <2>2. CASE w = v
    <3>1. CASE BeginPrune(v)
      BY <1>1, <1>3, <2>2, <3>1 DEF BeginPrune, Start, Idle, TypeOK
    <3>2. CASE Abandon(v)
      BY <1>1, <1>3, <2>2, <3>2 DEF Abandon, Finish, Idle, TypeOK
    <3> QED
      BY <1>10, <3>1, <3>2
  <2>3. CASE w # v
    BY <1>1, <1>2, <1>10, <2>1, <2>3 DEF BeginPrune, Abandon, Start, Finish, TypeOK
  <2> QED
    BY <2>2, <2>3
<1>11. ASSUME NEW v \in Worker, InsertSession(v) PROVE Vetted(w)'
  BY <1>1, <1>3, <1>4, <1>11 DEF InsertSession, Finish, Idle, TypeOK
<1>12. ASSUME NEW v \in Worker,
              \/ StageChunk(v) \/ RecordReceived(v) \/ Assemble(v)
              \/ RefuseFinish(v) \/ EndPrune(v) \/ Cleanup(v)
       PROVE  Vetted(w)'
  <2>1. quota' = quota /\ used' = used /\ state' = state
    BY <1>12 DEF StageChunk, RecordReceived, Assemble, RefuseFinish, EndPrune, Cleanup,
                 files, sessions
  <2>2. \E t \in {"idle", "record", "finish", "cleanup"} :
           /\ w = v => task'[w].op = t
           /\ w # v => task'[w] = task[w]
    <3>1. CASE RecordReceived(v) \/ RefuseFinish(v) \/ Cleanup(v)
      <4>1. task' = [task EXCEPT ![v] = Idle]
        BY <3>1 DEF RecordReceived, RefuseFinish, Cleanup, Finish
      <4> QED
        BY <1>1, <4>1 DEF Idle, TypeOK
    <3>2. CASE StageChunk(v)
      BY <1>1, <3>2 DEF StageChunk, Go, TypeOK, Task
    <3>3. CASE Assemble(v)
      BY <1>1, <3>3 DEF Assemble, Go, TypeOK, Task
    <3>4. CASE EndPrune(v)
      BY <1>1, <3>4 DEF EndPrune, Go, TypeOK, Task
    <3> QED
      BY <1>12, <3>1, <3>2, <3>3, <3>4
  <2> QED
    BY <1>2, <1>3, <2>1, <2>2
<1>13. ASSUME NEW v \in Worker, VetFinish(v) PROVE Vetted(w)'
  <2>1. PICK s \in task[v].session :
            /\ task[v].op = "finish" /\ writer = Free
            /\ Open(s) /\ Fits(Owner[s], Taken(Owner[s], {s}), Size[s])
            /\ task' = [task EXCEPT ![v] = [task[v] EXCEPT !.op = "commit"]]
            /\ UNCHANGED <<quota, files, sessions, conn, server>>
    BY <1>13 DEF VetFinish, Go
  <2>2. task[v].session = {s} /\ s \in Session
    BY <2>1 DEF IInv, OneSession
  <2>3. CASE w = v
    <3>1. Fits(Owner[s], used[Owner[s]], Size[s])
      <4>1. Owner[s] \in User /\ Size[s] \in Nat
        BY <2>2, OwnersType, SizeType
      <4>2. Claimed(Owner[s], {s}) \subseteq Claimed(Owner[s], {})
        BY DEF Claimed
      <4>3. Cardinality(Claimed(Owner[s], {s})) \in Nat
        BY <4>1, <4>2, FS_Subset, FS_CardinalityType DEF IInv, BytesAreFinite
      <4>4. used[Owner[s]] \in Nat /\ quota[Owner[s]] \in Nat
        BY <1>1, <4>1 DEF TypeOK
      <4> QED
        BY <2>1, <4>1, <4>3, <4>4 DEF Fits, Taken
    <3>2. task'[w].session = {s} /\ UNCHANGED <<quota, used, state>>
      BY <1>1, <2>1, <2>2, <2>3 DEF TypeOK, Task, files, sessions
    <3> QED
      BY <2>1, <3>1, <3>2 DEF Vetted, Open, Fits
  <2>4. CASE w # v
    BY <1>1, <1>4, <2>1, <2>4 DEF TypeOK
  <2> QED
    BY <2>3, <2>4
<1>14. ASSUME NEW v \in Worker, NEW x \in File, CommitFinish(v, x) PROVE Vetted(w)'
  <2>1. /\ task[v].op = "commit"
        /\ task' = [task EXCEPT ![v] = [task[v] EXCEPT !.op = "cleanup"]]
    BY <1>14 DEF CommitFinish, Go
  <2>2. writer = v
    BY <2>1 DEF IInv, LocksAreHeld
  <2>3. task'[w].op # "commit"
    BY <1>1, <2>1, <2>2 DEF TypeOK, Task
  <2> QED
    BY <1>3, <2>3
<1>15. ASSUME NEW v \in Worker, PruneOne(v) PROVE Vetted(w)'
  <2>1. writer = Free /\ task[v].op = "prune" /\ (w # v => task'[w] = task[w])
        /\ (w = v => task'[w].op = "prune")
    BY <1>1, <1>15 DEF PruneOne, Go, TypeOK, Task
  <2> QED
    BY <1>3, <1>4, <2>1
<1>16. ASSUME Boot PROVE Vetted(w)'
  BY <1>3, <1>16 DEF Boot, Idle
<1>17. ASSUME (\E s \in Session : Expire(s)) \/ UNCHANGED vars PROVE Vetted(w)'
  BY <1>2, <1>17 DEF Expire, files, sessions, vars
<1> QED
  BY <1>5, <1>6, <1>7, <1>8, <1>9, <1>10, <1>11, <1>12, <1>13, <1>14, <1>15, <1>16, <1>17
  DEF Next, RequestStep

(* A row that is there has a source, and a file without a row no bytes; a  *)
(* session that became a file is settled, and became one file.             *)
LEMMA NotesStep ==
    ASSUME IInv, [Next]_vars
    PROVE  RowsAreNoted' /\ SourcesAreSettled' /\ OneFilePerSession'
<1> DEFINE Quiet == \A s \in Session :
                       state[s] \in {"done", "aborted"} => state'[s] \in {"done", "aborted"}
           Noted == RowsAreNoted' /\ SourcesAreSettled' /\ OneFilePerSession'
<1>1. TypeOK /\ RowsAreNoted /\ SourcesAreSettled /\ OneFilePerSession
  BY DEF IInv
<1>2. Quiet
  BY StateSteps DEF StateStep
<1>3. CASE UNCHANGED files
  BY <1>1, <1>2, <1>3 DEF files, RowsAreNoted, SourcesAreSettled, OneFilePerSession
<1>4. ASSUME NEW x \in File, NEW n \in Sizes, Add(x, n) PROVE Noted
  BY <1>1, <1>2, <1>4, NobodyType
  DEF Add, Write, TypeOK, RowsAreNoted, SourcesAreSettled, OneFilePerSession
<1>5. ASSUME NEW x \in File, Remove(x) PROVE Noted
  BY <1>1, <1>2, <1>5 DEF Remove, TypeOK, RowsAreNoted, SourcesAreSettled, OneFilePerSession
<1>6. ASSUME NEW w \in Worker, NEW x \in File, CommitFinish(w, x) PROVE Noted
  <2>1. PICK s \in task[w].session :
            /\ task[w].op = "commit" /\ source[x] = {}
            /\ Write(x, Size[s], s)
            /\ state' = [state EXCEPT ![s] = "done"]
    BY <1>6 DEF CommitFinish
  <2>2. s \in Session /\ state[s] = "active" /\ state'[s] = "done"
    BY <1>1, <2>1 DEF TypeOK, Task, IInv, VettedFits
  <2>3. \A y \in File : s \notin source[y]
    BY <1>1, <2>2 DEF SourcesAreSettled
  <2>4. RowsAreNoted'
    BY <1>1, <2>1 DEF Write, TypeOK, RowsAreNoted
  <2>5. SourcesAreSettled'
    BY <1>1, <1>2, <2>1, <2>2 DEF Write, TypeOK, SourcesAreSettled
  <2>6. OneFilePerSession'
    BY <1>1, <2>1, <2>2, <2>3 DEF Write, TypeOK, OneFilePerSession
  <2> QED
    BY <2>4, <2>5, <2>6
<1> QED
  BY <1>3, <1>4, <1>5, <1>6, RowSteps

-----------------------------------------------------------------------------
(* The invariant, and the theorems.                                        *)

\* A fresh server satisfies the inductive invariant.
LEMMA InvInit == Init => IInv
<1> SUFFICES ASSUME Init PROVE IInv
  OBVIOUS
<1>1. TypeOK
  BY IdleType, SizesType DEF Init, TypeOK
<1>2. \A u \in User : Stored(u) = {} /\ Claimed(u, {}) = {}
  BY DEF Init, Stored, Claimed
<1>3. BytesAreFinite /\ UsedIsStored
  BY <1>2, FS_EmptySet DEF Init, BytesAreFinite, UsedIsStored
<1>4. LocksAreHeld /\ OneSession /\ VettedFits
  BY DEF Init, Idle, LocksAreHeld, OneSession, VettedFits
<1>5. RowsAreNoted /\ SourcesAreSettled /\ OneFilePerSession
  BY DEF Init, RowsAreNoted, SourcesAreSettled, OneFilePerSession
<1> QED
  BY <1>1, <1>3, <1>4, <1>5 DEF IInv

\* Every step of a handler, a prune, a purge, an expiry or a boot preserves it.
LEMMA InvStep == IInv /\ [Next]_vars => IInv'
<1> SUFFICES ASSUME IInv, [Next]_vars PROVE IInv'
  OBVIOUS
<1>1. LocksAreHeld' /\ OneSession'
  BY LockSteps DEF Held, LocksAreHeld, OneSession, Chunks
<1>2. VettedFits'
  BY VettedSteps DEF Vetted, VettedFits, Fits
<1> QED
  BY <1>1, <1>2, TypeStep, BytesStep, NotesStep DEF IInv

(* Every reachable state satisfies the invariant.                          *)
THEOREM Invariance == Spec => []IInv
BY InvInit, InvStep, PTL DEF Spec

(* Every variable stays in its type, the chunk files of a session within   *)
(* the chunks it declared (record_chunk's checks).                         *)
THEOREM TypeCorrect == Spec => []TypeOK
<1>1. IInv => TypeOK
  BY DEF IInv
<1> QED
  BY <1>1, Invariance, PTL

(* used_bytes counts the bytes of the rows, whatever writes, purges,       *)
(* finishes and pushes interleave (refresh_usage).                         *)
THEOREM UsageIsTheRows == Spec => []UsedIsStored
<1>1. IInv => UsedIsStored
  BY DEF IInv
<1> QED
  BY <1>1, Invariance, PTL

(* A session becomes at most one file, however many finishes run at once   *)
(* (finish_upload's second look, under the write lock).                    *)
THEOREM SessionsFinishOnce == Spec => []OneFilePerSession
<1>1. IInv => OneFilePerSession
  BY DEF IInv
<1> QED
  BY <1>1, Invariance, PTL

(* An aborted session is not revived, by a finish under way or otherwise.  *)
THEOREM AbortsAreFinal == Spec => AbortIsFinal
<1>1. IInv /\ [Next]_vars =>
        [\A s \in Session : state[s] = "aborted" => state'[s] = "aborted"]_vars
  BY StateSteps DEF StateStep
<1> QED
  BY <1>1, Invariance, PTL DEF Spec, AbortIsFinal

(* A write that grows usage was looked at in the transaction it commits    *)
(* in.                                                                     *)
LEMMA GrowthStep ==
    ASSUME IInv, [Next]_vars, NEW u \in User, used'[u] > used[u]
    PROVE  used'[u] \leq quota[u]
<1>1. used \in [User -> Nat] /\ quota \in [User -> Nat] /\ size \in [File -> Nat]
  BY DEF IInv, TypeOK
<1>2. ~UNCHANGED files
  BY <1>1 DEF files
<1>3. ASSUME NEW x \in File, NEW n \in Sizes, Add(x, n) PROVE used'[u] \leq quota[u]
  <2> DEFINE k == Cardinality(Others(Owner[x], x))
             c == Cardinality(Claimed(Owner[x], {}))
  <2>1. n \in Nat /\ k \in Nat /\ Owner[x] \in User /\ size[x] \in Nat
    BY <1>1, SizesType, UsedSplits, OwnersType
  <2>2. used' = [used EXCEPT ![Owner[x]] = k + n] /\ used[Owner[x]] = k + size[x]
    BY <1>3, <2>1, WriteBytes, UsedSplits DEF Add
  <2>3. c \in Nat
    BY <2>1, FS_CardinalityType DEF IInv, BytesAreFinite
  <2>4. Owner[x] = u
    BY <1>1, <2>2
  <2>5. n = 0 \/ k + size[x] + c + n \leq quota[u] \/ k + c + n \leq quota[u]
    <3>1. CASE Fits(Owner[x], Taken(Owner[x], {}), n)
      BY <2>2, <2>4, <3>1 DEF Fits, Taken
    <3>2. CASE Fits(Owner[x], ChargedWithout(x), n)
      <4> HIDE DEF k, c
      <4>1. ChargedWithout(x) = k + c
        BY <2>1, <2>2, <2>3 DEF ChargedWithout, Taken, c
      <4> QED
        BY <2>4, <3>2, <4>1 DEF Fits
    <3> QED
      BY <1>3, <3>1, <3>2 DEF Add
  <2> HIDE DEF k, c
  <2> QED
    BY <1>1, <2>1, <2>2, <2>3, <2>4, <2>5
<1>4. ASSUME NEW x \in File, Remove(x) PROVE FALSE
  <2> DEFINE k == Cardinality(Others(Owner[x], x))
  <2>1. k \in Nat /\ size[x] \in Nat /\ Owner[x] \in User
    BY <1>1, UsedSplits, OwnersType
  <2>2. used' = [used EXCEPT ![Owner[x]] = k] /\ used[Owner[x]] = k + size[x]
    BY <1>4, RemoveBytes, UsedSplits
  <2> HIDE DEF k
  <2> QED
    BY <1>1, <2>1, <2>2
<1>5. ASSUME NEW w \in Worker, NEW x \in File, CommitFinish(w, x)
      PROVE  used'[u] \leq quota[u]
  <2> DEFINE k == Cardinality(Others(Owner[x], x))
  <2>1. PICK s \in task[w].session :
            /\ task[w].op = "commit"
            /\ x \notin Service /\ source[x] = {} /\ Owner[x] = Owner[s]
            /\ Write(x, Size[s], s)
    BY <1>5 DEF CommitFinish
  <2>2. s \in Session /\ Size[s] \in Nat /\ k \in Nat /\ Owner[x] \in User
    BY SizeType, UsedSplits, OwnersType DEF IInv, TypeOK, Task
  <2>3. used' = [used EXCEPT ![Owner[x]] = k + Size[s]] /\ used[Owner[x]] = k + size[x]
    BY <2>1, <2>2, WriteBytes, UsedSplits
  <2>4. size[x] = 0
    BY <2>1 DEF IInv, RowsAreNoted
  <2>5. Fits(Owner[x], used[Owner[x]], Size[s])
    BY <2>1 DEF IInv, VettedFits
  <2> HIDE DEF k
  <2> QED
    BY <1>1, <2>2, <2>3, <2>4, <2>5 DEF Fits
<1> QED
  BY <1>2, <1>3, <1>4, <1>5, RowSteps

(* Growth fits the quota in force when it commits: no two writers are let  *)
(* into the same room, and a lowered quota refuses at once (fit_quota,     *)
(* inside insert_file, insert_service_file and finish_upload).             *)
THEOREM GrowthFits == Spec => GrowthFitsQuota
<1>1. IInv /\ [Next]_vars =>
        [\A u \in User : used'[u] > used[u] => used'[u] \leq quota[u]]_vars
  BY GrowthStep
<1> QED
  BY <1>1, Invariance, PTL DEF Spec, GrowthFitsQuota

-----------------------------------------------------------------------------
(* Claims and chunks: what a request still knows when it acts on it.       *)

(* A step gives a request nothing to do, goes on with it, or begins or     *)
(* ends what a claim or a directory depends on.                            *)
LEMMA TurnSteps ==
    ASSUME TypeOK, [Next]_vars, NEW w \in Worker
    PROVE  \/ task'[w] = task[w]
           \/ task'[w].op \in {"idle", "stage", "record", "assemble", "finish", "commit"}
           \/ \E s \in Session : BeginCreate(w, s) \/ Abort(w, s)
           \/ BeginPrune(w) \/ PruneOne(w) \/ EndPrune(w)
           \/ \E x \in File : CommitFinish(w, x)
<1> DEFINE Plain == task'[w].op \in {"idle", "stage", "record", "assemble", "finish", "commit"}
<1>1. task \in [Worker -> Task] /\ task[w] \in Task
  BY DEF TypeOK
<1>2. ASSUME NEW v \in Worker, NEW t, v # w, task' = [task EXCEPT ![v] = t]
      PROVE  task'[w] = task[w]
  BY <1>1, <1>2
<1>3. ASSUME NEW x \in File, NEW n \in Sizes, InsertFile(x, n) \/ InsertServiceFile(x, n)
      PROVE  task' = task
  BY <1>3 DEF InsertFile, InsertServiceFile
<1>4. ASSUME NEW x \in File, DeleteServiceFile(x) \/ PurgeFile(x) PROVE task' = task
  BY <1>4 DEF DeleteServiceFile, PurgeFile, Remove
<1>5. ASSUME NEW u \in User, NEW q \in Quotas, SetUserQuota(u, q) PROVE task' = task
  BY <1>5 DEF SetUserQuota
<1>6. ASSUME NEW v \in Worker, v # w, \E s \in Session :
                \/ BeginCreate(v, s) \/ BeginFinish(v, s) \/ Abort(v, s)
                \/ \E i \in 1..(Size[s] + 1) : BeginChunk(v, s, i)
      PROVE  task'[w] = task[w]
  BY <1>2, <1>6 DEF BeginCreate, BeginFinish, Abort, BeginChunk, Start
<1>7. ASSUME NEW v \in Worker, v # w, BeginPrune(v) \/ RequestStep(v) \/ Abandon(v)
      PROVE  task'[w] = task[w]
  BY <1>2, <1>7
  DEF BeginPrune, Abandon, RequestStep, InsertSession, StageChunk, RecordReceived, Assemble,
      VetFinish, RefuseFinish, CommitFinish, PruneOne, EndPrune, Cleanup, Start, Go, Finish
<1>8. ASSUME NEW s \in Session, \/ BeginFinish(w, s)
                                \/ \E i \in 1..(Size[s] + 1) : BeginChunk(w, s, i)
      PROVE  Plain
  BY <1>1, <1>8 DEF BeginFinish, BeginChunk, Start, Idle
<1>9. ASSUME \/ Abandon(w) \/ InsertSession(w) \/ RecordReceived(w) \/ RefuseFinish(w)
             \/ Cleanup(w) \/ Boot
      PROVE  Plain
  <2>1. task'[w] = Idle
    BY <1>1, <1>9
    DEF Abandon, InsertSession, RecordReceived, RefuseFinish, Cleanup, Finish, Boot
  <2> QED
    BY <2>1 DEF Idle
<1>10. ASSUME StageChunk(w) \/ Assemble(w) \/ VetFinish(w) PROVE Plain
  <2>1. \E op \in {"record", "finish", "commit"} : task'[w].op = op
    <3>1. CASE StageChunk(w)
      <4>1. PICK n : task' = [task EXCEPT ![w] = [task[w] EXCEPT !.op = "record", !.sum = n]]
        BY <3>1 DEF StageChunk, Go
      <4> QED
        BY <1>1, <4>1 DEF Task
    <3>2. CASE Assemble(w)
      BY <1>1, <3>2 DEF Assemble, Go, Task
    <3>3. CASE VetFinish(w)
      BY <1>1, <3>3 DEF VetFinish, Go, Task
    <3> QED
      BY <1>10, <3>1, <3>2, <3>3
  <2> QED
    BY <2>1
<1>11. ASSUME (\E s \in Session : Expire(s)) \/ UNCHANGED vars PROVE task' = task
  BY <1>11 DEF Expire, vars
<1> HIDE DEF Plain
<1>12. CASE \E v \in Worker :
               \/ \E s \in Session :
                     \/ BeginCreate(v, s) \/ BeginFinish(v, s) \/ Abort(v, s)
                     \/ \E i \in 1..(Size[s] + 1) : BeginChunk(v, s, i)
               \/ BeginPrune(v)
               \/ RequestStep(v) \/ Abandon(v)
  <2>1. PICK v \in Worker :
               \/ \E s \in Session :
                     \/ BeginCreate(v, s) \/ BeginFinish(v, s) \/ Abort(v, s)
                     \/ \E i \in 1..(Size[s] + 1) : BeginChunk(v, s, i)
               \/ BeginPrune(v)
               \/ RequestStep(v) \/ Abandon(v)
    BY <1>12
  <2>2. CASE v # w
    BY <1>6, <1>7, <2>1, <2>2
  <2>3. CASE v = w
    BY <1>8, <1>9, <1>10, <2>1, <2>3 DEF RequestStep, Plain
  <2> QED
    BY <2>2, <2>3
<1> QED
  BY <1>3, <1>4, <1>5, <1>9, <1>11, <1>12 DEF Next, Plain

(* Whoever begins a session holds the shared connection, and what it saw   *)
(* of the owner's claims and quota leaves room for it until it is there.   *)
Room(s) ==
    Size[s] = 0 \/ Cardinality(Claimed(Owner[s], {})) + Size[s] \leq quota[Owner[s]]

RoomIsLeft ==
    \A w \in Worker : task[w].op = "create" => \A s \in task[w].session : Room(s)

(* A quota changes only while nobody holds the shared connection.          *)
LEMMA QuotaSteps ==
    ASSUME [Next]_vars, conn # Free
    PROVE  quota' = quota
<1>1. ASSUME NEW x \in File, NEW n \in Sizes, InsertFile(x, n) \/ InsertServiceFile(x, n)
      PROVE  quota' = quota
  BY <1>1 DEF InsertFile, InsertServiceFile
<1>2. ASSUME NEW x \in File, DeleteServiceFile(x) \/ PurgeFile(x) PROVE quota' = quota
  BY <1>2 DEF DeleteServiceFile, PurgeFile, Remove
<1>3. ASSUME NEW u \in User, NEW q \in Quotas, SetUserQuota(u, q) PROVE FALSE
  BY <1>3 DEF SetUserQuota
<1>4. ASSUME NEW w \in Worker, NEW s \in Session,
             \/ BeginCreate(w, s) \/ BeginFinish(w, s) \/ Abort(w, s)
             \/ \E i \in 1..(Size[s] + 1) : BeginChunk(w, s, i)
      PROVE  quota' = quota
  BY <1>4 DEF BeginCreate, BeginFinish, Abort, BeginChunk
<1>5. ASSUME NEW w \in Worker, BeginPrune(w) \/ Abandon(w) PROVE quota' = quota
  BY <1>5 DEF BeginPrune, Abandon
<1>6. ASSUME NEW w \in Worker, RequestStep(w) PROVE quota' = quota
  BY <1>6 DEF RequestStep, InsertSession, StageChunk, RecordReceived, Assemble, VetFinish,
              RefuseFinish, CommitFinish, PruneOne, EndPrune, Cleanup
<1>7. ASSUME Boot \/ (\E s \in Session : Expire(s)) \/ UNCHANGED vars PROVE quota' = quota
  BY <1>7 DEF Boot, Expire, vars
<1> QED
  BY <1>1, <1>2, <1>3, <1>4, <1>5, <1>6, <1>7 DEF Next

(* The claims of a user: they grow by a session that is inserted only.     *)
LEMMA ClaimSteps ==
    ASSUME IInv, [Next]_vars, NEW u \in User
    PROVE  /\ Cardinality(Claimed(u, {})) \in Nat /\ Cardinality(Claimed(u, {})') \in Nat
           /\ \/ Cardinality(Claimed(u, {})') \leq Cardinality(Claimed(u, {}))
              \/ \E w \in Worker, s \in Session :
                    /\ InsertSession(w) /\ s \in task[w].session /\ Owner[s] = u
                    /\ Cardinality(Claimed(u, {})')
                          \leq Cardinality(Claimed(u, {})) + Size[s]
<1>1. IsFiniteSet(Claimed(u, {})) /\ IsFiniteSet(Claimed(u, {})')
  BY ClaimsStayFinite DEF IInv, BytesAreFinite
<1>2. Cardinality(Claimed(u, {})) \in Nat /\ Cardinality(Claimed(u, {})') \in Nat
  BY <1>1, FS_CardinalityType
<1>3. ASSUME Claimed(u, {})' \subseteq Claimed(u, {})
      PROVE  Cardinality(Claimed(u, {})') \leq Cardinality(Claimed(u, {}))
  BY <1>1, <1>3, FS_Subset
<1>4. CASE \A s \in Session : Owner[s] = u /\ state'[s] = "active" => state[s] = "active"
  <2>1. Claimed(u, {})' \subseteq Claimed(u, {})
    BY <1>4 DEF Claimed
  <2> QED
    BY <1>2, <1>3, <2>1
<1>5. ASSUME NEW s \in Session, Owner[s] = u, state'[s] = "active", state[s] # "active"
      PROVE  \E w \in Worker :
                /\ InsertSession(w) /\ s \in task[w].session
                /\ Cardinality(Claimed(u, {})') \leq Cardinality(Claimed(u, {})) + Size[s]
  <2>1. PICK w \in Worker : InsertSession(w) /\ s \in task[w].session
    BY <1>5, StateSteps DEF StateStep
  <2>2. \A r \in Session : r # s => state'[r] = state[r]
    BY <1>5, <2>1 DEF InsertSession, IInv, TypeOK
  <2>3. Claimed(u, {})' \subseteq Claimed(u, {}) \cup ({s} \X (1..Size[s]))
    BY <2>2 DEF Claimed
  <2>4. Claimed(u, {}) \cap ({s} \X (1..Size[s])) = {}
    BY <1>5 DEF Claimed
  <2>5. Size[s] \in Nat
    BY SizeType
  <2>6. LET all == Claimed(u, {}) \cup ({s} \X (1..Size[s]))
        IN IsFiniteSet(all) /\ Cardinality(all) = Cardinality(Claimed(u, {})) + Size[s]
    BY <1>1, <2>4, <2>5, AddBlock
  <2>7. Cardinality(Claimed(u, {})') \leq Cardinality(Claimed(u, {})) + Size[s]
    BY <2>3, <2>6, FS_Subset
  <2> QED
    BY <2>1, <2>7
<1> QED
  BY <1>2, <1>4, <1>5

\* The room a create saw is there until it inserts the session.
LEMMA RoomStep ==
    ASSUME IInv, RoomIsLeft, [Next]_vars, NEW w \in Worker,
           task'[w].op = "create", NEW s \in task'[w].session
    PROVE  Room(s)'
<1>1. TypeOK /\ TypeOK' /\ Free \notin Worker
  BY InvStep, NobodyType DEF IInv
<1>2. s \in Session /\ Owner[s] \in User /\ Size[s] \in Nat
  BY <1>1, OwnersType, SizeType DEF TypeOK, Task
<1>3. CASE task'[w] = task[w]
  <2>1. conn = w /\ Room(s)
    BY <1>3 DEF IInv, LocksAreHeld, RoomIsLeft
  <2>2. quota' = quota
    BY <1>1, <2>1, QuotaSteps
  <2>3. ASSUME NEW v \in Worker, InsertSession(v) PROVE FALSE
    <3>1. task[v].op = "create" /\ task' = [task EXCEPT ![v] = Idle]
      BY <2>3 DEF InsertSession, Finish
    <3>2. v = w
      BY <2>1, <3>1 DEF IInv, LocksAreHeld
    <3>3. task'[w] = Idle
      BY <1>1, <3>1, <3>2 DEF TypeOK
    <3> QED
      BY <3>3 DEF Idle
  <2>4. /\ Cardinality(Claimed(Owner[s], {})) \in Nat
        /\ Cardinality(Claimed(Owner[s], {})') \in Nat
        /\ Cardinality(Claimed(Owner[s], {})') \leq Cardinality(Claimed(Owner[s], {}))
    BY <1>2, <2>3, ClaimSteps
  <2>5. quota[Owner[s]] \in Nat
    BY <1>1, <1>2 DEF TypeOK
  <2>6. ASSUME NEW a \in Nat, NEW b \in Nat, a \leq b, NEW n \in Nat, NEW q \in Nat, b + n \leq q
        PROVE  a + n \leq q
    BY <2>6
  <2> QED
    BY <1>2, <2>1, <2>2, <2>4, <2>5, <2>6 DEF Room
<1>4. ASSUME NEW r \in Session, BeginCreate(w, r) PROVE Room(s)'
  <2>1. task' = [task EXCEPT ![w] = [Idle EXCEPT !.op = "create", !.session = {r}]]
    BY <1>4 DEF BeginCreate, Start
  <2>2. s = r
    BY <1>1, <2>1 DEF TypeOK, Idle
  <2>3. UNCHANGED <<quota, state>> /\ Fits(Owner[s], Taken(Owner[s], {}), Size[s])
    BY <1>4, <2>2 DEF BeginCreate, sessions
  <2>4. Claimed(Owner[s], {})' = Claimed(Owner[s], {})
    BY <2>3 DEF Claimed
  <2>5. Cardinality(Claimed(Owner[s], {})) \in Nat /\ used[Owner[s]] \in Nat
        /\ quota[Owner[s]] \in Nat
    BY <1>1, <1>2, ClaimSteps DEF TypeOK
  <2>6. Size[s] = 0 \/ used[Owner[s]] + Cardinality(Claimed(Owner[s], {})) + Size[s]
                          \leq quota[Owner[s]]
    BY <2>3 DEF Fits, Taken
  <2>7. ASSUME NEW a \in Nat, NEW b \in Nat, NEW n \in Nat, NEW q \in Nat, a + b + n \leq q
        PROVE  b + n \leq q
    BY <2>7
  <2> QED
    BY <1>2, <2>3, <2>4, <2>5, <2>6, <2>7 DEF Room
<1>5. ASSUME NEW r \in Session, Abort(w, r) PROVE FALSE
  BY <1>1, <1>5 DEF Abort, Start, Idle, TypeOK
<1>6. ASSUME \/ BeginPrune(w) \/ PruneOne(w) \/ EndPrune(w)
             \/ \E x \in File : CommitFinish(w, x)
      PROVE  FALSE
  <2>1. CASE BeginPrune(w)
    BY <1>1, <2>1 DEF BeginPrune, Start, Idle, TypeOK
  <2>2. CASE PruneOne(w)
    BY <1>1, <2>2 DEF PruneOne, Go, TypeOK, Task
  <2>3. CASE EndPrune(w)
    BY <1>1, <2>3 DEF EndPrune, Go, TypeOK, Task
  <2>4. CASE \E x \in File : CommitFinish(w, x)
    BY <1>1, <2>4 DEF CommitFinish, Go, TypeOK, Task
  <2> QED
    BY <1>6, <2>1, <2>2, <2>3, <2>4
<1> QED
  BY <1>1, <1>3, <1>4, <1>5, <1>6, TurnSteps

(* The directories that a request is about to take are of settled sessions.*)
Settled(s) == state[s] \in {"done", "aborted"}

TakenAreSettled ==
    \A w \in Worker :
        /\ task[w].op = "cleanup" => \A s \in task[w].session : Settled(s)
        /\ task[w].op = "prune" => \A s \in task[w].session \ task[w].todo : Settled(s)

\* A session is settled before its directory goes, and stays settled.
LEMMA SettledStep ==
    ASSUME IInv, TakenAreSettled, [Next]_vars
    PROVE  TakenAreSettled'
<1>1. TypeOK /\ TypeOK'
  BY InvStep DEF IInv
<1>2. \A s \in Session : Settled(s) => Settled(s)'
  BY StateSteps DEF StateStep, Settled
<1>3. SUFFICES ASSUME NEW w \in Worker
               PROVE  /\ task'[w].op = "cleanup" => \A s \in task'[w].session : Settled(s)'
                      /\ task'[w].op = "prune" =>
                            \A s \in task'[w].session \ task'[w].todo : Settled(s)'
  BY DEF TakenAreSettled
<1>4. task[w].session \subseteq Session /\ task'[w].session \subseteq Session
  BY <1>1 DEF TypeOK, Task
<1>5. CASE task'[w] = task[w]
  BY <1>2, <1>4, <1>5 DEF TakenAreSettled
<1>6. ASSUME NEW s \in Session, BeginCreate(w, s)
      PROVE  task'[w].op = "create"
  BY <1>1, <1>6 DEF BeginCreate, Start, Idle, TypeOK
<1>7. ASSUME NEW s \in Session, Abort(w, s)
      PROVE  task'[w].op = "cleanup" /\ task'[w].session = {s} /\ Settled(s)'
  BY <1>1, <1>7 DEF Abort, Start, Idle, TypeOK, Settled
<1>8. ASSUME BeginPrune(w)
      PROVE  task'[w].op = "prune" /\ task'[w].session = task'[w].todo
  BY <1>1, <1>8 DEF BeginPrune, Start, Idle, TypeOK
<1>9. ASSUME PruneOne(w)
      PROVE  /\ task'[w].op = "prune"
             /\ \A s \in task'[w].session \ task'[w].todo : Settled(s)'
  <2>1. PICK r \in task[w].todo :
            /\ task[w].op = "prune" /\ state' = [state EXCEPT ![r] = "aborted"]
            /\ task' = [task EXCEPT ![w] = [task[w] EXCEPT !.todo = task[w].todo \ {r}]]
    BY <1>9 DEF PruneOne, Go
  <2>2. /\ task'[w].op = "prune" /\ task'[w].session = task[w].session
        /\ task'[w].todo = task[w].todo \ {r}
    BY <1>1, <2>1 DEF TypeOK, Task
  <2>3. r \in Session /\ Settled(r)'
    BY <1>1, <2>1 DEF TypeOK, Task, Settled
  <2> QED
    BY <1>2, <1>4, <2>1, <2>2, <2>3 DEF TakenAreSettled
<1>10. ASSUME EndPrune(w)
       PROVE  task'[w].op = "cleanup" /\ \A s \in task'[w].session : Settled(s)'
  <2>1. /\ task[w].op = "prune" /\ task[w].todo = {}
        /\ task'[w].op = "cleanup" /\ task'[w].session = task[w].session
    BY <1>1, <1>10 DEF EndPrune, Go, TypeOK, Task
  <2> QED
    BY <1>2, <1>4, <2>1 DEF TakenAreSettled
<1>11. ASSUME NEW x \in File, CommitFinish(w, x)
       PROVE  task'[w].op = "cleanup" /\ \A s \in task'[w].session : Settled(s)'
  <2>1. PICK s \in task[w].session :
            /\ task[w].op = "commit" /\ state' = [state EXCEPT ![s] = "done"]
            /\ task' = [task EXCEPT ![w] = [task[w] EXCEPT !.op = "cleanup"]]
    BY <1>11 DEF CommitFinish, Go
  <2>2. task[w].session = {s} /\ s \in Session
    BY <2>1 DEF IInv, OneSession
  <2>3. task'[w].op = "cleanup" /\ task'[w].session = {s} /\ Settled(s)'
    BY <1>1, <2>1, <2>2 DEF TypeOK, Task, Settled
  <2> QED
    BY <2>3
<1> QED
  BY <1>1, <1>5, <1>6, <1>7, <1>8, <1>9, <1>10, <1>11, TurnSteps

(* From a create's sums to its INSERT its owner's claims, the rows apart,  *)
(* leave room for the session, and the directories a clean-up or a prune   *)
(* is about to take are of settled sessions, in every reachable state.     *)
THEOREM RoomAndChunks == Spec => [](RoomIsLeft /\ TakenAreSettled)
<1>1. Init => RoomIsLeft /\ TakenAreSettled
  BY DEF Init, Idle, RoomIsLeft, TakenAreSettled
<1>2. IInv /\ RoomIsLeft /\ TakenAreSettled /\ [Next]_vars => (RoomIsLeft /\ TakenAreSettled)'
  BY RoomStep, SettledStep DEF RoomIsLeft
<1> QED
  BY <1>1, <1>2, Invariance, PTL DEF Spec

\* A claim that grows had its room.
LEMMA ClaimFits ==
    ASSUME IInv, RoomIsLeft, [Next]_vars, NEW u \in User,
           Cardinality(Claimed(u, {})') > Cardinality(Claimed(u, {}))
    PROVE  Cardinality(Claimed(u, {})') \leq quota[u]
<1>1. Cardinality(Claimed(u, {})) \in Nat /\ Cardinality(Claimed(u, {})') \in Nat
  BY ClaimSteps
<1>2. PICK w \in Worker, s \in Session :
          /\ InsertSession(w) /\ s \in task[w].session /\ Owner[s] = u
          /\ Cardinality(Claimed(u, {})') \leq Cardinality(Claimed(u, {})) + Size[s]
  BY <1>1, ClaimSteps
<1>3. Room(s)
  BY <1>2 DEF RoomIsLeft, InsertSession
<1>4. Size[s] \in Nat /\ quota[u] \in Nat
  BY SizeType DEF IInv, TypeOK
<1>5. ASSUME NEW a \in Nat, NEW b \in Nat, NEW n \in Nat, NEW q \in Nat,
             a > b, a \leq b + n, n = 0 \/ b + n \leq q
      PROVE  a \leq q
  BY <1>5
<1> QED
  BY <1>1, <1>2, <1>3, <1>4, <1>5 DEF Room

(* Claims of sessions opened at once do not overshoot the quota together:  *)
(* create_upload_session holds the shared connection from its reads to its *)
(* INSERT, and set_user_quota waits for that connection too.               *)
THEOREM ClaimsFit == Spec => ClaimsFitQuota
<1>1. IInv /\ RoomIsLeft /\ [Next]_vars =>
        [\A u \in User :
           Cardinality(Claimed(u, {})') > Cardinality(Claimed(u, {}))
              => Cardinality(Claimed(u, {})') \leq quota[u]]_vars
  BY ClaimFits
<1> QED
  BY <1>1, Invariance, RoomAndChunks, PTL DEF Spec, ClaimsFitQuota

\* Only a cleanup takes chunks away.
LEMMA ChunksStep ==
    ASSUME IInv, TakenAreSettled, [Next]_vars, NEW s \in Session, state'[s] = "active"
    PROVE  staged[s] \subseteq staged'[s]
<1>1. ASSUME NEW w \in Worker, RequestStep(w), ~StageChunk(w), ~Cleanup(w)
      PROVE  staged' = staged
  BY <1>1 DEF RequestStep, InsertSession, RecordReceived, Assemble, VetFinish, RefuseFinish,
              CommitFinish, PruneOne, EndPrune, sessions
<1>2. ASSUME NEW w \in Worker, StageChunk(w) PROVE staged[s] \subseteq staged'[s]
  BY <1>2 DEF StageChunk, IInv, TypeOK
<1>3. ASSUME NEW w \in Worker, Cleanup(w) PROVE staged[s] \subseteq staged'[s]
  <2>1. state' = state /\ s \notin task[w].session
    BY <1>3 DEF Cleanup, TakenAreSettled, Settled
  <2> QED
    BY <1>3, <2>1 DEF Cleanup
<1>4. ASSUME NEW x \in File,
             \/ \E n \in Sizes : InsertFile(x, n) \/ InsertServiceFile(x, n)
             \/ DeleteServiceFile(x) \/ PurgeFile(x)
      PROVE  staged' = staged
  BY <1>4 DEF InsertFile, InsertServiceFile, DeleteServiceFile, PurgeFile, Remove, sessions
<1>5. ASSUME NEW w \in Worker,
             \/ \E r \in Session :
                   \/ BeginCreate(w, r) \/ BeginFinish(w, r) \/ Abort(w, r)
                   \/ \E i \in 1..(Size[r] + 1) : BeginChunk(w, r, i)
             \/ BeginPrune(w) \/ Abandon(w)
      PROVE  staged' = staged
  BY <1>5 DEF BeginCreate, BeginFinish, Abort, BeginChunk, BeginPrune, Abandon, sessions
<1>6. ASSUME \/ \E u \in User, q \in Quotas : SetUserQuota(u, q)
             \/ \E r \in Session : Expire(r)
             \/ Boot \/ UNCHANGED vars
      PROVE  staged' = staged
  BY <1>6 DEF SetUserQuota, Expire, Boot, sessions, vars
<1> QED
  BY <1>1, <1>2, <1>3, <1>4, <1>5, <1>6 DEF Next

(* As long as a session is active its chunks stay: a refused finish can be *)
(* tried again, and no abort or prune takes the directory before the row   *)
(* says so (abort_upload, prune_expired_uploads).                          *)
THEOREM ChunksAreKept == Spec => ActiveKeepsChunks
<1>1. IInv /\ TakenAreSettled /\ [Next]_vars =>
        [\A s \in Session : state'[s] = "active" => staged[s] \subseteq staged'[s]]_vars
  BY ChunksStep
<1> QED
  BY <1>1, Invariance, RoomAndChunks, PTL DEF Spec, ActiveKeepsChunks
=============================================================================
