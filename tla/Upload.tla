------------------------------- MODULE Upload --------------------------------
(***************************************************************************)
(* Quotas, usage and the chunked uploads that fill them                    *)
(* (in-core/src/store/turso_store.rs, in-web/src/upload.rs).               *)
(*                                                                         *)
(* An upload is a row (upload_session) and a directory of chunks on disk,  *)
(* touched by up to four kinds of request at once: a chunk, a finish, an   *)
(* abort, and the prune of a boot.  Two locks order them.  conn is the     *)
(* mutex around the shared connection, on which a few operations run       *)
(* several statements in a row without a transaction.  writer is the       *)
(* database's write lock: an IMMEDIATE transaction holds it to its end,    *)
(* and every single UPDATE or INSERT waits for it.                         *)
(*                                                                         *)
(* Sizes are counted in chunks: the shorter last chunk is left out, and so *)
(* are refusals that change nothing (a chunk of the wrong length, a name   *)
(* nobody can take).  Where a finished file lands is module Library.       *)
(***************************************************************************)
EXTENDS Integers, FiniteSets

CONSTANTS
    User,       \* account ids
    File,       \* file ids; for a service, its external_ids
    Service,    \* the files services push by external_id
    Session,    \* upload session ids
    Owner,      \* owner_id of each
    Size,       \* size_bytes declared for each session, in chunks
    Quotas,     \* the ceilings an admin may set
    Sizes,      \* the sizes of files written in one request
    Worker,     \* requests in flight
    Free,       \* nobody holds the lock
    Direct,     \* the source of a file no session made
    MaxBoots,   \* bound: how often the server dies and boots again
    MayFail     \* whether requests may fail or be dropped half way

ASSUME ServicesAreFiles == Service \subseteq File
ASSUME OwnersType == Owner \in [File \cup Session -> User]
ASSUME SizeType   == Size \in [Session -> Nat]
ASSUME SizesType  == Quotas \subseteq Nat /\ Sizes \subseteq Nat /\ MaxBoots \in Nat
ASSUME MayFailType == MayFail \in BOOLEAN
ASSUME NobodyType == Free \notin Worker /\ Direct \notin Session

VARIABLES
    quota,     \* user.quota_bytes
    used,      \* user.used_bytes
    rows,      \* the files that have a row
    size,      \* file.size_bytes
    source,    \* the session each file ever inserted came from
    state,     \* upload_session.state
    expired,   \* the sessions past expires_at
    received,  \* upload_session.received_bytes
    staged,    \* the chunk files of uploads/<session>
    conn,      \* who holds the shared connection between two statements
    writer,    \* who holds the write lock between two statements
    boots,     \* boots so far
    sweepDue,  \* boot_sweeps has not begun since the last boot
    task       \* the local variables of each request

vars == <<quota, used, rows, size, source, state, expired, received, staged,
          conn, writer, boots, sweepDue, task>>

files    == <<used, rows, size, source>>
sessions == <<state, expired, received, staged>>
server   == <<boots, sweepDue>>

Chunks(s) == 1..Size[s]

Task == [op      : {"idle", "create", "stage", "record", "assemble", "finish",
                    "commit", "prune", "cleanup"},
         session : SUBSET Session,   \* the session, or all that prune selected
         todo    : SUBSET Session,   \* prune: those still to update
         chunk   : Nat,
         sum     : Nat]

Idle == [op |-> "idle", session |-> {}, todo |-> {}, chunk |-> 0, sum |-> 0]

TypeOK ==
    /\ quota \in [User -> Nat] /\ used \in [User -> Nat]
    /\ rows \subseteq File
    /\ size \in [File -> Nat]
    /\ source \in [File -> SUBSET (Session \cup {Direct})]
    /\ state \in [Session -> {"unborn", "active", "done", "aborted"}]
    /\ expired \subseteq Session
    /\ received \in [Session -> Nat]
    /\ staged \in [Session -> SUBSET Nat] /\ \A s \in Session : staged[s] \subseteq Chunks(s)
    /\ conn \in Worker \cup {Free} /\ writer \in Worker \cup {Free}
    /\ boots \in Nat /\ sweepDue \in BOOLEAN
    /\ task \in [Worker -> Task]

Init ==
    /\ quota \in [User -> Quotas]
    /\ used = [u \in User |-> 0]
    /\ rows = {}
    /\ size = [x \in File |-> 0]
    /\ source = [x \in File |-> {}]
    /\ state = [s \in Session |-> "unborn"]
    /\ expired = {}
    /\ received = [s \in Session |-> 0]
    /\ staged = [s \in Session |-> {}]
    /\ conn = Free /\ writer = Free
    /\ boots = 0 /\ sweepDue = TRUE
    /\ task = [w \in Worker |-> Idle]

-----------------------------------------------------------------------------
(* What the queries ask.                                                   *)

(* The bytes a user's rows hold, trashed rows included, and the bytes the  *)
(* user's active sessions have declared: used_bytes and staged_claim are   *)
(* how many there are.                                                     *)
Stored(u) ==
    UNION {{x} \X (1..size[x]) : x \in {y \in rows : Owner[y] = u}}

Claimed(u, except) ==
    UNION {{s} \X (1..Size[s]) :
        s \in {r \in Session \ except : Owner[r] = u /\ state[r] = "active"}}

(* fit_quota: a write of nothing always fits.                              *)
Fits(u, taken, n) == n = 0 \/ taken + n \leq quota[u]

Taken(u, except) == used[u] + Cardinality(Claimed(u, except))

RefreshUsage(u) == used' = [used EXCEPT ![u] = Cardinality(Stored(u)')]

Open(s) == state[s] = "active" /\ s \notin expired

-----------------------------------------------------------------------------
(* Writes in one transaction.                                              *)

(* A row is written with its bytes already placed, and usage is recomputed *)
(* in the same transaction.                                                *)
Write(x, n, from) ==
    /\ rows' = rows \cup {x}
    /\ size' = [size EXCEPT ![x] = n]
    /\ source' = [source EXCEPT ![x] = @ \cup {from}]
    /\ RefreshUsage(Owner[x])

(* Mutant: the row goes, the usage stays.                                  *)
RemoveUncounted(x) ==
    /\ x \in rows /\ writer = Free
    /\ rows' = rows \ {x}
    /\ size' = [size EXCEPT ![x] = 0]
    /\ UNCHANGED <<quota, used, source, sessions, conn, writer, server, task>>

Remove(x) ==
    /\ x \in rows
    /\ writer = Free
    /\ rows' = rows \ {x}
    /\ size' = [size EXCEPT ![x] = 0]
    /\ RefreshUsage(Owner[x])
    /\ UNCHANGED <<quota, source, sessions, conn, writer, server, task>>

InsertFile(x, n) ==
    /\ writer = Free
    /\ x \notin Service /\ source[x] = {}
    /\ Fits(Owner[x], Taken(Owner[x], {}), n)
    /\ Write(x, n, Direct)
    /\ UNCHANGED <<quota, sessions, conn, writer, server, task>>

(* A push replaces the bytes of a known handle, and is charged for what it *)
(* adds over them (saturating_sub).                                        *)
ChargedWithout(x) ==
    LET taken == Taken(Owner[x], {})
    IN IF size[x] \leq taken THEN taken - size[x] ELSE 0

InsertServiceFile(x, n) ==
    /\ writer = Free
    /\ x \in Service
    /\ Fits(Owner[x], ChargedWithout(x), n)
    /\ Write(x, n, Direct)
    /\ UNCHANGED <<quota, sessions, conn, writer, server, task>>

DeleteServiceFile(x) == x \in Service /\ Remove(x)

(* The purges, as far as usage goes.                                       *)
PurgeFile(x) == Remove(x)

SetUserQuota(u, q) ==
    /\ conn = Free /\ writer = Free
    /\ quota' = [quota EXCEPT ![u] = q]
    /\ UNCHANGED <<files, sessions, conn, writer, server, task>>

-----------------------------------------------------------------------------
(* Requests of several steps.                                              *)

Start(w, t) == task[w] = Idle /\ task' = [task EXCEPT ![w] = t]
Go(w, t)    == task' = [task EXCEPT ![w] = t]
Finish(w)   == task' = [task EXCEPT ![w] = Idle]

(* Mutant: the shared connection is not held to the INSERT.                *)
BeginCreateUnlocked(w, s) ==
    /\ state[s] = "unborn"
    /\ Fits(Owner[s], Taken(Owner[s], {}), Size[s])
    /\ Start(w, [Idle EXCEPT !.op = "create", !.session = {s}])
    /\ UNCHANGED <<quota, files, sessions, conn, writer, server>>

(* create_upload_session holds the shared connection from the quota reads  *)
(* to the INSERT, but no transaction.                                      *)
BeginCreate(w, s) ==
    /\ conn = Free
    /\ state[s] = "unborn"
    /\ Fits(Owner[s], Taken(Owner[s], {}), Size[s])
    /\ conn' = w
    /\ Start(w, [Idle EXCEPT !.op = "create", !.session = {s}])
    /\ UNCHANGED <<quota, files, sessions, writer, server>>

InsertSession(w) ==
    \E s \in task[w].session :
        /\ task[w].op = "create"
        /\ writer = Free
        /\ state' = [state EXCEPT ![s] = "active"]
        /\ conn' = Free
        /\ Finish(w)
        /\ UNCHANGED <<quota, files, expired, received, staged, writer, server>>

(* record_chunk vets the session, writes the chunk file and sums what is   *)
(* on disk, and then updates the row, whatever has become of it.           *)
BeginChunk(w, s, i) ==
    /\ conn = Free
    /\ Open(s)
    /\ i \in Chunks(s)
    /\ Start(w, [Idle EXCEPT !.op = "stage", !.session = {s}, !.chunk = i])
    /\ UNCHANGED <<quota, files, sessions, conn, writer, server>>

StageChunk(w) ==
    \E s \in task[w].session :
        /\ task[w].op = "stage"
        /\ staged' = [staged EXCEPT ![s] = @ \cup {task[w].chunk}]
        /\ Go(w, [task[w] EXCEPT !.op = "record", !.sum = Cardinality(staged'[s])])
        /\ UNCHANGED <<quota, files, state, expired, received, conn, writer, server>>

RecordReceived(w) ==
    \E s \in task[w].session :
        /\ task[w].op = "record"
        /\ conn = Free /\ writer = Free
        /\ received' = [received EXCEPT ![s] = task[w].sum]
        /\ Finish(w)
        /\ UNCHANGED <<quota, files, state, expired, staged, conn, writer, server>>

(* finish_upload vets the session and the chunk files, reads the chunks    *)
(* into a temporary file, and vets the session again under the write lock. *)
BeginFinish(w, s) ==
    /\ conn = Free
    /\ Open(s)
    /\ staged[s] = Chunks(s)
    /\ Start(w, [Idle EXCEPT !.op = "assemble", !.session = {s}])
    /\ UNCHANGED <<quota, files, sessions, conn, writer, server>>

Assemble(w) ==
    /\ task[w].op = "assemble"
    /\ \A s \in task[w].session : Chunks(s) \subseteq staged[s]
    /\ Go(w, [task[w] EXCEPT !.op = "finish"])
    /\ UNCHANGED <<quota, files, sessions, conn, writer, server>>

(* Mutants: no second look at the quota; none at the session; none of them *)
(* under the write lock.                                                   *)
VetFinishWith(w, open, room, lock) ==
    \E s \in task[w].session :
        /\ task[w].op = "finish" /\ writer = Free
        /\ open => Open(s)
        /\ room => Fits(Owner[s], Taken(Owner[s], {s}), Size[s])
        /\ writer' = IF lock THEN w ELSE Free
        /\ Go(w, [task[w] EXCEPT !.op = "commit"])
        /\ UNCHANGED <<quota, files, sessions, conn, server>>

FinishOverQuota(w) == VetFinishWith(w, TRUE, FALSE, TRUE)
FinishAgain(w)     == VetFinishWith(w, FALSE, TRUE, TRUE)
FinishUnlocked(w)  == VetFinishWith(w, TRUE, TRUE, FALSE)

VetFinish(w) ==
    \E s \in task[w].session :
        /\ task[w].op = "finish"
        /\ writer = Free
        /\ Open(s)                                   \* finishable_session
        /\ Fits(Owner[s], Taken(Owner[s], {s}), Size[s])
        /\ writer' = w
        /\ Go(w, [task[w] EXCEPT !.op = "commit"])
        /\ UNCHANGED <<quota, files, sessions, conn, server>>

(* Mutant: the transaction goes through the shared connection to commit.   *)
CommitFinishShared(w, x) ==
    \E s \in task[w].session :
        /\ task[w].op = "commit" /\ conn = Free
        /\ x \notin Service /\ source[x] = {} /\ Owner[x] = Owner[s]
        /\ Write(x, Size[s], s)
        /\ state' = [state EXCEPT ![s] = "done"]
        /\ received' = [received EXCEPT ![s] = Size[s]]
        /\ writer' = Free
        /\ Go(w, [task[w] EXCEPT !.op = "cleanup"])
        /\ UNCHANGED <<quota, expired, staged, conn, server>>

CommitFinish(w, x) ==
    \E s \in task[w].session :
        /\ task[w].op = "commit"
        /\ x \notin Service /\ source[x] = {} /\ Owner[x] = Owner[s]
        /\ Write(x, Size[s], s)
        /\ state' = [state EXCEPT ![s] = "done"]
        /\ received' = [received EXCEPT ![s] = Size[s]]
        /\ writer' = Free
        /\ Go(w, [task[w] EXCEPT !.op = "cleanup"])
        /\ UNCHANGED <<quota, expired, staged, conn, server>>

(* Mutant: a refused finish takes its chunks with it.                      *)
RefuseFinishTidily(w) ==
    \E s \in task[w].session :
        /\ task[w].op = "finish" /\ writer = Free
        /\ ~(Open(s) /\ Fits(Owner[s], Taken(Owner[s], {s}), Size[s]))
        /\ staged' = [staged EXCEPT ![s] = {}]
        /\ Finish(w)
        /\ UNCHANGED <<quota, files, state, expired, received, conn, writer, server>>

(* A chunk is gone when it is read, or the second look says no: the        *)
(* session may have been settled, or its owner's quota filled.             *)
RefuseFinish(w) ==
    \E s \in task[w].session :
        /\ \/ task[w].op = "assemble" /\ ~(Chunks(s) \subseteq staged[s])
           \/ /\ task[w].op = "finish" /\ writer = Free
              /\ ~(Open(s) /\ Fits(Owner[s], Taken(Owner[s], {s}), Size[s]))
        /\ Finish(w)
        /\ UNCHANGED <<quota, files, sessions, conn, writer, server>>

Abort(w, s) ==
    /\ conn = Free /\ writer = Free
    /\ state[s] # "unborn"
    /\ state' = [state EXCEPT ![s] = IF @ = "active" THEN "aborted" ELSE @]
    /\ Start(w, [Idle EXCEPT !.op = "cleanup", !.session = {s}])
    /\ UNCHANGED <<quota, files, expired, received, staged, conn, writer, server>>

(* Mutant: only sessions nothing was staged for.                           *)
BeginPruneOfEmpty(w) ==
    LET selected == {s \in expired : state[s] = "active" /\ staged[s] = {}} IN
    /\ sweepDue /\ conn = Free
    /\ conn' = w
    /\ sweepDue' = FALSE
    /\ Start(w, [Idle EXCEPT !.op = "prune", !.session = selected, !.todo = selected])
    /\ UNCHANGED <<quota, files, sessions, writer, boots>>

(* prune_expired_uploads, the first half of boot_sweeps: one SELECT, then  *)
(* one UPDATE for each id it gave, then the directories.                   *)
BeginPrune(w) ==
    LET selected == {s \in expired : state[s] = "active"} IN
    /\ sweepDue /\ conn = Free
    /\ conn' = w
    /\ sweepDue' = FALSE
    /\ Start(w, [Idle EXCEPT !.op = "prune", !.session = selected, !.todo = selected])
    /\ UNCHANGED <<quota, files, sessions, writer, boots>>

PruneOne(w) ==
    \E s \in task[w].todo :
        /\ task[w].op = "prune"
        /\ writer = Free
        /\ state' = [state EXCEPT ![s] = "aborted"]
        /\ Go(w, [task[w] EXCEPT !.todo = @ \ {s}])
        /\ UNCHANGED <<quota, files, expired, received, staged, conn, writer, server>>

EndPrune(w) ==
    /\ task[w].op = "prune" /\ task[w].todo = {}
    /\ conn' = Free
    /\ Go(w, [task[w] EXCEPT !.op = "cleanup"])
    /\ UNCHANGED <<quota, files, sessions, writer, server>>

(* The directory goes right after the row was settled, with no point in    *)
(* between where the request could be dropped.                             *)
Cleanup(w) ==
    /\ task[w].op = "cleanup"
    /\ staged' = [s \in Session |-> IF s \in task[w].session THEN {} ELSE staged[s]]
    /\ Finish(w)
    /\ UNCHANGED <<quota, files, state, expired, received, conn, writer, server>>

(* A request fails or is refused, or its client leaves: an open            *)
(* transaction rolls back, and what it staged stays.                       *)
Abandon(w) ==
    /\ MayFail /\ task[w].op \notin {"idle", "cleanup"}
    /\ Finish(w)
    /\ conn' = IF conn = w THEN Free ELSE conn
    /\ writer' = IF writer = w THEN Free ELSE writer
    /\ UNCHANGED <<quota, files, sessions, server>>

(* Twenty-four hours pass since the session was opened.                    *)
Expire(s) ==
    /\ state[s] # "unborn"
    /\ expired' = expired \cup {s}
    /\ UNCHANGED <<quota, files, state, received, staged, conn, writer, server, task>>

(* The process dies and boots again: every request is gone.                *)
Boot ==
    /\ boots < MaxBoots
    /\ boots' = boots + 1
    /\ sweepDue' = TRUE
    /\ conn' = Free /\ writer' = Free
    /\ task' = [w \in Worker |-> Idle]
    /\ UNCHANGED <<quota, files, sessions>>

RequestStep(w) ==
    \/ InsertSession(w)
    \/ StageChunk(w) \/ RecordReceived(w)
    \/ Assemble(w) \/ VetFinish(w) \/ RefuseFinish(w)
    \/ \E x \in File : CommitFinish(w, x)
    \/ PruneOne(w) \/ EndPrune(w) \/ Cleanup(w)

Next ==
    \/ \E x \in File :
          \/ \E n \in Sizes : InsertFile(x, n) \/ InsertServiceFile(x, n)
          \/ DeleteServiceFile(x) \/ PurgeFile(x)
    \/ \E u \in User, q \in Quotas : SetUserQuota(u, q)
    \/ \E w \in Worker :
          \/ \E s \in Session :
                \/ BeginCreate(w, s) \/ BeginFinish(w, s) \/ Abort(w, s)
                \/ \E i \in 1..(Size[s] + 1) : BeginChunk(w, s, i)
          \/ BeginPrune(w)
          \/ RequestStep(w) \/ Abandon(w)
    \/ \E s \in Session : Expire(s)
    \/ Boot

Spec == Init /\ [][Next]_vars

(* A request that can take its next step again and again takes it: the     *)
(* mutex is handed on in the order it was asked for, a writer waits for    *)
(* the write lock, and the boot spawns its sweep.  Nothing makes the       *)
(* server boot, or a client call.                                          *)
Fairness ==
    /\ \A w \in Worker : SF_vars(RequestStep(w))
    /\ SF_vars(\E w \in Worker : BeginPrune(w))

FairSpec == Spec /\ Fairness

-----------------------------------------------------------------------------
(* Properties.                                                             *)

(* used_bytes is never carried anywhere except from the rows.              *)
UsedIsStored == \A u \in User : used[u] = Cardinality(Stored(u))

(* A write that takes room fits the quota in force when it commits: every  *)
(* check is made inside the transaction that writes, so no two writers     *)
(* share the same room, and a lowered quota refuses at once.               *)
GrowthFitsQuota ==
    [][\A u \in User : used'[u] > used[u] => used'[u] \leq quota[u]]_vars

(* Sessions opened at once cannot overshoot the ceiling between them: what *)
(* they claim together fits it.  Of claims only: the rows may grow between *)
(* the sum a session was let in by and its INSERT, and claims and rows     *)
(* together may then exceed the ceiling, until a finish is refused.        *)
ClaimsFitQuota ==
    [][\A u \in User :
          Cardinality(Claimed(u, {})') > Cardinality(Claimed(u, {}))
             => Cardinality(Claimed(u, {})') \leq quota[u]]_vars

(* However often a session is finished, it becomes at most one file.       *)
OneFilePerSession ==
    \A x, y \in File : x # y => (source[x] \cap source[y]) \subseteq {Direct}

(* An upload that was given up on stays given up on: no finish already     *)
(* under way turns it into a file.                                         *)
AbortIsFinal ==
    [][\A s \in Session : state[s] = "aborted" => state'[s] = "aborted"]_vars

(* A refused finish can be tried again: as long as a session is active its *)
(* chunks stay staged.                                                     *)
ActiveKeepsChunks ==
    [][\A s \in Session : state'[s] = "active" => staged[s] \subseteq staged'[s]]_vars

(* The two locks never leave requests waiting on each other.               *)
RequestsEnd == \A w \in Worker : task[w] # Idle ~> task[w] = Idle

(* A boot releases what had expired by then: the claim on the quota and,   *)
(* right after, the chunks.                                                *)
BootReleasesExpired ==
    \A s \in Session :
        (sweepDue /\ state[s] = "active" /\ s \in expired) ~> state[s] # "active"

(* The inductive invariant behind the safety properties.  A request that   *)
(* holds a lock is the only one that can change what it has vetted; a      *)
(* session that became a file is settled.                                  *)
LocksAreHeld ==
    \A w \in Worker :
        /\ task[w].op = "create" => conn = w /\ \A s \in task[w].session : state[s] = "unborn"
        /\ task[w].op = "prune" => conn = w
        /\ task[w].op = "commit" => writer = w

OneSession ==
    \A w \in Worker :
        /\ task[w].op \notin {"idle", "prune", "cleanup"} =>
              \E s \in Session : task[w].session = {s}
        /\ task[w].op = "stage" => \A s \in task[w].session : task[w].chunk \in Chunks(s)

VettedFits ==
    \A w \in Worker : task[w].op = "commit" =>
        \A s \in task[w].session :
            state[s] = "active" /\ Fits(Owner[s], used[Owner[s]], Size[s])

BytesAreFinite ==
    \A u \in User : IsFiniteSet(Stored(u)) /\ IsFiniteSet(Claimed(u, {}))

RowsAreNoted ==
    \A x \in File :
        /\ x \in rows \ Service => source[x] # {}
        /\ x \notin rows => size[x] = 0

SourcesAreSettled ==
    \A x \in File, s \in Session : s \in source[x] => state[s] \in {"done", "aborted"}

IInv ==
    /\ TypeOK
    /\ BytesAreFinite
    /\ UsedIsStored
    /\ LocksAreHeld
    /\ OneSession
    /\ VettedFits
    /\ RowsAreNoted
    /\ SourcesAreSettled
    /\ OneFilePerSession

Busy(s) == \E w \in Worker : s \in task[w].session

(* What the docs say of a session at rest.                                 *)

(* "done" once the finish assembled it.                                    *)
FinishedSaysDone ==
    \A s \in Session, x \in File : s \in source[x] => state[s] = "done"

(* An aborted session's chunks are deleted.                                *)
AbortedStagesNothing ==
    \A s \in Session : state[s] = "aborted" /\ ~Busy(s) => staged[s] = {}

(* An expired session does not hold its disk and its claim for ever.       *)
ExpiredIsReleased ==
    \A s \in Session :
        state[s] = "active" /\ s \in expired ~> state[s] # "active"
=============================================================================
