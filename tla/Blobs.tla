-------------------------------- MODULE Blobs --------------------------------
(***************************************************************************)
(* The two halves of the store: rows in the database, bytes in a file tree *)
(* or a bucket (in-core/src/store/blobs.rs, r2.rs, turso_store.rs), and    *)
(* the sweep that sets one against the other at each boot.                 *)
(*                                                                         *)
(* No transaction spans both halves.  Bytes land before the row that names *)
(* them, and go after it, so a request that stops half way leaves bytes    *)
(* nobody names.  The sweep reclaims them, and must never take bytes that  *)
(* a row names or will name: it holds the database's write lock while it   *)
(* walks, and spares what is newer than every row of its database, which   *)
(* may be a stale copy.                                                    *)
(*                                                                         *)
(* Names, folders and quotas are in the modules Library and Upload; here a *)
(* refused or failed request is one that stops.  Time is a counter that    *)
(* moments may share.                                                      *)
(***************************************************************************)
EXTENDS Integers, Sequences, FiniteSets

CONSTANTS
    File,        \* file ids (ULIDs)
    Pictures,    \* the files a thumbnail can be made of
    Pushed,      \* the files services push by external_id
    Session,     \* upload session ids
    Worker,      \* requests in flight, the boot's sweep among them
    Free,        \* nobody holds the write lock
    Deployments, \* the ways to run a server that are looked at
    Resolution,  \* the bucket's clock: last_modified is in whole seconds
    MaxClock, MaxBoots  \* bounds

ASSUME KindsOfFile  == Pictures \subseteq File /\ Pushed \subseteq File
ASSUME PushedAreBare == Pushed \cap Pictures = {}
ASSUME NobodyType   == Free \notin Worker
ASSUME DeploymentsType ==
    Deployments \subseteq [remote : BOOLEAN, fails : BOOLEAN, restores : BOOLEAN]
ASSUME BoundsType   == Resolution \in Nat \ {0} /\ MaxClock \in Nat /\ MaxBoots \in Nat

VARIABLES
    here,      \* the deployment this server is
    db,        \* the committed database
    backup,    \* a copy of it, as it was at the last boot
    at,        \* when the bytes at a key last changed: Absent, or a moment
    ids,       \* the file ids generated
    accepted,  \* history: files committed and not purged since, in any copy
    writer,    \* who holds the database's write lock
    clock,     \* now
    boots,     \* boots so far
    sweepDue,  \* the sweep of this boot has not begun
    task       \* the local variables of each request

vars == <<here, db, backup, at, ids, accepted, writer, clock, boots, sweepDue, task>>
env  == <<here, backup, clock, boots, sweepDue>>

(* Whether the bytes are in a bucket (R2Blobs), as config/in.toml says;    *)
(* whether requests and deletions may fail half way; and whether the       *)
(* operator may put an older copy of the database back.                    *)
Remote     == here.remote
MayFail    == here.fails
MayRestore == here.restores

Absent == 0

(* A .tmp name of files/<id>, in the same directory, is a key of its own.  *)
Key == ({"files", "temp", "thumbs"} \X File) \cup ({"uploads"} \X Session)

Database == [files  : SUBSET File,       \* rows of table file
             ready  : SUBSET File,       \* thumb_state = 'ready'
             stamp  : [File -> Nat],     \* the later of created_at, updated_at
             active : SUBSET Session,    \* rows of upload_session, by state
             opened : [Session -> Nat]]  \* created_at; 0 when there is no row

Task == [op      : {"idle", "put", "place", "thumb", "insert", "lock", "cleanup",
                    "stage", "unlink_file", "unlink_thumb", "sweep"},
         file    : SUBSET File,
         session : SUBSET Session,
         thumb   : BOOLEAN,              \* thumb_placed
         dirs    : Seq({"files", "thumbs", "uploads"}),  \* sweep: still to list
         known   : SUBSET Key,           \* sweep: what the rows name
         moments : SUBSET Nat,           \* sweep: the rows' stamps
         doomed  : SUBSET Key,           \* sweep: listed and to be deleted
         kept    : SUBSET Key]           \* sweep: what could not be deleted

Idle == [op |-> "idle", file |-> {}, session |-> {}, thumb |-> FALSE, dirs |-> <<>>,
         known |-> {}, moments |-> {}, doomed |-> {}, kept |-> {}]

TypeOK ==
    /\ here \in Deployments
    /\ db \in Database /\ backup \in Database
    /\ at \in [Key -> Nat]
    /\ ids \subseteq File /\ accepted \subseteq ids
    /\ writer \in Worker \cup {Free}
    /\ clock \in Nat /\ boots \in Nat /\ sweepDue \in BOOLEAN
    /\ task \in [Worker -> Task]

EmptyDatabase == [files |-> {}, ready |-> {}, stamp |-> [x \in File |-> 0],
                  active |-> {}, opened |-> [s \in Session |-> 0]]

Init ==
    /\ here \in Deployments
    /\ db = EmptyDatabase /\ backup = EmptyDatabase
    /\ at = [k \in Key |-> Absent]
    /\ ids = {} /\ accepted = {}
    /\ writer = Free
    /\ clock = 1 /\ boots = 0 /\ sweepDue = TRUE
    /\ task = [w \in Worker |-> Idle]

-----------------------------------------------------------------------------

Put(k)     == at' = [at EXCEPT ![k] = clock]
Delete(ks) == at' = [k \in Key |-> IF k \in ks THEN Absent ELSE at[k]]

Start(w, t) == task[w] = Idle /\ task' = [task EXCEPT ![w] = t]
Go(w, t)    == task' = [task EXCEPT ![w] = t]
Finish(w)   == task' = [task EXCEPT ![w] = Idle]

-----------------------------------------------------------------------------
(* A file is written: insert_file, insert_service_file, finish_upload.     *)

(* The transaction opens first; a push may name a file that has a row.     *)
BeginWrite(w, x) ==
    /\ writer = Free
    /\ x \notin ids \/ (x \in Pushed /\ x \in db.files)
    /\ ids' = ids \cup {x}
    /\ writer' = w
    /\ Start(w, [Idle EXCEPT !.op = "put", !.file = {x}])
    /\ UNCHANGED <<db, at, accepted, env>>

(* LocalBlobs::put writes beside the key and renames; R2Blobs::put does    *)
(* neither.                                                                *)
PutTemp(w) ==
    \E x \in task[w].file :
        /\ task[w].op = "put" /\ ~Remote
        /\ Put(<<"temp", x>>)
        /\ Go(w, [task[w] EXCEPT !.op = "place"])
        /\ UNCHANGED <<db, ids, accepted, writer, env>>

PutRemote(w) ==
    \E x \in task[w].file :
        /\ task[w].op = "put" /\ Remote
        /\ Put(<<"files", x>>)
        /\ Go(w, [task[w] EXCEPT !.op = "thumb"])
        /\ UNCHANGED <<db, ids, accepted, writer, env>>

(* The rename keeps the moment of the write.  A bucket gets a copy, and    *)
(* the staged original is then removed, if that works.                     *)
Place(w) ==
    \E x \in task[w].file, left \in BOOLEAN :
        /\ task[w].op = "place" /\ (left => Remote)
        /\ at[<<"temp", x>>] # Absent
        /\ at' = [at EXCEPT
                    ![<<"files", x>>] = IF Remote THEN clock ELSE at[<<"temp", x>>],
                    ![<<"temp", x>>]  = IF left THEN @ ELSE Absent]
        /\ Go(w, [task[w] EXCEPT !.op = "thumb"])
        /\ UNCHANGED <<db, ids, accepted, writer, env>>

(* Mutant: the row believes the thumbnail was written.                     *)
PutThumbBlindly(w) ==
    \E x \in task[w].file, placed \in BOOLEAN :
        /\ task[w].op = "thumb" /\ x \in Pictures
        /\ IF placed THEN Put(<<"thumbs", x>>) ELSE Delete({<<"thumbs", x>>})
        /\ Go(w, [task[w] EXCEPT !.op = "insert", !.thumb = TRUE])
        /\ UNCHANGED <<db, ids, accepted, writer, env>>

(* A thumbnail that cannot be written is a miss, not a failed upload.      *)
PutThumb(w) ==
    \E x \in task[w].file, placed \in BOOLEAN :
        /\ task[w].op = "thumb" /\ (placed => x \in Pictures)
        /\ IF placed THEN Put(<<"thumbs", x>>) ELSE Delete({<<"thumbs", x>>})
        /\ Go(w, [task[w] EXCEPT !.op = "insert", !.thumb = placed])
        /\ UNCHANGED <<db, ids, accepted, writer, env>>

(* The row says the bytes are there; a finish settles its session with it. *)
CommitRow(w) ==
    \E x \in task[w].file :
        /\ task[w].op = "insert"
        /\ db' = [db EXCEPT !.files = @ \cup {x},
                            !.ready = IF task[w].thumb THEN @ \cup {x} ELSE @,
                            !.stamp = [db.stamp EXCEPT ![x] = clock],
                            !.active = @ \ task[w].session]
        /\ accepted' = accepted \cup {x}
        /\ writer' = Free
        /\ Go(w, IF task[w].session = {} THEN Idle ELSE [task[w] EXCEPT !.op = "cleanup"])
        /\ UNCHANGED <<at, ids, env>>

(* The row was never born, so its bytes go; a push that replaced bytes     *)
(* keeps them.                                                             *)
RefuseRow(w) ==
    \E x \in task[w].file :
        /\ task[w].op = "insert"
        /\ Delete(IF x \in db.files THEN {} ELSE {<<"files", x>>, <<"thumbs", x>>})
        /\ writer' = Free
        /\ Finish(w)
        /\ UNCHANGED <<db, ids, accepted, env>>

(* finish_upload assembles the chunks under a temp name, outside the       *)
(* transaction.  (Sessions here hold a byte at least, so a directory.)     *)
BeginFinish(w, s, x) ==
    /\ s \in db.active /\ at[<<"uploads", s>>] # Absent
    /\ x \notin ids /\ x \notin Pushed
    /\ ids' = ids \cup {x}
    /\ Put(<<"temp", x>>)
    /\ Start(w, [Idle EXCEPT !.op = "lock", !.file = {x}, !.session = {s}])
    /\ UNCHANGED <<db, accepted, writer, env>>

LockFinish(w) ==
    /\ task[w].op = "lock" /\ writer = Free
    /\ task[w].session \subseteq db.active
    /\ writer' = w
    /\ Go(w, [task[w] EXCEPT !.op = "place"])
    /\ UNCHANGED <<db, at, ids, accepted, env>>

(* A finish refused under the lock, or a placement that fails, removes the *)
(* temp.                                                                   *)
DropTemp(w) ==
    /\ task[w].op = "place" \/ (task[w].op = "lock" /\ writer = Free)
    /\ Delete({"temp"} \X task[w].file)
    /\ writer' = Free
    /\ Finish(w)
    /\ UNCHANGED <<db, ids, accepted, env>>

-----------------------------------------------------------------------------
(* Rows change or go.                                                      *)

(* rename_file, move_file: updated_at moves.                               *)
Touch(x) ==
    /\ writer = Free /\ x \in db.files
    /\ db' = [db EXCEPT !.stamp[x] = clock]
    /\ UNCHANGED <<at, ids, accepted, writer, env, task>>

(* Mutant: the bytes go first.                                             *)
PurgeBytesFirst(w, x) ==
    /\ writer = Free /\ x \in db.files
    /\ Delete({<<"files", x>>, <<"thumbs", x>>})
    /\ Start(w, [Idle EXCEPT !.op = "unlink_file", !.file = {x}])
    /\ UNCHANGED <<db, ids, accepted, writer, env>>

(* A purge, or delete_service_file, commits.                               *)
Purge(w, x) ==
    /\ writer = Free /\ x \in db.files
    /\ db' = [db EXCEPT !.files = @ \ {x}, !.ready = @ \ {x}, !.stamp[x] = 0]
    /\ accepted' = accepted \ {x}
    /\ Start(w, [Idle EXCEPT !.op = "unlink_file", !.file = {x}])
    /\ UNCHANGED <<at, ids, writer, env>>

UnlinkFile(w) ==
    /\ task[w].op = "unlink_file"
    /\ Delete({"files"} \X task[w].file)
    /\ Go(w, [task[w] EXCEPT !.op = "unlink_thumb"])
    /\ UNCHANGED <<db, ids, accepted, writer, env>>

UnlinkThumb(w) ==
    /\ task[w].op = "unlink_thumb"
    /\ Delete({"thumbs"} \X task[w].file)
    /\ Finish(w)
    /\ UNCHANGED <<db, ids, accepted, writer, env>>

-----------------------------------------------------------------------------
(* Sessions, as far as their directories go.                               *)

OpenSession(s) ==
    /\ writer = Free /\ db.opened[s] = 0
    /\ db' = [db EXCEPT !.active = @ \cup {s}, !.opened[s] = clock]
    /\ UNCHANGED <<at, ids, accepted, writer, env, task>>

BeginChunk(w, s) ==
    /\ s \in db.active
    /\ Start(w, [Idle EXCEPT !.op = "stage", !.session = {s}])
    /\ UNCHANGED <<db, at, ids, accepted, writer, env>>

StageChunk(w) ==
    \E s \in task[w].session :
        /\ task[w].op = "stage"
        /\ Put(<<"uploads", s>>)
        /\ Finish(w)
        /\ UNCHANGED <<db, ids, accepted, writer, env>>

(* abort_upload, or the prune before the sweep.                            *)
Settle(w, s) ==
    /\ writer = Free /\ db.opened[s] # 0
    /\ db' = [db EXCEPT !.active = @ \ {s}]
    /\ Start(w, [Idle EXCEPT !.op = "cleanup", !.session = {s}])
    /\ UNCHANGED <<at, ids, accepted, writer, env>>

Cleanup(w) ==
    /\ task[w].op = "cleanup"
    /\ Delete({"uploads"} \X task[w].session)
    /\ Finish(w)
    /\ UNCHANGED <<db, ids, accepted, writer, env>>

-----------------------------------------------------------------------------
(* sweep_orphan_files.                                                     *)

Known == ({"files"} \X db.files) \cup ({"thumbs"} \X db.ready) \cup ({"uploads"} \X db.active)

(* newest_known is the latest of these, and None when there is none.       *)
Moments == ({db.stamp[x] : x \in db.files} \cup {db.opened[s] : s \in Session}) \ {0}

InBucket(k) == Remote /\ k[1] \in {"files", "thumbs"}

(* Mutant: the names with an extension are passed over.                    *)
ListedIds(dir) == {k \in Key : at[k] # Absent /\ k[1] = dir}

(* The listing: a bucket does not hold the temps, and tells seconds.       *)
Listed(dir) ==
    {k \in Key : /\ at[k] # Absent
                 /\ k[1] = dir \/ (dir = "files" /\ k[1] = "temp" /\ ~Remote)}

Modified(k) == IF InBucket(k) THEN (at[k] \div Resolution) * Resolution ELSE at[k]

(* Mutant: age is not weighed.                                             *)
ReclaimableAtAnyAge(k, moments) == moments # {}

Reclaimable(k, moments) == \E t \in moments : Modified(k) \leq t

(* Mutant: the ids are read, and the lock let go.                          *)
BeginSweepUnlocked(w) ==
    /\ sweepDue /\ writer = Free
    /\ sweepDue' = FALSE
    /\ Start(w, [Idle EXCEPT !.op = "sweep", !.dirs = <<"files", "thumbs", "uploads">>,
                             !.known = Known, !.moments = Moments])
    /\ UNCHANGED <<here, db, backup, at, ids, accepted, writer, clock, boots>>

BeginSweep(w) ==
    /\ sweepDue /\ writer = Free
    /\ sweepDue' = FALSE
    /\ writer' = w
    /\ Start(w, [Idle EXCEPT !.op = "sweep", !.dirs = <<"files", "thumbs", "uploads">>,
                             !.known = Known, !.moments = Moments])
    /\ UNCHANGED <<here, db, backup, at, ids, accepted, clock, boots>>

ListDir(w) ==
    /\ task[w].op = "sweep" /\ task[w].dirs # <<>> /\ task[w].doomed = {}
    /\ Go(w, [task[w] EXCEPT
                !.dirs = Tail(@),
                !.doomed = {k \in Listed(Head(task[w].dirs)) \ task[w].known :
                              Reclaimable(k, task[w].moments)}])
    /\ UNCHANGED <<db, at, ids, accepted, writer, env>>

(* A deletion that fails is said out loud, and the sweep goes on.          *)
Reclaim(w) ==
    \E k \in task[w].doomed, works \in BOOLEAN :
        /\ task[w].op = "sweep" /\ (works \/ MayFail)
        /\ Delete(IF works THEN {k} ELSE {})
        /\ Go(w, [task[w] EXCEPT !.doomed = @ \ {k},
                                 !.kept = IF works THEN @ ELSE @ \cup {k}])
        /\ UNCHANGED <<db, ids, accepted, writer, env>>

EndSweep(w) ==
    /\ task[w].op = "sweep" /\ task[w].dirs = <<>> /\ task[w].doomed = {}
    /\ writer' = Free
    /\ Finish(w)
    /\ UNCHANGED <<db, at, ids, accepted, env>>

-----------------------------------------------------------------------------
(* What happens to the server.                                             *)

(* A request fails, times out on the lock, or is dropped, and cleans up    *)
(* nothing; its transaction rolls back.                                    *)
Abandon(w) ==
    /\ MayFail /\ task[w].op \notin {"idle", "cleanup"}
    /\ writer' = IF writer = w THEN Free ELSE writer
    /\ Finish(w)
    /\ UNCHANGED <<db, at, ids, accepted, env>>

(* The server dies and boots, on its own database or on an older copy: the *)
(* operator keeps one of the new database, and then one of each boot,      *)
(* where one may be put back.                                              *)
Boot ==
    /\ boots < MaxBoots
    /\ boots' = boots + 1
    /\ sweepDue' = TRUE
    /\ writer' = Free
    /\ task' = [w \in Worker |-> Idle]
    /\ db' = db \/ (MayRestore /\ db' = backup)
    /\ backup' = IF MayRestore THEN db' ELSE backup
    /\ UNCHANGED <<here, at, ids, accepted, clock>>

Tick ==
    /\ clock < MaxClock
    /\ clock' = clock + 1
    /\ UNCHANGED <<here, db, backup, at, ids, accepted, writer, boots, sweepDue, task>>

RequestStep(w) ==
    \/ PutTemp(w) \/ PutRemote(w) \/ Place(w) \/ PutThumb(w) \/ CommitRow(w) \/ RefuseRow(w)
    \/ LockFinish(w) \/ DropTemp(w)
    \/ UnlinkFile(w) \/ UnlinkThumb(w)
    \/ StageChunk(w) \/ Cleanup(w)
    \/ ListDir(w) \/ Reclaim(w) \/ EndSweep(w)

Next ==
    \/ \E w \in Worker :
          \/ \E x \in File :
                \/ BeginWrite(w, x) \/ Purge(w, x)
                \/ \E s \in Session : BeginFinish(w, s, x)
          \/ \E s \in Session : BeginChunk(w, s) \/ Settle(w, s)
          \/ BeginSweep(w)
          \/ RequestStep(w) \/ Abandon(w)
    \/ \E x \in File : Touch(x)
    \/ \E s \in Session : OpenSession(s)
    \/ Boot \/ Tick

Spec == Init /\ [][Next]_vars

-----------------------------------------------------------------------------
(* Properties.                                                             *)

(* An upload the server accepted, and whose row its database still has     *)
(* when a copy was put back, keeps its bytes until it is purged, whatever  *)
(* crashes and whatever the sweep finds around it.                         *)
KnownIsKept == \A x \in accepted \cap db.files : at[<<"files", x>>] # Absent

Sweeping(w)  == task[w].op = "sweep"
SweepStep(w) == Sweeping(w) /\ task'[w] # task[w]

(* Chunks of a session that can still be finished are not swept.           *)
ActiveIsSpared ==
    [][\A w \in Worker : SweepStep(w) =>
          \A s \in db.active : at'[<<"uploads", s>>] = at[<<"uploads", s>>]]_vars

(* The sweep takes nothing written after the last moment its rows know; in *)
(* a bucket, which tells seconds, nothing written a second after.  (The    *)
(* directory of a settled session is another matter: a late chunk may fall *)
(* into it between the look at its age and its removal.)                   *)
NewerIsKept ==
    [][\A w \in Worker : SweepStep(w) =>
          \A k \in Key : k[1] # "uploads" /\ at[k] # Absent /\ at'[k] = Absent =>
                \E t \in task[w].moments :
                   at[k] \leq t + (IF InBucket(k) THEN Resolution - 1 ELSE 0)]_vars

(* Seen from outside, rows and bytes change together: what the rows say    *)
(* there is, and what of that can be served, step as in Drive.  Where an   *)
(* older database may be put back, nothing is promised.                    *)
Outside == IF MayRestore THEN {} ELSE Known \ ({"uploads"} \X Session)

Promise == INSTANCE Drive WITH says <- Outside, has <- {k \in Outside : at[k] # Absent}

KeepsPromise == Promise!Spec

(* A sweep that ends has taken every orphan older than a row, or said that *)
(* it could not: a crash orphan goes once a later upload is known.  Of the *)
(* temps, only those of a local tree: a bucket's sweep lists the bucket.   *)
Swept == {k \in Key : k[1] # "temp" \/ ~Remote}

SweepIsThorough ==
    [][\A w \in Worker : EndSweep(w) =>
          \A k \in Swept \ (Known \cup task[w].kept) :
             at[k] = Absent \/ \A t \in Moments : t \leq at[k]]_vars

(* What the docs say of the sweep.                                         *)

(* An accepted upload is never touched, also when the database is a stale  *)
(* copy that never heard of it.                                            *)
AcceptedIsKept == \A x \in accepted : at[<<"files", x>>] # Absent

(* A sweep never takes what a request in flight has written for a file it  *)
(* is about to name.                                                       *)
InFlightIsSpared ==
    [][\A v, w \in Worker, x \in File :
          /\ SweepStep(w)
          /\ task[v].op \in {"lock", "place", "thumb", "insert"} /\ x \in task[v].file
          => \A dir \in {"temp", "files", "thumbs"} :
                at[<<dir, x>>] # Absent => at'[<<dir, x>>] # Absent]_vars
=============================================================================
