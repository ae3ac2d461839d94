----------------------------- MODULE BlobsProofs -----------------------------
(***************************************************************************)
(* Rows and bytes, for any files, sessions, requests and deployments, any  *)
(* clock and any number of boots.                                          *)
(***************************************************************************)
EXTENDS Blobs, SequenceTheorems, TLAPS

-----------------------------------------------------------------------------
(* The inductive invariant.                                                *)

Writing   == {"put", "place", "thumb", "insert"}
Unlinking == {"unlink_file", "unlink_thumb"}
Busy      == Writing \cup Unlinking \cup {"lock"}

(* Whoever writes a file, and the sweep, holds the database's write lock.  *)
Holders == \A w \in Worker : task[w].op \in Writing \cup {"sweep"} <=> writer = w

(* No two requests work on the same file.                                  *)
FilesApart ==
    \A v, w \in Worker : v # w /\ task[v].op \in Busy /\ task[w].op \in Busy =>
        task[v].file \cap task[w].file = {}

(* What the file of a request is: new, pushed again, or purged.            *)
FileOf(t) ==
    /\ t.file \subseteq ids /\ \A x, y \in t.file : x = y
    /\ t.op = "lock" => t.file \cap (db.files \cup backup.files) = {}
    /\ t.op \in Writing => t.file \cap (db.files \cup backup.files) \subseteq Pushed
    /\ t.op \in Unlinking => t.file \cap (db.files \cup accepted) = {}

(* What it has put before the row is written.                              *)
BytesOf(t) ==
    /\ t.op \in {"thumb", "insert"} => \A x \in t.file : at[<<"files", x>>] # Absent
    /\ t.op = "insert" /\ t.thumb =>
          \A x \in t.file : x \notin Pushed /\ at[<<"thumbs", x>>] # Absent

(* The rows of the database and of the copy that may be put back.          *)
RowsHold ==
    /\ db.files \cup backup.files \subseteq ids
    /\ db.ready \subseteq db.files \ Pushed /\ backup.ready \subseteq backup.files \ Pushed
    /\ accepted \cap backup.files \subseteq db.files
    /\ accepted \cap backup.ready \subseteq db.ready
    /\ ~MayRestore => db.files \subseteq accepted

(* No row is of a moment to come, and no bytes are of an unborn file.      *)
MomentsPassed ==
    /\ clock > 0
    /\ \A x \in File : db.stamp[x] <= clock /\ backup.stamp[x] <= clock
    /\ \A s \in Session : db.opened[s] <= clock /\ backup.opened[s] <= clock

BytesAreBorn == \A k \in Key : k[1] # "uploads" /\ at[k] # Absent => k[2] \in ids

ThumbsAreKept == \A x \in accepted \cap db.ready : at[<<"thumbs", x>>] # Absent

(* The sweep knows the rows as they are, and dooms what they do not name   *)
(* and what is no newer than one of them.                                  *)
DoomedOf(t) ==
    t.op = "sweep" =>
       /\ t.known = Known /\ t.moments = Moments
       /\ t.doomed \cap Known = {}
       /\ \A k \in t.doomed : k[1] # "uploads" =>
             k[2] \in ids /\ (at[k] = Absent \/ Reclaimable(k, t.moments))

(* The places still to list, from first to last.                          *)
AllDirs == {<<"files", "thumbs", "uploads">>, <<"thumbs", "uploads">>, <<"uploads">>, <<>>}

Unlisted(t) == {t.dirs[i] : i \in DOMAIN t.dirs}
DirOf(k)    == IF k[1] = "temp" THEN "files" ELSE k[1]

(* What it has passed by is not older than the rows.                       *)
PassedOf(t) ==
    t.op = "sweep" =>
       /\ t.dirs \in AllDirs
       /\ \A k \in Swept \ (t.known \cup t.doomed \cup t.kept) :
             DirOf(k) \notin Unlisted(t) =>
                at[k] = Absent \/ \A m \in t.moments : m <= at[k]

IInv ==
    /\ TypeOK /\ Holders /\ FilesApart /\ RowsHold /\ MomentsPassed /\ BytesAreBorn
    /\ KnownIsKept /\ ThumbsAreKept
    /\ \A w \in Worker : /\ FileOf(task[w]) /\ BytesOf(task[w])
                         /\ DoomedOf(task[w]) /\ PassedOf(task[w])

-----------------------------------------------------------------------------
(* What each step does to the local variables of its request.              *)

Stays(w) == \A v \in Worker : v # w => task'[v] = task[v]

Turn(w, op, file, session, thumb) ==
    /\ task' \in [Worker -> Task] /\ Stays(w)
    /\ task'[w].op = op /\ task'[w].file = file
    /\ task'[w].session = session /\ task'[w].thumb = thumb

(* Idle requests hold nothing.                                             *)
LEMMA IdleIs ==
    /\ Idle \in Task
    /\ Idle.op = "idle" /\ Idle.file = {} /\ Idle.session = {} /\ Idle.thumb = FALSE
  BY EmptySeq DEF Idle, Task

(* One request's variables are set, the others' stay.                      *)
LEMMA GoIs ==
    ASSUME TypeOK, NEW w \in Worker, NEW t \in Task, Go(w, t)
    PROVE  task' \in [Worker -> Task] /\ Stays(w) /\ task'[w] = t
  BY DEF TypeOK, Go, Stays

(* A request that begins.                                                  *)
LEMMA StartIs ==
    ASSUME TypeOK, NEW w \in Worker, NEW t \in Task, Start(w, t)
    PROVE  task[w].op = "idle" /\ Turn(w, t.op, t.file, t.session, t.thumb)
<1>1. task[w] = Idle /\ Go(w, t)
  BY DEF Start, Go
<1> QED
  BY <1>1, GoIs, IdleIs DEF Turn

(* A request that goes on to its next step.                                *)
LEMMA OpIs ==
    ASSUME TypeOK, NEW w \in Worker,
           NEW op \in {"put", "place", "thumb", "insert", "unlink_thumb", "cleanup"},
           Go(w, [task[w] EXCEPT !.op = op])
    PROVE  Turn(w, op, task[w].file, task[w].session, task[w].thumb)
<1> DEFINE t == [task[w] EXCEPT !.op = op]
<1>1. task[w] \in Task
  BY DEF TypeOK
<1>2. /\ t \in Task /\ t.op = op /\ t.file = task[w].file /\ t.session = task[w].session
      /\ t.thumb = task[w].thumb
  BY <1>1 DEF Task
<1> HIDE DEF t
<1>3. Go(w, t)
  BY DEF t
<1> QED
  BY <1>2, <1>3, GoIs DEF Turn

(* A request that ends.                                                    *)
LEMMA FinishIs ==
    ASSUME TypeOK, NEW w \in Worker, Finish(w)
    PROVE  Turn(w, "idle", {}, {}, FALSE)
<1>1. Go(w, Idle)
  BY DEF Finish, Go
<1> QED
  BY <1>1, GoIs, IdleIs DEF Turn

(* The steps that begin a request.                                         *)
LEMMA BeginSteps ==
    ASSUME TypeOK, NEW w \in Worker
    PROVE  /\ \A x \in File : BeginWrite(w, x) =>
                 task[w].op = "idle" /\ Turn(w, "put", {x}, {}, FALSE)
           /\ \A x \in File : Purge(w, x) =>
                 task[w].op = "idle" /\ Turn(w, "unlink_file", {x}, {}, FALSE)
           /\ \A s \in Session, x \in File : BeginFinish(w, s, x) =>
                 task[w].op = "idle" /\ Turn(w, "lock", {x}, {s}, FALSE)
           /\ \A s \in Session : BeginChunk(w, s) =>
                 task[w].op = "idle" /\ Turn(w, "stage", {}, {s}, FALSE)
           /\ \A s \in Session : Settle(w, s) =>
                 task[w].op = "idle" /\ Turn(w, "cleanup", {}, {s}, FALSE)
<1>2. ASSUME NEW x \in File, BeginWrite(w, x)
      PROVE  task[w].op = "idle" /\ Turn(w, "put", {x}, {}, FALSE)
  <2> DEFINE t == [Idle EXCEPT !.op = "put", !.file = {x}]
  <2>1. t \in Task /\ t.op = "put" /\ t.file = {x} /\ t.session = {} /\ t.thumb = FALSE
    BY IdleIs DEF Task
  <2>2. Start(w, t)
    BY <1>2 DEF BeginWrite
  <2> HIDE DEF t
  <2> QED
    BY <2>1, <2>2, StartIs
<1>3. ASSUME NEW x \in File, Purge(w, x)
      PROVE  task[w].op = "idle" /\ Turn(w, "unlink_file", {x}, {}, FALSE)
  <2> DEFINE t == [Idle EXCEPT !.op = "unlink_file", !.file = {x}]
  <2>1. t \in Task /\ t.op = "unlink_file" /\ t.file = {x} /\ t.session = {} /\ t.thumb = FALSE
    BY IdleIs DEF Task
  <2>2. Start(w, t)
    BY <1>3 DEF Purge
  <2> HIDE DEF t
  <2> QED
    BY <2>1, <2>2, StartIs
<1>4. ASSUME NEW s \in Session, NEW x \in File, BeginFinish(w, s, x)
      PROVE  task[w].op = "idle" /\ Turn(w, "lock", {x}, {s}, FALSE)
  <2> DEFINE t == [Idle EXCEPT !.op = "lock", !.file = {x}, !.session = {s}]
  <2>1. t \in Task /\ t.op = "lock" /\ t.file = {x} /\ t.session = {s} /\ t.thumb = FALSE
    BY IdleIs DEF Task
  <2>2. Start(w, t)
    BY <1>4 DEF BeginFinish
  <2> HIDE DEF t
  <2> QED
    BY <2>1, <2>2, StartIs
<1>5. ASSUME NEW s \in Session, BeginChunk(w, s)
      PROVE  task[w].op = "idle" /\ Turn(w, "stage", {}, {s}, FALSE)
  <2> DEFINE t == [Idle EXCEPT !.op = "stage", !.session = {s}]
  <2>1. t \in Task /\ t.op = "stage" /\ t.file = {} /\ t.session = {s} /\ t.thumb = FALSE
    BY IdleIs DEF Task
  <2>2. Start(w, t)
    BY <1>5 DEF BeginChunk
  <2> HIDE DEF t
  <2> QED
    BY <2>1, <2>2, StartIs
<1>6. ASSUME NEW s \in Session, Settle(w, s)
      PROVE  task[w].op = "idle" /\ Turn(w, "cleanup", {}, {s}, FALSE)
  <2> DEFINE t == [Idle EXCEPT !.op = "cleanup", !.session = {s}]
  <2>1. t \in Task /\ t.op = "cleanup" /\ t.file = {} /\ t.session = {s} /\ t.thumb = FALSE
    BY IdleIs DEF Task
  <2>2. Start(w, t)
    BY <1>6 DEF Settle
  <2> HIDE DEF t
  <2> QED
    BY <2>1, <2>2, StartIs
<1> QED
  BY <1>2, <1>3, <1>4, <1>5, <1>6

(* The steps of a request that writes or removes a file.                   *)
LEMMA FileSteps ==
    ASSUME TypeOK, NEW w \in Worker
    PROVE  LET t == task[w] IN
           /\ PutTemp(w) => t.op = "put" /\ Turn(w, "place", t.file, t.session, t.thumb)
           /\ PutRemote(w) => t.op = "put" /\ Turn(w, "thumb", t.file, t.session, t.thumb)
           /\ Place(w) => t.op = "place" /\ Turn(w, "thumb", t.file, t.session, t.thumb)
           /\ PutThumb(w) => t.op = "thumb" /\ \E placed \in BOOLEAN :
                                Turn(w, "insert", t.file, t.session, placed)
           /\ RefuseRow(w) => t.op = "insert" /\ Turn(w, "idle", {}, {}, FALSE)
           /\ LockFinish(w) => t.op = "lock" /\ Turn(w, "place", t.file, t.session, t.thumb)
           /\ DropTemp(w) => t.op \in {"place", "lock"} /\ Turn(w, "idle", {}, {}, FALSE)
           /\ UnlinkFile(w) => t.op = "unlink_file" /\
                                 Turn(w, "unlink_thumb", t.file, t.session, t.thumb)
           /\ UnlinkThumb(w) => t.op = "unlink_thumb" /\ Turn(w, "idle", {}, {}, FALSE)
           /\ StageChunk(w) => t.op = "stage" /\ Turn(w, "idle", {}, {}, FALSE)
           /\ Cleanup(w) => t.op = "cleanup" /\ Turn(w, "idle", {}, {}, FALSE)
           /\ EndSweep(w) => t.op = "sweep" /\ Turn(w, "idle", {}, {}, FALSE)
           /\ Abandon(w) => t.op # "idle" /\ Turn(w, "idle", {}, {}, FALSE)
           /\ CommitRow(w) => t.op = "insert" /\ \E op \in {"idle", "cleanup"}, file \in {{}, t.file} : \E session, thumb :
                                Turn(w, op, file, session, thumb)
<1> DEFINE t == task[w]
<1>1. PutTemp(w) => t.op = "put" /\ Turn(w, "place", t.file, t.session, t.thumb)
  BY OpIs DEF PutTemp
<1>2. PutRemote(w) => t.op = "put" /\ Turn(w, "thumb", t.file, t.session, t.thumb)
  BY OpIs DEF PutRemote
<1>3. Place(w) => t.op = "place" /\ Turn(w, "thumb", t.file, t.session, t.thumb)
  BY OpIs DEF Place
<1>4. ASSUME PutThumb(w)
      PROVE t.op = "thumb" /\ \E placed \in BOOLEAN : Turn(w, "insert", t.file, t.session, placed)
  <2>1. PICK placed \in BOOLEAN : t.op = "thumb" /\ Go(w, [task[w] EXCEPT !.op = "insert", !.thumb = placed])
    BY <1>4 DEF PutThumb
  <2> DEFINE n == [task[w] EXCEPT !.op = "insert", !.thumb = placed]
  <2>2. task[w] \in Task
    BY DEF TypeOK
  <2>3. /\ n \in Task /\ n.op = "insert" /\ n.file = t.file /\ n.session = t.session
        /\ n.thumb = placed
    BY <2>2 DEF Task
  <2> HIDE DEF n
  <2>4. Go(w, n)
    BY <2>1 DEF n
  <2> QED
    BY <2>1, <2>3, <2>4, GoIs DEF Turn
<1>5. /\ RefuseRow(w) => t.op = "insert" /\ Turn(w, "idle", {}, {}, FALSE)
      /\ DropTemp(w) => t.op \in {"place", "lock"} /\ Turn(w, "idle", {}, {}, FALSE)
      /\ UnlinkThumb(w) => t.op = "unlink_thumb" /\ Turn(w, "idle", {}, {}, FALSE)
      /\ StageChunk(w) => t.op = "stage" /\ Turn(w, "idle", {}, {}, FALSE)
      /\ Cleanup(w) => t.op = "cleanup" /\ Turn(w, "idle", {}, {}, FALSE)
      /\ EndSweep(w) => t.op = "sweep" /\ Turn(w, "idle", {}, {}, FALSE)
      /\ Abandon(w) => t.op # "idle" /\ Turn(w, "idle", {}, {}, FALSE)
  BY FinishIs DEF RefuseRow, DropTemp, UnlinkThumb, StageChunk, Cleanup, EndSweep, Abandon
<1>6. LockFinish(w) => t.op = "lock" /\ Turn(w, "place", t.file, t.session, t.thumb)
  BY OpIs DEF LockFinish
<1>7. UnlinkFile(w) => t.op = "unlink_file" /\ Turn(w, "unlink_thumb", t.file, t.session, t.thumb)
  BY OpIs DEF UnlinkFile
<1>8. ASSUME CommitRow(w)
      PROVE t.op = "insert" /\ \E op \in {"idle", "cleanup"}, file \in {{}, t.file} : \E session, thumb :
               Turn(w, op, file, session, thumb)
  <2>1. CASE t.session = {}
    <3>1. Go(w, Idle)
      BY <1>8, <2>1 DEF CommitRow
    <3>2. Turn(w, "idle", {}, {}, FALSE)
      BY <3>1, GoIs, IdleIs DEF Turn
    <3> QED
      BY <1>8, <3>2 DEF CommitRow
  <2>2. CASE t.session # {}
    <3>1. Go(w, [task[w] EXCEPT !.op = "cleanup"])
      BY <1>8, <2>2 DEF CommitRow
    <3>2. Turn(w, "cleanup", t.file, t.session, t.thumb)
      BY <3>1, OpIs
    <3> QED
      BY <1>8, <3>2 DEF CommitRow
  <2> QED
    BY <2>1, <2>2
<1> QED
  BY <1>1, <1>2, <1>3, <1>4, <1>5, <1>6, <1>7, <1>8

(* The steps of the sweep.                                                 *)
SweepTurn(w, dirs, known, moments, doomed, kept) ==
    /\ task' \in [Worker -> Task] /\ Stays(w)
    /\ task'[w].op = "sweep" /\ task'[w].dirs = dirs /\ task'[w].known = known
    /\ task'[w].moments = moments /\ task'[w].doomed = doomed /\ task'[w].kept = kept

(* What the rows name are keys, and their stamps are moments.              *)
LEMMA KnownIs == TypeOK => Known \subseteq Key /\ Moments \subseteq Nat
<1> SUFFICES ASSUME TypeOK PROVE Known \subseteq Key /\ Moments \subseteq Nat
  OBVIOUS
<1>1. /\ db.files \subseteq File /\ db.ready \subseteq File /\ db.active \subseteq Session
      /\ db.stamp \in [File -> Nat] /\ db.opened \in [Session -> Nat]
  BY DEF TypeOK, Database
<1>2. Known \subseteq Key
  BY <1>1 DEF Known, Key
<1>3. Moments \subseteq Nat
  BY <1>1 DEF Moments
<1> QED
  BY <1>2, <1>3

(* The sweep begins, lists a place, or takes one of what it found there.   *)
LEMMA SweepSteps ==
    ASSUME TypeOK, NEW w \in Worker
    PROVE  LET t == task[w] IN
           /\ BeginSweep(w) => /\ t.op = "idle" /\ task'[w].file = {}
                              /\ SweepTurn(w, <<"files", "thumbs", "uploads">>, Known, Moments, {}, {})
           /\ ListDir(w) => /\ t.op = "sweep" /\ t.dirs # <<>> /\ t.doomed = {}
                            /\ task'[w].file = t.file
                            /\ SweepTurn(w, Tail(t.dirs), t.known, t.moments,
                                  {k \in Listed(Head(t.dirs)) \ t.known : Reclaimable(k, t.moments)},
                                  t.kept)
           /\ Reclaim(w) => /\ t.op = "sweep" /\ task'[w].file = t.file
                            /\ \E k \in t.doomed, works \in BOOLEAN :
                                 /\ Delete(IF works THEN {k} ELSE {})
                                 /\ SweepTurn(w, t.dirs, t.known, t.moments, t.doomed \ {k},
                                       IF works THEN t.kept ELSE t.kept \cup {k})
<1> DEFINE t == task[w]
           Dirs == {"files", "thumbs", "uploads"}
<1>0. t \in Task
  BY DEF TypeOK
<1>1. ASSUME BeginSweep(w)
      PROVE  /\ t.op = "idle" /\ task'[w].file = {}
             /\ SweepTurn(w, <<"files", "thumbs", "uploads">>, Known, Moments, {}, {})
  <2> DEFINE d == <<"files", "thumbs", "uploads">>
             n == [Idle EXCEPT !.op = "sweep", !.dirs = d, !.known = Known, !.moments = Moments]
  <2>1. d \in Seq(Dirs)
    <3>1. ASSUME NEW a \in Dirs, NEW b \in Dirs, NEW c \in Dirs PROVE <<a, b, c>> \in Seq(Dirs)
      OBVIOUS
    <3> QED
      BY <3>1
  <2> HIDE DEF d
  <2>2. /\ n \in Task /\ n.op = "sweep" /\ n.dirs = d /\ n.known = Known /\ n.moments = Moments
        /\ n.file = {} /\ n.doomed = {} /\ n.kept = {}
    BY <2>1, KnownIs DEF Idle, Task
  <2>3. Start(w, n)
    BY <1>1 DEF BeginSweep, d
  <2> HIDE DEF n
  <2>4. task[w] = Idle /\ Go(w, n)
    BY <2>3 DEF Start, Go
  <2> QED
    BY <2>2, <2>4, GoIs, IdleIs DEF SweepTurn, d
<1>2. ASSUME ListDir(w)
      PROVE  /\ t.op = "sweep" /\ t.dirs # <<>> /\ t.doomed = {} /\ task'[w].file = t.file
             /\ SweepTurn(w, Tail(t.dirs), t.known, t.moments,
                   {k \in Listed(Head(t.dirs)) \ t.known : Reclaimable(k, t.moments)}, t.kept)
  <2> DEFINE found == {k \in Listed(Head(t.dirs)) \ t.known : Reclaimable(k, t.moments)}
             n == [task[w] EXCEPT !.dirs = Tail(task[w].dirs), !.doomed = found]
  <2>1. t.op = "sweep" /\ t.dirs # <<>> /\ t.doomed = {} /\ Go(w, n)
    BY <1>2 DEF ListDir
  <2>2. found \subseteq Key
    BY DEF Listed
  <2>3. Tail(t.dirs) \in Seq(Dirs)
    BY <1>0, <2>1, HeadTailProperties DEF Task
  <2> HIDE DEF found
  <2>4. /\ n \in Task /\ n.op = "sweep" /\ n.dirs = Tail(t.dirs) /\ n.known = t.known
        /\ n.moments = t.moments /\ n.file = t.file /\ n.doomed = found /\ n.kept = t.kept
    BY <1>0, <2>1, <2>2, <2>3 DEF Task
  <2> HIDE DEF n
  <2> QED
    BY <2>1, <2>4, GoIs DEF SweepTurn, found
<1>3. ASSUME Reclaim(w)
      PROVE  /\ t.op = "sweep" /\ task'[w].file = t.file
             /\ \E k \in t.doomed, works \in BOOLEAN :
                  /\ Delete(IF works THEN {k} ELSE {})
                  /\ SweepTurn(w, t.dirs, t.known, t.moments, t.doomed \ {k},
                        IF works THEN t.kept ELSE t.kept \cup {k})
  <2>1. PICK k \in t.doomed, works \in BOOLEAN :
           /\ t.op = "sweep" /\ Delete(IF works THEN {k} ELSE {})
           /\ Go(w, [task[w] EXCEPT !.doomed = task[w].doomed \ {k},
                                    !.kept = IF works THEN task[w].kept ELSE task[w].kept \cup {k}])
    BY <1>3 DEF Reclaim
  <2> DEFINE left == IF works THEN task[w].kept ELSE task[w].kept \cup {k}
             n == [task[w] EXCEPT !.doomed = task[w].doomed \ {k}, !.kept = left]
  <2>2. left \subseteq Key
    BY <1>0, <2>1 DEF Task
  <2>3. Go(w, n)
    BY <2>1
  <2> HIDE DEF left
  <2>4. /\ n \in Task /\ n.op = "sweep" /\ n.dirs = t.dirs /\ n.known = t.known
        /\ n.moments = t.moments /\ n.file = t.file /\ n.doomed = t.doomed \ {k} /\ n.kept = left
    BY <1>0, <2>1, <2>2 DEF Task
  <2> HIDE DEF n
  <2>5. SweepTurn(w, t.dirs, t.known, t.moments, t.doomed \ {k}, left) /\ task'[w].file = t.file
    BY <2>3, <2>4, GoIs DEF SweepTurn
  <2> QED
    BY <2>1, <2>5 DEF left
<1> QED
  BY <1>1, <1>2, <1>3, Zenon

-----------------------------------------------------------------------------
(* What each step does to the rows.                                        *)

(* A row is written, purged, or settles a session.                         *)
LEMMA RowSteps ==
    ASSUME TypeOK, NEW w \in Worker
    PROVE  /\ CommitRow(w) => \E x \in task[w].file :
                 /\ db' \in Database /\ db'.files = db.files \cup {x}
                 /\ db'.ready = IF task[w].thumb THEN db.ready \cup {x} ELSE db.ready
                 /\ db'.stamp = [db.stamp EXCEPT ![x] = clock]
                 /\ db'.active = db.active \ task[w].session /\ db'.opened = db.opened
                 /\ accepted' = accepted \cup {x} /\ x \in File
           /\ \A x \in File : Purge(w, x) =>
                 /\ db' \in Database /\ db'.files = db.files \ {x} /\ db'.ready = db.ready \ {x}
                 /\ db'.stamp = [db.stamp EXCEPT ![x] = 0]
                 /\ db'.active = db.active /\ db'.opened = db.opened
                 /\ accepted' = accepted \ {x}
           /\ \A s \in Session : Settle(w, s) =>
                 /\ db' \in Database /\ db'.files = db.files /\ db'.ready = db.ready
                 /\ db'.stamp = db.stamp
                 /\ db'.active = db.active \ {s} /\ db'.opened = db.opened
<1>0. /\ db \in Database /\ clock \in Nat /\ task[w] \in Task
      /\ db.stamp \in [File -> Nat] /\ db.opened \in [Session -> Nat]
  BY DEF TypeOK, Database
<1>1. ASSUME CommitRow(w)
      PROVE \E x \in task[w].file :
                 /\ db' \in Database /\ db'.files = db.files \cup {x}
                 /\ db'.ready = IF task[w].thumb THEN db.ready \cup {x} ELSE db.ready
                 /\ db'.stamp = [db.stamp EXCEPT ![x] = clock]
                 /\ db'.active = db.active \ task[w].session /\ db'.opened = db.opened
                 /\ accepted' = accepted \cup {x} /\ x \in File
  <2>1. PICK x \in task[w].file :
           /\ db' = [db EXCEPT !.files = db.files \cup {x},
                               !.ready = IF task[w].thumb THEN db.ready \cup {x} ELSE db.ready,
                               !.stamp = [db.stamp EXCEPT ![x] = clock],
                               !.active = db.active \ task[w].session]
           /\ accepted' = accepted \cup {x}
    BY <1>1 DEF CommitRow
  <2>2. x \in File
    BY <1>0 DEF Task
  <2> DEFINE st == [db.stamp EXCEPT ![x] = clock]
             re == IF task[w].thumb THEN db.ready \cup {x} ELSE db.ready
  <2>3. st \in [File -> Nat] /\ re \subseteq File
    BY <1>0, <2>2 DEF Database
  <2>4. db' = [db EXCEPT !.files = db.files \cup {x}, !.ready = re, !.stamp = st,
                         !.active = db.active \ task[w].session]
    BY <2>1
  <2> HIDE DEF st, re
  <2>5. /\ db' \in Database /\ db'.files = db.files \cup {x} /\ db'.ready = re /\ db'.stamp = st
        /\ db'.active = db.active \ task[w].session /\ db'.opened = db.opened
    BY <1>0, <2>2, <2>3, <2>4 DEF Database
  <2> QED
    BY <2>1, <2>2, <2>5 DEF st, re
<1>2. ASSUME NEW x \in File, Purge(w, x)
      PROVE  /\ db' \in Database /\ db'.files = db.files \ {x} /\ db'.ready = db.ready \ {x}
             /\ db'.stamp = [db.stamp EXCEPT ![x] = 0]
             /\ db'.active = db.active /\ db'.opened = db.opened
             /\ accepted' = accepted \ {x}
  <2> DEFINE st == [db.stamp EXCEPT ![x] = 0]
  <2>1. st \in [File -> Nat]
    BY <1>0
  <2>2. db' = [db EXCEPT !.files = db.files \ {x}, !.ready = db.ready \ {x}, !.stamp = st]
    BY <1>2 DEF Purge
  <2> HIDE DEF st
  <2>3. /\ db' \in Database /\ db'.files = db.files \ {x} /\ db'.ready = db.ready \ {x}
        /\ db'.stamp = st /\ db'.active = db.active /\ db'.opened = db.opened
    BY <1>0, <2>1, <2>2 DEF Database
  <2> QED
    BY <1>2, <2>3 DEF st, Purge
<1>3. ASSUME NEW s \in Session, Settle(w, s)
      PROVE  /\ db' \in Database /\ db'.files = db.files /\ db'.ready = db.ready
             /\ db'.stamp = db.stamp
             /\ db'.active = db.active \ {s} /\ db'.opened = db.opened
  <2>1. db' = [db EXCEPT !.active = db.active \ {s}]
    BY <1>3 DEF Settle
  <2> QED
    BY <1>0, <2>1 DEF Database
<1> QED
  BY <1>1, <1>2, <1>3

(* The rows move with no request to wait for.                              *)
LEMMA BareRowSteps ==
    ASSUME TypeOK
    PROVE  /\ \A x \in File : Touch(x) =>
                 /\ db' \in Database /\ db'.files = db.files /\ db'.ready = db.ready
                 /\ db'.stamp = [db.stamp EXCEPT ![x] = clock]
                 /\ db'.active = db.active /\ db'.opened = db.opened
           /\ \A s \in Session : OpenSession(s) =>
                 /\ db' \in Database /\ db'.files = db.files /\ db'.ready = db.ready
                 /\ db'.stamp = db.stamp
                 /\ db'.active = db.active \cup {s}
                 /\ db'.opened = [db.opened EXCEPT ![s] = clock]
<1>0. /\ db \in Database /\ clock \in Nat
      /\ db.stamp \in [File -> Nat] /\ db.opened \in [Session -> Nat]
  BY DEF TypeOK, Database
<1>4. ASSUME NEW x \in File, Touch(x)
      PROVE  /\ db' \in Database /\ db'.files = db.files /\ db'.ready = db.ready
             /\ db'.stamp = [db.stamp EXCEPT ![x] = clock]
             /\ db'.active = db.active /\ db'.opened = db.opened
  <2> DEFINE st == [db.stamp EXCEPT ![x] = clock]
  <2>1. st \in [File -> Nat]
    BY <1>0
  <2>2. db' = [db EXCEPT !.stamp = st]
    BY <1>4 DEF Touch
  <2> HIDE DEF st
  <2>3. /\ db' \in Database /\ db'.files = db.files /\ db'.ready = db.ready /\ db'.stamp = st
        /\ db'.active = db.active /\ db'.opened = db.opened
    BY <1>0, <2>1, <2>2 DEF Database
  <2> QED
    BY <2>3 DEF st
<1>5. ASSUME NEW s \in Session, OpenSession(s)
      PROVE  /\ db' \in Database /\ db'.files = db.files /\ db'.ready = db.ready
             /\ db'.stamp = db.stamp /\ db'.active = db.active \cup {s}
             /\ db'.opened = [db.opened EXCEPT ![s] = clock]
  <2> DEFINE op == [db.opened EXCEPT ![s] = clock]
  <2>1. op \in [Session -> Nat]
    BY <1>0
  <2>2. db' = [db EXCEPT !.active = db.active \cup {s}, !.opened = op]
    BY <1>5 DEF OpenSession
  <2> HIDE DEF op
  <2>3. /\ db' \in Database /\ db'.files = db.files /\ db'.ready = db.ready /\ db'.stamp = db.stamp
        /\ db'.active = db.active \cup {s} /\ db'.opened = op
    BY <1>0, <2>1, <2>2 DEF Database
  <2> QED
    BY <2>3 DEF op
<1> QED
  BY <1>4, <1>5

-----------------------------------------------------------------------------
(* What each step does to the bytes.                                       *)

(* A key is a place and the id that is kept there.                         *)
LEMMA KeyIs ==
    /\ \A x \in File : <<"files", x>> \in Key /\ <<"temp", x>> \in Key /\ <<"thumbs", x>> \in Key
    /\ \A s \in Session : <<"uploads", s>> \in Key
    /\ \A k \in Key : /\ k = <<k[1], k[2]>> /\ k[1] \in {"files", "temp", "thumbs", "uploads"}
                      /\ k[1] # "uploads" => k[2] \in File
                      /\ k[1] = "uploads" => k[2] \in Session
<1>1. ASSUME NEW k \in Key
      PROVE  /\ k = <<k[1], k[2]>> /\ k[1] \in {"files", "temp", "thumbs", "uploads"}
             /\ k[1] # "uploads" => k[2] \in File
             /\ k[1] = "uploads" => k[2] \in Session
  <2>1. CASE k \in {"files", "temp", "thumbs"} \X File
    BY <2>1
  <2>2. CASE k \in {"uploads"} \X Session
    BY <2>2
  <2> QED
    BY <2>1, <2>2 DEF Key
<1>2. /\ \A x \in File : <<"files", x>> \in Key /\ <<"temp", x>> \in Key /\ <<"thumbs", x>> \in Key
      /\ \A s \in Session : <<"uploads", s>> \in Key
  BY DEF Key
<1> QED
  BY <1>1, <1>2

(* One key is written; or some go.                                         *)
Wrote(k, m) ==
    at' \in [Key -> Nat] /\ at'[k] = m /\ \A j \in Key : j # k => at'[j] = at[j]

Dropped(ks) ==
    /\ at' \in [Key -> Nat]
    /\ \A j \in Key : (j \in ks => at'[j] = 0) /\ (j \notin ks => at'[j] = at[j])

(* A put writes one key, and a deletion empties some.                      *)
LEMMA PutIs ==
    ASSUME TypeOK
    PROVE  /\ \A k \in Key : Put(k) => Wrote(k, clock)
           /\ \A ks : Delete(ks) => Dropped(ks)
<1>1. at \in [Key -> Nat] /\ clock \in Nat
  BY DEF TypeOK
<1> QED
  BY <1>1 DEF Put, Delete, Wrote, Dropped, Absent

(* The bytes each step writes, and those it removes.                       *)
LEMMA ByteSteps ==
    ASSUME TypeOK, NEW w \in Worker
    PROVE  LET f == task[w].file IN
           /\ PutTemp(w) => \E x \in f : Wrote(<<"temp", x>>, clock)
           /\ PutRemote(w) => \E x \in f : Wrote(<<"files", x>>, clock)
           /\ Place(w) => \E x \in f :
                 /\ at' \in [Key -> Nat]
                 /\ at'[<<"files", x>>] \in {clock, at[<<"temp", x>>]} /\ at[<<"temp", x>>] # 0
                 /\ \A j \in Key : j[1] # "temp" /\ j # <<"files", x>> => at'[j] = at[j]
                 /\ \A j \in Key : j[2] # x => at'[j] = at[j]
           /\ PutThumb(w) => \E x \in f, placed \in BOOLEAN :
                 /\ placed => Wrote(<<"thumbs", x>>, clock) /\ x \in Pictures
                 /\ ~placed => Dropped({<<"thumbs", x>>})
                 /\ task'[w].thumb = placed
           /\ RefuseRow(w) => \E x \in f :
                 Dropped(IF x \in db.files THEN {} ELSE {<<"files", x>>, <<"thumbs", x>>})
           /\ DropTemp(w) => Dropped({"temp"} \X f)
           /\ UnlinkFile(w) => Dropped({"files"} \X f)
           /\ UnlinkThumb(w) => Dropped({"thumbs"} \X f)
           /\ StageChunk(w) => \E s \in task[w].session : Wrote(<<"uploads", s>>, clock)
           /\ Cleanup(w) => Dropped({"uploads"} \X task[w].session)
           /\ Reclaim(w) => \E k \in task[w].doomed, works \in BOOLEAN :
                 Dropped(IF works THEN {k} ELSE {})
           /\ \A s \in Session, x \in File : BeginFinish(w, s, x) => Wrote(<<"temp", x>>, clock)
<1> DEFINE f == task[w].file
<1>0. /\ at \in [Key -> Nat] /\ clock \in Nat /\ task[w] \in Task
      /\ f \subseteq File /\ task[w].session \subseteq Session
  BY DEF TypeOK, Task
<1>1. PutTemp(w) => \E x \in f : Wrote(<<"temp", x>>, clock)
  BY <1>0, PutIs, KeyIs DEF PutTemp
<1>2. PutRemote(w) => \E x \in f : Wrote(<<"files", x>>, clock)
  BY <1>0, PutIs, KeyIs DEF PutRemote
<1>3. ASSUME Place(w)
      PROVE  \E x \in f :
                 /\ at' \in [Key -> Nat]
                 /\ at'[<<"files", x>>] \in {clock, at[<<"temp", x>>]} /\ at[<<"temp", x>>] # 0
                 /\ \A j \in Key : j[1] # "temp" /\ j # <<"files", x>> => at'[j] = at[j]
                 /\ \A j \in Key : j[2] # x => at'[j] = at[j]
  <2>1. PICK x \in f, left \in BOOLEAN :
           /\ at[<<"temp", x>>] # Absent
           /\ at' = [at EXCEPT
                       ![<<"files", x>>] = IF Remote THEN clock ELSE at[<<"temp", x>>],
                       ![<<"temp", x>>]  = IF left THEN at[<<"temp", x>>] ELSE Absent]
    BY <1>3 DEF Place
  <2>2. /\ <<"files", x>> \in Key /\ <<"temp", x>> \in Key /\ <<"files", x>> # <<"temp", x>>
    BY <1>0, KeyIs
  <2> DEFINE m == IF Remote THEN clock ELSE at[<<"temp", x>>]
             n == IF left THEN at[<<"temp", x>>] ELSE Absent
             one == [at EXCEPT ![<<"files", x>>] = m]
  <2>3. m \in Nat /\ n \in Nat /\ m \in {clock, at[<<"temp", x>>]}
    BY <1>0, <2>2 DEF Absent
  <2>4. at' = [at EXCEPT ![<<"files", x>>] = m, ![<<"temp", x>>] = n]
    BY <2>1
  <2> HIDE DEF m, n
  <2>5. /\ at' \in [Key -> Nat] /\ at'[<<"files", x>>] = m
        /\ \A j \in Key : j # <<"files", x>> /\ j # <<"temp", x>> => at'[j] = at[j]
    BY <1>0, <2>2, <2>3, <2>4
  <2>6. \A j \in Key : j[1] # "temp" => j # <<"temp", x>>
    OBVIOUS
  <2>7. \A j \in Key : j[2] # x => j # <<"temp", x>> /\ j # <<"files", x>>
    OBVIOUS
  <2> QED
    BY <2>1, <2>3, <2>5, <2>6, <2>7 DEF Absent
<1>4. ASSUME PutThumb(w)
      PROVE  \E x \in f, placed \in BOOLEAN :
                 /\ placed => Wrote(<<"thumbs", x>>, clock) /\ x \in Pictures
                 /\ ~placed => Dropped({<<"thumbs", x>>})
                 /\ task'[w].thumb = placed
  <2>1. PICK x \in f, placed \in BOOLEAN :
           /\ placed => x \in Pictures
           /\ IF placed THEN Put(<<"thumbs", x>>) ELSE Delete({<<"thumbs", x>>})
           /\ Go(w, [task[w] EXCEPT !.op = "insert", !.thumb = placed])
    BY <1>4 DEF PutThumb
  <2> DEFINE n == [task[w] EXCEPT !.op = "insert", !.thumb = placed]
  <2>2. n \in Task /\ n.thumb = placed
    BY <1>0 DEF Task
  <2>3. Go(w, n)
    BY <2>1
  <2> HIDE DEF n
  <2>4. task'[w].thumb = placed
    BY <2>2, <2>3, GoIs
  <2>5. <<"thumbs", x>> \in Key
    BY <1>0, KeyIs
  <2>6. placed => Wrote(<<"thumbs", x>>, clock)
    BY <2>1, <2>5, PutIs
  <2>7. ~placed => Dropped({<<"thumbs", x>>})
    BY <2>1, PutIs
  <2> QED
    BY <2>1, <2>4, <2>6, <2>7
<1>5. RefuseRow(w) => \E x \in f :
                 Dropped(IF x \in db.files THEN {} ELSE {<<"files", x>>, <<"thumbs", x>>})
  BY PutIs DEF RefuseRow
<1>6. /\ DropTemp(w) => Dropped({"temp"} \X f)
      /\ UnlinkFile(w) => Dropped({"files"} \X f)
      /\ UnlinkThumb(w) => Dropped({"thumbs"} \X f)
      /\ Cleanup(w) => Dropped({"uploads"} \X task[w].session)
  BY PutIs DEF DropTemp, UnlinkFile, UnlinkThumb, Cleanup
<1>7. StageChunk(w) => \E s \in task[w].session : Wrote(<<"uploads", s>>, clock)
  BY <1>0, PutIs, KeyIs DEF StageChunk
<1>8. Reclaim(w) => \E k \in task[w].doomed, works \in BOOLEAN :
                 Dropped(IF works THEN {k} ELSE {})
  BY PutIs DEF Reclaim
<1>9. \A s \in Session, x \in File : BeginFinish(w, s, x) => Wrote(<<"temp", x>>, clock)
  BY PutIs, KeyIs DEF BeginFinish
<1> QED
  BY <1>1, <1>2, <1>3, <1>4, <1>5, <1>6, <1>7, <1>8, <1>9

(* Whose step it is: a request's, or none's.                               *)
Acts(w) ==
    \/ \E x \in File : \/ BeginWrite(w, x) \/ Purge(w, x)
                       \/ \E s \in Session : BeginFinish(w, s, x)
    \/ \E s \in Session : BeginChunk(w, s) \/ Settle(w, s)
    \/ BeginSweep(w) \/ RequestStep(w) \/ Abandon(w)

(* A step is that of one request, or a change nobody waits for.            *)
LEMMA WhoActs ==
    Next => \/ \E w \in Worker : Acts(w)
            \/ \E x \in File : Touch(x)
            \/ \E s \in Session : OpenSession(s)
            \/ Boot \/ Tick
  BY DEF Next, Acts

(* Bytes stay, go, or come by a request that writes its file; or they are  *)
(* chunks, or the temp of a new file.                                      *)
Moved(k) ==
    \/ at'[k] = at[k] \/ at'[k] = 0
    \/ k[1] = "uploads" /\ at'[k] = clock
    \/ k[2] \notin ids /\ k[2] \in ids' /\ at'[k] = clock
    \/ \E w \in Worker : task[w].op \in Writing /\ k[2] \in task[w].file

(* No step writes bytes but of new files, of the writer's, and chunks.     *)
LEMMA BytesMove ==
    ASSUME TypeOK, Next
    PROVE  at' \in [Key -> Nat] /\ \A k \in Key : Moved(k)
<1>0. /\ at \in [Key -> Nat] /\ \A w \in Worker : task[w].file \subseteq File
  BY DEF TypeOK, Task
<1>a. ASSUME NEW d, NEW x, NEW m, Wrote(<<d, x>>, m)
      PROVE  at' \in [Key -> Nat] /\ \A k \in Key : (k[1] = d /\ k[2] = x /\ at'[k] = m) \/ at'[k] = at[k]
  <2>1. \A k \in Key : k # <<d, x>> \/ (k[1] = d /\ k[2] = x)
    OBVIOUS
  <2> QED
    BY <1>a, <2>1 DEF Wrote
<1>b. ASSUME NEW ks, Dropped(ks)
      PROVE  at' \in [Key -> Nat] /\ \A k \in Key : Moved(k)
  BY <1>b DEF Dropped, Moved
<1>3. CASE at' = at
  BY <1>0, <1>3 DEF Moved
<1>1. ASSUME NEW w \in Worker, RequestStep(w) \/ Abandon(w)
      PROVE  at' \in [Key -> Nat] /\ \A k \in Key : Moved(k)
  <2>0. (PutTemp(w) \/ PutRemote(w) \/ Place(w) \/ PutThumb(w)) => task[w].op \in Writing
    BY DEF PutTemp, PutRemote, Place, PutThumb, Writing
  <2>1. CASE PutTemp(w)
    <3>1. PICK x \in task[w].file : Wrote(<<"temp", x>>, clock)
      BY <2>1, ByteSteps
    <3> QED
      BY <2>0, <2>1, <3>1, <1>a DEF Moved
  <2>2. CASE PutRemote(w)
    <3>1. PICK x \in task[w].file : Wrote(<<"files", x>>, clock)
      BY <2>2, ByteSteps
    <3> QED
      BY <2>0, <2>2, <3>1, <1>a DEF Moved
  <2>3. CASE Place(w)
    <3>1. PICK x \in task[w].file : at' \in [Key -> Nat] /\ \A j \in Key : j[2] # x => at'[j] = at[j]
      BY <2>3, ByteSteps
    <3> QED
      BY <2>0, <2>3, <3>1 DEF Moved
  <2>4. CASE PutThumb(w)
    <3>1. PICK x \in task[w].file, placed \in BOOLEAN :
             (placed => Wrote(<<"thumbs", x>>, clock)) /\ (~placed => Dropped({<<"thumbs", x>>}))
      BY <2>4, ByteSteps
    <3>2. CASE placed
      BY <2>0, <2>4, <3>1, <3>2, <1>a DEF Moved
    <3>3. CASE ~placed
      BY <3>1, <3>3, <1>b
    <3> QED
      BY <3>2, <3>3
  <2>5. CASE StageChunk(w)
    <3>1. PICK s \in task[w].session : Wrote(<<"uploads", s>>, clock)
      BY <2>5, ByteSteps
    <3> QED
      BY <3>1, <1>a DEF Moved
  <2>6. CASE RefuseRow(w) \/ DropTemp(w) \/ UnlinkFile(w) \/ UnlinkThumb(w) \/ Cleanup(w) \/ Reclaim(w)
    <3>1. PICK ks : Dropped(ks)
      BY <2>6, ByteSteps
    <3> QED
      BY <3>1, <1>b
  <2>7. CASE CommitRow(w) \/ LockFinish(w) \/ ListDir(w) \/ EndSweep(w) \/ Abandon(w)
    BY <1>3, <2>7 DEF CommitRow, LockFinish, ListDir, EndSweep, Abandon
  <2> QED
    BY <1>1, <2>1, <2>2, <2>3, <2>4, <2>5, <2>6, <2>7 DEF RequestStep
<1>2. ASSUME NEW w \in Worker, NEW s \in Session, NEW x \in File, BeginFinish(w, s, x)
      PROVE  at' \in [Key -> Nat] /\ \A k \in Key : Moved(k)
  <2>1. Wrote(<<"temp", x>>, clock) /\ x \notin ids /\ x \in ids'
    BY <1>2, ByteSteps DEF BeginFinish
  <2> QED
    BY <2>1, <1>a DEF Moved
<1>4. ASSUME NEW w \in Worker, Acts(w)
      PROVE  at' \in [Key -> Nat] /\ \A k \in Key : Moved(k)
  BY <1>1, <1>2, <1>3, <1>4 DEF Acts, BeginWrite, Purge, BeginChunk, Settle, BeginSweep
<1> QED
  BY <1>3, <1>4, WhoActs DEF Touch, OpenSession, Boot, Tick

(* Whose bytes a step removes.                                             *)
Removed(k) ==
    \/ k[1] \in {"temp", "uploads"}
    \/ \E w \in Worker :
          /\ k[2] \in task[w].file
          /\ \/ RefuseRow(w) /\ k[2] \notin db.files
             \/ PutThumb(w) /\ k[1] = "thumbs"
             \/ UnlinkFile(w) \/ UnlinkThumb(w)
    \/ \E w \in Worker : Reclaim(w) /\ k \in task[w].doomed

(* Bytes go with a row that is not, or by the sweep.                       *)
LEMMA BytesGo ==
    ASSUME TypeOK, clock > 0, Next, NEW k \in Key, at[k] # 0, at'[k] = 0
    PROVE  Removed(k)
<1>0. /\ at \in [Key -> Nat] /\ clock \in Nat /\ \A w \in Worker : task[w].file \subseteq File
      /\ k = <<k[1], k[2]>>
  BY KeyIs DEF TypeOK, Task
<1>a. ASSUME NEW j, NEW m, m # 0, Wrote(j, m)
      PROVE  FALSE
  BY <1>a DEF Wrote
<1>b. ASSUME NEW ks, Dropped(ks)
      PROVE  k \in ks
  BY <1>b DEF Dropped
<1>1. ASSUME NEW w \in Worker, RequestStep(w) \/ Abandon(w)
      PROVE  Removed(k)
  <2>1. CASE PutTemp(w) \/ PutRemote(w) \/ StageChunk(w)
    <3>1. PICK j : Wrote(j, clock)
      BY <2>1, ByteSteps
    <3> QED
      BY <1>a, <3>1
  <2>3. CASE Place(w)
    <3>1. PICK x \in task[w].file :
             /\ at'[<<"files", x>>] \in {clock, at[<<"temp", x>>]} /\ at[<<"temp", x>>] # 0
             /\ \A j \in Key : j[1] # "temp" /\ j # <<"files", x>> => at'[j] = at[j]
      BY <2>3, ByteSteps
    <3> QED
      BY <3>1 DEF Removed
  <2>4. CASE PutThumb(w)
    <3>1. PICK x \in task[w].file, placed \in BOOLEAN :
             (placed => Wrote(<<"thumbs", x>>, clock)) /\ (~placed => Dropped({<<"thumbs", x>>}))
      BY <2>4, ByteSteps
    <3>2. k \in {<<"thumbs", x>>}
      BY <3>1, <1>a, <1>b
    <3>3. k[1] = "thumbs" /\ k[2] = x
      BY <3>2
    <3> QED
      BY <2>4, <3>3 DEF Removed
  <2>6. CASE RefuseRow(w)
    <3>1. PICK x \in task[w].file :
             Dropped(IF x \in db.files THEN {} ELSE {<<"files", x>>, <<"thumbs", x>>})
      BY <2>6, ByteSteps
    <3>2. x \notin db.files /\ k \in {<<"files", x>>, <<"thumbs", x>>}
      BY <3>1, <1>b
    <3>3. k[2] = x
      BY <3>2
    <3> QED
      BY <2>6, <3>2, <3>3 DEF Removed
  <2>7. CASE UnlinkFile(w) \/ UnlinkThumb(w)
    <3>1. k \in {"files"} \X task[w].file \/ k \in {"thumbs"} \X task[w].file
      BY <2>7, ByteSteps, <1>b
    <3>2. k[2] \in task[w].file
      BY <3>1
    <3> QED
      BY <2>7, <3>2 DEF Removed
  <2>8. CASE DropTemp(w) \/ Cleanup(w)
    <3>1. k \in {"temp"} \X task[w].file \/ k \in {"uploads"} \X task[w].session
      BY <2>8, ByteSteps, <1>b
    <3>2. k[1] \in {"temp", "uploads"}
      BY <3>1
    <3> QED
      BY <3>2 DEF Removed
  <2>9. CASE Reclaim(w)
    <3>1. PICK j \in task[w].doomed, works \in BOOLEAN : Dropped(IF works THEN {j} ELSE {})
      BY <2>9, ByteSteps
    <3>2. k \in task[w].doomed
      BY <3>1, <1>b
    <3> QED
      BY <2>9, <3>2 DEF Removed
  <2>10. CASE CommitRow(w) \/ LockFinish(w) \/ ListDir(w) \/ EndSweep(w) \/ Abandon(w)
    BY <2>10 DEF CommitRow, LockFinish, ListDir, EndSweep, Abandon
  <2> QED
    BY <1>1, <2>1, <2>3, <2>4, <2>6, <2>7, <2>8, <2>9, <2>10 DEF RequestStep
<1>2. ASSUME NEW w \in Worker, NEW s \in Session, NEW x \in File, BeginFinish(w, s, x)
      PROVE  Removed(k)
  <2>1. Wrote(<<"temp", x>>, clock)
    BY <1>2, ByteSteps
  <2> QED
    BY <1>0, <1>a, <2>1
<1>3. at' # at
  OBVIOUS
<1>4. ASSUME NEW w \in Worker, Acts(w)
      PROVE  Removed(k)
  BY <1>1, <1>2, <1>3, <1>4 DEF Acts, BeginWrite, Purge, BeginChunk, Settle, BeginSweep
<1> QED
  BY <1>3, <1>4, WhoActs DEF Touch, OpenSession, Boot, Tick

-----------------------------------------------------------------------------
(* What a request's step does to its file, to the lock and to the rows.    *)

(* A request takes a file when it begins, or goes on with the one it has.  *)
Takes(w) ==
    \/ \E x \in File : BeginWrite(w, x) /\ task'[w].op = "put" /\ task'[w].file = {x}
    \/ \E x \in File : Purge(w, x) /\ task'[w].op = "unlink_file" /\ task'[w].file = {x}
    \/ \E s \in Session, x \in File :
          BeginFinish(w, s, x) /\ task'[w].op = "lock" /\ task'[w].file = {x}

GoesOn(w) ==
    /\ task'[w].file \in {{}, task[w].file} /\ task'[w].op # "lock"
    /\ task'[w].op \in Writing => task[w].op \in Writing \cup {"lock"}
    /\ task'[w].op \in Unlinking => task[w].op \in Unlinking

(* Each step of a request is of one of the two kinds.                      *)
LEMMA TaskTurn ==
    ASSUME TypeOK, NEW w \in Worker, Acts(w)
    PROVE  task' \in [Worker -> Task] /\ Stays(w) /\ (Takes(w) \/ GoesOn(w))
<1>1. CASE \E x \in File : BeginWrite(w, x)
  BY <1>1, BeginSteps DEF Turn, Takes
<1>2. CASE \E x \in File : Purge(w, x)
  BY <1>2, BeginSteps DEF Turn, Takes
<1>3. CASE \E s \in Session, x \in File : BeginFinish(w, s, x)
  BY <1>3, BeginSteps DEF Turn, Takes
<1>4. CASE \E s \in Session : BeginChunk(w, s) \/ Settle(w, s)
  <2>1. PICK s \in Session : Turn(w, "stage", {}, {s}, FALSE) \/ Turn(w, "cleanup", {}, {s}, FALSE)
    BY <1>4, BeginSteps
  <2> QED
    BY <2>1 DEF Turn, GoesOn, Writing, Unlinking
<1>5. CASE BeginSweep(w)
  BY <1>5, SweepSteps DEF SweepTurn, GoesOn, Writing, Unlinking
<1>6. CASE ListDir(w) \/ Reclaim(w)
  BY <1>6, SweepSteps DEF SweepTurn, GoesOn, Writing, Unlinking
<1>7. CASE \/ RefuseRow(w) \/ DropTemp(w) \/ UnlinkThumb(w) \/ StageChunk(w) \/ Cleanup(w)
           \/ EndSweep(w) \/ Abandon(w)
  <2>1. Turn(w, "idle", {}, {}, FALSE)
    BY <1>7, FileSteps
  <2> QED
    BY <2>1 DEF Turn, GoesOn, Writing, Unlinking
<1>8. CASE PutTemp(w) \/ PutRemote(w) \/ Place(w) \/ LockFinish(w)
  <2>1. /\ task[w].op \in {"put", "place", "lock"}
        /\ \E op \in {"place", "thumb"} : Turn(w, op, task[w].file, task[w].session, task[w].thumb)
    BY <1>8, FileSteps
  <2> QED
    BY <2>1 DEF Turn, GoesOn, Writing, Unlinking
<1>9. CASE PutThumb(w)
  <2>1. /\ task[w].op = "thumb"
        /\ \E placed \in BOOLEAN : Turn(w, "insert", task[w].file, task[w].session, placed)
    BY <1>9, FileSteps
  <2> QED
    BY <2>1 DEF Turn, GoesOn, Writing, Unlinking
<1>10. CASE UnlinkFile(w)
  <2>1. task[w].op = "unlink_file" /\ Turn(w, "unlink_thumb", task[w].file, task[w].session, task[w].thumb)
    BY <1>10, FileSteps
  <2> QED
    BY <2>1 DEF Turn, GoesOn, Writing, Unlinking
<1>11. CASE CommitRow(w)
  <2>1. PICK op \in {"idle", "cleanup"}, file \in {{}, task[w].file} : \E session, thumb :
           Turn(w, op, file, session, thumb)
    BY <1>11, FileSteps
  <2> QED
    BY <2>1 DEF Turn, GoesOn, Writing, Unlinking
<1> QED
  BY <1>1, <1>2, <1>3, <1>4, <1>5, <1>6, <1>7, <1>8, <1>9, <1>10, <1>11 DEF Acts, RequestStep

(* The lock is taken when it is free, and let go by whoever holds it.      *)
Holding == Writing \cup {"sweep"}

LockTurn(w) ==
    \/ writer = Free /\ writer' = w /\ task'[w].op \in Holding
    \/ writer' = writer /\ (task[w].op \in Holding <=> task'[w].op \in Holding)
    \/ /\ writer' = Free /\ task'[w].op \notin Holding
       /\ writer = Free \/ task[w].op \in Holding
    \/ writer' = (IF writer = w THEN Free ELSE writer) /\ task'[w].op \notin Holding

(* Each step of a request treats the lock in one of these ways.            *)
LEMMA LockTurns ==
    ASSUME TypeOK, NEW w \in Worker, Acts(w)
    PROVE  LockTurn(w)
<1>1. CASE \E x \in File : BeginWrite(w, x)
  <2>1. task'[w].op = "put"
    BY <1>1, BeginSteps DEF Turn
  <2> QED
    BY <1>1, <2>1 DEF LockTurn, Holding, Writing, BeginWrite
<1>2. CASE \E x \in File : Purge(w, x)
  <2>1. task[w].op = "idle" /\ task'[w].op = "unlink_file"
    BY <1>2, BeginSteps DEF Turn
  <2> QED
    BY <1>2, <2>1 DEF LockTurn, Holding, Writing, Purge
<1>3. CASE \E s \in Session, x \in File : BeginFinish(w, s, x)
  <2>1. task[w].op = "idle" /\ task'[w].op = "lock"
    BY <1>3, BeginSteps DEF Turn
  <2> QED
    BY <1>3, <2>1 DEF LockTurn, Holding, Writing, BeginFinish
<1>4. CASE \E s \in Session : BeginChunk(w, s) \/ Settle(w, s)
  <2>1. task[w].op = "idle" /\ task'[w].op \in {"stage", "cleanup"}
    BY <1>4, BeginSteps DEF Turn
  <2> QED
    BY <1>4, <2>1 DEF LockTurn, Holding, Writing, BeginChunk, Settle
<1>5. CASE BeginSweep(w)
  <2>1. task'[w].op = "sweep"
    BY <1>5, SweepSteps DEF SweepTurn
  <2> QED
    BY <1>5, <2>1 DEF LockTurn, Holding, BeginSweep
<1>6. CASE ListDir(w) \/ Reclaim(w)
  <2>1. task[w].op = "sweep" /\ task'[w].op = "sweep"
    BY <1>6, SweepSteps DEF SweepTurn
  <2> QED
    BY <1>6, <2>1 DEF LockTurn, Holding, ListDir, Reclaim
<1>7. CASE RefuseRow(w) \/ EndSweep(w) \/ DropTemp(w) \/ Abandon(w) \/ CommitRow(w)
  <2>1. task'[w].op \in {"idle", "cleanup"}
    BY <1>7, FileSteps DEF Turn
  <2> QED
    BY <1>7, <2>1 DEF LockTurn, Holding, Writing, RefuseRow, EndSweep, DropTemp, Abandon, CommitRow
<1>8. CASE UnlinkFile(w) \/ UnlinkThumb(w) \/ StageChunk(w) \/ Cleanup(w)
  <2>1. /\ task[w].op \in {"unlink_file", "unlink_thumb", "stage", "cleanup"}
        /\ task'[w].op \in {"unlink_thumb", "idle"}
    BY <1>8, FileSteps DEF Turn
  <2> QED
    BY <1>8, <2>1 DEF LockTurn, Holding, Writing, UnlinkFile, UnlinkThumb, StageChunk, Cleanup
<1>9. CASE LockFinish(w)
  <2>1. task'[w].op = "place"
    BY <1>9, FileSteps DEF Turn
  <2> QED
    BY <1>9, <2>1 DEF LockTurn, Holding, Writing, LockFinish
<1>10. CASE PutTemp(w) \/ PutRemote(w) \/ Place(w) \/ PutThumb(w)
  <2>1. task[w].op \in Writing /\ task'[w].op \in Writing
    BY <1>10, FileSteps DEF Turn, Writing
  <2> QED
    BY <1>10, <2>1 DEF LockTurn, Holding, PutTemp, PutRemote, Place, PutThumb
<1> QED
  BY <1>1, <1>2, <1>3, <1>4, <1>5, <1>6, <1>7, <1>8, <1>9, <1>10 DEF Acts, RequestStep

(* Most steps leave the rows as they are.                                  *)
RowTurn(w) ==
    \/ db' = db /\ accepted' = accepted
    \/ CommitRow(w)
    \/ \E x \in File : Purge(w, x)
    \/ \E s \in Session : Settle(w, s) /\ accepted' = accepted

(* Only a commit, a purge and the end of a session write rows.             *)
LEMMA RowTurns ==
    ASSUME TypeOK, NEW w \in Worker, Acts(w)
    PROVE  /\ RowTurn(w)
           /\ here' = here /\ backup' = backup /\ clock' = clock /\ boots' = boots
           /\ sweepDue' \in {sweepDue, FALSE}
           /\ ids \subseteq ids' /\ ids' \subseteq File /\ writer' \in {writer, w, Free}
<1>0. ids \subseteq File
  BY DEF TypeOK
<1>1. ASSUME RequestStep(w) \/ Abandon(w)
      PROVE  /\ (db' = db /\ accepted' = accepted) \/ CommitRow(w)
             /\ UNCHANGED <<env, ids>> /\ writer' \in {writer, w, Free}
  BY <1>1 DEF RequestStep, PutTemp, PutRemote, Place, PutThumb, RefuseRow, CommitRow, LockFinish,
              DropTemp, UnlinkFile, UnlinkThumb, StageChunk, Cleanup, ListDir, Reclaim, EndSweep,
              Abandon
<1>2. ASSUME RequestStep(w) \/ Abandon(w)
      PROVE  /\ RowTurn(w)
             /\ here' = here /\ backup' = backup /\ clock' = clock /\ boots' = boots
             /\ sweepDue' \in {sweepDue, FALSE}
             /\ ids \subseteq ids' /\ ids' \subseteq File /\ writer' \in {writer, w, Free}
  BY <1>0, <1>1, <1>2 DEF RowTurn, env
<1>3. CASE BeginSweep(w)
  BY <1>0, <1>3 DEF RowTurn, BeginSweep
<1>4. CASE \E x \in File : BeginWrite(w, x)
  BY <1>0, <1>4 DEF RowTurn, BeginWrite, env
<1>5. CASE \E x \in File : Purge(w, x)
  <2>1. UNCHANGED <<env, ids, writer>>
    BY <1>5 DEF Purge
  <2> QED
    BY <1>0, <1>5, <2>1 DEF RowTurn, env
<1>6. CASE \E s \in Session, x \in File : BeginFinish(w, s, x)
  BY <1>0, <1>6 DEF RowTurn, BeginFinish, env
<1>7. CASE \E s \in Session : BeginChunk(w, s)
  BY <1>0, <1>7 DEF RowTurn, BeginChunk, env
<1>8. CASE \E s \in Session : Settle(w, s)
  <2>1. UNCHANGED <<env, ids, writer, accepted>>
    BY <1>8 DEF Settle
  <2> QED
    BY <1>0, <1>8, <2>1 DEF RowTurn, env
<1> QED
  BY <1>2, <1>3, <1>4, <1>5, <1>6, <1>7, <1>8 DEF Acts

(* A rename, a move, a new session and the clock touch no bytes and name   *)
(* no others.                                                              *)
Quiet ==
    /\ task' = task /\ writer' = writer /\ at' = at /\ ids' = ids /\ accepted' = accepted
    /\ here' = here /\ backup' = backup
    /\ db' \in Database /\ db'.files = db.files /\ db'.ready = db.ready
    /\ boots' = boots /\ sweepDue' = sweepDue /\ clock' \in Nat /\ clock' >= clock

(* So are a touch, a new session and a tick.                               *)
LEMMA QuietSteps ==
    ASSUME TypeOK
    PROVE  /\ \A x \in File : Touch(x) => Quiet
           /\ \A s \in Session : OpenSession(s) => Quiet
           /\ Tick => Quiet
<1>0. db \in Database /\ clock \in Nat
  BY DEF TypeOK
<1>1. ASSUME NEW x \in File, Touch(x) PROVE Quiet
  <2>1. db' \in Database /\ db'.files = db.files /\ db'.ready = db.ready
    BY <1>1, BareRowSteps
  <2>2. UNCHANGED <<at, ids, accepted, writer, env, task>>
    BY <1>1 DEF Touch
  <2> QED
    BY <1>0, <2>1, <2>2 DEF Quiet, env
<1>2. ASSUME NEW s \in Session, OpenSession(s) PROVE Quiet
  <2>1. db' \in Database /\ db'.files = db.files /\ db'.ready = db.ready
    BY <1>2, BareRowSteps
  <2>2. UNCHANGED <<at, ids, accepted, writer, env, task>>
    BY <1>2 DEF OpenSession
  <2> QED
    BY <1>0, <2>1, <2>2 DEF Quiet, env
<1>3. Tick => Quiet
  BY <1>0 DEF Tick, Quiet
<1> QED
  BY <1>1, <1>2, <1>3

(* At a boot every request is gone; the database is this one, or the copy. *)
LEMMA BootIs ==
    ASSUME TypeOK, Boot
    PROVE  /\ \A w \in Worker : task'[w] = Idle
           /\ task' \in [Worker -> Task] /\ writer' = Free
           /\ here' = here /\ at' = at /\ ids' = ids /\ accepted' = accepted /\ clock' = clock
           /\ db' \in {db, backup} /\ backup' \in {db', backup}
           /\ ~MayRestore => db' = db /\ backup' = backup
           /\ MayRestore => backup' = db'
           /\ boots' \in Nat /\ sweepDue' \in BOOLEAN
  BY IdleIs DEF Boot, TypeOK

-----------------------------------------------------------------------------
(* The invariant is kept: types, the lock, and whose file is whose.        *)

(* Every variable keeps its type.                                          *)
LEMMA TypeStep ==
    ASSUME IInv, Next
    PROVE  TypeOK'
<1>0. /\ TypeOK /\ at' \in [Key -> Nat]
      /\ \A w \in Worker : task[w].file \subseteq ids
  BY BytesMove DEF IInv, FileOf
<1>1. /\ here \in Deployments /\ db \in Database /\ backup \in Database /\ ids \subseteq File
      /\ accepted \subseteq ids /\ writer \in Worker \cup {Free} /\ clock \in Nat /\ boots \in Nat
      /\ sweepDue \in BOOLEAN /\ task \in [Worker -> Task]
  BY <1>0 DEF TypeOK
<1>2. ASSUME NEW w \in Worker, Acts(w) PROVE TypeOK'
  <2>1. db' \in Database /\ accepted' \subseteq ids
    <3>1. CASE db' = db /\ accepted' = accepted
      BY <1>1, <3>1
    <3>2. CASE CommitRow(w)
      <4>1. PICK x \in task[w].file : db' \in Database /\ accepted' = accepted \cup {x}
        BY <1>0, <3>2, RowSteps
      <4> QED
        BY <1>0, <1>1, <4>1
    <3>3. CASE \E x \in File : Purge(w, x)
      <4>1. PICK x \in File : db' \in Database /\ accepted' = accepted \ {x}
        BY <1>0, <3>3, RowSteps
      <4> QED
        BY <1>1, <4>1
    <3>4. CASE \E s \in Session : Settle(w, s) /\ accepted' = accepted
      BY <1>0, <1>1, <3>4, RowSteps
    <3> QED
      BY <1>0, <1>2, <3>1, <3>2, <3>3, <3>4, RowTurns DEF RowTurn
  <2>2. task' \in [Worker -> Task]
    BY <1>0, <1>2, TaskTurn
  <2> QED
    BY <1>0, <1>1, <1>2, <2>1, <2>2, RowTurns DEF TypeOK
<1>3. CASE Quiet
  BY <1>0, <1>1, <1>3 DEF TypeOK, Quiet
<1>4. CASE Boot
  BY <1>0, <1>1, <1>4, BootIs DEF TypeOK
<1> QED
  BY <1>0, <1>2, <1>3, <1>4, WhoActs, QuietSteps

(* Only who writes or sweeps holds the lock.                               *)
LEMMA HoldersStep ==
    ASSUME IInv, Next
    PROVE  Holders'
<1>0. TypeOK /\ \A w \in Worker : task[w].op \in Holding <=> writer = w
  BY DEF IInv, Holders, Holding
<1>1. SUFFICES \A w \in Worker : task'[w].op \in Holding <=> writer' = w
  BY DEF Holders, Holding, Writing
<1>2. ASSUME NEW w \in Worker, Acts(w), NEW v \in Worker
      PROVE  task'[v].op \in Holding <=> writer' = v
  <2>1. LockTurn(w) /\ (v # w => task'[v] = task[v])
    BY <1>0, <1>2, LockTurns, TaskTurn DEF Stays
  <2> QED
    BY <1>0, <2>1, NobodyType DEF LockTurn
<1>3. CASE Quiet
  BY <1>0, <1>3 DEF Quiet
<1>4. CASE Boot
  BY <1>0, <1>4, BootIs, IdleIs, NobodyType DEF Holding, Writing
<1> QED
  BY <1>0, <1>2, <1>3, <1>4, WhoActs, QuietSteps

(* A file that a request is taking is nobody else's.                       *)
LEMMA TakenIsFree ==
    ASSUME IInv, NEW w \in Worker, NEW v \in Worker, v # w, task[v].op \in Busy, NEW x \in File,
           \/ BeginWrite(w, x) \/ Purge(w, x) \/ \E s \in Session : BeginFinish(w, s, x)
    PROVE  x \notin task[v].file
<1>0. /\ FileOf(task[v]) /\ Holders /\ task[v].op \in Writing \cup Unlinking \cup {"lock"}
  BY DEF IInv, Busy
<1>1. CASE x \notin ids
  BY <1>0, <1>1 DEF FileOf
<1>2. CASE x \in db.files /\ writer = Free
  <2>1. task[v].op \notin Writing
    BY <1>0, <1>2, NobodyType DEF Holders
  <2> QED
    BY <1>0, <1>2, <2>1 DEF FileOf
<1> QED
  BY <1>1, <1>2 DEF BeginWrite, Purge, BeginFinish

(* No two requests come to work on one file.                               *)
LEMMA FilesApartStep ==
    ASSUME IInv, Next
    PROVE  FilesApart'
<1>0. TypeOK /\ FilesApart
  BY DEF IInv
<1>1. ASSUME NEW w \in Worker, Acts(w), NEW v \in Worker, v # w,
             task'[v].op \in Busy, task'[w].op \in Busy
      PROVE  task'[v].file \cap task'[w].file = {}
  <2>1. task'[v] = task[v] /\ (Takes(w) \/ GoesOn(w))
    BY <1>0, <1>1, TaskTurn DEF Stays
  <2>2. CASE Takes(w)
    BY <1>1, <2>1, <2>2, TakenIsFree DEF Takes
  <2>3. CASE GoesOn(w)
    <3>1. task[w].op \in Busy
      BY <1>1, <2>3 DEF GoesOn, Busy
    <3> QED
      BY <1>0, <1>1, <2>1, <2>3, <3>1 DEF GoesOn, FilesApart
  <2> QED
    BY <2>1, <2>2, <2>3
<1>2. ASSUME NEW w \in Worker, Acts(w) PROVE FilesApart'
  <2>1. ASSUME NEW u \in Worker, NEW v \in Worker, u # v, task'[u].op \in Busy, task'[v].op \in Busy
        PROVE  task'[u].file \cap task'[v].file = {}
    <3>1. CASE u = w
      BY <1>1, <1>2, <2>1, <3>1
    <3>2. CASE v = w
      BY <1>1, <1>2, <2>1, <3>2
    <3>3. CASE u # w /\ v # w
      <4>1. task'[u] = task[u] /\ task'[v] = task[v]
        BY <1>0, <1>2, <3>3, TaskTurn DEF Stays
      <4> QED
        BY <1>0, <2>1, <4>1 DEF FilesApart
    <3> QED
      BY <3>1, <3>2, <3>3
  <2> QED
    BY <2>1 DEF FilesApart, Busy, Writing, Unlinking
<1>3. CASE Quiet
  BY <1>0, <1>3 DEF Quiet, FilesApart, Busy, Writing, Unlinking
<1>4. CASE Boot
  BY <1>0, <1>4, BootIs, IdleIs DEF FilesApart, Busy, Writing, Unlinking
<1> QED
  BY <1>0, <1>2, <1>3, <1>4, WhoActs, QuietSteps

(* The row that is written is of the request's file.                       *)
Commits(w, x) ==
    /\ x \in File /\ task[w].file = {x} /\ task[w].op = "insert" /\ at' = at /\ ids' = ids
    /\ db'.files = db.files \cup {x}
    /\ db'.ready = IF task[w].thumb THEN db.ready \cup {x} ELSE db.ready
    /\ accepted' = accepted \cup {x}

(* What a commit writes.                                                   *)
LEMMA CommitIs ==
    ASSUME IInv, NEW w \in Worker, CommitRow(w)
    PROVE  \E x \in task[w].file : Commits(w, x)
<1>1. TypeOK /\ FileOf(task[w])
  BY DEF IInv
<1>2. PICK x \in task[w].file :
         /\ db'.files = db.files \cup {x}
         /\ db'.ready = IF task[w].thumb THEN db.ready \cup {x} ELSE db.ready
         /\ accepted' = accepted \cup {x} /\ x \in File
  BY <1>1, RowSteps
<1>3. task[w].op = "insert" /\ at' = at /\ ids' = ids
  BY DEF CommitRow
<1>4. task[w].file = {x}
  BY <1>1 DEF FileOf
<1> QED
  BY <1>2, <1>3, <1>4 DEF Commits

(* What a purge takes from the rows.                                       *)
LEMMA PurgeIs ==
    ASSUME TypeOK, NEW w \in Worker, NEW x \in File, Purge(w, x)
    PROVE  /\ x \in db.files /\ db'.files = db.files \ {x} /\ db'.ready = db.ready \ {x}
           /\ accepted' = accepted \ {x} /\ at' = at /\ ids' = ids /\ writer' = writer
  BY RowSteps DEF Purge

(* Rows of files come from a commit and from nowhere else.                 *)
NoRowComes ==
    /\ db'.files \subseteq db.files /\ db'.ready \subseteq db.ready
    /\ accepted' \subseteq accepted

(* Any other step brings no row.                                           *)
LEMMA RowsCome ==
    ASSUME IInv, NEW w \in Worker, Acts(w)
    PROVE  NoRowComes \/ \E x \in task[w].file : CommitRow(w) /\ Commits(w, x)
<1>0. TypeOK
  BY DEF IInv
<1>1. CASE db' = db /\ accepted' = accepted
  BY <1>1 DEF NoRowComes
<1>2. CASE CommitRow(w)
  BY <1>2, CommitIs
<1>3. CASE \E x \in File : Purge(w, x)
  BY <1>0, <1>3, PurgeIs DEF NoRowComes
<1>4. CASE \E s \in Session : Settle(w, s) /\ accepted' = accepted
  BY <1>0, <1>4, RowSteps DEF NoRowComes
<1> QED
  BY <1>0, <1>1, <1>2, <1>3, <1>4, RowTurns DEF RowTurn

(* The file of a request stays what it was: new, pushed, or purged.        *)
LEMMA FileOfStep ==
    ASSUME IInv, Next
    PROVE  \A w \in Worker : FileOf(task[w])'
<1>0. /\ TypeOK /\ FilesApart /\ RowsHold /\ accepted \subseteq ids
      /\ \A w \in Worker : FileOf(task[w])
      /\ db.files \subseteq ids /\ backup.files \subseteq ids
  BY DEF IInv, TypeOK, RowsHold
<1>1. ASSUME NEW w \in Worker, Acts(w), NEW v \in Worker, v # w
      PROVE  FileOf(task[v])'
  <2>1. task'[v] = task[v] /\ ids \subseteq ids' /\ backup' = backup
    BY <1>0, <1>1, TaskTurn, RowTurns DEF Stays
  <2>2. CASE NoRowComes
    BY <1>0, <2>1, <2>2 DEF FileOf, NoRowComes
  <2>3. CASE \E x \in task[w].file : Commits(w, x)
    <3>1. PICK x \in task[w].file : Commits(w, x)
      BY <2>3
    <3>2. task[v].op \in Busy => x \notin task[v].file
      BY <1>0, <1>1, <3>1 DEF FilesApart, Commits, Busy, Writing
    <3> QED
      BY <1>0, <2>1, <3>1, <3>2 DEF FileOf, Commits, Busy
  <2> QED
    BY <1>1, <2>2, <2>3, RowsCome
<1>2. ASSUME NEW w \in Worker, Acts(w)
      PROVE  FileOf(task[w])'
  <2>1. ids \subseteq ids' /\ backup' = backup
    BY <1>0, <1>2, RowTurns
  <2>2. CASE Takes(w)
    <3>1. ASSUME NEW x \in File, BeginWrite(w, x), task'[w].op = "put", task'[w].file = {x}
          PROVE  FileOf(task[w])'
      <4>1. x \in ids' /\ db' = db /\ (x \in Pushed \/ x \notin ids)
        BY <3>1 DEF BeginWrite
      <4> QED
        BY <1>0, <2>1, <3>1, <4>1 DEF FileOf, Writing, Unlinking
    <3>2. ASSUME NEW x \in File, Purge(w, x), task'[w].op = "unlink_file", task'[w].file = {x}
          PROVE  FileOf(task[w])'
      BY <1>0, <2>1, <3>2, PurgeIs DEF FileOf, Writing, Unlinking
    <3>3. ASSUME NEW s \in Session, NEW x \in File, BeginFinish(w, s, x),
                 task'[w].op = "lock", task'[w].file = {x}
          PROVE  FileOf(task[w])'
      <4>1. x \in ids' /\ db' = db /\ x \notin ids
        BY <3>3 DEF BeginFinish
      <4> QED
        BY <1>0, <2>1, <3>3, <4>1 DEF FileOf, Writing, Unlinking
    <3> QED
      BY <2>2, <3>1, <3>2, <3>3 DEF Takes
  <2>3. CASE GoesOn(w)
    <3>1. CASE NoRowComes
      BY <1>0, <2>1, <2>3, <3>1 DEF FileOf, GoesOn, NoRowComes
    <3>2. CASE CommitRow(w)
      <4>1. task'[w].op \in {"idle", "cleanup"}
        BY <1>0, <3>2, FileSteps DEF Turn
      <4> QED
        BY <1>0, <2>1, <2>3, <4>1 DEF FileOf, GoesOn, Writing, Unlinking
    <3> QED
      BY <1>2, <3>1, <3>2, RowsCome
  <2> QED
    BY <1>0, <1>2, <2>2, <2>3, TaskTurn
<1>3. CASE Quiet
  BY <1>0, <1>3 DEF Quiet, FileOf
<1>4. CASE Boot
  <2>1. \A w \in Worker : task'[w].op = "idle" /\ task'[w].file = {}
    BY <1>0, <1>4, BootIs, IdleIs
  <2> QED
    BY <2>1 DEF FileOf, Writing, Unlinking
<1> QED
  BY <1>0, <1>1, <1>2, <1>3, <1>4, WhoActs, QuietSteps

(* The rows of the database and of its copy stay in step.                  *)
LEMMA RowsHoldStep ==
    ASSUME IInv, Next
    PROVE  RowsHold'
<1>0. /\ TypeOK /\ RowsHold
      /\ \A w \in Worker : FileOf(task[w]) /\ BytesOf(task[w])
  BY DEF IInv
<1>1. ASSUME NEW w \in Worker, Acts(w) PROVE RowsHold'
  <2>1. ids \subseteq ids' /\ backup' = backup /\ MayRestore' = MayRestore
    BY <1>0, <1>1, RowTurns DEF MayRestore
  <2>2. CASE db' = db /\ accepted' = accepted
    BY <1>0, <2>1, <2>2 DEF RowsHold
  <2>3. CASE CommitRow(w)
    <3>1. PICK x \in task[w].file : Commits(w, x)
      BY <2>3, CommitIs
    <3>2. /\ x \in ids /\ (x \notin Pushed => x \notin backup.files)
          /\ task[w].thumb => x \notin Pushed
      BY <1>0, <3>1 DEF Commits, FileOf, BytesOf, Writing
    <3> QED
      BY <1>0, <2>1, <3>1, <3>2 DEF RowsHold, Commits
  <2>4. CASE \E x \in File : Purge(w, x)
    <3>1. PICK x \in File : Purge(w, x)
      BY <2>4
    <3> QED
      BY <1>0, <2>1, <3>1, PurgeIs DEF RowsHold
  <2>5. CASE \E s \in Session : Settle(w, s) /\ accepted' = accepted
    <3>1. db'.files = db.files /\ db'.ready = db.ready /\ accepted' = accepted
      BY <1>0, <2>5, RowSteps
    <3> QED
      BY <1>0, <2>1, <3>1 DEF RowsHold
  <2> QED
    BY <1>0, <1>1, <2>2, <2>3, <2>4, <2>5, RowTurns DEF RowTurn
<1>2. CASE Quiet
  BY <1>0, <1>2 DEF Quiet, RowsHold, MayRestore
<1>3. CASE Boot
  <2>1. /\ ids' = ids /\ accepted' = accepted /\ here' = here
        /\ ~MayRestore => db' = db /\ backup' = backup
        /\ MayRestore => backup' = db'
        /\ db' \in {db, backup}
    BY <1>0, <1>3, BootIs
  <2> QED
    BY <1>0, <2>1 DEF RowsHold, MayRestore
<1> QED
  BY <1>0, <1>1, <1>2, <1>3, WhoActs, QuietSteps

(* No stamp gets ahead of the clock.                                       *)
LEMMA MomentsStep ==
    ASSUME IInv, Next
    PROVE  MomentsPassed'
<1>0. /\ TypeOK /\ clock > 0
      /\ clock \in Nat /\ db \in Database /\ backup \in Database
      /\ db.stamp \in [File -> Nat] /\ db.opened \in [Session -> Nat]
      /\ \A x \in File : db.stamp[x] <= clock /\ backup.stamp[x] <= clock
      /\ \A s \in Session : db.opened[s] <= clock /\ backup.opened[s] <= clock
  BY DEF IInv, MomentsPassed, TypeOK, Database
<1> DEFINE Early == /\ \A x \in File : db'.stamp[x] <= clock
                    /\ \A s \in Session : db'.opened[s] <= clock
<1>a. ASSUME Early, clock' = clock, backup' = backup PROVE MomentsPassed'
  BY <1>0, <1>a DEF MomentsPassed
<1>1. ASSUME NEW w \in Worker, Acts(w) PROVE MomentsPassed'
  <2>1. backup' = backup /\ clock' = clock
    BY <1>0, <1>1, RowTurns
  <2>2. CASE db' = db
    BY <1>0, <1>a, <2>1, <2>2
  <2>3. CASE CommitRow(w)
    <3>1. PICK x \in File : db'.stamp = [db.stamp EXCEPT ![x] = clock] /\ db'.opened = db.opened
      BY <1>0, <2>3, RowSteps
    <3>2. Early
      BY <1>0, <3>1
    <3> QED
      BY <1>a, <2>1, <3>2
  <2>4. CASE \E x \in File : Purge(w, x)
    <3>1. PICK x \in File : db'.stamp = [db.stamp EXCEPT ![x] = 0] /\ db'.opened = db.opened
      BY <1>0, <2>4, RowSteps
    <3>2. Early
      BY <1>0, <3>1
    <3> QED
      BY <1>a, <2>1, <3>2
  <2>5. CASE \E s \in Session : Settle(w, s)
    <3>1. db'.stamp = db.stamp /\ db'.opened = db.opened
      BY <1>0, <2>5, RowSteps
    <3>2. Early
      BY <1>0, <3>1
    <3> QED
      BY <1>a, <2>1, <3>2
  <2> QED
    BY <1>0, <1>1, <2>2, <2>3, <2>4, <2>5, RowTurns DEF RowTurn
<1>2. ASSUME NEW x \in File, Touch(x) PROVE MomentsPassed'
  <2>1. db'.stamp = [db.stamp EXCEPT ![x] = clock] /\ db'.opened = db.opened
    BY <1>0, <1>2, BareRowSteps
  <2>2. Early
    BY <1>0, <2>1
  <2>3. clock' = clock /\ backup' = backup
    BY <1>2 DEF Touch, env
  <2> QED
    BY <1>a, <2>2, <2>3
<1>3. ASSUME NEW s \in Session, OpenSession(s) PROVE MomentsPassed'
  <2>1. db'.opened = [db.opened EXCEPT ![s] = clock] /\ db'.stamp = db.stamp
    BY <1>0, <1>3, BareRowSteps
  <2>2. Early
    BY <1>0, <2>1
  <2>3. clock' = clock /\ backup' = backup
    BY <1>3 DEF OpenSession, env
  <2> QED
    BY <1>a, <2>2, <2>3
<1>4. CASE Boot
  <2>1. clock' = clock /\ db' \in {db, backup} /\ backup' \in {db, backup}
    BY <1>0, <1>4, BootIs
  <2> QED
    BY <1>0, <2>1 DEF MomentsPassed
<1>5. CASE Tick
  <2>1. clock' = clock + 1 /\ db' = db /\ backup' = backup
    BY <1>5 DEF Tick
  <2>2. /\ \A x \in File : db.stamp[x] \in Nat /\ backup.stamp[x] \in Nat
        /\ \A s \in Session : db.opened[s] \in Nat /\ backup.opened[s] \in Nat
    BY <1>0 DEF Database
  <2> QED
    BY <1>0, <2>1, <2>2 DEF MomentsPassed
<1> QED
  BY <1>1, <1>2, <1>3, <1>4, <1>5, WhoActs

-----------------------------------------------------------------------------
(* The invariant is kept: the bytes of rows and of requests.               *)

(* What is born stays born, and a server's deployment is for life.         *)
LEMMA IdsGrow ==
    ASSUME TypeOK, Next
    PROVE  ids \subseteq ids' /\ here' = here
  BY WhoActs, RowTurns, QuietSteps, BootIs DEF Quiet

(* Bytes belong to ids that were generated.                                *)
LEMMA BornStep ==
    ASSUME IInv, Next
    PROVE  BytesAreBorn'
<1>1. /\ TypeOK /\ BytesAreBorn
      /\ \A w \in Worker : task[w].file \subseteq ids
  BY DEF IInv, FileOf
<1>2. ids \subseteq ids' /\ \A k \in Key : Moved(k)
  BY <1>1, IdsGrow, BytesMove
<1> QED
  BY <1>1, <1>2 DEF BytesAreBorn, Moved, Absent

(* What the rows name is not removed under them.                           *)
LEMMA NamedStays ==
    ASSUME IInv, Next, NEW x \in File
    PROVE  /\ x \in accepted /\ x \in db.files => at'[<<"files", x>>] # 0
           /\ x \in accepted /\ x \in db.ready => at'[<<"thumbs", x>>] # 0
<1>0. /\ TypeOK /\ clock > 0 /\ KnownIsKept /\ ThumbsAreKept /\ RowsHold
      /\ \A w \in Worker : FileOf(task[w]) /\ DoomedOf(task[w])
  BY DEF IInv, MomentsPassed
<1>1. \A w \in Worker : UnlinkFile(w) \/ UnlinkThumb(w) => task[w].op \in Unlinking
  BY DEF UnlinkFile, UnlinkThumb, Unlinking
<1>2. \A w \in Worker : Reclaim(w) => task[w].doomed \cap Known = {}
  BY <1>0 DEF Reclaim, DoomedOf
<1>3. ASSUME x \in accepted, x \in db.files, at'[<<"files", x>>] = 0
      PROVE  FALSE
  <2> DEFINE k == <<"files", x>>
  <2>1. k \in Key /\ k[1] = "files" /\ k[2] = x /\ k \in Known
    BY <1>3, KeyIs DEF Known
  <2>2. at[k] # 0
    BY <1>0, <1>3 DEF KnownIsKept, Absent
  <2> HIDE DEF k
  <2>3. Removed(k)
    BY <1>0, <1>3, <2>1, <2>2, BytesGo DEF k
  <2> QED
    BY <1>0, <1>1, <1>2, <1>3, <2>1, <2>3 DEF Removed, FileOf
<1>4. ASSUME x \in accepted, x \in db.ready, at'[<<"thumbs", x>>] = 0
      PROVE  FALSE
  <2> DEFINE k == <<"thumbs", x>>
  <2>1. k \in Key /\ k[1] = "thumbs" /\ k[2] = x /\ k \in Known
    BY <1>4, KeyIs DEF Known
  <2>2. at[k] # 0
    BY <1>0, <1>4 DEF ThumbsAreKept, Absent
  <2> HIDE DEF k
  <2>3. Removed(k)
    BY <1>0, <1>4, <2>1, <2>2, BytesGo DEF k
  <2>4. x \in db.files /\ x \notin Pushed
    BY <1>0, <1>4 DEF RowsHold
  <2>5. \A w \in Worker : PutThumb(w) => x \notin task[w].file
    BY <1>0, <2>4 DEF PutThumb, FileOf, Writing
  <2> QED
    BY <1>0, <1>1, <1>2, <1>4, <2>1, <2>3, <2>4, <2>5 DEF Removed, FileOf
<1> QED
  BY <1>3, <1>4

(* What the rows name, of what was accepted, keeps its bytes.              *)
LEMMA KeptStep ==
    ASSUME IInv, Next
    PROVE  KnownIsKept' /\ ThumbsAreKept'
<1>0. /\ TypeOK /\ RowsHold /\ KnownIsKept /\ ThumbsAreKept
      /\ accepted \subseteq File
      /\ \A w \in Worker : FileOf(task[w]) /\ BytesOf(task[w])
  BY DEF IInv, TypeOK
<1>1. ASSUME /\ accepted' \cap db'.files \subseteq accepted \cap db.files
             /\ accepted' \cap db'.ready \subseteq accepted \cap db.ready
      PROVE  KnownIsKept' /\ ThumbsAreKept'
  BY <1>0, <1>1, NamedStays DEF KnownIsKept, ThumbsAreKept, Absent
<1>2. ASSUME NEW w \in Worker, Acts(w) PROVE KnownIsKept' /\ ThumbsAreKept'
  <2>1. CASE NoRowComes
    BY <1>1, <2>1 DEF NoRowComes
  <2>2. CASE \E x \in task[w].file : Commits(w, x)
    <3>1. PICK x \in task[w].file : Commits(w, x)
      BY <2>2
    <3>2. at[<<"files", x>>] # Absent /\ (task[w].thumb => at[<<"thumbs", x>>] # Absent)
      BY <1>0, <3>1 DEF Commits, BytesOf
    <3>3. KnownIsKept'
      BY <1>0, <3>1, <3>2 DEF KnownIsKept, Commits
    <3>4. ThumbsAreKept'
      <4>1. ASSUME NEW y \in accepted' \cap db'.ready PROVE at'[<<"thumbs", y>>] # Absent
        <5>1. y \in db.ready \/ (task[w].thumb /\ y = x)
          BY <3>1 DEF Commits
        <5>2. CASE y \in db.ready
          <6>1. x \notin db.ready
            BY <1>0, <3>1 DEF Commits, FileOf, RowsHold, Writing
          <6> QED
            BY <1>0, <3>1, <5>2, <6>1 DEF Commits, ThumbsAreKept
        <5> QED
          BY <3>1, <3>2, <5>1, <5>2 DEF Commits
      <4> QED
        BY <4>1 DEF ThumbsAreKept
    <3> QED
      BY <3>3, <3>4
  <2> QED
    BY <1>2, <2>1, <2>2, RowsCome
<1>3. CASE Quiet
  BY <1>1, <1>3 DEF Quiet
<1>4. CASE Boot
  <2>1. accepted' = accepted /\ db' \in {db, backup}
    BY <1>0, <1>4, BootIs
  <2> QED
    BY <1>0, <1>1, <2>1 DEF RowsHold
<1> QED
  BY <1>0, <1>2, <1>3, <1>4, WhoActs, QuietSteps

(* A request that writes keeps what it has put, until it is refused or     *)
(* writes the thumbnail again.                                             *)
LEMMA WritingKeeps ==
    ASSUME IInv, Next, NEW v \in Worker, task[v].op \in Writing, NEW k \in Key,
           k[1] \in {"files", "thumbs"}, k[2] \in task[v].file, at[k] # 0, at'[k] = 0
    PROVE  RefuseRow(v) \/ (PutThumb(v) /\ k[1] = "thumbs")
<1>0. /\ TypeOK /\ clock > 0 /\ FilesApart /\ Holders
  BY DEF IInv, MomentsPassed
<1>1. Removed(k)
  BY <1>0, BytesGo
<1>2. ASSUME NEW w \in Worker, RefuseRow(w) \/ PutThumb(w)
      PROVE  w = v
  <2>1. task[w].op \in Writing
    BY <1>2 DEF RefuseRow, PutThumb, Writing
  <2> QED
    BY <1>0, <2>1 DEF Holders
<1>3. ASSUME NEW w \in Worker, UnlinkFile(w) \/ UnlinkThumb(w)
      PROVE  k[2] \notin task[w].file
  <2>1. task[w].op \in Unlinking
    BY <1>3 DEF UnlinkFile, UnlinkThumb, Unlinking
  <2> QED
    BY <1>0, <2>1 DEF FilesApart, Busy, Writing, Unlinking
<1>4. ASSUME NEW w \in Worker, Reclaim(w)
      PROVE  FALSE
  <2>1. task[w].op = "sweep"
    BY <1>4 DEF Reclaim
  <2> QED
    BY <1>0, <2>1 DEF Holders, Writing
<1> QED
  BY <1>1, <1>2, <1>3, <1>4 DEF Removed

(* Which steps leave a request with its bytes written.                     *)
LEMMA BytesTurn ==
    ASSUME TypeOK, NEW w \in Worker, Acts(w), task'[w].op \in {"thumb", "insert"}
    PROVE  \/ task'[w].op = "thumb" /\ (PutRemote(w) \/ Place(w))
           \/ task'[w].op = "insert" /\ PutThumb(w)
<1>1. CASE \E x \in File : BeginWrite(w, x) \/ Purge(w, x) \/ \E s \in Session : BeginFinish(w, s, x)
  BY <1>1, BeginSteps DEF Turn
<1>2. CASE \E s \in Session : BeginChunk(w, s) \/ Settle(w, s)
  <2>1. task'[w].op \in {"stage", "cleanup"}
    BY <1>2, BeginSteps DEF Turn
  <2> QED
    BY <2>1
<1>3. CASE BeginSweep(w) \/ ListDir(w) \/ Reclaim(w)
  <2>1. task'[w].op = "sweep"
    BY <1>3, SweepSteps DEF SweepTurn
  <2> QED
    BY <2>1
<1>4. CASE \/ PutTemp(w) \/ RefuseRow(w) \/ LockFinish(w) \/ DropTemp(w) \/ UnlinkFile(w)
           \/ UnlinkThumb(w) \/ StageChunk(w) \/ Cleanup(w) \/ EndSweep(w) \/ Abandon(w)
  <2>1. task'[w].op \in {"place", "idle", "unlink_thumb"}
    BY <1>4, FileSteps DEF Turn
  <2> QED
    BY <2>1
<1>5. CASE CommitRow(w)
  <2>1. task'[w].op \in {"idle", "cleanup"}
    BY <1>5, FileSteps DEF Turn
  <2> QED
    BY <2>1
<1>6. CASE PutRemote(w) \/ Place(w)
  <2>1. task'[w].op = "thumb"
    BY <1>6, FileSteps DEF Turn
  <2> QED
    BY <1>6, <2>1
<1>7. CASE PutThumb(w)
  <2>1. task'[w].op = "insert"
    BY <1>7, FileSteps DEF Turn
  <2> QED
    BY <1>7, <2>1
<1> QED
  BY <1>1, <1>2, <1>3, <1>4, <1>5, <1>6, <1>7 DEF Acts, RequestStep

(* A request goes on having what it has put.                               *)
LEMMA BytesOfStep ==
    ASSUME IInv, Next
    PROVE  \A w \in Worker : BytesOf(task[w])'
<1>0. /\ TypeOK /\ clock > 0 /\ clock \in Nat
      /\ \A w \in Worker : /\ FileOf(task[w]) /\ BytesOf(task[w]) /\ task[w].file \subseteq File
                           /\ task[w].thumb \in BOOLEAN
  BY DEF IInv, MomentsPassed, TypeOK, Task
<1>1. ASSUME NEW v \in Worker, task'[v] = task[v]
      PROVE  BytesOf(task[v])'
  <2>1. ASSUME task[v].op \in {"thumb", "insert"}
        PROVE  ~RefuseRow(v) /\ ~PutThumb(v) /\ task[v].op \in Writing
    <3>1. RefuseRow(v) => task[v].op = "insert" /\ task'[v].op = "idle"
      BY <1>0, FileSteps DEF Turn
    <3>2. PutThumb(v) => task[v].op = "thumb" /\ task'[v].op = "insert"
      BY <1>0, FileSteps DEF Turn
    <3> QED
      BY <1>1, <2>1, <3>1, <3>2 DEF Writing
  <2>2. ASSUME task[v].op \in {"thumb", "insert"}, NEW x \in task[v].file, NEW d \in {"files", "thumbs"},
               at[<<d, x>>] # 0
        PROVE  at'[<<d, x>>] # 0
    <3> DEFINE k == <<d, x>>
    <3>1. k \in Key /\ k[1] \in {"files", "thumbs"} /\ k[2] \in task[v].file
      BY <1>0, <2>2, KeyIs
    <3> HIDE DEF k
    <3>2. at[k] # 0 /\ (at'[k] = 0 => RefuseRow(v) \/ PutThumb(v))
      BY <2>1, <2>2, <3>1, WritingKeeps DEF k
    <3> QED
      BY <2>1, <2>2, <3>2 DEF k
  <2> QED
    BY <1>0, <1>1, <2>2 DEF BytesOf, Absent
<1>2. ASSUME NEW w \in Worker, Acts(w), task'[w].op \in {"thumb", "insert"}
      PROVE  BytesOf(task[w])'
  <2>1. CASE task'[w].op = "thumb" /\ PutRemote(w)
    <3>1. PICK x \in task[w].file : Wrote(<<"files", x>>, clock)
      BY <1>0, <2>1, ByteSteps
    <3>2. task'[w].file = {x}
      <4>1. task'[w].file = task[w].file
        BY <1>0, <2>1, FileSteps DEF Turn
      <4> QED
        BY <1>0, <3>1, <4>1 DEF FileOf
    <3> QED
      BY <1>0, <2>1, <3>1, <3>2 DEF BytesOf, Wrote, Absent
  <2>2. CASE task'[w].op = "thumb" /\ Place(w)
    <3>1. PICK x \in task[w].file :
             at'[<<"files", x>>] \in {clock, at[<<"temp", x>>]} /\ at[<<"temp", x>>] # 0
      BY <1>0, <2>2, ByteSteps
    <3>2. task'[w].file = {x}
      <4>1. task'[w].file = task[w].file
        BY <1>0, <2>2, FileSteps DEF Turn
      <4> QED
        BY <1>0, <3>1, <4>1 DEF FileOf
    <3> QED
      BY <1>0, <2>2, <3>1, <3>2 DEF BytesOf, Absent
  <2>3. CASE task'[w].op = "insert" /\ PutThumb(w)
    <3>1. PICK x \in task[w].file, placed \in BOOLEAN :
             /\ placed => Wrote(<<"thumbs", x>>, clock) /\ x \in Pictures
             /\ ~placed => Dropped({<<"thumbs", x>>})
             /\ task'[w].thumb = placed
      BY <1>0, <2>3, ByteSteps
    <3>2. task'[w].file = {x}
      <4>1. task'[w].file = task[w].file
        BY <1>0, <2>3, FileSteps DEF Turn
      <4> QED
        BY <1>0, <3>1, <4>1 DEF FileOf
    <3>3. <<"files", x>> \in Key /\ <<"files", x>> # <<"thumbs", x>>
      BY <1>0, KeyIs
    <3>4. at'[<<"files", x>>] = at[<<"files", x>>]
      BY <3>1, <3>3 DEF Wrote, Dropped
    <3>5. at[<<"files", x>>] # 0
      BY <1>0, <2>3 DEF BytesOf, PutThumb, Absent
    <3>6. placed => x \notin Pushed /\ at'[<<"thumbs", x>>] # 0
      BY <1>0, <3>1, PushedAreBare DEF Wrote
    <3> QED
      BY <2>3, <3>1, <3>2, <3>4, <3>5, <3>6 DEF BytesOf, Absent
  <2> QED
    BY <1>0, <1>2, <2>1, <2>2, <2>3, BytesTurn
<1>3. ASSUME NEW w \in Worker, Acts(w), NEW v \in Worker PROVE BytesOf(task[v])'
  <2>1. CASE v # w
    BY <1>0, <1>1, <1>3, <2>1, TaskTurn DEF Stays
  <2>2. CASE v = w /\ task'[v].op \in {"thumb", "insert"}
    BY <1>2, <1>3, <2>2
  <2>3. CASE task'[v].op \notin {"thumb", "insert"}
    BY <2>3 DEF BytesOf
  <2> QED
    BY <2>1, <2>2, <2>3
<1>4. CASE Quiet
  BY <1>1, <1>4 DEF Quiet
<1>5. CASE Boot
  <2>1. \A w \in Worker : task'[w].op = "idle"
    BY <1>0, <1>5, BootIs, IdleIs
  <2> QED
    BY <2>1 DEF BytesOf
<1> QED
  BY <1>0, <1>3, <1>4, <1>5, WhoActs, QuietSteps

-----------------------------------------------------------------------------
(* The invariant is kept: what the sweep knows.                            *)

(* Which steps leave a request sweeping.                                   *)
LEMMA SweepTurns ==
    ASSUME TypeOK, NEW w \in Worker, Acts(w), task'[w].op = "sweep"
    PROVE  BeginSweep(w) \/ ListDir(w) \/ Reclaim(w)
<1>1. CASE \E x \in File : BeginWrite(w, x) \/ Purge(w, x) \/ \E s \in Session : BeginFinish(w, s, x)
  BY <1>1, BeginSteps DEF Turn
<1>2. CASE \E s \in Session : BeginChunk(w, s) \/ Settle(w, s)
  <2>1. task'[w].op \in {"stage", "cleanup"}
    BY <1>2, BeginSteps DEF Turn
  <2> QED
    BY <2>1
<1>4. CASE \/ PutTemp(w) \/ RefuseRow(w) \/ LockFinish(w) \/ DropTemp(w) \/ UnlinkFile(w)
           \/ UnlinkThumb(w) \/ StageChunk(w) \/ Cleanup(w) \/ EndSweep(w) \/ Abandon(w)
           \/ PutRemote(w) \/ Place(w) \/ PutThumb(w)
  <2>1. task'[w].op \in {"place", "idle", "unlink_thumb", "thumb", "insert"}
    BY <1>4, FileSteps DEF Turn
  <2> QED
    BY <2>1
<1>5. CASE CommitRow(w)
  <2>1. task'[w].op \in {"idle", "cleanup"}
    BY <1>5, FileSteps DEF Turn
  <2> QED
    BY <2>1
<1> QED
  BY <1>1, <1>2, <1>4, <1>5 DEF Acts, RequestStep

(* While the sweep holds the lock, no row moves, and what comes is chunks  *)
(* and temps of new files.                                                 *)
SweptUnder(v) ==
    /\ db' = db /\ here' = here /\ ids \subseteq ids'
    /\ \A k \in Key : \/ at'[k] \in {at[k], 0}
                      \/ at'[k] = clock /\ (k[1] = "uploads" \/ k[2] \notin ids)

(* That is so of every step but a boot.                                    *)
LEMMA RowsStand ==
    ASSUME IInv, Next, ~Boot, NEW v \in Worker, task[v].op = "sweep"
    PROVE  SweptUnder(v)
<1>0. TypeOK /\ Holders /\ writer = v /\ v # Free
  BY NobodyType DEF IInv, Holders
<1>1. db' = db
  <2>1. ASSUME NEW w \in Worker, Acts(w) PROVE db' = db
    <3>1. CASE CommitRow(w)
      <4>1. task[w].op = "insert"
        BY <3>1 DEF CommitRow
      <4> QED
        BY <1>0, <4>1 DEF Holders, Writing
    <3>2. CASE \E x \in File : Purge(w, x)
      BY <1>0, <3>2 DEF Purge
    <3>3. CASE \E s \in Session : Settle(w, s)
      BY <1>0, <3>3 DEF Settle
    <3> QED
      BY <1>0, <2>1, <3>1, <3>2, <3>3, RowTurns DEF RowTurn
  <2> QED
    BY <1>0, <2>1, WhoActs DEF Touch, OpenSession, Tick
<1>2. ASSUME NEW w \in Worker PROVE task[w].op \notin Writing
  BY <1>0 DEF Holders, Writing
<1>3. \A k \in Key : Moved(k)
  BY <1>0, BytesMove
<1>4. ids \subseteq ids' /\ here' = here
  BY <1>0, IdsGrow
<1> QED
  BY <1>1, <1>2, <1>3, <1>4 DEF SweptUnder, Moved

(* The sweep goes on knowing the rows, and dooms none of theirs.           *)
LEMMA DoomedStep ==
    ASSUME IInv, Next
    PROVE  \A w \in Worker : DoomedOf(task[w])'
<1>0. /\ TypeOK /\ BytesAreBorn
      /\ \A w \in Worker : DoomedOf(task[w]) /\ task[w].doomed \subseteq Key
  BY DEF IInv, TypeOK, Task
<1>1. ASSUME NEW v \in Worker, task[v].op = "sweep", ~Boot, task'[v].op = "sweep",
             task'[v].known = task[v].known, task'[v].moments = task[v].moments,
             task'[v].doomed \subseteq task[v].doomed
      PROVE  DoomedOf(task[v])'
  <2>1. SweptUnder(v)
    BY <1>1, RowsStand
  <2>2. Known' = Known /\ Moments' = Moments
    BY <2>1 DEF SweptUnder, Known, Moments
  <2>3. /\ task[v].known = Known /\ task[v].moments = Moments /\ task[v].doomed \cap Known = {}
        /\ \A k \in task[v].doomed : k[1] # "uploads" =>
             k[2] \in ids /\ (at[k] = Absent \/ Reclaimable(k, task[v].moments))
    BY <1>0, <1>1 DEF DoomedOf
  <2>4. ASSUME NEW k \in task'[v].doomed, k[1] # "uploads"
        PROVE  k[2] \in ids' /\ (at'[k] = Absent \/ Reclaimable(k, task[v].moments)')
    <3>1. k \in Key /\ k \in task[v].doomed /\ k[2] \in ids
      BY <1>0, <1>1, <2>3, <2>4
    <3>2. k[2] \in ids' /\ at'[k] \in {at[k], 0} /\ here' = here
      BY <2>1, <2>4, <3>1 DEF SweptUnder
    <3>3. at[k] = Absent \/ Reclaimable(k, task[v].moments)
      BY <2>3, <2>4, <3>1
    <3>4. CASE at'[k] = 0
      BY <3>2, <3>4 DEF Absent
    <3>5. CASE at'[k] = at[k] /\ Reclaimable(k, task[v].moments)
      <4>1. Reclaimable(k, task[v].moments)'
        BY <1>1, <3>1, <3>2, <3>5 DEF Reclaimable, Modified, InBucket, Remote
      <4> QED
        BY <1>1, <3>2, <4>1 DEF Reclaimable
    <3> QED
      BY <3>2, <3>3, <3>4, <3>5 DEF Absent
  <2> QED
    BY <1>1, <2>2, <2>3, <2>4 DEF DoomedOf
<1>2. ASSUME NEW w \in Worker, Acts(w), ~Boot, NEW v \in Worker, v # w
      PROVE  DoomedOf(task[v])'
  <2>1. task'[v] = task[v]
    BY <1>0, <1>2, TaskTurn DEF Stays
  <2>2. CASE task[v].op = "sweep"
    BY <1>1, <1>2, <2>1, <2>2
  <2>3. CASE task[v].op # "sweep"
    BY <2>1, <2>3 DEF DoomedOf
  <2> QED
    BY <2>2, <2>3
<1>3. ASSUME NEW w \in Worker, Acts(w), ~Boot, task'[w].op = "sweep"
      PROVE  DoomedOf(task[w])'
  <2>1. CASE BeginSweep(w)
    <3>1. task'[w].doomed = {} /\ task'[w].known = Known /\ task'[w].moments = Moments
      BY <1>0, <2>1, SweepSteps DEF SweepTurn
    <3>2. Known' = Known /\ Moments' = Moments
      BY <2>1 DEF BeginSweep, Known, Moments
    <3> QED
      BY <3>1, <3>2 DEF DoomedOf
  <2>2. CASE ListDir(w)
    <3> DEFINE d == Head(task[w].dirs)
               found == {k \in Listed(d) \ task[w].known : Reclaimable(k, task[w].moments)}
    <3>1. /\ task[w].op = "sweep" /\ task'[w].known = task[w].known
          /\ task'[w].moments = task[w].moments /\ task'[w].doomed = found
      BY <1>0, <2>2, SweepSteps DEF SweepTurn
    <3>2. SweptUnder(w) /\ task[w].known = Known /\ task[w].moments = Moments
      BY <1>0, <1>3, <3>1, RowsStand DEF DoomedOf
    <3>3. Known' = Known /\ Moments' = Moments /\ ids \subseteq ids' /\ here' = here
      BY <3>2 DEF SweptUnder, Known, Moments
    <3>4. at' = at
      BY <2>2 DEF ListDir
    <3>5. ASSUME NEW k \in found, k[1] # "uploads"
          PROVE  k[2] \in ids' /\ Reclaimable(k, task[w].moments)'
      <4>1. k \in Key /\ at[k] # Absent /\ Reclaimable(k, task[w].moments)
        BY DEF Listed
      <4>2. k[2] \in ids
        BY <1>0, <3>5, <4>1 DEF BytesAreBorn
      <4>3. Reclaimable(k, task[w].moments)'
        BY <3>1, <3>3, <3>4, <4>1 DEF Reclaimable, Modified, InBucket, Remote
      <4> QED
        BY <3>3, <4>2, <4>3
    <3>6. found \cap Known = {}
      BY <3>2
    <3> HIDE DEF found
    <3> QED
      BY <3>1, <3>2, <3>3, <3>5, <3>6 DEF DoomedOf
  <2>3. CASE Reclaim(w)
    <3>1. /\ task[w].op = "sweep" /\ task'[w].known = task[w].known
          /\ task'[w].moments = task[w].moments /\ task'[w].doomed \subseteq task[w].doomed
      BY <1>0, <2>3, SweepSteps DEF SweepTurn
    <3> QED
      BY <1>1, <1>3, <3>1
  <2> QED
    BY <1>0, <1>3, <2>1, <2>2, <2>3, SweepTurns
<1>4. ASSUME ~Boot, task' = task
      PROVE  \A v \in Worker : DoomedOf(task[v])'
  <2>1. ASSUME NEW v \in Worker PROVE DoomedOf(task[v])'
    <3>1. CASE task[v].op = "sweep"
      BY <1>1, <1>4, <3>1
    <3>2. CASE task[v].op # "sweep"
      BY <1>4, <3>2 DEF DoomedOf
    <3> QED
      BY <3>1, <3>2
  <2> QED
    BY <2>1
<1>5. CASE Boot
  <2>1. \A w \in Worker : task'[w].op = "idle"
    BY <1>0, <1>5, BootIs, IdleIs
  <2> QED
    BY <2>1 DEF DoomedOf
<1>6. CASE ~Boot
  <2>1. ASSUME NEW w \in Worker, Acts(w), NEW v \in Worker PROVE DoomedOf(task[v])'
    <3>1. CASE v = w /\ task'[w].op = "sweep"
      BY <1>3, <1>6, <2>1, <3>1
    <3>2. CASE v = w /\ task'[w].op # "sweep"
      BY <3>2 DEF DoomedOf
    <3> QED
      BY <1>2, <1>6, <2>1, <3>1, <3>2
  <2> QED
    BY <1>0, <1>4, <1>6, <2>1, WhoActs, QuietSteps DEF Quiet
<1> QED
  BY <1>5, <1>6

(* The bucket's clock rounds down, by less than its unit.                  *)
LEMMA Rounding ==
    ASSUME NEW a \in Nat, NEW r \in Nat \ {0}
    PROVE  /\ (a \div r) * r \in Nat /\ (a \div r) * r <= a
           /\ a <= (a \div r) * r + (r - 1)
  OBVIOUS

(* What is left to list, and what a listing takes from it.                 *)
LEMMA UnlistedIs ==
    ASSUME NEW t
    PROVE  /\ t.dirs = <<"files", "thumbs", "uploads">> => Unlisted(t) = {"files", "thumbs", "uploads"}
           /\ t.dirs = <<"thumbs", "uploads">> => Unlisted(t) = {"thumbs", "uploads"}
           /\ t.dirs = <<"uploads">> => Unlisted(t) = {"uploads"}
           /\ t.dirs = <<>> => Unlisted(t) = {}
<1>1. t.dirs = <<"files", "thumbs", "uploads">> => Unlisted(t) = {"files", "thumbs", "uploads"}
  BY DEF Unlisted
<1>2. t.dirs = <<"thumbs", "uploads">> => Unlisted(t) = {"thumbs", "uploads"}
  BY DEF Unlisted
<1>3. t.dirs = <<"uploads">> => Unlisted(t) = {"uploads"}
  BY DEF Unlisted
<1>4. t.dirs = <<>> => Unlisted(t) = {}
  BY DEF Unlisted
<1> QED
  BY <1>1, <1>2, <1>3, <1>4

(* A listing takes the first place off the list.                           *)
LEMMA DirsAre ==
    ASSUME NEW t, t.dirs \in AllDirs, NEW n, n.dirs = Tail(t.dirs), t.dirs # <<>>
    PROVE  /\ n.dirs \in AllDirs
           /\ Unlisted(t) = Unlisted(n) \cup {Head(t.dirs)}
<1>1. CASE t.dirs = <<"files", "thumbs", "uploads">>
  <2>1. n.dirs = <<"thumbs", "uploads">> /\ Head(t.dirs) = "files"
    BY <1>1
  <2>2. Unlisted(t) = {"files", "thumbs", "uploads"} /\ Unlisted(n) = {"thumbs", "uploads"}
    BY <1>1, <2>1, UnlistedIs
  <2> QED
    BY <2>1, <2>2 DEF AllDirs
<1>2. CASE t.dirs = <<"thumbs", "uploads">>
  <2>1. n.dirs = <<"uploads">> /\ Head(t.dirs) = "thumbs"
    BY <1>2
  <2>2. Unlisted(t) = {"thumbs", "uploads"} /\ Unlisted(n) = {"uploads"}
    BY <1>2, <2>1, UnlistedIs
  <2> QED
    BY <2>1, <2>2 DEF AllDirs
<1>3. CASE t.dirs = <<"uploads">>
  <2>1. n.dirs = <<>> /\ Head(t.dirs) = "uploads"
    BY <1>3
  <2>2. Unlisted(t) = {"uploads"} /\ Unlisted(n) = {}
    BY <1>3, <2>1, UnlistedIs
  <2> QED
    BY <2>1, <2>2 DEF AllDirs
<1> QED
  BY <1>1, <1>2, <1>3 DEF AllDirs

(* Before the first listing every place is to be listed.                   *)
LEMMA AllAreListed ==
    ASSUME NEW t, t.dirs = <<"files", "thumbs", "uploads">>, NEW k \in Key
    PROVE  DirOf(k) \in Unlisted(t)
<1>1. Unlisted(t) = {"files", "thumbs", "uploads"}
  BY UnlistedIs
<1> QED
  BY <1>1, KeyIs DEF DirOf

(* No row is of a moment to come.                                          *)
LEMMA MomentsAre ==
    ASSUME IInv
    PROVE  \A m \in Moments : m \in Nat /\ m <= clock
<1>1. /\ TypeOK /\ MomentsPassed /\ db.files \subseteq File
      /\ db.stamp \in [File -> Nat] /\ db.opened \in [Session -> Nat]
  BY DEF IInv, TypeOK, Database
<1> QED
  BY <1>1 DEF Moments, MomentsPassed

(* The age the sweep sees is never less than the true one.                 *)
LEMMA SeenOlder ==
    ASSUME TypeOK, NEW k \in Key
    PROVE  at[k] \in Nat /\ Modified(k) \in Nat /\ Modified(k) <= at[k]
           /\ at[k] <= Modified(k) + (IF InBucket(k) THEN Resolution - 1 ELSE 0)
<1>1. at[k] \in Nat
  BY DEF TypeOK
<1>2. /\ (at[k] \div Resolution) * Resolution \in Nat
      /\ (at[k] \div Resolution) * Resolution <= at[k]
      /\ at[k] <= (at[k] \div Resolution) * Resolution + (Resolution - 1)
  BY <1>1, BoundsType, Rounding
<1> DEFINE down == (at[k] \div Resolution) * Resolution
<1>3. Modified(k) = IF InBucket(k) THEN down ELSE at[k]
  BY DEF Modified
<1> HIDE DEF down
<1>4. down \in Nat /\ down <= at[k] /\ at[k] <= down + (Resolution - 1)
  BY <1>2 DEF down
<1> QED
  BY <1>1, <1>3, <1>4, BoundsType

(* What one listing passes by is no older than the rows.                   *)
Spared(t, k) == at[k] = Absent \/ \A m \in t.moments : m <= at[k]

(* A key of the listed place is doomed, known, or young enough.            *)
LEMMA ListedOrSpared ==
    ASSUME TypeOK, NEW w \in Worker, NEW k \in Swept, NEW d, DirOf(k) = d,
           k \notin {j \in Listed(d) \ task[w].known : Reclaimable(j, task[w].moments)},
           k \notin task[w].known
    PROVE  Spared(task[w], k)
<1>1. k \in Key /\ (k[1] = "temp" => ~Remote) /\ task[w].moments \subseteq Nat
  BY DEF Swept, TypeOK, Task
<1>2. CASE at[k] = Absent
  BY <1>2 DEF Spared
<1>3. CASE at[k] # Absent
  <2>1. k \in Listed(d)
    BY <1>1, <1>3 DEF Listed, DirOf
  <2>2. \A m \in task[w].moments : ~(Modified(k) <= m)
    BY <2>1 DEF Reclaimable
  <2>3. at[k] \in Nat /\ Modified(k) \in Nat /\ Modified(k) <= at[k]
    BY <1>1, SeenOlder
  <2>4. ASSUME NEW m \in task[w].moments PROVE m <= at[k]
    BY <1>1, <2>2, <2>3
  <2> QED
    BY <2>4 DEF Spared
<1> QED
  BY <1>2, <1>3

(* What the sweep has passed by stays no older than the rows.              *)
LEMMA PassedStep ==
    ASSUME IInv, Next
    PROVE  \A w \in Worker : PassedOf(task[w])'
<1>0. /\ TypeOK /\ clock \in Nat
      /\ \A w \in Worker : PassedOf(task[w]) /\ DoomedOf(task[w])
      /\ \A m \in Moments : m \in Nat /\ m <= clock
  BY MomentsAre DEF IInv, TypeOK
<1>1. ASSUME NEW v \in Worker, task[v].op = "sweep", ~Boot,
             task'[v].dirs = task[v].dirs,
             task'[v].known = task[v].known, task'[v].moments = task[v].moments,
             \A k \in task[v].doomed \cup task[v].kept :
                k \in task'[v].doomed \cup task'[v].kept \/ at'[k] = 0
      PROVE  PassedOf(task[v])'
  <2>1. SweptUnder(v)
    BY <1>1, RowsStand
  <2>2. task[v].moments = Moments /\ task[v].dirs \in AllDirs
    BY <1>0, <1>1 DEF DoomedOf, PassedOf
  <2>3. Swept' = Swept /\ Unlisted(task[v])' = Unlisted(task[v])
    BY <1>1, <2>1 DEF SweptUnder, Swept, Unlisted, Remote
  <2>4. ASSUME NEW k \in Swept, k \notin task'[v].known \cup task'[v].doomed \cup task'[v].kept,
               DirOf(k) \notin Unlisted(task[v])
        PROVE  at'[k] = 0 \/ \A m \in task[v].moments : m <= at'[k]
    <3>1. CASE k \in task[v].doomed \cup task[v].kept
      BY <1>1, <2>4, <3>1
    <3>2. CASE k \notin task[v].doomed \cup task[v].kept
      <4>1. at[k] = 0 \/ \A m \in task[v].moments : m <= at[k]
        BY <1>0, <1>1, <2>4, <3>2 DEF PassedOf, Absent
      <4>2. at'[k] \in {at[k], 0, clock}
        BY <2>1 DEF SweptUnder, Swept
      <4> QED
        BY <1>0, <2>2, <4>1, <4>2
    <3> QED
      BY <3>1, <3>2
  <2>5. ASSUME NEW k \in Swept', k \notin task'[v].known \cup task'[v].doomed \cup task'[v].kept,
               DirOf(k) \notin Unlisted(task[v])'
        PROVE  at'[k] = Absent \/ \A m \in task'[v].moments : m <= at'[k]
    BY <1>1, <2>3, <2>4, <2>5 DEF Absent
  <2> QED
    BY <1>1, <2>2, <2>5 DEF PassedOf, DirOf
<1>2. ASSUME NEW w \in Worker, Acts(w), ~Boot, NEW v \in Worker, task'[v] = task[v]
      PROVE  PassedOf(task[v])'
  <2>1. CASE task[v].op = "sweep"
    BY <1>1, <1>2, <2>1
  <2>2. CASE task[v].op # "sweep"
    BY <1>2, <2>2 DEF PassedOf
  <2> QED
    BY <2>1, <2>2
<1>3. ASSUME NEW w \in Worker, Acts(w), ~Boot, task'[w].op = "sweep"
      PROVE  PassedOf(task[w])'
  <2>1. CASE BeginSweep(w)
    <3>1. task'[w].dirs = <<"files", "thumbs", "uploads">>
      BY <1>0, <2>1, SweepSteps DEF SweepTurn
    <3>2. \A k \in Key : DirOf(k) \in Unlisted(task'[w])
      BY <3>1, AllAreListed
    <3>3. Unlisted(task[w])' = Unlisted(task'[w])
      BY DEF Unlisted
    <3>4. \A k \in Swept' : k \in Key
      BY DEF Swept
    <3> QED
      BY <3>1, <3>2, <3>3, <3>4 DEF PassedOf, AllDirs, DirOf
  <2>2. CASE ListDir(w)
    <3> DEFINE t == task[w]
               d == Head(t.dirs)
               found == {k \in Listed(d) \ t.known : Reclaimable(k, t.moments)}
    <3>1. /\ t.op = "sweep" /\ t.dirs # <<>> /\ t.doomed = {}
          /\ task'[w].dirs = Tail(t.dirs) /\ task'[w].known = t.known
          /\ task'[w].moments = t.moments /\ task'[w].doomed = found /\ task'[w].kept = t.kept
      BY <1>0, <2>2, SweepSteps DEF SweepTurn
    <3>2. at' = at /\ here' = here
      BY <2>2 DEF ListDir, env
    <3>3. t.dirs \in AllDirs
      BY <1>0, <3>1 DEF PassedOf
    <3>4. task'[w].dirs \in AllDirs /\ Unlisted(t) = Unlisted(task'[w]) \cup {d}
      BY <3>1, <3>3, DirsAre
    <3>5. ASSUME NEW k \in Swept, k \notin t.known \cup found \cup t.kept,
                 DirOf(k) \notin Unlisted(task'[w])
          PROVE  Spared(t, k)
      <4>1. CASE DirOf(k) = d
        BY <1>0, <3>5, <4>1, ListedOrSpared
      <4>2. CASE DirOf(k) # d
        <5>1. DirOf(k) \notin Unlisted(t) /\ k \notin t.known \cup t.doomed \cup t.kept
          BY <3>1, <3>4, <3>5, <4>2
        <5> QED
          BY <1>0, <3>1, <5>1 DEF PassedOf, Spared
      <4> QED
        BY <4>1, <4>2
    <3>6. Swept' = Swept /\ Unlisted(task[w])' = Unlisted(task'[w])
      BY <3>2 DEF Swept, Remote, Unlisted
    <3> HIDE DEF found, d
    <3> QED
      BY <3>1, <3>2, <3>4, <3>5, <3>6 DEF PassedOf, DirOf, Spared
  <2>3. CASE Reclaim(w)
    <3>1. PICK k \in task[w].doomed, works \in BOOLEAN :
             /\ task[w].op = "sweep"
             /\ Delete(IF works THEN {k} ELSE {})
             /\ SweepTurn(w, task[w].dirs, task[w].known, task[w].moments, task[w].doomed \ {k},
                          IF works THEN task[w].kept ELSE task[w].kept \cup {k})
      BY <1>0, <2>3, SweepSteps
    <3>2. k \in Key
      BY <1>0, <3>1 DEF TypeOK, Task
    <3>3. works => at'[k] = 0
      BY <1>0, <3>1, <3>2, PutIs DEF Dropped
    <3>4. \A j \in task[w].doomed \cup task[w].kept :
             j \in task'[w].doomed \cup task'[w].kept \/ at'[j] = 0
      BY <3>1, <3>3 DEF SweepTurn
    <3> QED
      BY <1>1, <1>3, <3>1, <3>4 DEF SweepTurn
  <2> QED
    BY <1>0, <1>3, <2>1, <2>2, <2>3, SweepTurns
<1>4. ASSUME NEW w \in Worker, Acts(w), ~Boot, NEW v \in Worker
      PROVE  PassedOf(task[v])'
  <2>1. CASE v = w /\ task'[w].op = "sweep"
    BY <1>3, <1>4, <2>1
  <2>2. CASE v = w /\ task'[w].op # "sweep"
    BY <2>2 DEF PassedOf
  <2>3. CASE v # w
    BY <1>0, <1>2, <1>4, <2>3, TaskTurn DEF Stays
  <2> QED
    BY <2>1, <2>2, <2>3
<1>5. ASSUME ~Boot, task' = task, NEW v \in Worker
      PROVE  PassedOf(task[v])'
  <2>1. CASE task[v].op = "sweep"
    BY <1>1, <1>5, <2>1
  <2>2. CASE task[v].op # "sweep"
    BY <1>5, <2>2 DEF PassedOf
  <2> QED
    BY <2>1, <2>2
<1>6. CASE Boot
  <2>1. \A w \in Worker : task'[w].op = "idle"
    BY <1>0, <1>6, BootIs, IdleIs
  <2> QED
    BY <2>1 DEF PassedOf
<1>7. CASE ~Boot
  BY <1>0, <1>4, <1>5, <1>7, WhoActs, QuietSteps DEF Quiet
<1> QED
  BY <1>6, <1>7

-----------------------------------------------------------------------------
(* The invariant, and what follows from it.                                *)

(* An empty server satisfies the invariant.                                *)
LEMMA InvInit == Init => IInv
<1> SUFFICES ASSUME Init PROVE IInv
  OBVIOUS
<1>1. /\ db = EmptyDatabase /\ backup = EmptyDatabase /\ ids = {} /\ accepted = {}
      /\ writer = Free /\ clock = 1 /\ \A k \in Key : at[k] = 0
      /\ \A w \in Worker : task[w].op = "idle" /\ task[w].file = {}
  BY IdleIs DEF Init, Absent
<1>2. /\ EmptyDatabase \in Database /\ EmptyDatabase.files = {} /\ EmptyDatabase.ready = {}
      /\ \A x \in File : EmptyDatabase.stamp[x] = 0
      /\ \A s \in Session : EmptyDatabase.opened[s] = 0
  BY DEF EmptyDatabase, Database
<1>3. TypeOK
  BY <1>2, IdleIs DEF Init, TypeOK, Absent
<1>4. Holders /\ FilesApart
  BY <1>1, NobodyType DEF Holders, FilesApart, Busy, Writing, Unlinking
<1>5. RowsHold /\ KnownIsKept /\ ThumbsAreKept
  BY <1>1, <1>2 DEF RowsHold, KnownIsKept, ThumbsAreKept
<1>6. MomentsPassed /\ BytesAreBorn
  BY <1>1, <1>2 DEF MomentsPassed, BytesAreBorn, Absent
<1>7. \A w \in Worker : FileOf(task[w]) /\ BytesOf(task[w]) /\ DoomedOf(task[w]) /\ PassedOf(task[w])
  BY <1>1 DEF FileOf, BytesOf, DoomedOf, PassedOf, Writing, Unlinking
<1> QED
  BY <1>3, <1>4, <1>5, <1>6, <1>7 DEF IInv

(* A step that changes nothing keeps everything.                           *)
LEMMA InvStutter == IInv /\ UNCHANGED vars => IInv'
<1> SUFFICES ASSUME IInv, UNCHANGED vars PROVE IInv'
  OBVIOUS
<1>1. /\ here' = here /\ db' = db /\ backup' = backup /\ at' = at /\ ids' = ids
      /\ accepted' = accepted /\ writer' = writer /\ clock' = clock /\ boots' = boots
      /\ sweepDue' = sweepDue /\ task' = task
  BY DEF vars
<1>2. TypeOK' /\ Holders' /\ FilesApart' /\ RowsHold' /\ MomentsPassed' /\ BytesAreBorn'
  BY <1>1 DEF IInv, TypeOK, Holders, FilesApart, RowsHold, MomentsPassed, BytesAreBorn, MayRestore
<1>3. KnownIsKept' /\ ThumbsAreKept'
  BY <1>1 DEF IInv, KnownIsKept, ThumbsAreKept
<1>4. ASSUME NEW w \in Worker
      PROVE  FileOf(task[w])' /\ BytesOf(task[w])' /\ DoomedOf(task[w])' /\ PassedOf(task[w])'
  <2>1. FileOf(task[w])' /\ BytesOf(task[w])'
    BY <1>1 DEF IInv, FileOf, BytesOf
  <2>2. DoomedOf(task[w])'
    BY <1>1 DEF IInv, DoomedOf, Known, Moments, Reclaimable, Modified, InBucket, Remote
  <2>3. PassedOf(task[w])'
    BY <1>1 DEF IInv, PassedOf, Swept, Remote, Unlisted, DirOf
  <2> QED
    BY <2>1, <2>2, <2>3
<1> QED
  BY <1>2, <1>3, <1>4 DEF IInv

(* Every step keeps the invariant.                                         *)
LEMMA InvNext == IInv /\ [Next]_vars => IInv'
<1> SUFFICES ASSUME IInv, [Next]_vars PROVE IInv'
  OBVIOUS
<1>1. CASE Next
  BY <1>1, TypeStep, HoldersStep, FilesApartStep, RowsHoldStep, MomentsStep, BornStep, KeptStep,
     FileOfStep, BytesOfStep, DoomedStep, PassedStep DEF IInv
<1>2. CASE UNCHANGED vars
  BY <1>2, InvStutter
<1> QED
  BY <1>1, <1>2

(* The inductive invariant holds of every reachable state.                 *)
THEOREM Invariance == Spec => []IInv
<1>1. Init => IInv
  BY InvInit
<1>2. IInv /\ [Next]_vars => IInv'
  BY InvNext
<1> QED
  BY <1>1, <1>2, PTL DEF Spec

(* Every variable has its type.                                            *)
THEOREM TypeCorrect == Spec => []TypeOK
<1>1. IInv => TypeOK
  BY DEF IInv
<1> QED
  BY <1>1, Invariance, PTL

(* An accepted upload that the database still names keeps its bytes,       *)
(* through crashes, sweeps, and an older database put back.                *)
THEOREM KnownStays == Spec => []KnownIsKept
<1>1. IInv => KnownIsKept
  BY DEF IInv
<1> QED
  BY <1>1, Invariance, PTL

(* The only step of a sweep that touches bytes is a removal.               *)
LEMMA SweepRemoves ==
    ASSUME IInv, Next, NEW w \in Worker, SweepStep(w)
    PROVE  at' = at \/ (Reclaim(w) /\ \E k \in task[w].doomed : Dropped({k}))
<1>0. TypeOK /\ task[w].op = "sweep" /\ task'[w] # task[w]
  BY DEF IInv, SweepStep, Sweeping
<1>1. ASSUME NEW v \in Worker, Acts(v)
      PROVE  at' = at \/ (Reclaim(w) /\ \E k \in task[w].doomed : Dropped({k}))
  <2>1. v = w
    BY <1>0, <1>1, TaskTurn DEF Stays
  <2>2. ListDir(w) \/ Reclaim(w) \/ EndSweep(w) \/ Abandon(w)
    <3>1. ~(\E x \in File : BeginWrite(w, x) \/ Purge(w, x) \/ \E s \in Session : BeginFinish(w, s, x))
      BY <1>0, BeginSteps
    <3>2. ~(\E s \in Session : BeginChunk(w, s) \/ Settle(w, s)) /\ ~BeginSweep(w)
      BY <1>0, BeginSteps, SweepSteps
    <3>3. ~(\/ PutTemp(w) \/ PutRemote(w) \/ Place(w) \/ PutThumb(w) \/ CommitRow(w) \/ RefuseRow(w)
            \/ LockFinish(w) \/ DropTemp(w) \/ UnlinkFile(w) \/ UnlinkThumb(w) \/ StageChunk(w)
            \/ Cleanup(w))
      BY <1>0, FileSteps
    <3> QED
      BY <1>1, <2>1, <3>1, <3>2, <3>3 DEF Acts, RequestStep
  <2>3. CASE Reclaim(w)
    <3>1. PICK k \in task[w].doomed, works \in BOOLEAN : Delete(IF works THEN {k} ELSE {})
      BY <1>0, <2>3, SweepSteps
    <3>2. CASE works
      BY <1>0, <2>3, <3>1, <3>2, PutIs
    <3>3. CASE ~works
      <4>1. at' = [j \in Key |-> at[j]] /\ at \in [Key -> Nat]
        BY <1>0, <3>1, <3>3 DEF Delete, TypeOK
      <4> QED
        BY <4>1
    <3> QED
      BY <3>2, <3>3
  <2> QED
    BY <2>2, <2>3 DEF ListDir, EndSweep, Abandon
<1> QED
  BY <1>0, <1>1, WhoActs DEF Touch, OpenSession, Boot, Tick

(* No chunk of a session that can still be finished is swept.              *)
THEOREM ActiveSpared == Spec => ActiveIsSpared
<1>1. ASSUME IInv, [Next]_vars, NEW w \in Worker, SweepStep(w), NEW s \in db.active
      PROVE  at'[<<"uploads", s>>] = at[<<"uploads", s>>]
  <2>0. Next
    BY <1>1 DEF SweepStep, vars
  <2>1. CASE at' = at
    BY <2>1
  <2>2. ASSUME Reclaim(w), NEW k \in task[w].doomed, Dropped({k})
        PROVE  at'[<<"uploads", s>>] = at[<<"uploads", s>>]
    <3>1. k \notin Known
      BY <1>1, <2>2 DEF IInv, DoomedOf, Reclaim
    <3>2. <<"uploads", s>> \in Known /\ <<"uploads", s>> \in Key
      BY <1>1, KeyIs DEF Known, IInv, TypeOK, Database
    <3> QED
      BY <2>2, <3>1, <3>2 DEF Dropped
  <2> QED
    BY <1>1, <2>0, <2>1, <2>2, SweepRemoves
<1>2. IInv /\ [Next]_vars =>
         [\A w \in Worker : SweepStep(w) =>
             \A s \in db.active : at'[<<"uploads", s>>] = at[<<"uploads", s>>]]_vars
  BY <1>1
<1> QED
  BY <1>2, Invariance, PTL DEF Spec, ActiveIsSpared

(* Nothing newer than every row of the database is swept.                  *)
THEOREM NewerStays == Spec => NewerIsKept
<1>1. ASSUME IInv, [Next]_vars, NEW w \in Worker, SweepStep(w),
             NEW k \in Key, k[1] # "uploads", at[k] # Absent, at'[k] = Absent
      PROVE  \E t \in task[w].moments :
                at[k] \leq t + (IF InBucket(k) THEN Resolution - 1 ELSE 0)
  <2>0. Next /\ TypeOK
    BY <1>1 DEF SweepStep, vars, IInv
  <2>1. PICK j \in task[w].doomed : Reclaim(w) /\ Dropped({j})
    BY <1>1, <2>0, SweepRemoves
  <2>2. k \in task[w].doomed /\ task[w].op = "sweep"
    BY <1>1, <2>1 DEF Dropped, Absent, Reclaim
  <2>3. Reclaimable(k, task[w].moments)
    BY <1>1, <2>2 DEF IInv, DoomedOf
  <2>4. PICK t \in task[w].moments : Modified(k) <= t
    BY <2>3 DEF Reclaimable
  <2>5. t \in Nat
    BY <2>0 DEF TypeOK, Task
  <2>6. /\ at[k] \in Nat /\ Modified(k) \in Nat
        /\ at[k] <= Modified(k) + (IF InBucket(k) THEN Resolution - 1 ELSE 0)
    BY <2>0, SeenOlder
  <2>7. at[k] <= t + (IF InBucket(k) THEN Resolution - 1 ELSE 0)
    BY <2>4, <2>5, <2>6, BoundsType
  <2> QED
    BY <2>7
<1>2. IInv /\ [Next]_vars =>
         [\A w \in Worker : SweepStep(w) =>
             \A k \in Key : k[1] # "uploads" /\ at[k] # Absent /\ at'[k] = Absent =>
                \E t \in task[w].moments :
                   at[k] \leq t + (IF InBucket(k) THEN Resolution - 1 ELSE 0)]_vars
  BY <1>1
<1> QED
  BY <1>2, Invariance, PTL DEF Spec, NewerIsKept

(* A sweep that ends has taken, or named, every orphan older than a row.   *)
THEOREM ThoroughSweep == Spec => SweepIsThorough
<1>1. ASSUME IInv, NEW w \in Worker, EndSweep(w), NEW k \in Swept \ (Known \cup task[w].kept)
      PROVE  at[k] = Absent \/ \A t \in Moments : t \leq at[k]
  <2>1. task[w].op = "sweep" /\ task[w].dirs = <<>> /\ task[w].doomed = {}
    BY <1>1 DEF EndSweep
  <2>2. task[w].known = Known /\ task[w].moments = Moments
    BY <1>1, <2>1 DEF IInv, DoomedOf
  <2>3. Unlisted(task[w]) = {}
    BY <2>1, UnlistedIs
  <2> QED
    BY <1>1, <2>1, <2>2, <2>3 DEF IInv, PassedOf
<1>2. IInv =>
         [\A w \in Worker : EndSweep(w) =>
             \A k \in Swept \ (Known \cup task[w].kept) :
                at[k] = Absent \/ \A t \in Moments : t \leq at[k]]_vars
  BY <1>1
<1> QED
  BY <1>2, Invariance, PTL DEF Spec, SweepIsThorough

-----------------------------------------------------------------------------
(* Rows and bytes step as the drive that is promised.                      *)

Held == {k \in Outside : at[k] # Absent}

(* What the rows name can be served.                                       *)
LEMMA AllIsHeld == IInv => Held = Outside
<1> SUFFICES ASSUME IInv, NEW k \in Outside PROVE at[k] # Absent
  BY DEF Held
<1>1. ~MayRestore /\ k \in Known /\ k \notin {"uploads"} \X Session
  BY DEF Outside
<1>2. /\ db.files \subseteq accepted /\ db.ready \subseteq accepted /\ db.active \subseteq Session
      /\ KnownIsKept /\ ThumbsAreKept
  BY <1>1 DEF IInv, RowsHold, TypeOK, Database
<1>3. CASE k \in {"files"} \X db.files
  BY <1>2, <1>3 DEF KnownIsKept
<1>4. CASE k \in {"thumbs"} \X db.ready
  BY <1>2, <1>4 DEF ThumbsAreKept
<1> QED
  BY <1>1, <1>2, <1>3, <1>4 DEF Known

(* From outside, a server that never restores is its files and thumbnails. *)
ShowsRows ==
    /\ MayRestore => Outside = {}
    /\ TypeOK /\ ~MayRestore =>
          \A k : k \in Outside <=> k \in {"files"} \X db.files \/ k \in {"thumbs"} \X db.ready

(* That is what the view from outside comes to.                            *)
LEMMA OutsideIs == ShowsRows
<1>1. ASSUME TypeOK, ~MayRestore, NEW k
      PROVE  k \in Outside <=> k \in {"files"} \X db.files \/ k \in {"thumbs"} \X db.ready
  <2>1. k \in {"files"} \X db.files \/ k \in {"thumbs"} \X db.ready => k \notin {"uploads"} \X Session
    OBVIOUS
  <2>2. k \in {"uploads"} \X db.active => k \in {"uploads"} \X Session
    BY <1>1 DEF TypeOK, Database
  <2> QED
    BY <1>1, <2>1, <2>2 DEF Outside, Known
<1> QED
  BY <1>1 DEF Outside, ShowsRows

(* Rows that stay are a stutter outside.                                   *)
LEMMA RowsStay ==
    ASSUME TypeOK, TypeOK', here' = here, db'.files = db.files, db'.ready = db.ready
    PROVE  Outside' = Outside
<1>1. MayRestore' = MayRestore
  BY DEF MayRestore
<1>2. ShowsRows /\ ShowsRows'
  BY OutsideIs, PTL
<1>3. CASE MayRestore
  BY <1>1, <1>2, <1>3 DEF ShowsRows
<1>4. CASE ~MayRestore
  BY <1>1, <1>2, <1>4 DEF ShowsRows
<1> QED
  BY <1>3, <1>4
(* What a commit adds outside: a file's parts, or nothing when the push    *)
(* replaces the bytes of a row.                                            *)
LEMMA CommitShows ==
    ASSUME IInv, IInv', here' = here, ~MayRestore,
           NEW w \in Worker, NEW x \in task[w].file, Commits(w, x)
    PROVE  \/ Outside' = Outside
           \/ /\ ({"files", "thumbs"} \X {x}) \cap Outside = {}
              /\ \E parts \in {{<<"files", x>>}, {"files", "thumbs"} \X {x}} :
                    Outside' = Outside \cup parts
<1>0. /\ TypeOK /\ TypeOK' /\ RowsHold /\ FileOf(task[w]) /\ BytesOf(task[w]) /\ ~MayRestore'
  BY DEF IInv, MayRestore
<1>1. /\ \A k : k \in Outside <=> k \in {"files"} \X db.files \/ k \in {"thumbs"} \X db.ready
      /\ \A k : k \in Outside' <=> k \in {"files"} \X db'.files \/ k \in {"thumbs"} \X db'.ready
  <2>1. ShowsRows /\ ShowsRows'
    BY OutsideIs, PTL
  <2> QED
    BY <1>0, <2>1 DEF ShowsRows
<1>2. /\ db'.files = db.files \cup {x} /\ x \in task[w].file
      /\ db'.ready = IF task[w].thumb THEN db.ready \cup {x} ELSE db.ready
      /\ task[w].thumb \in BOOLEAN /\ db.ready \subseteq db.files
  BY <1>0 DEF Commits, RowsHold, TypeOK, Task
<1>3. CASE x \in db.files
  <2>1. ~task[w].thumb
    BY <1>0, <1>2, <1>3 DEF FileOf, BytesOf, Commits, Writing
  <2>2. db'.files = db.files /\ db'.ready = db.ready
    BY <1>2, <1>3, <2>1
  <2> QED
    BY <1>0, <2>2, RowsStay
<1>4. CASE x \notin db.files
  <2>1. ({"files", "thumbs"} \X {x}) \cap Outside = {}
    BY <1>1, <1>2, <1>4
  <2>2. CASE task[w].thumb
    <3>1. ASSUME NEW k PROVE k \in Outside' <=> k \in Outside \cup ({"files", "thumbs"} \X {x})
      <4>1. k \in {"files"} \X (db.files \cup {x}) <=> k \in {"files"} \X db.files \/ k = <<"files", x>>
        OBVIOUS
      <4>2. k \in {"thumbs"} \X (db.ready \cup {x}) <=> k \in {"thumbs"} \X db.ready \/ k = <<"thumbs", x>>
        OBVIOUS
      <4>3. k \in {"files", "thumbs"} \X {x} <=> k = <<"files", x>> \/ k = <<"thumbs", x>>
        OBVIOUS
      <4>4. db'.files = db.files \cup {x} /\ db'.ready = db.ready \cup {x}
        BY <1>2, <2>2
      <4> QED
        BY <1>1, <4>1, <4>2, <4>3, <4>4
    <3> QED
      BY <2>1, <3>1
  <2>3. CASE ~task[w].thumb
    <3>1. ASSUME NEW k PROVE k \in Outside' <=> k \in Outside \cup {<<"files", x>>}
      <4>1. k \in {"files"} \X (db.files \cup {x}) <=> k \in {"files"} \X db.files \/ k = <<"files", x>>
        OBVIOUS
      <4>2. db'.files = db.files \cup {x} /\ db'.ready = db.ready
        BY <1>2, <2>3
      <4> QED
        BY <1>1, <4>1, <4>2
    <3> QED
      BY <2>1, <3>1
  <2> QED
    BY <2>2, <2>3
<1> QED
  BY <1>3, <1>4

(* What a purge takes outside.                                             *)
LEMMA PurgeShows ==
    ASSUME TypeOK, TypeOK', here' = here, ~MayRestore, NEW w \in Worker, NEW x \in File, Purge(w, x)
    PROVE  Outside' = Outside \ ({"files", "thumbs"} \X {x})
<1>1. /\ \A k : k \in Outside <=> k \in {"files"} \X db.files \/ k \in {"thumbs"} \X db.ready
      /\ \A k : k \in Outside' <=> k \in {"files"} \X db'.files \/ k \in {"thumbs"} \X db'.ready
  <2>1. ShowsRows /\ ShowsRows'
    BY OutsideIs, PTL
  <2>2. ~MayRestore'
    BY DEF MayRestore
  <2> QED
    BY <2>1, <2>2 DEF ShowsRows
<1>2. db'.files = db.files \ {x} /\ db'.ready = db.ready \ {x}
  BY PurgeIs
<1>3. ASSUME NEW k PROVE k \in Outside' <=> k \in Outside \ ({"files", "thumbs"} \X {x})
  <2>1. k \in {"files"} \X (db.files \ {x}) <=> k \in {"files"} \X db.files /\ k[2] # x
    OBVIOUS
  <2>2. k \in {"thumbs"} \X (db.ready \ {x}) <=> k \in {"thumbs"} \X db.ready /\ k[2] # x
    OBVIOUS
  <2>3. k \in Outside => (k \in {"files", "thumbs"} \X {x} <=> k[2] = x)
    BY <1>1
  <2> QED
    BY <1>1, <1>2, <2>1, <2>2, <2>3
<1> QED
  BY <1>3

(* Each step is one of the drive, or none.                                 *)
LEMMA PromiseStep ==
    ASSUME IInv, IInv', [Next]_vars
    PROVE  [Promise!Next]_(Promise!vars)
<1>0. TypeOK /\ TypeOK' /\ Held = Outside
  BY AllIsHeld DEF IInv
<1>1. Held' = Outside'
  <2>1. (IInv => Held = Outside)'
    BY AllIsHeld, PTL
  <2> QED
    BY <2>1
<1>a. ASSUME Outside' = Outside PROVE UNCHANGED <<Outside, Held>>
  BY <1>0, <1>1, <1>a
<1>b. ASSUME NEW x \in File, NEW parts \in {{<<"files", x>>}, {"files", "thumbs"} \X {x}},
             ({"files", "thumbs"} \X {x}) \cap Outside = {}, Outside' = Outside \cup parts
      PROVE  Promise!Next
  <2>1. Promise!Accept(x)
    BY <1>0, <1>1, <1>b DEF Promise!Accept, Promise!Parts, Held
  <2> QED
    BY <2>1 DEF Promise!Next
<1>c. ASSUME NEW x \in File, Outside' = Outside \ ({"files", "thumbs"} \X {x})
      PROVE  Promise!Next
  <2>1. Promise!Purge(x)
    BY <1>0, <1>1, <1>c DEF Promise!Purge, Promise!Parts, Held
  <2> QED
    BY <2>1 DEF Promise!Next
<1>2. Outside' = Outside \/ Promise!Next
  <2>1. here' = here
    BY <1>0, IdsGrow DEF vars
  <2>2. CASE MayRestore
    <3>1. ShowsRows /\ ShowsRows'
      BY OutsideIs, PTL
    <3> QED
      BY <2>1, <2>2, <3>1 DEF ShowsRows, MayRestore
  <2>3. ASSUME ~MayRestore, NEW w \in Worker, Acts(w)
        PROVE  Outside' = Outside \/ Promise!Next
    <3>1. CASE db' = db
      BY <1>0, <2>1, <3>1, RowsStay
    <3>2. CASE CommitRow(w)
      <4>1. PICK x \in task[w].file : Commits(w, x)
        BY <3>2, CommitIs
      <4>2. x \in File
        BY <4>1 DEF Commits
      <4> QED
        BY <1>b, <2>1, <2>3, <4>1, <4>2, CommitShows
    <3>3. CASE \E x \in File : Purge(w, x)
      <4>1. PICK x \in File : Purge(w, x)
        BY <3>3
      <4>2. Outside' = Outside \ ({"files", "thumbs"} \X {x})
        BY <1>0, <2>1, <2>3, <4>1, PurgeShows
      <4> QED
        BY <1>c, <4>2
    <3>4. CASE \E s \in Session : Settle(w, s)
      <4>1. db'.files = db.files /\ db'.ready = db.ready
        BY <1>0, <3>4, RowSteps
      <4> QED
        BY <1>0, <2>1, <4>1, RowsStay
    <3> QED
      BY <1>0, <2>3, <3>1, <3>2, <3>3, <3>4, RowTurns DEF RowTurn
  <2>4. CASE Quiet
    BY <1>0, <2>1, <2>4, RowsStay DEF Quiet
  <2>5. CASE Boot /\ ~MayRestore
    <3>1. db' = db
      BY <1>0, <2>5, BootIs
    <3> QED
      BY <1>0, <2>1, <3>1, RowsStay
  <2>6. CASE UNCHANGED vars
    <3>1. db' = db
      BY <2>6 DEF vars
    <3> QED
      BY <1>0, <2>1, <3>1, RowsStay
  <2> QED
    BY <1>0, <2>2, <2>3, <2>4, <2>5, <2>6, WhoActs, QuietSteps
<1> QED
  BY <1>2, <1>a DEF Promise!vars, Held

(* Seen from outside, a server on its own database is the drive: a file    *)
(* is there whole from its acceptance to its purge.                        *)
THEOREM PromiseKept == Spec => KeepsPromise
<1>1. Init => Promise!Init
  <2> SUFFICES ASSUME Init PROVE Outside = {} /\ Held = {}
    BY DEF Promise!Init, Held
  <2>1. db.files = {} /\ db.ready = {} /\ db.active = {}
    BY DEF Init, EmptyDatabase
  <2> QED
    BY <2>1 DEF Outside, Held, Known
<1>2. IInv /\ IInv' /\ [Next]_vars => [Promise!Next]_(Promise!vars)
  BY PromiseStep
<1> QED
  BY <1>1, <1>2, Invariance, PTL DEF Spec, KeepsPromise, Promise!Spec
=============================================================================
