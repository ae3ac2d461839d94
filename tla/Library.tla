------------------------------- MODULE Library -------------------------------
(***************************************************************************)
(* The tree of folders and files a user keeps, with its trash              *)
(* (in-core/src/store/turso_store.rs).                                     *)
(*                                                                         *)
(* Folders and files share one shape here: a row has a parent (parent_id   *)
(* of a folder, folder_id of a file), a name and a deletion stamp.  Every  *)
(* action is one database transaction or one query of a request.  The      *)
(* operations that read outside their transaction (delete_folder,          *)
(* delete_file and the four purges) are split at that point, and a Worker  *)
(* is a request in between: everything else may commit in the gap.         *)
(*                                                                         *)
(* A family service pushes and deletes files under handles of its own.     *)
(* The routes open no session for its account, so people's requests do not *)
(* reach its rows; the store would take them all the same, and so does the *)
(* model.                                                                  *)
(*                                                                         *)
(* Left to other modules: the sizes and the used_bytes the transactions    *)
(* recompute, the bytes behind the rows, the shares a purge takes along,   *)
(* and the events announced after each commit.                             *)
(***************************************************************************)
EXTENDS Integers, Sequences, FiniteSets

CONSTANTS
    Folder,      \* folder ids (ULIDs, never generated twice)
    File,        \* file ids
    User,        \* account ids
    Owner,       \* owner_id of each id: fixed when the row is inserted
    External,    \* external_id of each file: Null, or a service's handle
    Null,
    Root,        \* the NULL parent: the top level of a user's tree
    Label,       \* the stems of names, extension and all
    Wanted,      \* the names requests ask for: "a", or "a (2)" outright
    Worker,      \* requests that may be between two of their steps
    MaxPostfix,  \* the last n of a "name (n)" postfix: u32::MAX in the code
    MaxClock     \* bound: how many deletion stamps are ever taken

Node == Folder \cup File

ASSUME KindsDisjoint == Folder \cap File = {}
ASSUME RootIsNoNode  == Root \notin Node
ASSUME OwnerType     == Owner \in [Node -> User]
ASSUME ExternalType  == DOMAIN External = File
ASSUME WantedType    == Wanted \subseteq Seq(Label \cup Nat)
ASSUME BoundsNat     == MaxPostfix \in Nat /\ MaxClock \in Nat

VARIABLES
    rows,       \* the ids that have a row in table folder or file
    ids,        \* the ids ever generated
    parent,     \* parent_id / folder_id
    name,       \* the name column: a label followed by its postfixes
    deletedAt,  \* deleted_at: NotDeleted, or the stamp of the deletion
    clock,      \* now_text(): the last stamp handed out
    task        \* what each request in flight holds in its local variables

vars == <<rows, ids, parent, name, deletedAt, clock, task>>

-----------------------------------------------------------------------------

NotDeleted == 0   \* deleted_at IS NULL; stamps are 1, 2, ...
NoCutoff   == 0   \* TrashGuard::Trashed; a cutoff is TrashGuard::Expired

Name == Seq(Label \cup Nat)

(* The requests between two steps.  A purge of a subtree, of an owner's    *)
(* trash or of everything expired collects candidates: folders with the    *)
(* parent they had when read, and files.                                   *)
Task == [op      : {"idle", "delete_file", "delete_folder", "purge_file",
                    "purge_folder", "purge_expired", "empty_trash"},
         todo    : Seq({"folders", "files"}),
         target  : Node \cup User \cup {Root},
         stamp   : Nat,
         folders : SUBSET (Folder \X (Folder \cup {Root})),
         files   : SUBSET File]

Idle == [op |-> "idle", todo |-> <<>>, target |-> Root, stamp |-> NoCutoff,
         folders |-> {}, files |-> {}]

TypeOK ==
    /\ rows \subseteq ids
    /\ ids \subseteq Node
    /\ parent \in [Node -> Folder \cup {Root}]
    /\ name \in [Node -> Name]
    /\ deletedAt \in [Node -> Nat]
    /\ clock \in Nat
    /\ task \in [Worker -> Task]

Init ==
    /\ rows = {}
    /\ ids = {}
    /\ parent = [n \in Node |-> Root]
    /\ name = [n \in Node |-> <<>>]
    /\ deletedAt = [n \in Node |-> NotDeleted]
    /\ clock = 0
    /\ task = [w \in Worker |-> Idle]

-----------------------------------------------------------------------------
(* What the queries ask.                                                   *)

Live(n)    == n \in rows /\ deletedAt[n] = NotDeleted
Trashed(n) == n \in rows /\ deletedAt[n] # NotDeleted

SameKind(m, n) == m \in Folder <=> n \in Folder

(* The files that a service pushes; the other writers leave external_id    *)
(* NULL.                                                                   *)
Pushed == {x \in File : External[x] # Null}

SameHandle(x, y) == Owner[x] = Owner[y] /\ External[x] = External[y]

(* WITH RECURSIVE sub(id): the least set of folders that holds f and every *)
(* folder row whose parent it holds; then the file rows inside them.       *)
ClosedUnderRows(f, S) ==
    f \in S /\ \A g \in rows \cap Folder : parent[g] \in S => g \in S

SubFolders(f) ==
    LET closed == {S \in SUBSET Folder : ClosedUnderRows(f, S)}
    IN {g \in Folder : \A S \in closed : g \in S}

Sub(f) ==
    LET inside == SubFolders(f)
    IN inside \cup {x \in rows \cap File : parent[x] \in inside}

(* Mutants of check_live_parent: the parent may be in the trash, or belong *)
(* to somebody else.                                                       *)
AnyParent(p, u)     == p = Root \/ (p \in rows \cap Folder /\ Owner[p] = u)
ForeignParent(p, u) == p = Root \/ (p \in Folder /\ Live(p))

(* check_live_parent: the destination exists, has the same owner, is live. *)
LiveParent(p, u) == p = Root \/ (p \in Folder /\ Live(p) /\ Owner[p] = u)

(* ancestor_trashed: the walk from p up to the root meets trash.           *)
AncestorTrashed(p) == \E a \in Folder : Trashed(a) /\ p \in SubFolders(a)

(* file_name_taken, folder_name_taken: a live sibling other than n wears   *)
(* the name nm in folder p.                                                *)
Taken(n, p, nm) ==
    \E m \in rows :
        /\ m # n /\ SameKind(m, n) /\ Owner[m] = Owner[n]
        /\ Live(m) /\ parent[m] = p /\ name[m] = nm

Postfixed(want, k) == IF k = 1 THEN want ELSE Append(want, k)

(* free_file_name, free_folder_name: the wanted name, else the first free  *)
(* postfix; no name at all when every postfix is taken.                    *)
FreeNames(n, p, want) ==
    {Postfixed(want, k) : k \in {i \in 1..MaxPostfix :
        /\ ~Taken(n, p, Postfixed(want, i))
        /\ \A j \in 1..(i - 1) : Taken(n, p, Postfixed(want, j))}}

-----------------------------------------------------------------------------
(* The operations that are one transaction.                                *)

StampRows(S, t) ==
    deletedAt' = [n \in Node |-> IF n \in S THEN t ELSE deletedAt[n]]

Insert(n, p, nm) ==
    /\ n \in Node \ ids
    /\ ids' = ids \cup {n}
    /\ rows' = rows \cup {n}
    /\ parent' = [parent EXCEPT ![n] = p]
    /\ name' = [name EXCEPT ![n] = nm]
    /\ StampRows({n}, NotDeleted)
    /\ UNCHANGED <<clock, task>>

CreateFolder(f, p, l) ==
    /\ LiveParent(p, Owner[f])
    /\ \E nm \in FreeNames(f, p, l) : Insert(f, p, nm)

(* insert_file and the transaction of finish_upload.                       *)
InsertFile(x, p, l) ==
    /\ x \notin Pushed
    /\ LiveParent(p, Owner[x])
    /\ \E nm \in FreeNames(x, p, l) : Insert(x, p, nm)

Rename(n, l) ==
    /\ Live(n)
    /\ \E nm \in FreeNames(n, parent[n], l) : name' = [name EXCEPT ![n] = nm]
    /\ UNCHANGED <<rows, ids, parent, deletedAt, clock, task>>

RenameFolder(f, l) == Rename(f, l)
RenameFile(x, l)   == Rename(x, l)

Place(n, p) ==
    /\ \E nm \in FreeNames(n, p, name[n]) : name' = [name EXCEPT ![n] = nm]
    /\ parent' = [parent EXCEPT ![n] = p]
    /\ UNCHANGED <<rows, ids, deletedAt, clock, task>>

(* Mutant: no cycle walk.                                                  *)
MoveFolderAnywhere(f, p) ==
    Live(f) /\ LiveParent(p, Owner[f]) /\ p # f /\ Place(f, p)

MoveFolder(f, p) ==
    /\ Live(f)
    /\ LiveParent(p, Owner[f])
    /\ p \notin SubFolders(f)      \* the cycle walk from p up to the root
    /\ Place(f, p)

MoveFile(x, p) ==
    /\ Live(x)
    /\ LiveParent(p, Owner[x])
    /\ Place(x, p)

(* Mutant: a file comes back into a folder that is still in the trash.     *)
RestoreFileAnywhere(x) ==
    /\ Trashed(x)
    /\ \E nm \in FreeNames(x, parent[x], name[x]) :
          name' = [name EXCEPT ![x] = nm]
    /\ StampRows({x}, NotDeleted)
    /\ UNCHANGED <<rows, ids, parent, clock, task>>

RestoreFile(x) ==
    /\ Trashed(x)
    /\ ~AncestorTrashed(parent[x])
    /\ \E nm \in FreeNames(x, parent[x], name[x]) :
          name' = [name EXCEPT ![x] = nm]
    /\ StampRows({x}, NotDeleted)
    /\ UNCHANGED <<rows, ids, parent, clock, task>>

(* Mutant: the whole subtree comes back, whoever trashed it and when.      *)
RestoreWholeFolder(f) ==
    /\ Trashed(f) /\ ~AncestorTrashed(parent[f])
    /\ StampRows(Sub(f), NotDeleted)
    /\ \E nm \in FreeNames(f, parent[f], name[f]) :
          name' = [name EXCEPT ![f] = nm]
    /\ UNCHANGED <<rows, ids, parent, clock, task>>

(* Mutant: the folder returns under the name it left with.                 *)
RestoreFolderAsNamed(f) ==
    /\ Trashed(f) /\ ~AncestorTrashed(parent[f])
    /\ StampRows({n \in Sub(f) \cap rows : deletedAt[n] = deletedAt[f]}, NotDeleted)
    /\ UNCHANGED <<rows, ids, parent, name, clock, task>>

(* The rows under f that wear f's own stamp come back with it.             *)
RestoreFolder(f) ==
    /\ Trashed(f)
    /\ ~AncestorTrashed(parent[f])
    /\ LET cascade == {n \in Sub(f) \cap rows : deletedAt[n] = deletedAt[f]}
       IN StampRows(cascade, NotDeleted)
    /\ \E nm \in FreeNames(f, parent[f], name[f]) :
          name' = [name EXCEPT ![f] = nm]
    /\ UNCHANGED <<rows, ids, parent, clock, task>>

(* insert_service_file: the row of the handle, in the trash or not, takes   *)
(* the name it is pushed under; a new handle makes a row at the top.  Here *)
(* nobody asks whether the name is free.                                   *)
InsertServiceFile(x, l) ==
    /\ x \in Pushed
    /\ \/ /\ x \in rows
          /\ name' = [name EXCEPT ![x] = l]
          /\ UNCHANGED <<rows, ids, parent, deletedAt, clock, task>>
       \/ /\ \A y \in rows \cap Pushed : ~SameHandle(x, y)
          /\ Insert(x, Root, l)

(* The rows D are gone: an id without a row says nothing.                  *)
Remove(D) ==
    /\ rows' = rows \ D
    /\ parent' = [n \in Node |-> IF n \in D THEN Root ELSE parent[n]]
    /\ name' = [n \in Node |-> IF n \in D THEN <<>> ELSE name[n]]
    /\ deletedAt' = [n \in Node |-> IF n \in D THEN NotDeleted ELSE deletedAt[n]]

(* delete_service_file: the row of the handle goes outright, past the      *)
(* trash.                                                                  *)
DeleteServiceFile(x) ==
    /\ x \in rows \cap Pushed
    /\ Remove({x})
    /\ UNCHANGED <<ids, clock, task>>

-----------------------------------------------------------------------------
(* The operations that read first and write later.                         *)

Start(w, t) == task[w] = Idle /\ task' = [task EXCEPT ![w] = t]
Step(w, t)  == task' = [task EXCEPT ![w] = t]
Finish(w)   == task' = [task EXCEPT ![w] = Idle]

(* delete_folder, delete_file up to now_text(): the row was read live, and *)
(* the stamp is taken before any lock.                                     *)
BeginDelete(w, n, op) ==
    /\ Live(n)
    /\ clock < MaxClock
    /\ clock' = clock + 1
    /\ Start(w, [Idle EXCEPT !.op = op, !.target = n, !.stamp = clock'])
    /\ UNCHANGED <<rows, ids, parent, name, deletedAt>>

DeleteFile(w, x)   == BeginDelete(w, x, "delete_file")
DeleteFolder(w, f) == BeginDelete(w, f, "delete_folder")

(* Mutant: the UPDATE without its guard.                                   *)
TrashFileAgain(w) ==
    /\ task[w].op = "delete_file"
    /\ StampRows({task[w].target} \cap rows, task[w].stamp)
    /\ Finish(w)
    /\ UNCHANGED <<rows, ids, parent, name, clock>>

(* The UPDATE of delete_file, guarded by deleted_at IS NULL.               *)
TrashFile(w) ==
    /\ task[w].op = "delete_file"
    /\ StampRows({n \in {task[w].target} : Live(n)}, task[w].stamp)
    /\ Finish(w)
    /\ UNCHANGED <<rows, ids, parent, name, clock>>

(* The transaction of delete_folder: one stamp for every live row of the   *)
(* subtree, as the tree is now.                                            *)
TrashFolder(w) ==
    LET f == task[w].target IN
    /\ task[w].op = "delete_folder"
    /\ StampRows({n \in Sub(f) : Live(n) /\ Owner[n] = Owner[f]}, task[w].stamp)
    /\ Finish(w)
    /\ UNCHANGED <<rows, ids, parent, name, clock>>

(* The first read of each purge: purge_file and purge_folder look at their *)
(* target; purge_expired is given a cutoff, empty_trash an owner.          *)
PurgeFile(w, x) ==
    /\ Trashed(x)
    /\ Start(w, [Idle EXCEPT !.op = "purge_file", !.target = x, !.files = {x}])
    /\ UNCHANGED <<rows, ids, parent, name, deletedAt, clock>>

PurgeFolder(w, f) ==
    /\ Trashed(f)
    /\ Start(w, [Idle EXCEPT !.op = "purge_folder", !.target = f,
                             !.todo = <<"folders", "files">>])
    /\ UNCHANGED <<rows, ids, parent, name, deletedAt, clock>>

PurgeExpired(w, before) ==
    /\ Start(w, [Idle EXCEPT !.op = "purge_expired", !.stamp = before,
                             !.todo = <<"files", "folders">>])
    /\ UNCHANGED <<rows, ids, parent, name, deletedAt, clock>>

EmptyTrash(w, u) ==
    /\ Start(w, [Idle EXCEPT !.op = "empty_trash", !.target = u,
                             !.todo = <<"files", "folders">>])
    /\ UNCHANGED <<rows, ids, parent, name, deletedAt, clock>>

(* passes_trash_guard.                                                     *)
PassesGuard(n, before) ==
    Trashed(n) /\ (before # NoCutoff => deletedAt[n] < before)

(* The WHERE clause of the candidate queries (purge_folder, select_expired,*)
(* select_trash).                                                          *)
Selected(t, n) ==
    /\ PassesGuard(n, t.stamp)
    /\ t.op = "purge_folder" => n \in Sub(t.target) /\ Owner[n] = Owner[t.target]
    /\ t.op = "empty_trash" => Owner[n] = t.target

(* The candidate queries run one after the other on the shared connection, *)
(* outside any transaction.  A purge that found nothing ends there, except *)
(* purge_folder, which opens its transaction all the same.                 *)
SelectFolders(w) ==
    LET t == task[w]
        found == [t EXCEPT
                    !.folders = {<<f, parent[f]>> :
                                    f \in {g \in Folder : Selected(t, g)}},
                    !.todo = Tail(t.todo)]
    IN /\ t.todo # <<>> /\ Head(t.todo) = "folders"
       /\ IF t.op # "purge_folder" /\ found.folders = {} /\ t.files = {}
          THEN Finish(w) ELSE Step(w, found)
       /\ UNCHANGED <<rows, ids, parent, name, deletedAt, clock>>

SelectFiles(w) ==
    LET t == task[w]
    IN /\ t.todo # <<>> /\ Head(t.todo) = "files"
       /\ Step(w, [t EXCEPT !.files = {x \in File : Selected(t, x)},
                            !.todo = Tail(t.todo)])
       /\ UNCHANGED <<rows, ids, parent, name, deletedAt, clock>>

Purging(t) ==
    /\ t.op \in {"purge_file", "purge_folder", "purge_expired", "empty_trash"}
    /\ t.todo = <<>>

(* Mutant: the transaction trusts the selection.                           *)
EveryCandidate(t) == rows \cap (t.files \cup {c[1] : c \in t.folders})

(* delete_file_rows, delete_folder_rows: the candidates that still pass    *)
(* the guard inside the transaction.                                       *)
Doomed(t) ==
    {n \in t.files \cup {c[1] : c \in t.folders} : PassesGuard(n, t.stamp)}

(* order_deepest_first and depth_in: the set ancestors of a candidate      *)
(* along the parents read with it.                                         *)
StaleAncestors(t, f) ==
    {a \in {c[1] : c \in t.folders} : a # f /\
        \A S \in SUBSET Folder :
            (a \in S /\ \A c \in t.folders : c[2] \in S => c[1] \in S) => f \in S}

Depth(t, f) == Cardinality(StaleAncestors(t, f))

(* Foreign keys are on: a folder row goes only after every row naming it.  *)
(* Files go first, then folders by the depth read earlier; equal depths    *)
(* come in whatever order the query gave.                                  *)
NothingLeftUnder(D) == \A n \in rows : parent[n] \in D => n \in D
ChildFirst(t, D) ==
    \A f \in D \cap Folder : parent[f] \in D => Depth(t, f) > Depth(t, parent[f])
ChildMayBeFirst(t, D) ==
    \A f \in D \cap Folder : parent[f] \in D => Depth(t, f) >= Depth(t, parent[f])

(* commit_trash_purge and the transactions of purge_file and purge_folder. *)
CommitPurge(w) ==
    LET D == Doomed(task[w]) IN
    /\ Purging(task[w])
    /\ NothingLeftUnder(D) /\ ChildMayBeFirst(task[w], D)
    /\ Remove(D)
    /\ Finish(w)
    /\ UNCHANGED <<ids, clock>>

(* The same transaction, refused by a foreign key and rolled back whole.   *)
RefusePurge(w) ==
    LET D == Doomed(task[w]) IN
    /\ Purging(task[w])
    /\ ~(NothingLeftUnder(D) /\ ChildFirst(task[w], D))
    /\ Finish(w)
    /\ UNCHANGED <<rows, ids, parent, name, deletedAt, clock>>

(* The request is dropped between two steps: the client left, the database *)
(* was busy, or the process died.                                          *)
Abandon(w) ==
    /\ task[w] # Idle
    /\ Finish(w)
    /\ UNCHANGED <<rows, ids, parent, name, deletedAt, clock>>

Parent == Folder \cup {Root}

Next ==
    \/ \E f \in Folder, p \in Parent :
          \/ \E l \in Wanted : CreateFolder(f, p, l)
          \/ MoveFolder(f, p)
    \/ \E x \in File, p \in Parent :
          \/ \E l \in Wanted : InsertFile(x, p, l)
          \/ MoveFile(x, p)
    \/ \E x \in File : DeleteServiceFile(x) \/ \E l \in Wanted : InsertServiceFile(x, l)
    \/ \E f \in Folder : RestoreFolder(f) \/ \E l \in Wanted : RenameFolder(f, l)
    \/ \E x \in File : RestoreFile(x) \/ \E l \in Wanted : RenameFile(x, l)
    \/ \E w \in Worker :
          \/ \E x \in File : DeleteFile(w, x) \/ PurgeFile(w, x)
          \/ \E f \in Folder : DeleteFolder(w, f) \/ PurgeFolder(w, f)
          \/ \E before \in 1..(clock + 1) : PurgeExpired(w, before)
          \/ \E u \in User : EmptyTrash(w, u)
          \/ TrashFile(w) \/ TrashFolder(w)
          \/ SelectFolders(w) \/ SelectFiles(w)
          \/ CommitPurge(w) \/ RefusePurge(w) \/ Abandon(w)

Spec == Init /\ [][Next]_vars

-----------------------------------------------------------------------------
(* Properties.                                                             *)

(* No live row under a trashed folder: what restore_folder relies on when  *)
(* it fixes up only the top folder's name, and purge_folder when it takes  *)
(* the trashed rows of a subtree for the whole of it.                      *)
NoLiveUnderTrash ==
    \A n \in rows : Live(n) /\ parent[n] # Root => Live(parent[n])

(* Two live siblings of a kind never wear the same name, whatever creates, *)
(* renames, moves and restores (whole cascades included) came in between,  *)
(* and whatever a service pushed beside them.  What it pushes itself may   *)
(* double any name, its own included.                                      *)
SiblingNamesDiffer ==
    \A m, n \in rows \ Pushed :
        (/\ m # n /\ SameKind(m, n) /\ Owner[m] = Owner[n]
         /\ parent[m] = parent[n] /\ Live(m) /\ Live(n)) => name[m] # name[n]

(* The folders form a forest: every set of folders has one whose parent is *)
(* outside it, so the walks of move_folder, ancestor_trashed and the       *)
(* recursive queries end.                                                  *)
NoCycle ==
    \A S \in SUBSET (rows \cap Folder) :
        S # {} => \E f \in S : parent[f] \notin S

(* Every parent has a row and the same owner: a tree belongs to one user,  *)
(* so that the owner filters of delete_folder and of the purges leave no   *)
(* row of a subtree out.                                                   *)
TreeOfOneOwner ==
    \A n \in rows : parent[n] # Root =>
        parent[n] \in rows /\ Owner[parent[n]] = Owner[n]

(* What one deletion took comes back together and alone: the rows a step   *)
(* brings out of the trash are all the rows that wear one stamp.           *)
RestoreIsExact ==
    [][LET back == {n \in rows : Trashed(n) /\ Live(n)'}
       IN \A m \in back : back = {n \in rows : deletedAt[n] = deletedAt[m]}]_vars

(* A row already in the trash keeps its own earlier moment when its folder *)
(* follows it, or when a second deletion of it was already on its way.     *)
TrashKeepsItsMoment ==
    [][\A n \in rows \cap rows' : Trashed(n) =>
          deletedAt'[n] \in {NotDeleted, deletedAt[n]}]_vars

(* A purge only ever takes trash, and an expiry purge only what is still   *)
(* older than its cutoff when the rows go: a restore, or a restore and a   *)
(* new deletion, between the selection and the transaction saves the row.  *)
(* What goes live, a service deletes by its handle, alone.                 *)
PurgeTakesOldTrash ==
    [][\A n \in rows \ rows' :
          /\ Trashed(n) \/ (n \in Pushed /\ rows' = rows \ {n} /\ UNCHANGED task)
          /\ \A w \in Worker :
                task[w].op = "purge_expired" /\ task'[w] = Idle
                    => deletedAt[n] < task[w].stamp]_vars

(* The inductive invariant behind the state properties.  Rows of one stamp *)
(* were siblings of distinct names when they were live together; they form *)
(* one tree, whose top is what was deleted; and no stamp is used twice.    *)
StampedTogether(m, n) ==
    /\ SameKind(m, n) /\ Owner[m] = Owner[n] /\ parent[m] = parent[n]
    /\ deletedAt[m] = deletedAt[n]

NamesDifferWithinStamp ==
    \A m, n \in rows \ Pushed : m # n /\ StampedTogether(m, n) => name[m] # name[n]

TopOfStamp(n) == parent[n] = Root \/ deletedAt[parent[n]] # deletedAt[n]

OneTopPerStamp ==
    \A m, n \in rows :
        (/\ Trashed(m) /\ deletedAt[m] = deletedAt[n]
         /\ TopOfStamp(m) /\ TopOfStamp(n)) => m = n

Deleting(w) == task[w].op \in {"delete_file", "delete_folder"}

StampsAreFresh ==
    /\ \A n \in rows : deletedAt[n] \leq clock
    /\ \A w \in Worker : Deleting(w) =>
          /\ task[w].stamp \in 1..clock
          /\ \A n \in rows : deletedAt[n] # task[w].stamp
          /\ \A v \in Worker :
                v # w /\ Deleting(v) => task[v].stamp # task[w].stamp

TargetsFit ==
    \A w \in Worker :
        /\ task[w].op = "delete_folder" => task[w].target \in Folder
        /\ task[w].op = "delete_file" => task[w].target \in File
        /\ Deleting(w) => task[w].todo = <<>>

IInv ==
    /\ TypeOK
    /\ TreeOfOneOwner
    /\ NoLiveUnderTrash
    /\ NoCycle
    /\ NamesDifferWithinStamp
    /\ OneTopPerStamp
    /\ StampsAreFresh
    /\ TargetsFit

(* Requests that read, wait and write, stamps, cascades and purge sets in   *)
(* foreign-key order add up to a simple tree: every step is one insertion, *)
(* move, deletion of a live subtree, restore or purge, or a service taking *)
(* a file of its own away, or changes nothing of the tree.                 *)
Abstract == INSTANCE Tree WITH trashed <- {n \in Node : Trashed(n)}

LibraryIsATree ==
    /\ Abstract!TreeInit
    /\ [][Abstract!TreeNext \/ \E x \in Pushed : Abstract!Erase(x)]_(Abstract!tree)

(* What the comment on order_deepest_first says: a purge set always        *)
(* contains whole subtrees.                                                *)
PurgeSetsAreWholeSubtrees ==
    \A w \in Worker : Purging(task[w]) =>
        NothingLeftUnder(Doomed(task[w]))
=============================================================================
