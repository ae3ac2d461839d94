--------------------------- MODULE LibraryProofs ---------------------------
(***************************************************************************)
(* What Library guarantees for every set of folders, files, users and      *)
(* requests: the invariant IInv is inductive.                              *)
(***************************************************************************)
EXTENDS Library, TLAPS

USE DEF NotDeleted, NoCutoff

-----------------------------------------------------------------------------
(* Lemmas about the operators of the model.                                *)

(* A folder is in its own subtree.                                         *)
LEMMA SubHasTop ==
    ASSUME NEW f \in Folder PROVE f \in SubFolders(f)
BY DEF SubFolders, ClosedUnderRows

(* The subtree is closed: with a folder it holds the rows inside it.       *)
LEMMA SubIsClosed ==
    ASSUME NEW f \in Folder, NEW g \in rows \cap Folder,
           parent[g] \in SubFolders(f)
    PROVE  g \in SubFolders(f)
BY DEF SubFolders, ClosedUnderRows

(* The subtree is the least closed set.                                    *)
LEMMA SubIsLeast ==
    ASSUME NEW f \in Folder, NEW S \in SUBSET Folder, ClosedUnderRows(f, S)
    PROVE  SubFolders(f) \subseteq S
BY DEF SubFolders

(* A subtree query over folders returns folders.                           *)
LEMMA SubAreFolders ==
    ASSUME NEW f PROVE SubFolders(f) \subseteq Folder
BY DEF SubFolders

(* Below its top, the subtree holds rows only, each with its parent.       *)
LEMMA SubHasParents ==
    ASSUME NEW f \in Folder, NEW g \in SubFolders(f), g # f
    PROVE  g \in rows /\ parent[g] \in SubFolders(f)
<1> DEFINE S == {f} \cup {h \in SubFolders(f) : h \in rows /\ parent[h] \in SubFolders(f)}
<1>1. S \subseteq SubFolders(f)
  BY SubHasTop
<1>2. S \in SUBSET Folder
  BY <1>1, SubAreFolders
<1>3. ClosedUnderRows(f, S)
  BY <1>1, SubIsClosed DEF ClosedUnderRows
<1>4. SubFolders(f) \subseteq S
  <2> HIDE DEF S
  <2> QED BY <1>2, <1>3, SubIsLeast
<1> QED
  BY <1>4

(* The same for files: Sub adds the files whose folder is in the subtree.  *)
LEMMA SubParents ==
    ASSUME NEW f \in Folder, NEW n \in Sub(f), n # f
    PROVE  n \in rows /\ n \in Node /\ parent[n] \in SubFolders(f)
BY SubHasParents, SubAreFolders DEF Sub, Node

(* A row whose folder is in the subtree is in the subtree.                 *)
LEMMA SubClosed ==
    ASSUME NEW f \in Folder, NEW n \in rows, n \in Node,
           parent[n] \in SubFolders(f)
    PROVE  n \in Sub(f)
BY SubIsClosed DEF Sub, Node

(* The name a row takes is one no live sibling wears.                      *)
LEMMA FreeNameIsFree ==
    ASSUME NEW n, NEW p, NEW want \in Name, NEW nm \in FreeNames(n, p, want)
    PROVE  nm \in Name /\ ~Taken(n, p, nm)
<1> PICK k \in 1..MaxPostfix : nm = Postfixed(want, k) /\ ~Taken(n, p, nm)
  BY DEF FreeNames
<1>1. k \in Nat
  BY BoundsNat
<1>2. Postfixed(want, k) \in Name
  BY <1>1 DEF Postfixed, Name
<1> QED
  BY <1>2

-----------------------------------------------------------------------------
(* Type correctness.                                                       *)

(* What a request asks for is a name.                                      *)
LEMMA WantedAreNames == ASSUME NEW l \in Wanted PROVE l \in Name
BY WantedType DEF Name

(* A worker without a request is a task.                                   *)
LEMMA IdleIsTask == Idle \in Task
BY DEF Idle, Task

(* The two orders in which the purges read their candidates.               *)
LEMMA PlansAreSequences ==
    /\ <<"folders", "files">> \in Seq({"folders", "files"})
    /\ <<"files", "folders">> \in Seq({"folders", "files"})
OBVIOUS

(* A fresh database is well typed.                                         *)
LEMMA InitTypeOK == Init => TypeOK
BY IdleIsTask DEF Init, TypeOK, Name

(* Every step of a request keeps the types.                                *)
LEMMA TypeOKStep == TypeOK /\ [Next]_vars => TypeOK'
<1> SUFFICES ASSUME TypeOK, [Next]_vars PROVE TypeOK'
  OBVIOUS
<1> USE DEF TypeOK
<1>1. CASE UNCHANGED vars
  BY <1>1 DEF vars
<1>2. ASSUME NEW n \in Node, NEW p \in Parent, NEW nm \in Name, Insert(n, p, nm)
      PROVE  TypeOK'
  BY <1>2 DEF Insert, StampRows, Parent
<1>3. ASSUME NEW n \in Node, NEW l \in Wanted, Rename(n, l)
      PROVE  TypeOK'
  BY <1>3, WantedAreNames, FreeNameIsFree DEF Rename
<1>4. ASSUME NEW n \in Node, NEW p \in Parent, Place(n, p)
      PROVE  TypeOK'
  <2>1. name[n] \in Name
    OBVIOUS
  <2> QED
    BY <1>4, <2>1, FreeNameIsFree DEF Place, Parent
<1>5. ASSUME NEW f \in Folder, RestoreFolder(f)
      PROVE  TypeOK'
  <2>1. name[f] \in Name /\ f \in Node
    BY DEF Node
  <2> QED
    BY <1>5, <2>1, FreeNameIsFree DEF RestoreFolder, StampRows
<1>6. ASSUME NEW x \in File, RestoreFile(x)
      PROVE  TypeOK'
  <2>1. name[x] \in Name /\ x \in Node
    BY DEF Node
  <2> QED
    BY <1>6, <2>1, FreeNameIsFree DEF RestoreFile, StampRows
<1>7. ASSUME NEW w \in Worker, NEW n \in Node,
             NEW op \in {"delete_file", "delete_folder"}, BeginDelete(w, n, op)
      PROVE  TypeOK'
  <2>1. clock' \in Nat
    BY <1>7 DEF BeginDelete
  <2>2. [Idle EXCEPT !.op = op, !.target = n, !.stamp = clock'] \in Task
    BY <2>1, IdleIsTask DEF Task
  <2> QED
    BY <1>7, <2>1, <2>2 DEF BeginDelete, Start
<1>8. ASSUME NEW w \in Worker, TrashFile(w) \/ TrashFolder(w)
      PROVE  TypeOK'
  <2>1. task[w].stamp \in Nat
    BY DEF Task
  <2> QED
    BY <1>8, <2>1, IdleIsTask DEF TrashFile, TrashFolder, StampRows, Finish
<1>9. ASSUME NEW w \in Worker, NEW t \in Task,
             task' = [task EXCEPT ![w] = t],
             UNCHANGED <<rows, ids, parent, name, deletedAt, clock>>
      PROVE  TypeOK'
  BY <1>9
<1>10. ASSUME NEW w \in Worker, CommitPurge(w)
       PROVE  TypeOK'
  <2>1. <<>> \in Name
    BY DEF Name
  <2> QED
    BY <1>10, <2>1, IdleIsTask DEF CommitPurge, Remove, Finish
<1>11. ASSUME NEW w \in Worker, NEW x \in File, PurgeFile(w, x)
       PROVE  TypeOK'
  <2>1. [Idle EXCEPT !.op = "purge_file", !.target = x, !.files = {x}] \in Task
    BY IdleIsTask DEF Task, Node
  <2> QED
    BY <1>11, <2>1, <1>9 DEF PurgeFile, Start
<1>12. ASSUME NEW w \in Worker, NEW f \in Folder, PurgeFolder(w, f)
       PROVE  TypeOK'
  <2>1. [Idle EXCEPT !.op = "purge_folder", !.target = f,
                     !.todo = <<"folders", "files">>] \in Task
    BY IdleIsTask, PlansAreSequences DEF Task, Node
  <2> QED
    BY <1>12, <2>1, <1>9 DEF PurgeFolder, Start
<1>13. ASSUME NEW w \in Worker, NEW b \in 1..(clock + 1), PurgeExpired(w, b)
       PROVE  TypeOK'
  <2>0. b \in Nat
    OBVIOUS
  <2>1. [Idle EXCEPT !.op = "purge_expired", !.stamp = b,
                     !.todo = <<"files", "folders">>] \in Task
    BY <2>0, IdleIsTask, PlansAreSequences DEF Task
  <2> QED
    BY <1>13, <2>1, <1>9 DEF PurgeExpired, Start
<1>14. ASSUME NEW w \in Worker, NEW u \in User, EmptyTrash(w, u)
       PROVE  TypeOK'
  <2>1. [Idle EXCEPT !.op = "empty_trash", !.target = u,
                     !.todo = <<"files", "folders">>] \in Task
    BY IdleIsTask, PlansAreSequences DEF Task
  <2> QED
    BY <1>14, <2>1, <1>9 DEF EmptyTrash, Start
<1>15. ASSUME NEW w \in Worker, SelectFolders(w)
       PROVE  TypeOK'
  <2> DEFINE F == {<<f, parent[f]>> : f \in {g \in Folder : Selected(task[w], g)}}
  <2>1. F \subseteq Folder \X (Folder \cup {Root})
    BY DEF Node
  <2>2. task[w] \in Task /\ task[w].todo # <<>>
    BY <1>15 DEF SelectFolders
  <2>3. Tail(task[w].todo) \in Seq({"folders", "files"})
    BY <2>2 DEF Task
  <2>4. [task[w] EXCEPT !.folders = F, !.todo = Tail(task[w].todo)] \in Task
    BY <2>1, <2>2, <2>3 DEF Task
  <2> QED
    BY <1>15, <2>4, <1>9, IdleIsTask DEF SelectFolders, Finish, Step
<1>16. ASSUME NEW w \in Worker, SelectFiles(w)
       PROVE  TypeOK'
  <2> DEFINE F == {x \in File : Selected(task[w], x)}
  <2>2. task[w] \in Task /\ task[w].todo # <<>>
    BY <1>16 DEF SelectFiles
  <2>3. Tail(task[w].todo) \in Seq({"folders", "files"})
    BY <2>2 DEF Task
  <2>4. [task[w] EXCEPT !.files = F, !.todo = Tail(task[w].todo)] \in Task
    BY <2>2, <2>3 DEF Task
  <2> QED
    BY <1>16, <2>4, <1>9 DEF SelectFiles, Step
<1>17. ASSUME NEW w \in Worker, RefusePurge(w) \/ Abandon(w)
       PROVE  TypeOK'
  BY <1>17, <1>9, IdleIsTask DEF RefusePurge, Abandon, Finish
<1>18. ASSUME NEW n \in Node, NEW p \in Parent, NEW l \in Wanted,
              NEW nm \in FreeNames(n, p, l), Insert(n, p, nm)
       PROVE  TypeOK'
  BY <1>2, <1>18, WantedAreNames, FreeNameIsFree
<1>19. ASSUME NEW x \in File, NEW l \in Wanted, InsertServiceFile(x, l)
       PROVE  TypeOK'
  <2>1. x \in Node /\ l \in Name /\ Root \in Parent
    BY WantedAreNames DEF Node, Parent
  <2>2. CASE Insert(x, Root, l)
    BY <1>2, <2>1, <2>2
  <2>3. CASE /\ name' = [name EXCEPT ![x] = l]
             /\ UNCHANGED <<rows, ids, parent, deletedAt, clock, task>>
    BY <2>1, <2>3
  <2> QED
    BY <1>19, <2>2, <2>3 DEF InsertServiceFile
<1>20. ASSUME NEW x \in File, DeleteServiceFile(x)
       PROVE  TypeOK'
  <2>1. <<>> \in Name
    BY DEF Name
  <2> QED
    BY <1>20, <2>1 DEF DeleteServiceFile, Remove
<1> QED
  BY <1>1, <1>18, <1>3, <1>4, <1>5, <1>6, <1>7, <1>8, <1>10, <1>11, <1>12, <1>13,
     <1>14, <1>15, <1>16, <1>17, <1>19, <1>20
  DEF Next, Node, CreateFolder, InsertFile, MoveFolder, MoveFile, DeleteFile,
      DeleteFolder, RenameFolder, RenameFile

(* The rows, names, stamps and requests keep their types in every          *)
(* reachable state, and every row has an id that was generated.            *)
THEOREM TypeCorrect == Spec => []TypeOK
BY InitTypeOK, TypeOKStep, PTL DEF Spec

-----------------------------------------------------------------------------
(* The inductive invariant, operation by operation.  Each lemma shows the  *)
(* conjuncts its operation can disturb.                                    *)

TreeInv ==
    /\ TreeOfOneOwner
    /\ NoLiveUnderTrash
    /\ NoCycle
    /\ NamesDifferWithinStamp
    /\ OneTopPerStamp

(* A parent is a folder that has a row, or the root.                       *)
LEMMA ParentIsRow ==
    ASSUME TypeOK, TreeOfOneOwner, NEW n \in rows, parent[n] # Root
    PROVE  parent[n] \in rows /\ parent[n] \in Folder /\ parent[n] \in Node
BY DEF TypeOK, TreeOfOneOwner, Node

(* create_folder, insert_file, insert_service_file: a new live row in a    *)
(* live folder, under a free name if it is a person's.                     *)
LEMMA InsertKeepsTree ==
    ASSUME IInv, NEW n \in Node, NEW p \in Parent, NEW nm,
           LiveParent(p, Owner[n]), n \in Pushed \/ ~Taken(n, p, nm),
           Insert(n, p, nm)
    PROVE  TreeInv'
<1> USE DEF IInv
<1>1. n \notin rows /\ n # p
  BY RootIsNoNode DEF TypeOK, Insert, LiveParent, Live
<1>2. /\ rows' = rows \cup {n}
      /\ parent'[n] = p /\ name'[n] = nm /\ deletedAt'[n] = NotDeleted
      /\ \A m \in Node : m # n =>
           parent'[m] = parent[m] /\ name'[m] = name[m] /\ deletedAt'[m] = deletedAt[m]
  BY DEF TypeOK, Insert, StampRows
<1>3. \A m \in rows : m \in Node /\ m # n
  BY <1>1 DEF TypeOK
<1>4. \A m \in rows : parent[m] # n
  BY <1>1, ParentIsRow, RootIsNoNode DEF TypeOK
<1>5. TreeOfOneOwner'
  BY <1>1, <1>2, <1>3 DEF TreeOfOneOwner, LiveParent, Live
<1>6. NoLiveUnderTrash'
  <2> SUFFICES ASSUME NEW m \in rows', Live(m)', parent'[m] # Root
               PROVE  Live(parent[m])'
    BY DEF NoLiveUnderTrash
  <2>1. CASE m = n
    BY <1>1, <1>2, <1>3, <2>1 DEF LiveParent, Live
  <2>2. CASE m # n
    <3>1. m \in rows /\ parent[m] # Root /\ Live(m)
      BY <1>2, <1>3, <2>2 DEF Live
    <3>2. Live(parent[m]) /\ parent[m] \in Node
      BY <3>1, ParentIsRow DEF NoLiveUnderTrash
    <3> QED
      BY <1>2, <1>3, <1>4, <2>2, <3>1, <3>2 DEF Live
  <2> QED
    BY <2>1, <2>2
<1>7. NoCycle'
  <2> SUFFICES ASSUME NEW S \in SUBSET (rows' \cap Folder), S # {}
               PROVE  \E f \in S : parent'[f] \notin S
    BY DEF NoCycle
  <2> DEFINE T == S \ {n}
  <2>1. T \in SUBSET (rows \cap Folder)
    BY <1>2
  <2>2. CASE n \in S /\ p \notin S
    BY <1>2, <2>2
  <2>3. CASE n \notin S \/ p \in S
    <3>1. T # {}
      BY <1>1, <2>3
    <3>2. PICK f \in T : parent[f] \notin T
      BY <2>1, <3>1 DEF NoCycle
    <3>3. parent'[f] = parent[f] /\ parent[f] # n
      BY <1>2, <1>3, <1>4, <2>1, <3>2
    <3> QED
      BY <3>2, <3>3
  <2> QED
    BY <2>2, <2>3
<1>8. NamesDifferWithinStamp'
  <2> SUFFICES ASSUME NEW m \in rows' \ Pushed, NEW k \in rows' \ Pushed,
                      m # k, StampedTogether(m, k)'
               PROVE  name'[m] # name'[k]
    BY DEF NamesDifferWithinStamp
  <2>1. CASE m # n /\ k # n
    BY <1>2, <1>3, <2>1 DEF NamesDifferWithinStamp, StampedTogether
  <2>2. CASE m = n
    BY <1>2, <1>3, <2>2 DEF Taken, Live, StampedTogether, SameKind
  <2>3. CASE k = n
    BY <1>2, <1>3, <2>3 DEF Taken, Live, StampedTogether, SameKind
  <2> QED
    BY <2>1, <2>2, <2>3
<1>9. OneTopPerStamp'
  <2> SUFFICES ASSUME NEW m \in rows', NEW k \in rows', Trashed(m)',
                      deletedAt'[m] = deletedAt'[k], TopOfStamp(m)', TopOfStamp(k)'
               PROVE  m = k
    BY DEF OneTopPerStamp
  <2>1. m \in rows /\ k \in rows
    BY <1>2 DEF Trashed
  <2>2. \A j \in {m, k} : deletedAt'[j] = deletedAt[j] /\ parent'[j] = parent[j]
    BY <1>2, <1>3, <2>1
  <2>3. \A j \in {m, k} : TopOfStamp(j)
    BY <1>2, <1>4, <2>1, <2>2, ParentIsRow DEF TopOfStamp
  <2> QED
    BY <2>1, <2>2, <2>3 DEF OneTopPerStamp, Trashed
<1> QED
  BY <1>5, <1>6, <1>7, <1>8, <1>9 DEF TreeInv

(* rename_folder, rename_file, move_folder, move_file: a live row takes a  *)
(* free name in a live folder that is not inside it.                       *)
LEMMA PlaceKeepsTree ==
    ASSUME IInv, NEW n \in Node, NEW p \in Parent, NEW nm,
           Live(n), LiveParent(p, Owner[n]), ~Taken(n, p, nm),
           n \in Folder => p \notin SubFolders(n),
           parent' = [parent EXCEPT ![n] = p], name' = [name EXCEPT ![n] = nm],
           UNCHANGED <<rows, deletedAt>>
    PROVE  TreeInv'
<1> USE DEF IInv
<1>1. /\ parent'[n] = p /\ name'[n] = nm
      /\ \A m \in Node : m # n => parent'[m] = parent[m] /\ name'[m] = name[m]
  BY DEF TypeOK
<1>2. \A m \in rows : m \in Node
  BY DEF TypeOK
<1>3. TreeOfOneOwner'
  BY <1>1, <1>2 DEF TreeOfOneOwner, LiveParent, Live
<1>4. NoLiveUnderTrash'
  BY <1>1, <1>2 DEF NoLiveUnderTrash, LiveParent, Live
<1>5. NoCycle'
  <2> SUFFICES ASSUME NEW S \in SUBSET (rows \cap Folder), S # {},
                      \A f \in S : parent'[f] \in S
               PROVE  FALSE
    BY DEF NoCycle
  <2>1. n \in S
    BY <1>1, <1>2 DEF NoCycle
  <2>2. n \in Folder /\ p \in S
    BY <1>1, <2>1
  <2> DEFINE T == S \ SubFolders(n)
  <2>3. p \in T /\ T \in SUBSET (rows \cap Folder)
    BY <2>2
  <2>4. ASSUME NEW f \in T PROVE parent[f] \in T
    <3>1. f # n
      BY <2>2, SubHasTop
    <3>2. parent[f] \in S
      BY <1>1, <1>2, <3>1
    <3>3. parent[f] \notin SubFolders(n)
      BY <2>2, <2>3, SubIsClosed
    <3> QED
      BY <3>2, <3>3
  <2> QED
    BY <2>3, <2>4 DEF NoCycle
<1>6. NamesDifferWithinStamp'
  <2> SUFFICES ASSUME NEW m \in rows \ Pushed, NEW k \in rows \ Pushed,
                      m # k, StampedTogether(m, k)'
               PROVE  name'[m] # name'[k]
    BY DEF NamesDifferWithinStamp
  <2>1. CASE m # n /\ k # n
    BY <1>1, <1>2, <2>1 DEF NamesDifferWithinStamp, StampedTogether
  <2>2. CASE m = n
    BY <1>1, <1>2, <2>2 DEF Taken, Live, StampedTogether, SameKind
  <2>3. CASE k = n
    BY <1>1, <1>2, <2>3 DEF Taken, Live, StampedTogether, SameKind
  <2> QED
    BY <2>1, <2>2, <2>3
<1>7. OneTopPerStamp'
  BY <1>1, <1>2 DEF OneTopPerStamp, TopOfStamp, Trashed, Live
<1> QED
  BY <1>3, <1>4, <1>5, <1>6, <1>7 DEF TreeInv

(* No trashed folder at or above p: p itself is the root or live.          *)
LEMMA NoTrashAbove ==
    ASSUME TypeOK, TreeOfOneOwner, NEW n \in rows, ~AncestorTrashed(parent[n])
    PROVE  parent[n] = Root \/ Live(parent[n])
BY ParentIsRow, SubHasTop DEF AncestorTrashed, Live, Trashed

(* restore_file: the file is the only row of its stamp that has no parent  *)
(* in the trash, so nothing else of that stamp is left without one.        *)
LEMMA RestoreFileKeepsTree ==
    ASSUME IInv, NEW x \in File, RestoreFile(x)
    PROVE  TreeInv'
<1> USE DEF IInv
<1>1. /\ x \in rows /\ x \in Node /\ x \notin Folder
      /\ parent[x] = Root \/ Live(parent[x])
  BY NoTrashAbove, KindsDisjoint DEF RestoreFile, Trashed, Node
<1>2. PICK nm \in FreeNames(x, parent[x], name[x]) : name' = [name EXCEPT ![x] = nm]
  BY DEF RestoreFile
<1>3. ~Taken(x, parent[x], nm)
  BY <1>1, <1>2, FreeNameIsFree DEF TypeOK
<1>4. /\ rows' = rows /\ parent' = parent
      /\ name'[x] = nm /\ deletedAt'[x] = NotDeleted
      /\ \A m \in Node : m # x => name'[m] = name[m] /\ deletedAt'[m] = deletedAt[m]
  BY <1>1, <1>2 DEF TypeOK, RestoreFile, StampRows
<1>5. \A m \in rows : m \in Node /\ parent[m] # x
  BY <1>1, RootIsNoNode DEF TypeOK
<1>6. TreeOfOneOwner' /\ NoCycle'
  BY <1>4 DEF TreeOfOneOwner, NoCycle
<1>7. NoLiveUnderTrash'
  <2> SUFFICES ASSUME NEW m \in rows, Live(m)', parent[m] # Root
               PROVE  Live(parent[m])'
    BY <1>4 DEF NoLiveUnderTrash
  <2>1. Live(parent[m])
    BY <1>1, <1>4, <1>5 DEF NoLiveUnderTrash, Live
  <2> QED
    BY <2>1, <1>4, <1>5, ParentIsRow DEF Live
<1>8. NamesDifferWithinStamp'
  <2> SUFFICES ASSUME NEW m \in rows \ Pushed, NEW k \in rows \ Pushed,
                      m # k, StampedTogether(m, k)'
               PROVE  name'[m] # name'[k]
    BY <1>4 DEF NamesDifferWithinStamp
  <2>1. CASE m # x /\ k # x
    BY <1>4, <1>5, <2>1 DEF NamesDifferWithinStamp, StampedTogether
  <2>2. CASE m = x
    BY <1>3, <1>4, <1>5, <2>2 DEF Taken, Live, StampedTogether, SameKind
  <2>3. CASE k = x
    BY <1>3, <1>4, <1>5, <2>3 DEF Taken, Live, StampedTogether, SameKind
  <2> QED
    BY <2>1, <2>2, <2>3
<1>9. OneTopPerStamp'
  <2> SUFFICES ASSUME NEW m \in rows, NEW k \in rows, Trashed(m)',
                      deletedAt'[m] = deletedAt'[k], TopOfStamp(m)', TopOfStamp(k)'
               PROVE  m = k
    BY <1>4 DEF OneTopPerStamp
  <2>1. \A j \in {m, k} : deletedAt'[j] = deletedAt[j]
    BY <1>4, <1>5 DEF Trashed
  <2>2. \A j \in {m, k} : TopOfStamp(j)
    BY <1>4, <1>5, <2>1, ParentIsRow DEF TopOfStamp
  <2> QED
    BY <2>1, <2>2 DEF OneTopPerStamp, Trashed
<1> QED
  BY <1>6, <1>7, <1>8, <1>9 DEF TreeInv

(* restore_folder: the folder is the top of its stamp; what comes back is  *)
(* closed upwards to it, what stays behind keeps its parent in the trash.  *)
LEMMA RestoreFolderKeepsTree ==
    ASSUME IInv, NEW f \in Folder, RestoreFolder(f)
    PROVE  TreeInv'
<1> USE DEF IInv
<1> DEFINE t == deletedAt[f]
           C == {n \in Sub(f) \cap rows : deletedAt[n] = t}
<1>1. /\ f \in rows /\ f \in Node /\ t # NotDeleted
      /\ parent[f] = Root \/ Live(parent[f])
  BY NoTrashAbove DEF RestoreFolder, Trashed, Node
<1>2. PICK nm \in FreeNames(f, parent[f], name[f]) : name' = [name EXCEPT ![f] = nm]
  BY DEF RestoreFolder
<1>3. ~Taken(f, parent[f], nm)
  BY <1>1, <1>2, FreeNameIsFree DEF TypeOK
<1>4. /\ rows' = rows /\ parent' = parent /\ name'[f] = nm
      /\ \A m \in Node : m # f => name'[m] = name[m]
      /\ \A m \in C : deletedAt'[m] = NotDeleted
      /\ \A m \in Node \ C : deletedAt'[m] = deletedAt[m]
  BY <1>1, <1>2 DEF TypeOK, RestoreFolder, StampRows
<1>5. f \in C /\ \A m \in rows : m \in Node
  BY <1>1, SubHasTop DEF TypeOK, Sub
<1>6. TopOfStamp(f) /\ Trashed(f)
  BY <1>1 DEF TopOfStamp, Live, Trashed
<1>7. ASSUME NEW n \in rows, deletedAt[n] = t, n # f
      PROVE  parent[n] # Root /\ parent[n] \in rows /\ deletedAt[parent[n]] = t
  <2>1. ~TopOfStamp(n)
    BY <1>1, <1>6, <1>7 DEF OneTopPerStamp
  <2> QED
    BY <1>7, <2>1, ParentIsRow DEF TopOfStamp
<1>8. ASSUME NEW n \in C, n # f
      PROVE  parent[n] # Root /\ parent[n] \in C
  <2>1. parent[n] \in SubFolders(f)
    BY <1>8, SubParents
  <2> QED
    BY <1>7, <1>8, <2>1 DEF Sub
<1>9. ASSUME NEW n \in rows, n \notin C, deletedAt[n] = t
      PROVE  /\ parent[n] # Root /\ parent[n] \in rows \ C
             /\ deletedAt[parent[n]] = t
  <2>1. parent[n] # Root /\ parent[n] \in rows /\ parent[n] \in Folder
    BY <1>5, <1>7, <1>9, ParentIsRow
  <2>2. parent[n] \notin SubFolders(f)
    BY <1>5, <1>9, SubClosed
  <2>3. parent[n] \notin Sub(f)
    BY <2>1, <2>2, KindsDisjoint DEF Sub
  <2> QED
    BY <1>5, <1>7, <1>9, <2>1, <2>3
<1> HIDE DEF C
<1>10. TreeOfOneOwner' /\ NoCycle'
  BY <1>4 DEF TreeOfOneOwner, NoCycle
<1>11. \A n \in C : n \in rows /\ deletedAt[n] = t
  BY DEF C
<1>12. ASSUME NEW n \in rows, Live(n) PROVE n \notin C
  BY <1>1, <1>11, <1>12 DEF Live
<1>13. NoLiveUnderTrash'
  <2> SUFFICES ASSUME NEW n \in rows, Live(n)', parent[n] # Root
               PROVE  Live(parent[n])'
    BY <1>4 DEF NoLiveUnderTrash
  <2>0. parent[n] \in Node /\ parent[n] \in rows
    BY ParentIsRow
  <2>1. CASE n \in C /\ n # f
    BY <1>4, <1>8, <2>0, <2>1 DEF Live
  <2>2. CASE n = f
    BY <1>1, <1>4, <1>12, <2>0, <2>2 DEF Live
  <2>3. CASE n \notin C
    <3>1. Live(n)
      BY <1>4, <1>5, <2>3 DEF Live
    <3>2. Live(parent[n])
      BY <3>1 DEF NoLiveUnderTrash
    <3> QED
      BY <1>4, <1>12, <2>0, <3>2 DEF Live
  <2> QED
    BY <2>1, <2>2, <2>3
<1>14. NamesDifferWithinStamp'
  <2>1. ASSUME NEW m \in rows \ Pushed, NEW k \in rows \ Pushed,
               m # k, StampedTogether(m, k)',
               deletedAt[m] = deletedAt[k], m # f, k # f
        PROVE  name'[m] # name'[k]
    <3>1. StampedTogether(m, k)
      BY <1>4, <2>1 DEF StampedTogether, SameKind
    <3> QED
      BY <1>4, <1>5, <2>1, <3>1 DEF NamesDifferWithinStamp
  <2>2. ASSUME NEW k \in rows, k # f, StampedTogether(f, k)'
        PROVE  k \notin C /\ Live(k) /\ name'[f] # name'[k]
    <3>1. parent[k] = parent[f] /\ deletedAt'[k] = NotDeleted
      BY <1>4, <1>5, <2>2 DEF StampedTogether
    <3>2. k \notin C
      BY <1>1, <1>8, <1>11, <2>2, <3>1 DEF Live
    <3>3. Live(k)
      BY <1>4, <1>5, <3>1, <3>2 DEF Live
    <3> QED
      BY <1>3, <1>4, <1>5, <2>2, <3>1, <3>2, <3>3 DEF Taken, StampedTogether, SameKind
  <2>3. ASSUME NEW m \in C, m # f, NEW k \in rows, k \notin C, StampedTogether(m, k)'
        PROVE  FALSE
    <3>1. parent[k] = parent[m] /\ deletedAt'[k] = NotDeleted
      BY <1>4, <2>3 DEF StampedTogether
    <3>2. Live(k)
      BY <1>4, <1>5, <2>3, <3>1 DEF Live
    <3>3. parent[k] # Root /\ parent[k] \in C
      BY <1>8, <2>3, <3>1
    <3> QED
      BY <1>1, <1>11, <3>2, <3>3 DEF NoLiveUnderTrash, Live
  <2> SUFFICES ASSUME NEW m \in rows \ Pushed, NEW k \in rows \ Pushed,
                      m # k, StampedTogether(m, k)'
               PROVE  name'[m] # name'[k]
    BY <1>4 DEF NamesDifferWithinStamp
  <2>4. StampedTogether(k, m)'
    BY DEF StampedTogether, SameKind
  <2>5. CASE m = f \/ k = f
    BY <2>2, <2>4, <2>5
  <2>6. CASE m # f /\ k # f /\ (m \in C <=> k \in C)
    <3>1. deletedAt[m] = deletedAt[k]
      BY <1>4, <1>5, <1>11, <2>6 DEF StampedTogether
    <3> QED
      BY <2>1, <2>6, <3>1
  <2>7. CASE m # f /\ k # f /\ ~(m \in C <=> k \in C)
    BY <2>3, <2>4, <2>7
  <2> QED
    BY <2>5, <2>6, <2>7
<1>15. OneTopPerStamp'
  <2> SUFFICES ASSUME NEW m \in rows, NEW k \in rows, Trashed(m)',
                      deletedAt'[m] = deletedAt'[k], TopOfStamp(m)', TopOfStamp(k)'
               PROVE  m = k
    BY <1>4 DEF OneTopPerStamp
  <2>1. \A j \in {m, k} : j \notin C /\ deletedAt'[j] = deletedAt[j]
    BY <1>4, <1>5 DEF Trashed
  <2>2. ASSUME NEW j \in {m, k} PROVE TopOfStamp(j)
    <3>1. CASE deletedAt[j] = t
      <4>1. parent[j] # Root /\ parent[j] \in rows \ C /\ deletedAt[parent[j]] = t
        BY <1>9, <2>1, <3>1
      <4>2. deletedAt'[parent[j]] = t
        BY <1>4, <1>5, <4>1
      <4> QED
        BY <1>4, <2>1, <3>1, <4>1, <4>2 DEF TopOfStamp
    <3>2. CASE deletedAt[j] # t
      <4>1. CASE parent[j] = Root
        BY <4>1 DEF TopOfStamp
      <4>2. CASE parent[j] # Root
        <5>1. parent[j] \in Node /\ deletedAt'[parent[j]] # deletedAt[j]
          BY <1>4, <2>1, <4>2, ParentIsRow DEF TopOfStamp
        <5>2. deletedAt[parent[j]] # deletedAt[j]
          BY <1>4, <1>11, <3>2, <5>1
        <5> QED
          BY <5>2 DEF TopOfStamp
      <4> QED
        BY <4>1, <4>2
    <3> QED
      BY <3>1, <3>2
  <2> QED
    BY <2>1, <2>2 DEF OneTopPerStamp, Trashed
<1> QED
  BY <1>10, <1>13, <1>14, <1>15 DEF TreeInv

(* delete_file and delete_folder, when they write: the rows C, live and    *)
(* closed upwards to top, take the stamp t that no row wears.              *)
LEMMA StampKeepsTree ==
    ASSUME IInv, NEW C \in SUBSET rows, NEW top, NEW t \in Nat,
           t # NotDeleted, \A n \in rows : deletedAt[n] # t,
           \A n \in C : Live(n),
           \A n \in C : n # top => parent[n] \in C,
           \A n \in rows : Live(n) /\ parent[n] \in C => n \in C,
           StampRows(C, t), UNCHANGED <<rows, parent, name>>
    PROVE  TreeInv'
<1> USE DEF IInv
<1>1. /\ \A n \in rows : n \in Node /\ n # Root
      /\ \A n \in C : n \in rows /\ deletedAt[n] = NotDeleted /\ deletedAt'[n] = t
      /\ \A n \in Node \ C : deletedAt'[n] = deletedAt[n]
  BY RootIsNoNode DEF TypeOK, StampRows, Live
<1>2. TreeOfOneOwner' /\ NoCycle'
  BY DEF TreeOfOneOwner, NoCycle
<1>3. NoLiveUnderTrash'
  <2> SUFFICES ASSUME NEW n \in rows, Live(n)', parent[n] # Root
               PROVE  Live(parent[n])'
    BY DEF NoLiveUnderTrash
  <2>1. n \notin C /\ Live(n)
    BY <1>1 DEF Live
  <2>2. Live(parent[n]) /\ parent[n] \notin C
    BY <2>1 DEF NoLiveUnderTrash
  <2> QED
    BY <1>1, <2>2 DEF Live
<1>4. NamesDifferWithinStamp'
  BY <1>1 DEF NamesDifferWithinStamp, StampedTogether, SameKind
<1>5. OneTopPerStamp'
  <2> SUFFICES ASSUME NEW m \in rows, NEW k \in rows, Trashed(m)',
                      deletedAt'[m] = deletedAt'[k], TopOfStamp(m)', TopOfStamp(k)'
               PROVE  m = k
    BY DEF OneTopPerStamp
  <2>1. CASE m \in C
    <3>1. k \in C
      BY <1>1, <2>1
    <3>2. \A j \in C : TopOfStamp(j)' => j = top
      BY <1>1 DEF TopOfStamp
    <3> QED
      BY <2>1, <3>1, <3>2
  <2>2. CASE m \notin C
    <3>1. \A j \in {m, k} : j \notin C /\ deletedAt[j] = deletedAt'[j]
                           /\ deletedAt[j] # NotDeleted
      BY <1>1, <2>2 DEF Trashed
    <3>2. ASSUME NEW j \in {m, k}, parent[j] # Root
          PROVE  deletedAt[parent[j]] # deletedAt[j]
      <4>1. parent[j] \in rows /\ deletedAt'[parent[j]] # deletedAt'[j]
        BY <3>2, ParentIsRow DEF TopOfStamp
      <4> QED
        BY <1>1, <3>1, <4>1
    <3>3. \A j \in {m, k} : TopOfStamp(j)
      BY <3>2 DEF TopOfStamp
    <3> QED
      BY <3>1, <3>3 DEF OneTopPerStamp, Trashed
  <2> QED
    BY <2>1, <2>2
<1> QED
  BY <1>2, <1>3, <1>4, <1>5 DEF TreeInv

(* delete_file: at most one live row takes a stamp, and nothing is below it. *)
LEMMA TrashFileKeepsTree ==
    ASSUME IInv, NEW w \in Worker, TrashFile(w)
    PROVE  TreeInv'
<1> USE DEF IInv
<1> DEFINE x == task[w].target
           C == {n \in {x} : Live(n)}
<1>1. /\ Deleting(w) /\ x \in File
      /\ task[w].stamp \in Nat /\ task[w].stamp # NotDeleted
      /\ \A n \in rows : deletedAt[n] # task[w].stamp
  BY DEF TrashFile, Deleting, StampsAreFresh, TargetsFit, TypeOK
<1>2. \A n \in rows : parent[n] # x
  BY <1>1, KindsDisjoint, RootIsNoNode DEF TypeOK, Node
<1>3. C \in SUBSET rows
  BY DEF Live
<1>4. /\ StampRows(C, task[w].stamp)
      /\ UNCHANGED <<rows, parent, name>>
  BY DEF TrashFile
<1> QED
  BY <1>1, <1>2, <1>3, <1>4, StampKeepsTree

(* delete_folder: the live rows of the subtree take the stamp together.    *)
LEMMA TrashFolderKeepsTree ==
    ASSUME IInv, NEW w \in Worker, TrashFolder(w)
    PROVE  TreeInv'
<1> USE DEF IInv
<1> DEFINE f == task[w].target
           C == {n \in Sub(f) : Live(n) /\ Owner[n] = Owner[f]}
<1>1. /\ Deleting(w) /\ f \in Folder
      /\ task[w].stamp \in Nat /\ task[w].stamp # NotDeleted
      /\ \A n \in rows : deletedAt[n] # task[w].stamp
  BY DEF TrashFolder, Deleting, StampsAreFresh, TargetsFit, TypeOK
<1>2. C \in SUBSET rows /\ \A n \in C : Live(n)
  BY DEF Live
<1>3. ASSUME NEW n \in C, n # f PROVE parent[n] \in C
  <2>1. /\ n \in rows /\ parent[n] \in SubFolders(f) /\ parent[n] \in Folder
    BY <1>1, <1>2, <1>3, SubParents, SubAreFolders
  <2>2. parent[n] # Root
    BY <2>1, RootIsNoNode DEF Node
  <2>3. Live(parent[n]) /\ Owner[parent[n]] = Owner[n]
    BY <1>2, <2>1, <2>2 DEF NoLiveUnderTrash, TreeOfOneOwner
  <2> QED
    BY <2>1, <2>3 DEF Sub
<1>4. ASSUME NEW n \in rows, Live(n), parent[n] \in C PROVE n \in C
  <2>1. parent[n] \in Node /\ parent[n] # Root
    BY <1>2, <1>4, RootIsNoNode DEF TypeOK
  <2>2. parent[n] \in Folder /\ Owner[parent[n]] = Owner[n] /\ n \in Node
    BY <2>1, ParentIsRow DEF TreeOfOneOwner, TypeOK
  <2>3. parent[n] \in SubFolders(f)
    BY <1>4, <2>2, KindsDisjoint DEF Sub
  <2> QED
    BY <1>1, <1>4, <2>2, <2>3, SubClosed
<1>5. /\ StampRows(C, task[w].stamp)
      /\ UNCHANGED <<rows, parent, name>>
  BY DEF TrashFolder
<1> HIDE DEF C, f
<1> QED
  BY <1>1, <1>2, <1>3, <1>4, <1>5, StampKeepsTree

(* Rows that go and leave no row below them behind: a purge, or a file.    *)
LEMMA RemoveKeepsTree ==
    ASSUME IInv, NEW D, NothingLeftUnder(D), Remove(D)
    PROVE  TreeInv'
<1> USE DEF IInv
<1>1. /\ rows' = rows \ D
      /\ \A n \in rows' : n \in Node /\ n \in rows /\ n \notin D /\ parent[n] \notin D
      /\ \A n \in Node \ D : /\ parent'[n] = parent[n] /\ name'[n] = name[n]
                            /\ deletedAt'[n] = deletedAt[n]
  BY DEF NothingLeftUnder, Remove, TypeOK
<1>2. \A n \in rows' : parent'[n] # Root =>
          parent[n] \in rows' /\ deletedAt'[parent[n]] = deletedAt[parent[n]]
  BY <1>1, ParentIsRow
<1>3. TreeOfOneOwner'
  BY <1>1, <1>2 DEF TreeOfOneOwner
<1>4. NoLiveUnderTrash'
  BY <1>1, <1>2 DEF NoLiveUnderTrash, Live
<1>5. NoCycle'
  <2> SUFFICES ASSUME NEW S \in SUBSET (rows' \cap Folder), S # {}
               PROVE  \E f \in S : parent'[f] \notin S
    BY DEF NoCycle
  <2>1. S \in SUBSET (rows \cap Folder)
    BY <1>1
  <2> QED
    BY <1>1, <2>1 DEF NoCycle
<1>6. NamesDifferWithinStamp'
  BY <1>1 DEF NamesDifferWithinStamp, StampedTogether, SameKind
<1>7. OneTopPerStamp'
  <2>1. \A n \in rows' : TopOfStamp(n)' => TopOfStamp(n)
    BY <1>1, <1>2 DEF TopOfStamp
  <2> QED
    BY <1>1, <2>1 DEF OneTopPerStamp, Trashed
<1> QED
  BY <1>3, <1>4, <1>5, <1>6, <1>7 DEF TreeInv

(* A name written where nobody asks whether it is free changes nothing but *)
(* the names of what services push.                                        *)
LEMMA PushKeepsTree ==
    ASSUME IInv, NEW x \in Pushed, NEW nm, name' = [name EXCEPT ![x] = nm],
           UNCHANGED <<rows, parent, deletedAt>>
    PROVE  TreeInv'
<1> USE DEF IInv
<1>1. TreeOfOneOwner' /\ NoLiveUnderTrash' /\ NoCycle' /\ OneTopPerStamp'
  BY DEF TreeOfOneOwner, NoLiveUnderTrash, NoCycle, OneTopPerStamp, Live, Trashed,
     TopOfStamp
<1>2. \A n \in rows \ Pushed : name'[n] = name[n]
  BY DEF TypeOK
<1>3. NamesDifferWithinStamp'
  BY <1>2 DEF NamesDifferWithinStamp, StampedTogether
<1> QED
  BY <1>1, <1>3 DEF TreeInv

(* No row is inside a file.                                                *)
LEMMA NothingInFile ==
    ASSUME TypeOK, NEW x \in File PROVE NothingLeftUnder({x})
BY KindsDisjoint, RootIsNoNode DEF TypeOK, Node, NothingLeftUnder

-----------------------------------------------------------------------------
(* The stamps and the requests.                                            *)

(* Operations that leave the clock and the requests alone, and only bring  *)
(* rows out of the trash.                                                  *)
LEMMA RestampKeepsRequests ==
    ASSUME IInv, UNCHANGED <<clock, task>>,
           \A n \in rows' : deletedAt'[n] = NotDeleted \/
                            (n \in rows /\ deletedAt'[n] = deletedAt[n])
    PROVE  StampsAreFresh' /\ TargetsFit'
BY DEF IInv, StampsAreFresh, TargetsFit, Deleting, TypeOK

(* Steps of a request that is not, or no longer, about to delete.          *)
LEMMA RequestStepKeepsStamps ==
    ASSUME IInv, NEW w \in Worker, NEW t,
           t.op \notin {"delete_file", "delete_folder"},
           task' = [task EXCEPT ![w] = t],
           UNCHANGED clock,
           \A n \in rows' : \/ deletedAt'[n] = NotDeleted
                            \/ n \in rows /\ deletedAt'[n] = deletedAt[n]
                            \/ Deleting(w) /\ deletedAt'[n] = task[w].stamp
    PROVE  StampsAreFresh' /\ TargetsFit'
<1> USE DEF IInv
<1>1. /\ task'[w] = t
      /\ \A v \in Worker : v # w => task'[v] = task[v]
  BY DEF TypeOK
<1>2. ~Deleting(w)' /\ \A v \in Worker : Deleting(v)' => v # w /\ Deleting(v)
  BY <1>1 DEF Deleting
<1>3. StampsAreFresh'
  BY <1>1, <1>2 DEF StampsAreFresh, TypeOK
<1>4. TargetsFit'
  BY <1>1, <1>2 DEF TargetsFit, Deleting
<1> QED
  BY <1>3, <1>4

(* A deletion takes a stamp later than every other.                        *)
LEMMA BeginDeleteKeepsRequests ==
    ASSUME IInv, NEW w \in Worker, NEW n \in Node,
           NEW op \in {"delete_file", "delete_folder"},
           op = "delete_file" => n \in File, op = "delete_folder" => n \in Folder,
           BeginDelete(w, n, op)
    PROVE  StampsAreFresh' /\ TargetsFit'
<1> USE DEF IInv
<1>1. /\ task'[w] = [Idle EXCEPT !.op = op, !.target = n, !.stamp = clock']
      /\ \A v \in Worker : v # w => task'[v] = task[v]
      /\ clock' = clock + 1 /\ UNCHANGED <<rows, deletedAt>>
  BY DEF BeginDelete, Start, TypeOK
<1>2. task'[w].op = op /\ task'[w].target = n /\ task'[w].stamp = clock + 1
  BY <1>1 DEF Idle
<1>3. \A v \in Worker : v # w => (Deleting(v)' <=> Deleting(v))
  BY <1>1 DEF Deleting
<1>4. clock \in Nat /\ \A m \in rows : deletedAt[m] \in Nat
  BY DEF TypeOK
<1>5. StampsAreFresh'
  <2>1. \A m \in rows : deletedAt[m] \leq clock /\ deletedAt[m] # clock + 1
    BY <1>4 DEF StampsAreFresh
  <2>2. ASSUME NEW v \in Worker, v # w, Deleting(v)
        PROVE  /\ task[v].stamp \in 1..(clock + 1) /\ task[v].stamp # clock + 1
               /\ \A m \in rows : deletedAt[m] # task[v].stamp
               /\ \A u \in Worker :
                     u # v /\ Deleting(u) => task[u].stamp # task[v].stamp
    BY <1>4, <2>2 DEF StampsAreFresh
  <2>3. \A m \in rows' : deletedAt'[m] \leq clock'
    BY <1>1, <1>4, <2>1
  <2>4. clock + 1 \in 1..(clock + 1)
    BY <1>4
  <2>5. ASSUME NEW v \in Worker, Deleting(v)'
        PROVE  /\ task'[v].stamp \in 1..clock'
               /\ \A m \in rows' : deletedAt'[m] # task'[v].stamp
               /\ \A u \in Worker :
                     u # v /\ Deleting(u)' => task'[u].stamp # task'[v].stamp
    <3>1. CASE v = w
      BY <1>1, <1>2, <1>3, <2>1, <2>2, <2>4, <3>1
    <3>2. CASE v # w
      <4>1. Deleting(v) /\ task'[v].stamp = task[v].stamp
        BY <1>1, <1>3, <2>5, <3>2
      <4>2. task'[v].stamp \in 1..clock' /\ \A m \in rows' : deletedAt'[m] # task'[v].stamp
        BY <1>1, <2>2, <3>2, <4>1
      <4>3. ASSUME NEW u \in Worker, u # v, Deleting(u)'
            PROVE  task'[u].stamp # task'[v].stamp
        <5>1. CASE u = w
          BY <1>2, <2>2, <3>2, <4>1, <5>1
        <5>2. CASE u # w
          BY <1>1, <1>3, <2>2, <3>2, <4>1, <4>3, <5>2
        <5> QED
          BY <5>1, <5>2
      <4> QED
        BY <4>2, <4>3
    <3> QED
      BY <3>1, <3>2
  <2> QED
    BY <2>3, <2>5 DEF StampsAreFresh
<1>6. TargetsFit'
  <2>1. task'[w].todo = <<>>
    BY <1>1 DEF Idle
  <2> QED
    BY <1>1, <1>2, <1>3, <2>1 DEF TargetsFit
<1> QED
  BY <1>5, <1>6

-----------------------------------------------------------------------------
(* The invariant.                                                          *)

(* An empty library satisfies the invariant.                               *)
LEMMA InitIInv == Init => IInv
BY InitTypeOK DEF Init, IInv, TreeOfOneOwner, NoLiveUnderTrash, NoCycle,
   NamesDifferWithinStamp, OneTopPerStamp, StampsAreFresh, TargetsFit, Deleting, Idle

(* Every step of every request keeps the invariant.                        *)
LEMMA IInvStep == IInv /\ [Next]_vars => IInv'
<1> SUFFICES ASSUME IInv, [Next]_vars
             PROVE  TreeInv' /\ StampsAreFresh' /\ TargetsFit'
  BY TypeOKStep DEF IInv, TreeInv
<1>1. ASSUME UNCHANGED <<rows, parent, name, deletedAt>>
      PROVE  TreeInv'
  BY <1>1 DEF IInv, TreeInv, TreeOfOneOwner, NoLiveUnderTrash, NoCycle, Live,
     NamesDifferWithinStamp, StampedTogether, SameKind, OneTopPerStamp, Trashed,
     TopOfStamp
<1>2. CASE UNCHANGED vars
  BY <1>1, <1>2 DEF vars, IInv, StampsAreFresh, TargetsFit, Deleting
<1>3. ASSUME NEW n \in Node, NEW p \in Parent, NEW l \in Wanted,
             LiveParent(p, Owner[n]),
             \E nm \in FreeNames(n, p, l) : Insert(n, p, nm)
      PROVE  TreeInv' /\ StampsAreFresh' /\ TargetsFit'
  <2>1. PICK nm \in FreeNames(n, p, l) : Insert(n, p, nm)
    BY <1>3
  <2>2. ~Taken(n, p, nm)
    BY WantedAreNames, FreeNameIsFree
  <2>3. \A m \in rows' : deletedAt'[m] = NotDeleted \/
                         (m \in rows /\ deletedAt'[m] = deletedAt[m])
    BY <2>1 DEF Insert, StampRows, IInv, TypeOK
  <2> QED
    BY <1>3, <2>1, <2>2, <2>3, InsertKeepsTree, RestampKeepsRequests DEF Insert
<1>4. ASSUME NEW n \in Node, NEW l \in Wanted, Rename(n, l)
      PROVE  TreeInv' /\ StampsAreFresh' /\ TargetsFit'
  <2>1. PICK nm \in FreeNames(n, parent[n], l) : name' = [name EXCEPT ![n] = nm]
    BY <1>4 DEF Rename
  <2>2. ~Taken(n, parent[n], nm)
    BY WantedAreNames, FreeNameIsFree
  <2>3. /\ Live(n) /\ n \in rows /\ parent[n] \in Parent
        /\ UNCHANGED <<rows, parent, deletedAt, clock, task>>
    BY <1>4 DEF Rename, Live, IInv, TypeOK, Parent
  <2>4. LiveParent(parent[n], Owner[n])
    BY <2>3, ParentIsRow DEF LiveParent, IInv, NoLiveUnderTrash, TreeOfOneOwner
  <2>5. n \in Folder => parent[n] \notin SubFolders(n)
    <3> SUFFICES ASSUME n \in Folder, parent[n] \in SubFolders(n) PROVE FALSE
      OBVIOUS
    <3> DEFINE S == SubFolders(n)
    <3>1. S \in SUBSET (rows \cap Folder) /\ S # {}
      BY <2>3, SubHasTop, SubAreFolders, SubHasParents
    <3>2. \A f \in S : parent[f] \in S
      BY SubHasParents
    <3> QED
      BY <3>1, <3>2 DEF IInv, NoCycle
  <2>6. parent' = [parent EXCEPT ![n] = parent[n]]
    BY <2>3 DEF IInv, TypeOK
  <2> QED
    BY <2>1, <2>2, <2>3, <2>4, <2>5, <2>6, PlaceKeepsTree, RestampKeepsRequests
<1>5. ASSUME NEW n \in Node, NEW p \in Parent, Live(n), LiveParent(p, Owner[n]),
             n \in Folder => p \notin SubFolders(n), Place(n, p)
      PROVE  TreeInv' /\ StampsAreFresh' /\ TargetsFit'
  <2>1. PICK nm \in FreeNames(n, p, name[n]) : name' = [name EXCEPT ![n] = nm]
    BY <1>5 DEF Place
  <2>2. ~Taken(n, p, nm)
    BY FreeNameIsFree DEF IInv, TypeOK
  <2> QED
    BY <1>5, <2>1, <2>2, PlaceKeepsTree, RestampKeepsRequests DEF Place
<1>6. ASSUME NEW f \in Folder, RestoreFolder(f)
      PROVE  TreeInv' /\ StampsAreFresh' /\ TargetsFit'
  <2>1. \A m \in rows' : deletedAt'[m] = NotDeleted \/
                         (m \in rows /\ deletedAt'[m] = deletedAt[m])
    BY <1>6 DEF RestoreFolder, StampRows, IInv, TypeOK
  <2> QED
    BY <1>6, <2>1, RestoreFolderKeepsTree, RestampKeepsRequests DEF RestoreFolder
<1>7. ASSUME NEW x \in File, RestoreFile(x)
      PROVE  TreeInv' /\ StampsAreFresh' /\ TargetsFit'
  <2>1. \A m \in rows' : deletedAt'[m] = NotDeleted \/
                         (m \in rows /\ deletedAt'[m] = deletedAt[m])
    BY <1>7 DEF RestoreFile, StampRows, IInv, TypeOK
  <2> QED
    BY <1>7, <2>1, RestoreFileKeepsTree, RestampKeepsRequests DEF RestoreFile
<1>8. ASSUME NEW w \in Worker, NEW n \in Node,
             NEW op \in {"delete_file", "delete_folder"},
             op = "delete_file" => n \in File, op = "delete_folder" => n \in Folder,
             BeginDelete(w, n, op)
      PROVE  TreeInv' /\ StampsAreFresh' /\ TargetsFit'
  BY <1>1, <1>8, BeginDeleteKeepsRequests DEF BeginDelete
<1>9. ASSUME NEW w \in Worker, TrashFile(w) \/ TrashFolder(w)
      PROVE  TreeInv' /\ StampsAreFresh' /\ TargetsFit'
  <2>1. \A m \in rows' : \/ deletedAt'[m] = NotDeleted
                         \/ m \in rows /\ deletedAt'[m] = deletedAt[m]
                         \/ Deleting(w) /\ deletedAt'[m] = task[w].stamp
    BY <1>9 DEF TrashFile, TrashFolder, StampRows, Deleting, IInv, TypeOK
  <2>2. Idle.op \notin {"delete_file", "delete_folder"}
    BY DEF Idle
  <2> QED
    BY <1>9, <2>1, <2>2, TrashFileKeepsTree, TrashFolderKeepsTree,
       RequestStepKeepsStamps
    DEF TrashFile, TrashFolder, Finish
<1>10. ASSUME NEW w \in Worker, NEW t, t.op \notin {"delete_file", "delete_folder"},
              task' = [task EXCEPT ![w] = t],
              UNCHANGED <<rows, ids, parent, name, deletedAt, clock>>
       PROVE  TreeInv' /\ StampsAreFresh' /\ TargetsFit'
  BY <1>1, <1>10, RequestStepKeepsStamps
<1>11. ASSUME NEW w \in Worker, CommitPurge(w)
       PROVE  TreeInv' /\ StampsAreFresh' /\ TargetsFit'
  <2>1. \A m \in rows' : \/ deletedAt'[m] = NotDeleted
                         \/ m \in rows /\ deletedAt'[m] = deletedAt[m]
                         \/ Deleting(w) /\ deletedAt'[m] = task[w].stamp
    BY <1>11 DEF CommitPurge, Remove, IInv, TypeOK
  <2>2. Idle.op \notin {"delete_file", "delete_folder"}
    BY DEF Idle
  <2> QED
    BY <1>11, <2>1, <2>2, RemoveKeepsTree, RequestStepKeepsStamps
    DEF CommitPurge, Finish
<1>12. ASSUME NEW w \in Worker, NEW x \in File, PurgeFile(w, x)
       PROVE  TreeInv' /\ StampsAreFresh' /\ TargetsFit'
  <2>1. [Idle EXCEPT !.op = "purge_file", !.target = x, !.files = {x}].op = "purge_file"
    BY DEF Idle
  <2> QED
    BY <1>10, <1>12, <2>1 DEF PurgeFile, Start
<1>13. ASSUME NEW w \in Worker, NEW f \in Folder, PurgeFolder(w, f)
       PROVE  TreeInv' /\ StampsAreFresh' /\ TargetsFit'
  <2>1. [Idle EXCEPT !.op = "purge_folder", !.target = f,
                     !.todo = <<"folders", "files">>].op = "purge_folder"
    BY DEF Idle
  <2> QED
    BY <1>10, <1>13, <2>1 DEF PurgeFolder, Start
<1>14. ASSUME NEW w \in Worker, NEW b, PurgeExpired(w, b)
       PROVE  TreeInv' /\ StampsAreFresh' /\ TargetsFit'
  <2>1. [Idle EXCEPT !.op = "purge_expired", !.stamp = b,
                     !.todo = <<"files", "folders">>].op = "purge_expired"
    BY DEF Idle
  <2> QED
    BY <1>10, <1>14, <2>1 DEF PurgeExpired, Start
<1>15. ASSUME NEW w \in Worker, NEW u, EmptyTrash(w, u)
       PROVE  TreeInv' /\ StampsAreFresh' /\ TargetsFit'
  <2>1. [Idle EXCEPT !.op = "empty_trash", !.target = u,
                     !.todo = <<"files", "folders">>].op = "empty_trash"
    BY DEF Idle
  <2> QED
    BY <1>10, <1>15, <2>1 DEF EmptyTrash, Start
<1>16. ASSUME NEW w \in Worker,
              SelectFolders(w) \/ SelectFiles(w) \/ RefusePurge(w) \/ Abandon(w)
       PROVE  TreeInv' /\ StampsAreFresh' /\ TargetsFit'
  <2>1. task[w] \in Task
    BY DEF IInv, TypeOK
  <2>2. Idle.op \notin {"delete_file", "delete_folder"}
    BY DEF Idle
  <2>3. CASE RefusePurge(w) \/ Abandon(w)
    BY <1>10, <2>2, <2>3 DEF RefusePurge, Abandon, Finish
  <2>4. CASE SelectFiles(w)
    <3> DEFINE t == [task[w] EXCEPT !.files = {x \in File : Selected(task[w], x)},
                                    !.todo = Tail(task[w].todo)]
    <3>1. t.op \notin {"delete_file", "delete_folder"}
      BY <2>1, <2>4 DEF SelectFiles, IInv, TargetsFit, Deleting, Task
    <3>2. task' = [task EXCEPT ![w] = t]
      BY <2>4 DEF SelectFiles, Step
    <3> QED
      BY <1>10, <2>4, <3>1, <3>2 DEF SelectFiles
  <2>5. CASE SelectFolders(w)
    <3> DEFINE t == [task[w] EXCEPT
                        !.folders = {<<f, parent[f]>> :
                                        f \in {g \in Folder : Selected(task[w], g)}},
                        !.todo = Tail(task[w].todo)]
    <3>1. t.op \notin {"delete_file", "delete_folder"}
      BY <2>1, <2>5 DEF SelectFolders, IInv, TargetsFit, Deleting, Task
    <3>2. task' = [task EXCEPT ![w] = t] \/ task' = [task EXCEPT ![w] = Idle]
      BY <2>5 DEF SelectFolders, Step, Finish
    <3> QED
      BY <1>10, <2>2, <2>5, <3>1, <3>2 DEF SelectFolders
  <2> QED
    BY <1>16, <2>3, <2>4, <2>5
<1>17. ASSUME NEW f \in Folder, NEW p \in Parent, NEW l \in Wanted, CreateFolder(f, p, l)
       PROVE  TreeInv' /\ StampsAreFresh' /\ TargetsFit'
  BY <1>3, <1>17 DEF CreateFolder, Node
<1>18. ASSUME NEW x \in File, NEW p \in Parent, NEW l \in Wanted, InsertFile(x, p, l)
       PROVE  TreeInv' /\ StampsAreFresh' /\ TargetsFit'
  BY <1>3, <1>18 DEF InsertFile, Node
<1>19. ASSUME NEW f \in Folder, NEW p \in Parent, MoveFolder(f, p)
       PROVE  TreeInv' /\ StampsAreFresh' /\ TargetsFit'
  BY <1>5, <1>19 DEF MoveFolder, Node
<1>20. ASSUME NEW x \in File, NEW p \in Parent, MoveFile(x, p)
       PROVE  TreeInv' /\ StampsAreFresh' /\ TargetsFit'
  BY <1>5, <1>20, KindsDisjoint DEF MoveFile, Node
<1>21. ASSUME NEW w \in Worker, NEW x \in File, DeleteFile(w, x)
       PROVE  TreeInv' /\ StampsAreFresh' /\ TargetsFit'
  BY <1>8, <1>21 DEF DeleteFile, Node
<1>22. ASSUME NEW w \in Worker, NEW f \in Folder, DeleteFolder(w, f)
       PROVE  TreeInv' /\ StampsAreFresh' /\ TargetsFit'
  BY <1>8, <1>22 DEF DeleteFolder, Node
<1>23. ASSUME NEW x \in File, NEW l \in Wanted, InsertServiceFile(x, l)
       PROVE  TreeInv' /\ StampsAreFresh' /\ TargetsFit'
  <2>1. CASE Insert(x, Root, l)
    <3>1. x \in Node /\ x \in Pushed /\ Root \in Parent /\ LiveParent(Root, Owner[x])
      BY <1>23 DEF InsertServiceFile, Node, Parent, LiveParent
    <3>2. \A m \in rows' : deletedAt'[m] = NotDeleted \/
                           (m \in rows /\ deletedAt'[m] = deletedAt[m])
      BY <2>1 DEF Insert, StampRows, IInv, TypeOK
    <3> QED
      BY <2>1, <3>1, <3>2, InsertKeepsTree, RestampKeepsRequests DEF Insert
  <2>2. CASE /\ name' = [name EXCEPT ![x] = l]
             /\ UNCHANGED <<rows, ids, parent, deletedAt, clock, task>>
    BY <1>23, <2>2, PushKeepsTree, RestampKeepsRequests DEF InsertServiceFile
  <2> QED
    BY <1>23, <2>1, <2>2 DEF InsertServiceFile
<1>24. ASSUME NEW x \in File, DeleteServiceFile(x)
       PROVE  TreeInv' /\ StampsAreFresh' /\ TargetsFit'
  <2>1. \A m \in rows' : m \in rows /\ deletedAt'[m] = deletedAt[m]
    BY <1>24 DEF DeleteServiceFile, Remove, IInv, TypeOK
  <2> QED
    BY <1>24, <2>1, NothingInFile, RemoveKeepsTree, RestampKeepsRequests
    DEF DeleteServiceFile, IInv
<1> QED
  BY <1>2, <1>4, <1>6, <1>7, <1>9, <1>11, <1>12, <1>13, <1>14, <1>15, <1>16,
     <1>17, <1>18, <1>19, <1>20, <1>21, <1>22, <1>23, <1>24
  DEF Next, Node, RenameFolder, RenameFile

(* The inductive invariant holds of every reachable state, whatever        *)
(* requests interleave.                                                    *)
THEOREM Invariance == Spec => []IInv
BY InitIInv, IInvStep, PTL DEF Spec

(* No live row is ever under a trashed folder: create, move, restore and   *)
(* delete_folder check or stamp inside their transaction.                  *)
THEOREM TrashHoldsNothingLive == Spec => []NoLiveUnderTrash
<1>1. IInv => NoLiveUnderTrash
  BY DEF IInv
<1> QED
  BY <1>1, Invariance, PTL

(* Two live siblings of a kind never wear the same name, the files that    *)
(* services push apart: restore_folder fixes up its top only, and that is  *)
(* enough.  A push asks for no free name, and the claim is false of its    *)
(* rows: two handles pushed under one name are two siblings of it.         *)
THEOREM NamesAreUnique == Spec => []SiblingNamesDiffer
<1>1. IInv => SiblingNamesDiffer
  BY DEF IInv, NamesDifferWithinStamp, StampedTogether, SiblingNamesDiffer, Live
<1> QED
  BY <1>1, Invariance, PTL

(* The folders are always a forest: the walk of move_folder keeps cycles   *)
(* out, so every walk to the root ends.                                    *)
THEOREM FoldersAreAForest == Spec => []NoCycle
<1>1. IInv => NoCycle
  BY DEF IInv
<1> QED
  BY <1>1, Invariance, PTL

(* Every tree belongs to one user, and no row outlives its parent's:       *)
(* check_live_parent asks for the owner, the foreign keys hold purges back.*)
THEOREM TreesAreOwned == Spec => []TreeOfOneOwner
<1>1. IInv => TreeOfOneOwner
  BY DEF IInv
<1> QED
  BY <1>1, Invariance, PTL

-----------------------------------------------------------------------------
(* What a step of Library may never do, from the invariant.                *)

(* A step that stamps S leaves every other row's stamp alone.              *)
LEMMA StampsOnly ==
    ASSUME NEW S, NEW t, StampRows(S, t), NEW n \in Node
    PROVE  deletedAt'[n] = IF n \in S THEN t ELSE deletedAt[n]
BY DEF StampRows

(* Which rows a step may stamp, and with what: rows that are new, live or  *)
(* about to go, or rows that come back.                                    *)
LEMMA TrashedRowStep ==
    ASSUME IInv, [Next]_vars, NEW n \in rows, n \in rows', Trashed(n)
    PROVE  deletedAt'[n] \in {NotDeleted, deletedAt[n]}
<1>1. n \in Node /\ rows \subseteq ids
  BY DEF IInv, TypeOK
<1>2. CASE UNCHANGED vars
  BY <1>2 DEF vars
<1>3. ASSUME NEW w \in Worker,
             TrashFile(w) \/ TrashFolder(w)
      PROVE  deletedAt'[n] = deletedAt[n]
  BY <1>1, <1>3, StampsOnly DEF TrashFile, TrashFolder, Live, Trashed
<1>4. ASSUME NEW m, NEW p, NEW nm, Insert(m, p, nm)
      PROVE  deletedAt'[n] = deletedAt[n]
  BY <1>1, <1>4, StampsOnly DEF Insert
<1>5. ASSUME NEW D, Remove(D) PROVE deletedAt'[n] = deletedAt[n]
  BY <1>1, <1>5 DEF Remove
<1> QED
  BY <1>1, <1>2, <1>3, <1>4, <1>5, StampsOnly
  DEF Next, vars, CreateFolder, InsertFile, InsertServiceFile, DeleteServiceFile,
      CommitPurge, Rename, RenameFolder, RenameFile, Place, MoveFolder, MoveFile,
      RestoreFile, RestoreFolder, BeginDelete, DeleteFile, DeleteFolder,
      PurgeFile, PurgeFolder, PurgeExpired, EmptyTrash, SelectFolders,
      SelectFiles, RefusePurge, Abandon

(* A row in the trash keeps the moment of its own deletion: delete_file's  *)
(* guard and delete_folder's filter are enough in every interleaving.      *)
THEOREM TrashMomentsAreKept == Spec => TrashKeepsItsMoment
<1>1. ASSUME IInv, [Next]_vars
      PROVE  \A n \in rows \cap rows' : Trashed(n) =>
                deletedAt'[n] \in {NotDeleted, deletedAt[n]}
  BY <1>1, TrashedRowStep
<1> QED
  BY <1>1, Invariance, PTL DEF Spec, TrashKeepsItsMoment

-----------------------------------------------------------------------------

(* An expiry purge in flight holds a real cutoff.                          *)
ExpiryHasCutoff ==
    \A w \in Worker : task[w].op = "purge_expired" => task[w].stamp # NoCutoff

(* What a purge read since it began leaves its operation and its cutoff.   *)
LEMMA CutoffIsKept ==
    ASSUME TypeOK, [Next]_vars, ExpiryHasCutoff
    PROVE  ExpiryHasCutoff'
<1>1. TypeOK'
  BY TypeOKStep
<1>2. ASSUME NEW w \in Worker, NEW t, task' = [task EXCEPT ![w] = t],
             t.op = "purge_expired" => t.stamp # NoCutoff
      PROVE  ExpiryHasCutoff'
  BY <1>2 DEF TypeOK, ExpiryHasCutoff
<1>3. Idle.op = "idle"
  BY DEF Idle
<1>4. ASSUME NEW w \in Worker, Finish(w) PROVE ExpiryHasCutoff'
  BY <1>2, <1>3, <1>4 DEF Finish
<1>5. ASSUME NEW w \in Worker, NEW n, NEW op \in {"delete_file", "delete_folder"},
             BeginDelete(w, n, op)
      PROVE  ExpiryHasCutoff'
  BY <1>2, <1>5 DEF BeginDelete, Start, Idle
<1>6. ASSUME NEW w \in Worker, NEW n, PurgeFile(w, n) \/ PurgeFolder(w, n)
      PROVE  ExpiryHasCutoff'
  BY <1>2, <1>6 DEF PurgeFile, PurgeFolder, Start, Idle
<1>7. ASSUME NEW w \in Worker, NEW u, EmptyTrash(w, u) PROVE ExpiryHasCutoff'
  BY <1>2, <1>7 DEF EmptyTrash, Start, Idle
<1>8. ASSUME NEW w \in Worker, NEW before \in 1..(clock + 1), PurgeExpired(w, before)
      PROVE  ExpiryHasCutoff'
  <2>1. before # NoCutoff
    BY DEF TypeOK, NoCutoff
  <2> QED
    BY <1>2, <1>8, <2>1 DEF PurgeExpired, Start, Idle
<1>9. ASSUME NEW w \in Worker, SelectFolders(w) \/ SelectFiles(w)
      PROVE  ExpiryHasCutoff'
  <2> DEFINE t == task[w]
             ft == [t EXCEPT !.folders = {<<f, parent[f]>> :
                                f \in {g \in Folder : Selected(t, g)}},
                             !.todo = Tail(t.todo)]
             xt == [t EXCEPT !.files = {x \in File : Selected(t, x)},
                             !.todo = Tail(t.todo)]
  <2>1. t \in Task
    BY DEF TypeOK
  <2>2. ft.op = t.op /\ ft.stamp = t.stamp /\ xt.op = t.op /\ xt.stamp = t.stamp
    BY <2>1 DEF Task
  <2>3. task' \in {[task EXCEPT ![w] = ft], [task EXCEPT ![w] = xt]} \/ Finish(w)
    BY <1>9 DEF SelectFolders, SelectFiles, Step
  <2> HIDE DEF ft, xt
  <2> QED
    BY <1>2, <1>4, <2>2, <2>3 DEF ExpiryHasCutoff
<1>10. CASE UNCHANGED task
  BY <1>10 DEF ExpiryHasCutoff
<1> QED
  BY <1>4, <1>5, <1>6, <1>7, <1>8, <1>9, <1>10
  DEF Next, vars, CreateFolder, InsertFile, InsertServiceFile, DeleteServiceFile,
      Insert, Rename, RenameFolder, RenameFile, Place, MoveFolder, MoveFile, RestoreFile, RestoreFolder, DeleteFile, DeleteFolder, TrashFile,
      TrashFolder, CommitPurge, RefusePurge, Abandon

(* Only trash is ever purged, and an expiry purge takes what is older than *)
(* its cutoff at the moment it commits, whatever was restored or deleted   *)
(* again since it selected its candidates; a live row goes only when its   *)
(* service deletes it, and then alone.                                     *)
THEOREM PurgesTakeOldTrash == Spec => PurgeTakesOldTrash
<1>1. Init => ExpiryHasCutoff
  BY DEF Init, ExpiryHasCutoff, Idle
<1>2. TypeOK /\ [Next]_vars /\ ExpiryHasCutoff => ExpiryHasCutoff'
  BY CutoffIsKept
<1>3. ASSUME TypeOK, ExpiryHasCutoff, [Next]_vars
      PROVE  \A n \in rows \ rows' :
                /\ Trashed(n) \/ (n \in Pushed /\ rows' = rows \ {n} /\ UNCHANGED task)
                /\ \A w \in Worker :
                      task[w].op = "purge_expired" /\ task'[w] = Idle
                          => deletedAt[n] < task[w].stamp
  <2> SUFFICES ASSUME NEW n \in rows \ rows'
               PROVE  /\ Trashed(n) \/ (n \in Pushed /\ rows' = rows \ {n} /\ UNCHANGED task)
                      /\ \A w \in Worker :
                            task[w].op = "purge_expired" /\ task'[w] = Idle
                                => deletedAt[n] < task[w].stamp
    OBVIOUS
  <2>0. CASE \E x \in File : DeleteServiceFile(x)
    <3>1. n \in Pushed /\ rows' = rows \ {n} /\ UNCHANGED task
      BY <2>0 DEF DeleteServiceFile, Remove
    <3> QED
      BY <3>1 DEF Idle
  <2> SUFFICES ASSUME ~ \E x \in File : DeleteServiceFile(x)
               PROVE  /\ Trashed(n)
                      /\ \A w \in Worker :
                            task[w].op = "purge_expired" /\ task'[w] = Idle
                                => deletedAt[n] < task[w].stamp
    BY <2>0
  <2>1. PICK v \in Worker : CommitPurge(v)
    BY <1>3 DEF Next, vars, CreateFolder, InsertFile, InsertServiceFile, Insert, Rename,
       RenameFolder, RenameFile, Place,
       MoveFolder, MoveFile, RestoreFile, RestoreFolder, BeginDelete, DeleteFile,
       DeleteFolder, TrashFile, TrashFolder, PurgeFile, PurgeFolder, PurgeExpired,
       EmptyTrash, SelectFolders, SelectFiles, RefusePurge, Abandon
  <2>2. PassesGuard(n, task[v].stamp)
    BY <2>1 DEF CommitPurge, Remove, Doomed
  <2>3. ASSUME NEW w \in Worker, task[w].op = "purge_expired", task'[w] = Idle
        PROVE  w = v
    BY <1>3, <2>1, <2>3 DEF CommitPurge, Finish, TypeOK, Idle
  <2> QED
    BY <1>3, <2>2, <2>3 DEF PassesGuard, ExpiryHasCutoff
<1> QED
  BY <1>1, <1>2, <1>3, TypeCorrect, PTL DEF Spec, PurgeTakesOldTrash

-----------------------------------------------------------------------------

(* restore_folder brings back every row of its stamp: the stamp has one    *)
(* top, so each of its rows hangs from f by parents of the same stamp.     *)
LEMMA StampIsInSubtree ==
    ASSUME IInv, NEW f \in Folder, RestoreFolder(f),
           NEW n \in rows, deletedAt[n] = deletedAt[f]
    PROVE  n \in Sub(f)
<1> USE DEF IInv
<1> DEFINE t == deletedAt[f]
           C == Sub(f)
           Rest == {g \in rows \cap Folder : deletedAt[g] = t /\ g \notin C}
<1>1. /\ f \in rows /\ f \in C /\ Trashed(f) /\ TopOfStamp(f)
      /\ \A m \in rows : m \in Node
  BY NoTrashAbove, SubHasTop
  DEF RestoreFolder, Sub, Trashed, Live, TopOfStamp, TypeOK
<1>2. ASSUME NEW m \in rows, deletedAt[m] = t, m \notin C
      PROVE  parent[m] \in Rest
  <2>1. ~TopOfStamp(m)
    BY <1>1, <1>2 DEF OneTopPerStamp
  <2>2. parent[m] \in rows /\ parent[m] \in Folder /\ deletedAt[parent[m]] = t
    BY <1>2, <2>1, ParentIsRow DEF TopOfStamp
  <2>3. parent[m] \notin SubFolders(f)
    BY <1>1, <1>2, SubClosed
  <2> QED
    BY <2>2, <2>3, KindsDisjoint DEF Sub
<1>3. Rest = {}
  <2>1. \A g \in Rest : parent[g] \in Rest
    BY <1>2
  <2> QED
    BY <2>1 DEF NoCycle
<1> QED
  BY <1>2, <1>3

(* What comes back in a step is exactly what one deletion took: no row of  *)
(* an earlier deletion with it, and none of its own left behind.           *)
THEOREM RestoresAreExact == Spec => RestoreIsExact
<1>1. ASSUME IInv, [Next]_vars
      PROVE  LET back == {n \in rows : Trashed(n) /\ Live(n)'}
             IN \A m \in back : back = {n \in rows : deletedAt[n] = deletedAt[m]}
  <2> DEFINE back == {n \in rows : Trashed(n) /\ Live(n)'}
  <2> SUFFICES ASSUME NEW m \in back
               PROVE  back = {n \in rows : deletedAt[n] = deletedAt[m]}
    OBVIOUS
  <2>1. \A n \in rows : n \in Node /\ n \in ids
    BY <1>1 DEF IInv, TypeOK
  <2>2. CASE \E f \in Folder : RestoreFolder(f)
    <3>1. PICK f \in Folder : RestoreFolder(f)
      BY <2>2
    <3>2. back = {n \in rows \cap Sub(f) : deletedAt[n] = deletedAt[f]}
      BY <2>1, <3>1, StampsOnly DEF RestoreFolder, Live, Trashed
    <3> QED
      BY <1>1, <3>1, <3>2, StampIsInSubtree
  <2>3. CASE \E x \in File : RestoreFile(x)
    <3>1. PICK x \in File : RestoreFile(x)
      BY <2>3
    <3>2. back = {x} /\ m = x
      BY <2>1, <3>1, StampsOnly DEF RestoreFile, Live, Trashed
    <3>3. ASSUME NEW n \in rows, deletedAt[n] = deletedAt[x] PROVE n = x
      <4>1. Trashed(x) /\ x \in rows /\ TopOfStamp(x)
        BY <1>1, <3>1, NoTrashAbove
        DEF IInv, RestoreFile, TopOfStamp, Trashed, Live
      <4> DEFINE Rest == {g \in rows \cap Folder : deletedAt[g] = deletedAt[x]}
      <4>2. ASSUME NEW k \in rows, deletedAt[k] = deletedAt[x], k # x
            PROVE  parent[k] \in Rest
        <5>1. ~TopOfStamp(k)
          BY <1>1, <4>1, <4>2 DEF OneTopPerStamp, IInv
        <5> QED
          BY <1>1, <4>2, <5>1, ParentIsRow DEF TopOfStamp, IInv
      <4>3. \A g \in Rest : parent[g] \in Rest
        BY <4>2, KindsDisjoint
      <4>4. Rest = {}
        BY <1>1, <4>3 DEF NoCycle, IInv
      <4> QED
        BY <3>3, <4>2, <4>4
    <3> QED
      BY <3>2, <3>3 DEF Trashed
  <2>4. ASSUME NEW w \in Worker, TrashFile(w) \/ TrashFolder(w)
        PROVE  FALSE
    <3>1. m \in Node /\ m \in rows' /\ Trashed(m) /\ deletedAt'[m] = NotDeleted
      BY <2>1 DEF Live
    <3> QED
      BY <2>4, <3>1, StampsOnly
      DEF TrashFile, TrashFolder, Trashed, Live
  <2>5. ASSUME NEW n, NEW p, NEW nm, Insert(n, p, nm) PROVE FALSE
    BY <2>1, <2>5, StampsOnly DEF Insert, Live, Trashed
  <2>6. CASE UNCHANGED deletedAt
    BY <2>6 DEF Live, Trashed
  <2>7. ASSUME NEW D, Remove(D) PROVE FALSE
    BY <2>1, <2>7 DEF Remove, Live, Trashed
  <2> QED
    BY <1>1, <2>2, <2>3, <2>4, <2>5, <2>6, <2>7
    DEF Next, vars, CreateFolder, InsertFile, InsertServiceFile, DeleteServiceFile,
        CommitPurge, Rename, RenameFolder, RenameFile, Place, MoveFolder, MoveFile,
        BeginDelete, DeleteFile, DeleteFolder, PurgeFile, PurgeFolder,
        PurgeExpired, EmptyTrash, SelectFolders, SelectFiles, RefusePurge, Abandon
<1> QED
  BY <1>1, Invariance, PTL DEF Spec, RestoreIsExact

-----------------------------------------------------------------------------
(* Library implements Tree.                                                *)

InTrash == {n \in Node : Trashed(n)}

(* The two descriptions of what lies at and under a folder agree: below it *)
(* there are only rows.                                                    *)
LEMMA SubtreesAgree ==
    ASSUME NEW f \in rows \cap Folder
    PROVE  Abstract!Sub(f) = Sub(f)
<1> DEFINE folders == rows \cap Folder
           closed  == {S \in SUBSET folders :
                          \A g \in folders : g = f \/ parent[g] \in S => g \in S}
           inside  == {g \in folders : \A S \in closed : g \in S}
<1>1. inside = SubFolders(f)
  <2>1. ASSUME NEW S \in closed PROVE SubFolders(f) \subseteq S
    BY SubIsLeast DEF ClosedUnderRows
  <2>2. SubFolders(f) \subseteq folders
    BY SubIsLeast DEF ClosedUnderRows
  <2>3. SubFolders(f) \in closed
    BY <2>2, SubHasTop, SubIsClosed
  <2> QED
    BY <2>1, <2>2, <2>3
<1>2. Abstract!Sub(f) = inside \cup {x \in rows \cap File : x = f \/ parent[x] \in inside}
  BY DEF Abstract!Sub
<1>3. f \notin File
  BY KindsDisjoint
<1> QED
  BY <1>1, <1>2, <1>3 DEF Sub

(* Nothing lies under a file.                                              *)
LEMMA NothingUnderFile ==
    ASSUME NEW x \in rows \cap File
    PROVE  Abstract!Sub(x) = {x}
<1> DEFINE folders == rows \cap Folder
           closed  == {S \in SUBSET folders :
                          \A g \in folders : g = x \/ parent[g] \in S => g \in S}
           inside  == {g \in folders : \A S \in closed : g \in S}
<1>1. x \notin Folder
  BY KindsDisjoint
<1>2. {} \in closed
  BY <1>1
<1>3. inside = {}
  BY <1>2
<1>4. Abstract!Sub(x) = inside \cup {y \in rows \cap File : y = x \/ parent[y] \in inside}
  BY DEF Abstract!Sub
<1> QED
  BY <1>3, <1>4

(* Rows, live rows and destinations are the same on both levels.           *)
LEMMA LiveAlike ==
    ASSUME TypeOK
    PROVE  /\ \A n \in Node : Abstract!Live(n) <=> Live(n)
           /\ \A p \in Parent, u \in User : LiveParent(p, u) => Abstract!LiveParent(p, u)
           /\ InTrash \subseteq rows /\ rows \subseteq Node
           /\ Abstract!Node = Node
BY DEF TypeOK, Abstract!Live, Abstract!LiveParent, LiveParent, Live, Trashed, InTrash, Node,
       Abstract!Node

(* A subtree is of one owner, and all of it is trash when its top is gone  *)
(* or trash.                                                               *)
LEMMA SubtreesAreAlike ==
    ASSUME IInv, NEW f \in Folder
    PROVE  /\ \A n \in Sub(f) : Owner[n] = Owner[f]
           /\ ~Live(f) => \A n \in Sub(f) : ~Live(n)
<1> USE DEF IInv
<1>1. SubFolders(f) \subseteq {g \in Folder : Owner[g] = Owner[f]}
  <2> DEFINE S == {g \in Folder : Owner[g] = Owner[f]}
  <2>1. ClosedUnderRows(f, S)
    BY RootIsNoNode DEF ClosedUnderRows, TreeOfOneOwner, Node
  <2> QED
    BY <2>1, SubIsLeast
<1>2. ASSUME ~Live(f) PROVE SubFolders(f) \subseteq {g \in Folder : ~Live(g)}
  <2> DEFINE S == {g \in Folder : ~Live(g)}
  <2>1. ClosedUnderRows(f, S)
    BY <1>2, RootIsNoNode DEF ClosedUnderRows, NoLiveUnderTrash, Node
  <2> QED
    BY <2>1, SubIsLeast
<1>3. \A n \in Sub(f) : n = f \/ (n \in rows /\ n \in Node /\ parent[n] \in SubFolders(f))
  BY SubParents
<1>4. ASSUME NEW n \in Sub(f), n # f
      PROVE  /\ Owner[n] = Owner[f]
             /\ ~Live(f) => ~Live(n)
  <2>1. n \in rows /\ parent[n] \in SubFolders(f) /\ parent[n] # Root
    BY <1>3, <1>4, SubAreFolders, RootIsNoNode DEF Node
  <2> QED
    BY <1>1, <1>2, <2>1 DEF TreeOfOneOwner, NoLiveUnderTrash
<1> QED
  BY <1>4

(* A row that is made under a live folder is an insert.                    *)
LEMMA InsertIsInsert ==
    ASSUME TypeOK, NEW n \in Node, NEW p \in Parent, NEW nm,
           LiveParent(p, Owner[n]), Insert(n, p, nm)
    PROVE  Abstract!Insert(n, p)
<1>1. InTrash' = InTrash
  BY DEF Insert, StampRows, InTrash, Trashed, TypeOK, NotDeleted
<1>2. Owner[n] \in User
  BY OwnerType
<1> QED
  BY <1>1, <1>2, LiveAlike DEF Insert, Abstract!Insert, InTrash

(* A row that changes its folder moves, out of its own subtree.            *)
LEMMA PlaceIsMove ==
    ASSUME TypeOK, NEW n \in Node, NEW p \in Parent,
           Live(n), LiveParent(p, Owner[n]), Place(n, p),
           n \in Folder => p \notin SubFolders(n)
    PROVE  Abstract!Move(n, p)
<1>1. InTrash' = InTrash
  BY DEF Place, InTrash, Trashed
<1>2. Owner[n] \in User
  BY OwnerType
<1>3. p \notin Abstract!Sub(n)
  <2>1. CASE n \in Folder
    <3>1. p \notin File
      BY KindsDisjoint, RootIsNoNode DEF Parent, Node
    <3> QED
      BY <2>1, <3>1, SubtreesAgree DEF Live, Sub
  <2>2. CASE n \in File
    BY <2>2, NothingUnderFile, KindsDisjoint, RootIsNoNode DEF Live, Parent, Node
  <2> QED
    BY <2>1, <2>2 DEF Node
<1> QED
  BY <1>1, <1>2, <1>3, LiveAlike DEF Place, Abstract!Move, InTrash

(* A file that comes back is a restore of itself.                          *)
LEMMA RestoreFileIsRestore ==
    ASSUME IInv, NEW x \in File, RestoreFile(x)
    PROVE  x \in InTrash /\ Abstract!Restore(x, {x})
<1> USE DEF IInv
<1>1. x \in Node /\ x \in rows /\ Trashed(x) /\ x \in InTrash
  BY DEF RestoreFile, Trashed, Node, InTrash
<1>2. parent[x] \notin InTrash
  BY <1>1, NoTrashAbove, RootIsNoNode DEF RestoreFile, InTrash, Live, Trashed
<1>3. InTrash' = InTrash \ {x}
  BY <1>1 DEF RestoreFile, StampRows, InTrash, Trashed
<1> QED
  BY <1>1, <1>2, <1>3, NothingUnderFile DEF RestoreFile, Abstract!Restore, InTrash

(* A folder comes back with all the rows of its deletion, and no other.    *)
LEMMA RestoreFolderIsRestore ==
    ASSUME IInv, NEW f \in Folder, RestoreFolder(f)
    PROVE  \E S \in SUBSET InTrash : f \in S /\ Abstract!Restore(f, S)
<1> USE DEF IInv
<1> DEFINE C == {n \in Sub(f) \cap rows : deletedAt[n] = deletedAt[f]}
<1>1. f \in Node /\ f \in rows /\ Trashed(f) /\ f \in InTrash
  BY DEF RestoreFolder, Trashed, Node, InTrash
<1>2. parent[f] = Root \/ Live(parent[f])
  BY <1>1, NoTrashAbove DEF RestoreFolder
<1>3. parent[f] \notin InTrash /\ TopOfStamp(f)
  BY <1>1, <1>2, RootIsNoNode DEF InTrash, Live, Trashed, TopOfStamp
<1>4. C \subseteq InTrash \cap Sub(f) /\ f \in C
  BY <1>1, SubHasTop, LiveAlike DEF InTrash, Trashed, Sub
<1>5. ASSUME NEW m \in C \ {f} PROVE parent[m] \in C
  <2>1. m \in rows /\ Trashed(m) /\ ~TopOfStamp(m)
    BY <1>1, <1>3, <1>4 DEF OneTopPerStamp, InTrash
  <2>2. parent[m] \in SubFolders(f) /\ parent[m] \in rows
    BY <2>1, SubParents, ParentIsRow DEF TopOfStamp
  <2> QED
    BY <2>1, <2>2 DEF TopOfStamp, Sub
<1>6. InTrash' = InTrash \ C
  BY <1>4 DEF RestoreFolder, StampRows, InTrash, Trashed
<1>7. Abstract!Restore(f, C)
  BY <1>1, <1>3, <1>4, <1>5, <1>6, SubtreesAgree DEF RestoreFolder, Abstract!Restore, InTrash
<1> QED
  BY <1>4, <1>7

(* A file that is still live when its request commits goes to the trash.   *)
LEMMA TrashFileIsTrash ==
    ASSUME IInv, NEW w \in Worker, TrashFile(w)
    PROVE  (\E n \in rows : Abstract!Trash(n)) \/ UNCHANGED Abstract!tree
<1> USE DEF IInv
<1> DEFINE x == task[w].target
<1>1. x \in File /\ x \in Node /\ task[w].stamp # NotDeleted /\ task[w].stamp \in Nat
  BY DEF TrashFile, Deleting, StampsAreFresh, TargetsFit, TypeOK, NotDeleted, Node
<1>2. CASE Live(x)
  <2>1. InTrash' = InTrash \cup {x}
    BY <1>1, <1>2 DEF TrashFile, StampRows, InTrash, Trashed, Live
  <2> QED
    BY <1>1, <1>2, <2>1, LiveAlike, NothingUnderFile DEF TrashFile, Abstract!Trash, InTrash, Live
<1>3. CASE ~Live(x)
  <2>1. InTrash' = InTrash
    BY <1>1, <1>3 DEF TrashFile, StampRows, InTrash, Trashed
  <2> QED
    BY <2>1 DEF TrashFile, Abstract!tree, InTrash
<1> QED
  BY <1>2, <1>3

(* A folder goes to the trash with all that is live below it.              *)
LEMMA TrashFolderIsTrash ==
    ASSUME IInv, NEW w \in Worker, TrashFolder(w)
    PROVE  (\E n \in rows : Abstract!Trash(n)) \/ UNCHANGED Abstract!tree
<1> USE DEF IInv
<1> DEFINE f == task[w].target
           C == {n \in Sub(f) : Live(n) /\ Owner[n] = Owner[f]}
<1>1. f \in Folder /\ f \in Node /\ task[w].stamp # NotDeleted /\ task[w].stamp \in Nat
  BY DEF TrashFolder, Deleting, StampsAreFresh, TargetsFit, TypeOK, NotDeleted, Node
<1>2. InTrash' = InTrash \cup {n \in Node \cap C : n \in rows}
  BY <1>1 DEF TrashFolder, StampRows, InTrash, Trashed, Live
<1>3. CASE Live(f)
  <2>1. Sub(f) \subseteq rows \cap Node
    BY <1>1, <1>3, SubParents DEF Live
  <2>2. InTrash' = InTrash \cup Sub(f)
    BY <1>1, <1>2, <2>1, SubtreesAreAlike DEF InTrash, Live, Trashed
  <2>3. Abstract!Sub(f) = Sub(f)
    BY <1>1, <1>3, SubtreesAgree DEF Live
  <2> QED
    BY <1>1, <1>3, <2>2, <2>3, LiveAlike DEF TrashFolder, Abstract!Trash, InTrash, Live
<1>4. CASE ~Live(f)
  <2>1. InTrash' = InTrash
    BY <1>1, <1>2, <1>4, SubtreesAreAlike
  <2> QED
    BY <2>1 DEF TrashFolder, Abstract!tree, InTrash
<1> QED
  BY <1>3, <1>4

(* The rows that a purge takes are trash, and leave no child behind.       *)
LEMMA CommitIsPurge ==
    ASSUME IInv, NEW w \in Worker, CommitPurge(w)
    PROVE  \E S \in SUBSET InTrash : Abstract!Purge(S)
<1> USE DEF IInv
<1> DEFINE D == Doomed(task[w])
<1>1. D \subseteq InTrash
  BY LiveAlike DEF Doomed, PassesGuard, InTrash, Trashed, TypeOK
<1>2. InTrash' = InTrash \ D
  BY DEF CommitPurge, Remove, InTrash, Trashed
<1>3. Abstract!Purge(D)
  BY <1>1, <1>2, LiveAlike
  DEF CommitPurge, Remove, NothingLeftUnder, Abstract!Purge, InTrash
<1> QED
  BY <1>1, <1>3

(* A file that its service deletes is gone, whether it was trash or not.   *)
LEMMA DeleteIsErase ==
    ASSUME TypeOK, NEW x \in File, DeleteServiceFile(x)
    PROVE  Abstract!Erase(x)
<1>1. InTrash' = InTrash \ {x}
  BY DEF DeleteServiceFile, Remove, InTrash, Trashed, TypeOK
<1>2. parent' = [parent EXCEPT ![x] = Root]
  BY DEF DeleteServiceFile, Remove, TypeOK
<1> QED
  BY <1>1, <1>2 DEF DeleteServiceFile, Remove, Abstract!Erase, InTrash

(* What Library allows the tree.                                           *)
TreeStep == Abstract!TreeNext \/ \E x \in Pushed : Abstract!Erase(x)

(* Every step is one of the tree's, or changes nothing of it.              *)
LEMMA StepIsTreeStep ==
    ASSUME IInv, [Next]_vars
    PROVE  [TreeStep]_(Abstract!tree)
<1> USE DEF IInv
<1>1. ASSUME NEW n \in Node, NEW p \in Parent, NEW nm,
             LiveParent(p, Owner[n]), Insert(n, p, nm)
      PROVE  TreeStep
  BY <1>1, InsertIsInsert, LiveAlike DEF TreeStep, Abstract!TreeNext, Parent
<1>2. ASSUME NEW n \in Node, NEW p \in Parent,
             Live(n), LiveParent(p, Owner[n]), Place(n, p),
             n \in Folder => p \notin SubFolders(n)
      PROVE  TreeStep
  BY <1>2, PlaceIsMove, LiveAlike DEF TreeStep, Abstract!TreeNext, Parent
<1>3. ASSUME NEW x \in File, RestoreFile(x) PROVE TreeStep
  <2>1. {x} \in SUBSET InTrash /\ Abstract!Restore(x, {x})
    BY <1>3, RestoreFileIsRestore
  <2> QED
    BY <2>1 DEF TreeStep, Abstract!TreeNext, InTrash
<1>4. ASSUME NEW f \in Folder, RestoreFolder(f) PROVE TreeStep
  BY <1>4, RestoreFolderIsRestore DEF TreeStep, Abstract!TreeNext, InTrash
<1>5. ASSUME NEW w \in Worker, TrashFile(w) \/ TrashFolder(w)
      PROVE  [TreeStep]_(Abstract!tree)
  BY <1>5, TrashFileIsTrash, TrashFolderIsTrash DEF TreeStep, Abstract!TreeNext
<1>6. ASSUME NEW w \in Worker, CommitPurge(w) PROVE TreeStep
  BY <1>6, CommitIsPurge DEF TreeStep, Abstract!TreeNext, InTrash
<1>7. ASSUME UNCHANGED <<rows, ids, parent, deletedAt>>
      PROVE  UNCHANGED Abstract!tree
  BY <1>7 DEF Abstract!tree, Trashed
<1>8. \A x \in File : x \in Node /\ x \notin Folder
  BY KindsDisjoint DEF Node
<1>9. \A f \in Folder : f \in Node
  BY DEF Node
<1>10. ASSUME NEW x \in File, DeleteServiceFile(x) PROVE TreeStep
  BY <1>10, DeleteIsErase DEF TreeStep, DeleteServiceFile
<1>11. ASSUME NEW x \in File, NEW l \in Wanted, InsertServiceFile(x, l)
       PROVE  [TreeStep]_(Abstract!tree)
  <2>1. Root \in Parent /\ LiveParent(Root, Owner[x])
    BY DEF Parent, LiveParent
  <2> QED
    BY <1>1, <1>7, <1>8, <1>11, <2>1 DEF InsertServiceFile
<1> QED
  BY <1>1, <1>2, <1>3, <1>4, <1>5, <1>6, <1>7, <1>8, <1>9, <1>10, <1>11
  DEF Next, vars, CreateFolder, InsertFile, Rename, RenameFolder, RenameFile, MoveFolder,
      MoveFile, BeginDelete, DeleteFile, DeleteFolder, PurgeFile, PurgeFolder,
      PurgeExpired, EmptyTrash, SelectFolders, SelectFiles, RefusePurge, Abandon

(* Requests that read, wait and write, cascades, stamps and purge sets in  *)
(* foreign-key order implement the simple tree of Tree.                    *)
THEOREM TreeImplemented == Spec => LibraryIsATree
<1>1. Init => Abstract!TreeInit
  BY DEF Init, Abstract!TreeInit, Abstract!Node, Node, Trashed
<1>2. IInv /\ [Next]_vars => [TreeStep]_(Abstract!tree)
  BY StepIsTreeStep
<1> QED
  BY <1>1, <1>2, Invariance, PTL DEF Spec, LibraryIsATree, TreeStep
=============================================================================
