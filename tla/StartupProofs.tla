---------------------------- MODULE StartupProofs ----------------------------
(***************************************************************************)
(* What boots, rebuilds and the key guarantee for any rows, tables,        *)
(* configurations and number of releases, faults and edits.                *)
(***************************************************************************)
EXTENDS Startup, FiniteSetTheorems, SequenceTheorems, WellFoundedInduction, TLAPS

-----------------------------------------------------------------------------
(* The invariant of the database.                                          *)

RowsAreFinite ==
    \A n \in Name :
       /\ main[n] # None => IsFiniteSet(main[n].rows)
       /\ wal[n] # None => IsFiniteSet(wal[n].rows)

(* Between the two moves of the swap nothing has the database's name.      *)
FilesAreThere ==
    /\ pc \in {"cleanMain", "cleanWal", "copy", "verify", "setAside", "tidy", "check", "serve"}
          => main[Db] # None
    /\ pc \in {"moveWal", "swap", "undo"} => main[Db] = None /\ main[aside] # None
    /\ pc \in {"verify", "setAside", "moveWal", "swap"} => main[Rebuilt] # None
    /\ pc = "undoWal" /\ torn = "no" => main[Db] # None

(* A log lies beside its file, or is the next to follow it.                *)
LogsAreTheirs ==
    torn # "split" =>
       /\ pc \notin {"moveWal", "swap", "undo", "undoWal"} /\ wal[Db] # None => Its(Db)
       /\ pc \in {"swap", "undo", "undoWal"} => wal[Db] = None
       /\ pc = "moveWal" => wal[aside] = None /\ (wal[Db] # None => wal[Db].id = main[aside].id)
       /\ pc \in {"swap", "undo"} /\ wal[aside] # None => Its(aside)
       /\ pc = "undoWal" /\ wal[aside] # None => main[Db] # None /\ wal[aside].id = main[Db].id

LogRows(n) == IF wal[n] = None THEN {} ELSE wal[n].rows

(* Where the counted rows are, at each step of a rebuild.                  *)
CountedAreThere ==
    torn = "no" =>
       /\ pc = "moveWal" => CountedRows \subseteq main[aside].rows \cup LogRows(Db)
       /\ pc \in {"swap", "undo"} => CountedRows \subseteq Seen(aside)
       /\ pc = "undoWal" => CountedRows \subseteq main[Db].rows \cup LogRows(aside)
       /\ pc \notin {"moveWal", "swap", "undo", "undoWal"} =>
             CountedRows \subseteq (IF main[Db] = None THEN {} ELSE Seen(Db))
       /\ pc \in {"setAside", "moveWal", "swap"} => CountedRows \subseteq main[Rebuilt].rows

CopyInventsNothing == pc = "verify" => Seen(Rebuilt) \subseteq Seen(Db)

DatabaseInv ==
    /\ ReconcileType /\ RowsAreFinite /\ FilesAreThere /\ LogsAreTheirs
    /\ CountedAreThere /\ CopyInventsNothing /\ OriginalIsKept

-----------------------------------------------------------------------------
(* The invariant of the key and of the configuration.                      *)

(* A command ends before it would serve.                                   *)
ToolInv ==
    /\ pc \in {"create", "check", "serve"} => ~tool
    /\ phase \in {"opening", "keying", "up"} => (tool <=> asked = "reconcile")
    /\ phase = "keying" => pc = "serve"

(* What is sealed is sealed with the key in the file.                      *)
KeyInv ==
    /\ keys \in Nat
    /\ phase = "keying" => key = 0
    /\ phase = "up" => key = loaded /\ key \notin {None, 0}
    /\ ~lost => sealed \subseteq {key} /\ (key \in {None, 0} => sealed = {})

Line == STRING \X STRING \X STRING

(* The text being written says what runs already.                          *)
ConfInv ==
    /\ conf \in Seq(Line) \cup {None} /\ draft \in Seq(Line)
    /\ phase = "writing" => Says(draft, running)
    /\ FileSaysWhatRuns

IInv == DatabaseInv /\ StartupType /\ ToolInv /\ KeyInv /\ ConfInv

-----------------------------------------------------------------------------
(* Names and files.                                                        *)

(* The names are different ones.                                           *)
LEMMA Names ==
    /\ Db \in Name /\ Rebuilt \in Name /\ Db # Rebuilt
    /\ \A b \in Backup : b \in Name /\ b # Db /\ b # Rebuilt
    /\ \A n \in Name : n = Db \/ n = Rebuilt \/ n \in Backup
  BY ReconcileAssumption DEF Name, Db, Rebuilt, Backup

(* The parts of the type a step reads.                                     *)
LEMMA Disk ==
    ASSUME ReconcileType
    PROVE  /\ main \in [Name -> File \cup {None}] /\ wal \in [Name -> Log \cup {None}]
           /\ \A n \in Name : main[n] # None => main[n] \in File
           /\ \A n \in Name : wal[n] # None => wal[n] \in Log
           /\ aside \in Backup /\ aside \in Name /\ made \in Nat /\ want \in Nat
  BY Names, ReconcileAssumption DEF ReconcileType

(* What lies under other names than the rebuilt file's stays.              *)
Elsewhere == \A n \in Name \ {Rebuilt} : main'[n] = main[n] /\ wal'[n] = wal[n]

(* What can be read under those names stays too.                           *)
LEMMA SeenElsewhere ==
    ASSUME Elsewhere, NEW n \in Name \ {Rebuilt}
    PROVE  (Its(n)' <=> Its(n)) /\ Seen(n)' = Seen(n) /\ LogRows(n)' = LogRows(n)
  BY DEF Elsewhere, Its, Seen, LogRows

(* The kept rows, when nothing is moved but the process goes on, or ends.  *)
LEMMA OriginalStays ==
    ASSUME ReconcileType, OriginalIsKept, Elsewhere, accepted' = accepted, aside' = aside,
           torn' # "split" => torn # "split",
           torn' # "split" /\ pc = "moveWal" /\ wal[Db] # None => pc' = "moveWal",
           torn' # "split" /\ pc = "undoWal" /\ wal[aside] # None => pc' = "undoWal"
    PROVE  OriginalIsKept'
<1> SUFFICES ASSUME torn' # "split", NEW r \in accepted
    PROVE  \/ pc' = "moveWal" /\ wal'[Db] # None /\ r \in wal'[Db].rows
           \/ pc' = "undoWal" /\ wal'[aside] # None /\ r \in wal'[aside].rows
           \/ \E n \in {Db} \cup Backup : main'[n] # None /\ r \in Seen(n)'
  BY DEF OriginalIsKept
<1>1. aside \in Name \ {Rebuilt} /\ Db \in Name \ {Rebuilt} /\ Backup \subseteq Name \ {Rebuilt}
  BY Names, Disk
<1>2. CASE pc = "moveWal" /\ wal[Db] # None /\ r \in wal[Db].rows
  BY <1>1, <1>2 DEF Elsewhere
<1>3. CASE pc = "undoWal" /\ wal[aside] # None /\ r \in wal[aside].rows
  BY <1>1, <1>3 DEF Elsewhere
<1>4. CASE \E n \in {Db} \cup Backup : main[n] # None /\ r \in Seen(n)
  <2>1. PICK n \in {Db} \cup Backup : main[n] # None /\ r \in Seen(n)
    BY <1>4
  <2>2. n \in Name \ {Rebuilt}
    BY <1>1
  <2>3. main'[n] # None /\ r \in Seen(n)'
    BY <2>1, <2>2, SeenElsewhere DEF Elsewhere
  <2> QED
    BY <2>3
<1> QED
  BY <1>2, <1>3, <1>4 DEF OriginalIsKept

-----------------------------------------------------------------------------
(* Steps that leave the disk alone.                                        *)

Idle == UNCHANGED <<disk, want, aside, accepted>> /\ tool' \in BOOLEAN
            /\ faults' \in 0..MaxFaults

(* Where a process that has not touched the swap may go on, or stop.       *)
LEMMA QuietStep ==
    ASSUME DatabaseInv, Idle, torn' = torn,
           pc \notin {"moveWal", "swap", "undo", "undoWal"},
           \/ pc' \in {"off", "dropMain"}
           \/ pc' = "create"
           \/ pc' \in {"cleanMain", "serve"} /\ main[Db] # None
    PROVE  DatabaseInv'
<1> USE DEF DatabaseInv, Idle, disk
<1>1. ReconcileType'
  BY DEF ReconcileType
<1>2. RowsAreFinite'
  BY DEF RowsAreFinite
<1>3. FilesAreThere' /\ CopyInventsNothing'
  BY DEF FilesAreThere, CopyInventsNothing
<1>4. Elsewhere
  BY DEF Elsewhere
<1>5. (Its(Db)' <=> Its(Db)) /\ Seen(Db)' = Seen(Db) /\ Db \in Name
  BY <1>4, SeenElsewhere, Names
<1>6. LogsAreTheirs'
  BY <1>5 DEF LogsAreTheirs
<1>7. CountedAreThere'
  BY <1>5 DEF CountedAreThere, CountedRows
<1>8. OriginalIsKept'
  BY <1>4, OriginalStays
<1> QED
  BY <1>1, <1>2, <1>3, <1>6, <1>7, <1>8

(* Steps that touch no file of the database keep its invariant.            *)
LEMMA QuietSteps ==
    ASSUME DatabaseInv, Boot \/ Command \/ RebuildFails \/ SetAsideFails \/ Check \/ Stop
    PROVE  DatabaseInv'
<1>1. tool \in BOOLEAN /\ faults \in 0..MaxFaults /\ MaxFaults \in Nat
  BY ReconcileAssumption DEF DatabaseInv, ReconcileType
<1>2. Idle /\ torn' = torn
  <2>1. UNCHANGED <<disk, want, aside, accepted, torn>>
    BY DEF Boot, Command, RebuildFails, SetAsideFails, Check, Stop
  <2>2. tool' \in BOOLEAN
    BY <1>1 DEF Boot, Command, RebuildFails, SetAsideFails, Check, Stop
  <2>3. faults' = faults \/ Fault
    BY DEF Boot, Command, RebuildFails, SetAsideFails, Check, Stop
  <2>4. faults' \in 0..MaxFaults
    BY <1>1, <2>3 DEF Fault
  <2> QED
    BY <2>1, <2>2, <2>4 DEF Idle
<1>3. CASE Boot \/ Command \/ Stop
  BY <1>2, <1>3, QuietStep DEF Boot, Command, Stop, Goto
<1>4. CASE RebuildFails \/ SetAsideFails \/ Check
  BY <1>2, <1>4, QuietStep DEF RebuildFails, SetAsideFails, Check, Goto, DatabaseInv, FilesAreThere
<1> QED
  BY <1>3, <1>4

(* A new release asks for a newer schema, and touches no file.             *)
LEMMA ReleaseStep ==
    ASSUME DatabaseInv, Deploy
    PROVE  DatabaseInv'
<1> USE DEF DatabaseInv, Deploy, disk
<1>0. want' = want + 1 /\ want' \in 1..(MaxDeploys + 1) /\ want \in 1..(MaxDeploys + 1)
  BY ReconcileAssumption DEF ReconcileType
<1>1. ReconcileType'
  <2>1. \A x : x \in 0..want => x \in 0..want'
    BY <1>0
  <2> QED
    BY <1>0, <2>1 DEF ReconcileType
<1>2. RowsAreFinite'
  BY DEF RowsAreFinite
<1>3. FilesAreThere' /\ CopyInventsNothing'
  BY DEF FilesAreThere, CopyInventsNothing
<1>4. Elsewhere
  BY DEF Elsewhere
<1>5. (Its(Db)' <=> Its(Db)) /\ Seen(Db)' = Seen(Db) /\ Db \in Name
  BY <1>4, SeenElsewhere, Names
<1>6. LogsAreTheirs'
  BY <1>5 DEF LogsAreTheirs
<1>7. CountedAreThere'
  BY <1>5 DEF CountedAreThere, CountedRows
<1>8. OriginalIsKept'
  BY <1>4, OriginalStays
<1> QED
  BY <1>1, <1>2, <1>3, <1>6, <1>7, <1>8

(* A fault in the swap: what it leaves half done it calls by its name.     *)
LEMMA SwapFaults ==
    ASSUME DatabaseInv, MoveWalFails \/ SwapFails \/ UndoFails \/ Crash
    PROVE  DatabaseInv'
<1> USE DEF DatabaseInv
<1>0. UNCHANGED <<disk, want, aside, accepted, tool>> /\ faults' \in 0..MaxFaults
  BY ReconcileAssumption DEF ReconcileType, MoveWalFails, SwapFails, UndoFails, Crash, Fault
<1>1. /\ pc' \in {"off", "swap", "undo", "undoWal"} /\ torn' \in {"no", "whole", "split"}
      /\ torn' # "split" => torn # "split"
      /\ torn' = "no" => torn = "no"
  BY DEF ReconcileType, MoveWalFails, SwapFails, UndoFails, Crash, Goto
<1>2. ReconcileType'
  BY <1>0, <1>1 DEF ReconcileType, disk
<1>3. RowsAreFinite'
  BY <1>0 DEF RowsAreFinite, disk
<1>4. Elsewhere
  BY <1>0 DEF Elsewhere, disk
<1>5. Db \in Name \ {Rebuilt} /\ aside \in Name \ {Rebuilt} /\ aside # Db
  BY Disk, Names
<1>6. /\ Its(Db)' <=> Its(Db)
      /\ Seen(Db)' = Seen(Db)
      /\ aside' = aside /\ Seen(aside)' = Seen(aside) /\ (Its(aside)' <=> Its(aside))
      /\ main' = main /\ wal' = wal
      /\ LogRows(Db)' = LogRows(Db) /\ LogRows(aside)' = LogRows(aside)
      /\ CountedRows' = CountedRows
  BY <1>0 DEF disk, Its, Seen, LogRows, CountedRows
<1>7. CASE MoveWalFails
  <2>1. torn' = "split" /\ pc = "moveWal" /\ pc' = "swap"
    BY <1>7 DEF MoveWalFails, Goto
  <2>2. FilesAreThere' /\ CopyInventsNothing'
    BY <1>6, <2>1 DEF FilesAreThere, CopyInventsNothing
  <2> QED
    BY <1>2, <1>3, <2>1, <2>2 DEF LogsAreTheirs, CountedAreThere, OriginalIsKept
<1>8. CASE SwapFails
  <2>1. torn' = torn /\ pc = "swap" /\ pc' = "undo"
    BY <1>8 DEF SwapFails, Goto
  <2>2. FilesAreThere' /\ CopyInventsNothing'
    BY <1>6, <2>1 DEF FilesAreThere, CopyInventsNothing
  <2>3. LogsAreTheirs'
    BY <1>6, <2>1 DEF LogsAreTheirs
  <2>4. CountedAreThere'
    BY <1>6, <2>1 DEF CountedAreThere
  <2>5. OriginalIsKept'
    BY <1>4, <1>6, <1>0, <2>1, OriginalStays
  <2> QED
    BY <1>2, <1>3, <2>2, <2>3, <2>4, <2>5
<1>9. CASE UndoFails
  <2>1. /\ (pc = "undo" /\ pc' = "undoWal") \/ (pc = "undoWal" /\ pc' = "off")
        /\ torn' # "split" => torn # "split" /\ wal[aside] = None
        /\ pc = "undo" => torn' # "no"
    BY <1>9 DEF UndoFails, Goto
  <2>2. FilesAreThere' /\ CopyInventsNothing'
    BY <1>6, <2>1 DEF FilesAreThere, CopyInventsNothing
  <2>3. LogsAreTheirs'
    BY <1>6, <2>1 DEF LogsAreTheirs
  <2>4. CountedAreThere'
    <3>1. torn' = "no" => torn = "no" /\ pc = "undoWal" /\ pc' = "off" /\ wal[aside] = None
      BY <1>1, <2>1
    <3> QED
      BY <1>6, <3>1 DEF CountedAreThere, FilesAreThere, LogRows, Seen
  <2>5. OriginalIsKept'
    BY <1>0, <1>1, <1>4, <2>1, OriginalStays
  <2> QED
    BY <1>2, <1>3, <2>2, <2>3, <2>4, <2>5
<1>10. CASE Crash
  <2>1. /\ pc' = "off" /\ pc # "off"
        /\ torn' # "split" => /\ torn # "split"
                              /\ pc = "moveWal" => wal[Db] = None
                              /\ pc = "undoWal" => wal[aside] = None
        /\ torn' = "no" => pc \notin {"moveWal", "swap", "undo"}
    BY <1>10 DEF Crash, Goto
  <2>2. FilesAreThere' /\ CopyInventsNothing'
    BY <2>1 DEF FilesAreThere, CopyInventsNothing
  <2>3. LogsAreTheirs'
    BY <1>6, <2>1 DEF LogsAreTheirs
  <2>4. CountedAreThere'
    BY <1>1, <1>6, <2>1 DEF CountedAreThere, FilesAreThere, LogRows, Seen
  <2>5. OriginalIsKept'
    BY <1>0, <1>4, <2>1, OriginalStays
  <2> QED
    BY <1>2, <1>3, <2>2, <2>3, <2>4, <2>5
<1> QED
  BY <1>7, <1>8, <1>9, <1>10

-----------------------------------------------------------------------------
(* Steps that touch the rebuilt file only.                                 *)

(* A step on the rebuilt file alone keeps the database's invariant.        *)
LEMMA RebuildStep ==
    ASSUME DatabaseInv, Elsewhere, UNCHANGED <<want, aside, accepted, torn, tool, faults>>,
           main'[Db] = main[Db], ReconcileType', RowsAreFinite',
           pc \notin {"off", "create", "moveWal", "swap", "undo", "undoWal"},
           \/ pc' \in {"off", "dropMain", "dropWal"}
           \/ pc' \in {"cleanWal", "copy", "check"} /\ main[Db] # None
           \/ pc' \in {"verify", "setAside"} /\ main[Db] # None /\ main'[Rebuilt] # None,
           CopyInventsNothing',
           pc' = "setAside" /\ torn = "no" => CountedRows \subseteq main'[Rebuilt].rows
    PROVE  DatabaseInv'
<1> USE DEF DatabaseInv
<1>1. FilesAreThere'
  BY DEF FilesAreThere
<1>2. (Its(Db)' <=> Its(Db)) /\ Seen(Db)' = Seen(Db) /\ Db \in Name \ {Rebuilt} /\ wal'[Db] = wal[Db]
  BY SeenElsewhere, Names DEF Elsewhere
<1>3. LogsAreTheirs'
  BY <1>2 DEF LogsAreTheirs
<1>4. CountedAreThere'
  BY <1>2 DEF CountedAreThere, CountedRows
<1>5. OriginalIsKept'
  BY OriginalStays
<1> QED
  BY <1>1, <1>3, <1>4, <1>5

(* Cleaning away a rebuilt file, before, after or instead.                 *)
LEMMA CleanSteps ==
    ASSUME DatabaseInv, CleanMain \/ CleanWal \/ DropMain \/ DropWal \/ Tidy
    PROVE  DatabaseInv'
<1> USE DEF DatabaseInv
<1>1. /\ UNCHANGED <<made, want, aside, accepted, torn, tool, faults>>
      /\ pc' \in {"cleanWal", "copy", "dropWal", "off", "check"}
      /\ pc \in {"cleanMain", "cleanWal", "dropMain", "dropWal", "tidy"}
      /\ pc' \in {"cleanWal", "copy", "check"} => pc \in {"cleanMain", "cleanWal", "tidy"}
      /\ main' = main \/ main' = At(main, Rebuilt, None)
      /\ wal' = wal \/ wal' = At(wal, Rebuilt, None)
  BY DEF CleanMain, CleanWal, DropMain, DropWal, Tidy, Goto
<1>2. /\ main' \in [Name -> File \cup {None}] /\ wal' \in [Name -> Log \cup {None}]
      /\ \A n \in Name : main'[n] = main[n] \/ (n = Rebuilt /\ main'[n] = None)
      /\ \A n \in Name : wal'[n] = wal[n] \/ (n = Rebuilt /\ wal'[n] = None)
  BY <1>1, Disk DEF At
<1>3. Elsewhere
  BY <1>2 DEF Elsewhere
<1>4. ReconcileType'
  BY <1>1, <1>2 DEF ReconcileType
<1>5. RowsAreFinite'
  BY <1>2 DEF RowsAreFinite
<1>6. main'[Db] = main[Db] /\ CopyInventsNothing'
  BY <1>1, <1>2, Names DEF CopyInventsNothing
<1> QED
  BY <1>1, <1>3, <1>4, <1>5, <1>6, RebuildStep DEF FilesAreThere

(* Copying the rows into it, or losing some of them.                       *)
LEMMA CopySteps ==
    ASSUME DatabaseInv, Copy \/ CopyLoses
    PROVE  DatabaseInv'
<1> USE DEF DatabaseInv
<1>1. PICK rows \in SUBSET Seen(Db) : CopyInto(rows)
  BY DEF Copy, CopyLoses
<1>2. /\ UNCHANGED <<want, aside, accepted, torn, tool>> /\ faults' \in 0..MaxFaults
      /\ pc = "copy" /\ pc' = "verify" /\ made' = made + 1
  BY <1>1, ReconcileAssumption DEF Copy, CopyLoses, CopyInto, Goto, Fault, ReconcileType
<1>3. PICK kept \in SUBSET rows : wal' = At(wal, Rebuilt, [rows |-> kept, id |-> made'])
  BY <1>1 DEF CopyInto
<1>4. main' = At(main, Rebuilt, [schema |-> want, rows |-> {}, id |-> made'])
  BY <1>1 DEF CopyInto
<1>5. main[Db] # None /\ Db \in Name /\ Db # Rebuilt /\ Rebuilt \in Name
  BY <1>2, Names DEF FilesAreThere
<1>6. Seen(Db) \subseteq Row /\ IsFiniteSet(Seen(Db))
  <2>1. main[Db].rows \subseteq Row /\ IsFiniteSet(main[Db].rows)
    BY <1>5, Disk DEF RowsAreFinite, File
  <2>2. wal[Db] # None => wal[Db].rows \subseteq Row /\ IsFiniteSet(wal[Db].rows)
    BY <1>5, Disk DEF RowsAreFinite, Log
  <2> QED
    BY <2>1, <2>2, FS_Union, FS_EmptySet DEF Seen, Its
<1>7. IsFiniteSet(kept) /\ kept \subseteq Row /\ kept \subseteq Seen(Db) /\ IsFiniteSet({})
  BY <1>6, FS_Subset, FS_EmptySet
<1>8. /\ [schema |-> want, rows |-> {}, id |-> made'] \in File
      /\ [rows |-> kept, id |-> made'] \in Log
  BY <1>2, <1>7, Disk DEF File, Log
<1>9. /\ main' \in [Name -> File \cup {None}] /\ wal' \in [Name -> Log \cup {None}]
      /\ \A n \in Name \ {Rebuilt} : main'[n] = main[n] /\ wal'[n] = wal[n]
      /\ main'[Rebuilt].schema = want /\ main'[Rebuilt].rows = {} /\ main'[Rebuilt].id = made'
      /\ wal'[Rebuilt].rows = kept /\ wal'[Rebuilt].id = made'
      /\ main'[Rebuilt] # None /\ wal'[Rebuilt] # None
  BY <1>3, <1>4, <1>5, <1>8, Disk, NoneIsNoFile DEF At
<1>10. Elsewhere
  BY <1>9 DEF Elsewhere
<1>11. ReconcileType'
  <2>1. made' \in Nat /\ made' \in 1..made' /\ \A x \in 1..made : x \in 1..made'
    BY <1>2, Disk
  <2>2. want \in 0..want
    BY Disk
  <2>3. \A n \in Name : main'[n] # None => main'[n].schema \in 0..want /\ main'[n].id \in 1..made'
    BY <1>9, <2>1, <2>2 DEF ReconcileType
  <2>4. \A n \in Name : wal'[n] # None => wal'[n].id \in 1..made'
    BY <1>9, <2>1 DEF ReconcileType
  <2> QED
    BY <1>2, <1>9, <2>1, <2>3, <2>4 DEF ReconcileType
<1>12. RowsAreFinite'
  BY <1>7, <1>9 DEF RowsAreFinite
<1>13. Seen(Rebuilt)' \subseteq Seen(Db)'
  <2>1. Seen(Db)' = Seen(Db)
    BY <1>5, <1>10, SeenElsewhere
  <2>2. Seen(Rebuilt)' \subseteq kept
    BY <1>9 DEF Seen
  <2> QED
    BY <1>7, <2>1, <2>2
<1>14. FilesAreThere'
  BY <1>2, <1>5, <1>9 DEF FilesAreThere
<1>15. (Its(Db)' <=> Its(Db)) /\ Seen(Db)' = Seen(Db) /\ wal'[Db] = wal[Db] /\ main'[Db] = main[Db]
  BY <1>5, <1>9, <1>10, SeenElsewhere
<1>16. LogsAreTheirs'
  BY <1>2, <1>15 DEF LogsAreTheirs
<1>17. CountedAreThere'
  BY <1>2, <1>15 DEF CountedAreThere, CountedRows
<1>18. OriginalIsKept'
  BY <1>2, <1>10, OriginalStays
<1> QED
  BY <1>11, <1>12, <1>13, <1>14, <1>16, <1>17, <1>18 DEF CopyInventsNothing

(* Where the counts agree, every counted row was copied.                   *)
LEMMA CountsTell ==
    ASSUME DatabaseInv, pc = "verify", torn = "no", Verified
    PROVE  CountedRows \subseteq Seen(Rebuilt)
<1> USE DEF DatabaseInv
<1>1. main[Db] # None /\ Seen(Rebuilt) \subseteq Seen(Db) /\ CountedRows \subseteq Seen(Db)
  BY DEF FilesAreThere, CopyInventsNothing, CountedAreThere
<1>2. IsFiniteSet(Seen(Db))
  <2>1. IsFiniteSet(main[Db].rows) /\ (wal[Db] # None => IsFiniteSet(wal[Db].rows))
    BY <1>1, Names DEF RowsAreFinite
  <2> QED
    BY <2>1, FS_Union, FS_EmptySet DEF Seen, Its
<1>3. SUFFICES ASSUME NEW r \in CountedRows PROVE r \in Seen(Rebuilt)
  OBVIOUS
<1> DEFINE t == TableOf[r]
           Of(rows) == {x \in rows : TableOf[x] = t}
<1>4. t \in Counted /\ r \in Of(Seen(Db))
  BY <1>1 DEF CountedRows
<1>5. Of(Seen(Rebuilt)) \subseteq Of(Seen(Db)) /\ IsFiniteSet(Of(Seen(Db)))
  BY <1>1, <1>2, FS_Subset
<1>6. Cardinality(Of(Seen(Rebuilt))) = Cardinality(Of(Seen(Db)))
  BY <1>4 DEF Verified, Count
<1>7. Of(Seen(Rebuilt)) = Of(Seen(Db))
  <2> HIDE DEF Of, t
  <2> QED
    BY <1>5, <1>6, FS_Subset
<1> QED
  BY <1>4, <1>7

(* Counting what arrived.                                                  *)
LEMMA VerifyStep ==
    ASSUME DatabaseInv, Verify
    PROVE  DatabaseInv'
<1> USE DEF DatabaseInv
<1>1. /\ UNCHANGED <<made, want, aside, accepted, torn, tool, faults>> /\ pc = "verify"
      /\ main[Db] # None /\ main[Rebuilt] # None
  BY DEF Verify, FilesAreThere
<1>2. CASE ~Verified
  <2>1. UNCHANGED <<main, wal>> /\ pc' = "dropMain"
    BY <1>2 DEF Verify, Goto
  <2>2. Idle
    BY <1>1, <2>1 DEF Idle, disk, ReconcileType
  <2> QED
    BY <1>1, <2>1, <2>2, QuietStep
<1>3. CASE Verified
  <2> DEFINE seen == Seen(Rebuilt)
  <2>1. main' = [main EXCEPT ![Rebuilt].rows = seen] /\ wal' = At(wal, Rebuilt, None) /\ pc' = "setAside"
    BY <1>3 DEF Verify, Goto
  <2>2. seen \subseteq Row /\ IsFiniteSet(seen)
    <3>1. main[Rebuilt].rows \subseteq Row /\ IsFiniteSet(main[Rebuilt].rows)
      BY <1>1, Disk, Names DEF RowsAreFinite, File
    <3>2. wal[Rebuilt] # None => wal[Rebuilt].rows \subseteq Row /\ IsFiniteSet(wal[Rebuilt].rows)
      BY Disk, Names DEF RowsAreFinite, Log
    <3> QED
      BY <3>1, <3>2, FS_Union, FS_EmptySet DEF Seen, Its
  <2> HIDE DEF seen
  <2>3. main[Rebuilt] \in File /\ Rebuilt \in Name /\ Db \in Name /\ Db # Rebuilt
    BY <1>1, Disk, Names
  <2> DEFINE new == [main[Rebuilt] EXCEPT !.rows = seen]
  <2>4. /\ new \in File /\ new.rows = seen /\ new.schema = main[Rebuilt].schema
        /\ new.id = main[Rebuilt].id
    BY <2>2, <2>3 DEF File
  <2>5. main' = [main EXCEPT ![Rebuilt] = new]
    BY <2>1
  <2> HIDE DEF new
  <2>6. /\ main' \in [Name -> File \cup {None}] /\ wal' \in [Name -> Log \cup {None}]
        /\ \A n \in Name \ {Rebuilt} : main'[n] = main[n] /\ wal'[n] = wal[n]
        /\ main'[Rebuilt] = new /\ wal'[Rebuilt] = None /\ main'[Rebuilt] # None
    BY <2>1, <2>3, <2>4, <2>5, Disk, NoneIsNoFile DEF At
  <2>7. Elsewhere
    BY <2>6 DEF Elsewhere
  <2>8. ReconcileType'
    <3>1. \A n \in Name : main'[n] # None => main'[n].schema \in 0..want /\ main'[n].id \in 1..made
      BY <1>1, <2>3, <2>4, <2>6 DEF ReconcileType
    <3>2. \A n \in Name : wal'[n] # None => wal'[n].id \in 1..made
      BY <2>6 DEF ReconcileType
    <3> QED
      BY <1>1, <2>1, <2>6, <3>1, <3>2 DEF ReconcileType
  <2>9. RowsAreFinite'
    BY <2>2, <2>4, <2>6 DEF RowsAreFinite
  <2>10. torn = "no" => CountedRows \subseteq main'[Rebuilt].rows
    BY <1>1, <1>3, <2>4, <2>6, CountsTell DEF seen
  <2>11. CopyInventsNothing'
    BY <2>1 DEF CopyInventsNothing
  <2> QED
    BY <1>1, <2>1, <2>3, <2>6, <2>7, <2>8, <2>9, <2>10, <2>11, RebuildStep
<1> QED
  BY <1>2, <1>3

-----------------------------------------------------------------------------
(* The moves of the swap.                                                  *)

(* A file or a log after a move.                                           *)
LEMMA MovedIs ==
    ASSUME NEW a \in Name, NEW b \in Name, a # b
    PROVE  /\ \A f \in [Name -> File \cup {None}] :
                 /\ Moved(f, a, b) \in [Name -> File \cup {None}]
                 /\ Moved(f, a, b)[a] = None /\ Moved(f, a, b)[b] = f[a]
                 /\ \A n \in Name \ {a, b} : Moved(f, a, b)[n] = f[n]
           /\ \A f \in [Name -> Log \cup {None}] :
                 /\ Moved(f, a, b) \in [Name -> Log \cup {None}]
                 /\ Moved(f, a, b)[a] = None /\ Moved(f, a, b)[b] = f[a]
                 /\ \A n \in Name \ {a, b} : Moved(f, a, b)[n] = f[n]
  BY DEF Moved

(* What holds of all files holds of the files that were only renamed.      *)
LEMMA TypeOfMoved ==
    ASSUME ReconcileType, RowsAreFinite, UNCHANGED <<made, want, accepted, tool, faults>>,
           torn' = torn, aside' \in Backup,
           pc' \in {"off", "moveWal", "swap", "undoWal"},
           main' \in [Name -> File \cup {None}], wal' \in [Name -> Log \cup {None}],
           \A n \in Name : main'[n] = None \/ \E o \in Name : main'[n] = main[o],
           \A n \in Name : wal'[n] = None \/ \E o \in Name : wal'[n] = wal[o]
    PROVE  ReconcileType' /\ RowsAreFinite'
<1>1. \A n \in Name : main'[n] # None =>
         /\ main'[n].schema \in 0..want /\ main'[n].id \in 1..made /\ IsFiniteSet(main'[n].rows)
  BY DEF ReconcileType, RowsAreFinite
<1>2. \A n \in Name : wal'[n] # None => wal'[n].id \in 1..made /\ IsFiniteSet(wal'[n].rows)
  BY DEF ReconcileType, RowsAreFinite
<1> QED
  BY <1>1, <1>2 DEF ReconcileType, RowsAreFinite

(* The original is set aside under a name of its own.                      *)
LEMMA SetAsideStep ==
    ASSUME DatabaseInv, SetAside
    PROVE  DatabaseInv'
<1> USE DEF DatabaseInv
<1>1. /\ UNCHANGED <<wal, made, want, tool, accepted, torn, faults>>
      /\ pc = "setAside" /\ pc' = "moveWal"
      /\ aside' \in Backup /\ main[aside'] = None /\ wal[aside'] = None
      /\ main' = Moved(main, Db, aside')
  BY DEF SetAside, Goto, Unused
<1>2. PICK b \in Backup : b = aside'
  BY <1>1
<1>3. b \in Name /\ Db \in Name /\ Rebuilt \in Name /\ b # Db /\ b # Rebuilt /\ Db # Rebuilt
  BY Names
<1>4. main[Db] # None /\ main[Rebuilt] # None
  BY <1>1 DEF FilesAreThere
<1>5. /\ main' \in [Name -> File \cup {None}] /\ main'[Db] = None /\ main'[b] = main[Db]
      /\ \A n \in Name \ {Db, b} : main'[n] = main[n]
  BY <1>1, <1>2, <1>3, Disk, MovedIs
<1>6. ReconcileType' /\ RowsAreFinite'
  <2>1. \A n \in Name : main'[n] = None \/ \E o \in Name : main'[n] = main[o]
    BY <1>3, <1>5
  <2> QED
    BY <1>1, <1>5, <2>1, Disk, TypeOfMoved
<1>7. FilesAreThere'
  BY <1>1, <1>2, <1>3, <1>4, <1>5 DEF FilesAreThere
<1>8. LogsAreTheirs'
  BY <1>1, <1>2, <1>4, <1>5 DEF LogsAreTheirs, Its
<1>9. CountedAreThere'
  <2>1. torn = "no" => CountedRows \subseteq main[Db].rows \cup LogRows(Db)
    BY <1>1, <1>4 DEF CountedAreThere, Seen, Its, LogRows
  <2>2. torn = "no" => CountedRows \subseteq main[Rebuilt].rows
    BY <1>1 DEF CountedAreThere
  <2> QED
    BY <1>1, <1>2, <1>3, <1>5, <2>1, <2>2 DEF CountedAreThere, LogRows, CountedRows
<1>10. OriginalIsKept'
  <2> SUFFICES ASSUME torn # "split", NEW r \in accepted
      PROVE  \/ wal[Db] # None /\ r \in wal[Db].rows
             \/ \E n \in {Db} \cup Backup : main'[n] # None /\ r \in Seen(n)'
    BY <1>1 DEF OriginalIsKept
  <2>1. PICK n \in {Db} \cup Backup : main[n] # None /\ r \in Seen(n)
    BY <1>1 DEF OriginalIsKept
  <2>2. CASE n = Db
    <3>1. r \in main[Db].rows \/ (wal[Db] # None /\ r \in wal[Db].rows)
      BY <2>1, <2>2 DEF Seen, Its
    <3>2. r \in main[Db].rows => main'[b] # None /\ r \in Seen(b)'
      BY <1>4, <1>5 DEF Seen
    <3> QED
      BY <3>1, <3>2
  <2>3. CASE n # Db
    <3>1. n \in Name \ {Db, b}
      BY <1>1, <1>2, <2>1, <2>3, Names
    <3> QED
      BY <1>1, <1>5, <2>1, <3>1 DEF Seen, Its
  <2> QED
    BY <2>2, <2>3
<1>11. CopyInventsNothing'
  BY <1>1 DEF CopyInventsNothing
<1> QED
  BY <1>6, <1>7, <1>8, <1>9, <1>10, <1>11

(* Its log follows.                                                        *)
LEMMA MoveWalStep ==
    ASSUME DatabaseInv, MoveWal
    PROVE  DatabaseInv'
<1> USE DEF DatabaseInv
<1>1. /\ UNCHANGED <<main, made, want, tool, aside, accepted, torn, faults>>
      /\ pc = "moveWal" /\ pc' = "swap"
      /\ wal' = IF wal[Db] = None THEN wal ELSE Moved(wal, Db, aside)
  BY DEF MoveWal, Goto
<1>2. PICK b \in Backup : b = aside
  BY Disk
<1>3. b \in Name /\ Db \in Name /\ Rebuilt \in Name /\ b # Db /\ b # Rebuilt /\ Db # Rebuilt
  BY Names
<1>4. main[Db] = None /\ main[b] # None /\ main[Rebuilt] # None
  BY <1>1, <1>2 DEF FilesAreThere
<1>5. /\ wal' \in [Name -> Log \cup {None}] /\ wal'[Db] = None
      /\ wal[Db] # None => wal'[b] = wal[Db]
      /\ wal[Db] = None => wal'[b] = wal[b]
      /\ \A n \in Name \ {Db, b} : wal'[n] = wal[n]
  BY <1>1, <1>2, <1>3, Disk, MovedIs
<1>6. ReconcileType' /\ RowsAreFinite'
  <2>1. \A n \in Name : wal'[n] = None \/ \E o \in Name : wal'[n] = wal[o]
    BY <1>3, <1>5
  <2> QED
    BY <1>1, <1>5, <2>1, Disk, TypeOfMoved
<1>7. FilesAreThere'
  BY <1>1 DEF FilesAreThere
<1>8. LogsAreTheirs'
  BY <1>1, <1>2, <1>4, <1>5 DEF LogsAreTheirs, Its
<1>9. torn # "split" => (wal'[b] # None => wal'[b].id = main[b].id) /\ wal[b] = None
  BY <1>1, <1>2, <1>5 DEF LogsAreTheirs
<1>10. CountedAreThere'
  <2>1. torn = "no" => CountedRows \subseteq main[b].rows \cup LogRows(Db)
    BY <1>1, <1>2 DEF CountedAreThere
  <2>2. torn = "no" => CountedRows \subseteq Seen(b)'
    BY <1>1, <1>4, <1>5, <1>9, <2>1 DEF LogRows, Seen, Its
  <2> QED
    BY <1>1, <1>2, <2>2 DEF CountedAreThere, CountedRows
<1>11. OriginalIsKept'
  <2> SUFFICES ASSUME torn # "split", NEW r \in accepted
      PROVE  \E n \in {Db} \cup Backup : main[n] # None /\ r \in Seen(n)'
    BY <1>1 DEF OriginalIsKept
  <2>1. CASE wal[Db] # None /\ r \in wal[Db].rows
    BY <1>1, <1>4, <1>5, <1>9, <2>1 DEF Seen, Its
  <2>2. CASE \E n \in {Db} \cup Backup : main[n] # None /\ r \in Seen(n)
    <3>1. PICK n \in {Db} \cup Backup : main[n] # None /\ r \in Seen(n)
      BY <2>2
    <3>2. n # Db /\ n \in Name
      BY <1>4, <3>1, Names
    <3>3. wal[n] # None => wal'[n] = wal[n]
      BY <1>5, <1>9, <3>2
    <3> QED
      BY <1>1, <3>1, <3>3 DEF Seen, Its
  <2> QED
    BY <1>1, <2>1, <2>2 DEF OriginalIsKept
<1>12. CopyInventsNothing'
  BY <1>1 DEF CopyInventsNothing
<1> QED
  BY <1>6, <1>7, <1>8, <1>10, <1>11, <1>12

(* The original is put back where it was.                                  *)
LEMMA UndoStep ==
    ASSUME DatabaseInv, Undo
    PROVE  DatabaseInv'
<1> USE DEF DatabaseInv
<1>1. /\ UNCHANGED <<wal, made, want, tool, aside, accepted, torn, faults>>
      /\ pc = "undo" /\ pc' = "undoWal" /\ main' = Moved(main, aside, Db)
  BY DEF Undo, Goto
<1>2. PICK b \in Backup : b = aside
  BY Disk
<1>3. b \in Name /\ Db \in Name /\ Rebuilt \in Name /\ b # Db /\ b # Rebuilt /\ Db # Rebuilt
  BY Names
<1>4. main[Db] = None /\ main[b] # None
  BY <1>1, <1>2 DEF FilesAreThere
<1>5. /\ main' \in [Name -> File \cup {None}] /\ main'[b] = None /\ main'[Db] = main[b]
      /\ \A n \in Name \ {Db, b} : main'[n] = main[n]
  BY <1>1, <1>2, <1>3, Disk, MovedIs
<1>6. ReconcileType' /\ RowsAreFinite'
  <2>1. \A n \in Name : main'[n] = None \/ \E o \in Name : main'[n] = main[o]
    BY <1>3, <1>5
  <2> QED
    BY <1>1, <1>5, <2>1, Disk, TypeOfMoved
<1>7. FilesAreThere'
  BY <1>1, <1>4, <1>5 DEF FilesAreThere
<1>8. torn # "split" => wal[Db] = None /\ (wal[b] # None => wal[b].id = main[b].id)
  BY <1>1, <1>2 DEF LogsAreTheirs, Its
<1>9. LogsAreTheirs'
  BY <1>1, <1>2, <1>4, <1>5, <1>8 DEF LogsAreTheirs
<1>10. CountedAreThere'
  <2>1. torn = "no" => CountedRows \subseteq main[b].rows \cup LogRows(b)
    BY <1>1, <1>2 DEF CountedAreThere, Seen, Its, LogRows
  <2> QED
    BY <1>1, <1>2, <1>5, <2>1 DEF CountedAreThere, CountedRows, LogRows
<1>11. OriginalIsKept'
  <2> SUFFICES ASSUME torn # "split", NEW r \in accepted
      PROVE  \/ wal[b] # None /\ r \in wal[b].rows
             \/ \E n \in {Db} \cup Backup : main'[n] # None /\ r \in Seen(n)'
    BY <1>1, <1>2 DEF OriginalIsKept
  <2>1. PICK n \in {Db} \cup Backup : main[n] # None /\ r \in Seen(n)
    BY <1>1 DEF OriginalIsKept
  <2>2. CASE n = b
    <3>1. r \in main[b].rows \/ (wal[b] # None /\ r \in wal[b].rows)
      BY <2>1, <2>2 DEF Seen, Its
    <3>2. r \in main[b].rows => main'[Db] # None /\ r \in Seen(Db)'
      BY <1>4, <1>5 DEF Seen
    <3> QED
      BY <3>1, <3>2
  <2>3. CASE n # b
    <3>1. n \in Name \ {Db, b}
      BY <1>4, <2>1, <2>3, Names
    <3> QED
      BY <1>1, <1>5, <2>1, <3>1 DEF Seen, Its
  <2> QED
    BY <2>2, <2>3
<1>12. CopyInventsNothing'
  BY <1>1 DEF CopyInventsNothing
<1> QED
  BY <1>6, <1>7, <1>9, <1>10, <1>11, <1>12

(* Its log follows.                                                        *)
LEMMA UndoWalStep ==
    ASSUME DatabaseInv, UndoWal
    PROVE  DatabaseInv'
<1> USE DEF DatabaseInv
<1>1. /\ UNCHANGED <<main, made, want, tool, aside, accepted, torn, faults>>
      /\ pc = "undoWal" /\ pc' = "off"
      /\ wal' = IF wal[aside] = None THEN wal ELSE Moved(wal, aside, Db)
  BY DEF UndoWal, Goto
<1>2. PICK b \in Backup : b = aside
  BY Disk
<1>3. b \in Name /\ Db \in Name /\ Rebuilt \in Name /\ b # Db /\ b # Rebuilt /\ Db # Rebuilt
  BY Names
<1>4. /\ wal' \in [Name -> Log \cup {None}] /\ wal'[b] = None
      /\ wal[b] # None => wal'[Db] = wal[b]
      /\ wal[b] = None => wal'[Db] = wal[Db]
      /\ \A n \in Name \ {Db, b} : wal'[n] = wal[n]
  BY <1>1, <1>2, <1>3, Disk, MovedIs
<1>5. ReconcileType' /\ RowsAreFinite'
  <2>1. \A n \in Name : wal'[n] = None \/ \E o \in Name : wal'[n] = wal[o]
    BY <1>3, <1>4
  <2> QED
    BY <1>1, <1>4, <2>1, Disk, TypeOfMoved
<1>6. FilesAreThere'
  BY <1>1 DEF FilesAreThere
<1>7. /\ torn # "split" => wal[Db] = None
      /\ torn # "split" /\ wal[b] # None => main[Db] # None /\ wal[b].id = main[Db].id
  BY <1>1, <1>2 DEF LogsAreTheirs
<1>8. ASSUME torn # "split", wal'[Db] # None
      PROVE  wal[b] # None /\ wal'[Db] = wal[b] /\ main[Db] # None /\ wal'[Db].id = main[Db].id
  <2>1. wal[b] # None
    BY <1>4, <1>7, <1>8
  <2> QED
    BY <1>4, <1>7, <1>8, <2>1
<1>9. LogsAreTheirs'
  BY <1>1, <1>8 DEF LogsAreTheirs, Its
<1>10. CountedAreThere'
  <2>1. torn = "no" => main[Db] # None /\ CountedRows \subseteq main[Db].rows \cup LogRows(b)
    BY <1>1, <1>2 DEF CountedAreThere, FilesAreThere
  <2>2. torn = "no" => CountedRows \subseteq Seen(Db)'
    BY <1>1, <1>4, <1>8, <2>1 DEF LogRows, Seen, Its
  <2> QED
    BY <1>1, <2>1, <2>2 DEF CountedAreThere, CountedRows
<1>11. OriginalIsKept'
  <2> SUFFICES ASSUME torn # "split", NEW r \in accepted
      PROVE  \E n \in {Db} \cup Backup : main[n] # None /\ r \in Seen(n)'
    BY <1>1 DEF OriginalIsKept
  <2>1. CASE wal[b] # None /\ r \in wal[b].rows
    <3>1. /\ main[Db] # None /\ wal'[Db] = wal[b] /\ wal'[Db] # None
          /\ wal'[Db].id = main[Db].id
      BY <1>4, <1>7, <2>1
    <3> QED
      BY <1>1, <2>1, <3>1 DEF Seen, Its
  <2>2. CASE \E n \in {Db} \cup Backup : main[n] # None /\ r \in Seen(n)
    <3>1. PICK n \in {Db} \cup Backup : main[n] # None /\ r \in Seen(n)
      BY <2>2
    <3>2. CASE n = b /\ wal[b] # None
      <4>1. r \in main[b].rows \/ r \in wal[b].rows
        BY <3>1, <3>2 DEF Seen, Its
      <4> QED
        BY <1>1, <2>1, <3>1, <3>2, <4>1 DEF Seen, Its
    <3>3. CASE n # b \/ wal[b] = None
      <4>1. n \in Name /\ (wal[n] # None => wal'[n] = wal[n])
        BY <1>3, <1>4, <1>7, <3>1, <3>3, Names
      <4> QED
        BY <1>1, <3>1, <4>1 DEF Seen, Its
    <3> QED
      BY <3>2, <3>3
  <2> QED
    BY <1>1, <1>2, <2>1, <2>2 DEF OriginalIsKept
<1>12. CopyInventsNothing'
  BY <1>1 DEF CopyInventsNothing
<1> QED
  BY <1>5, <1>6, <1>9, <1>10, <1>11, <1>12

(* The rebuilt file takes the database's name.                             *)
LEMMA SwapStep ==
    ASSUME DatabaseInv, Swap
    PROVE  DatabaseInv'
<1> USE DEF DatabaseInv
<1>0. /\ Db \in Name /\ Rebuilt \in Name /\ Db # Rebuilt
      /\ \A n \in Backup : n \in Name \ {Rebuilt, Db}
  BY Names
<1>1. /\ UNCHANGED <<made, want, tool, aside, accepted, torn, faults>>
      /\ pc = "swap" /\ pc' = "tidy" /\ wal' = At(wal, Db, None)
  BY DEF Swap, Goto
<1>2. PICK rows \in SUBSET (main[Rebuilt].rows \cup LogRows(Db)) :
         /\ wal[Db] = None => rows = main[Rebuilt].rows
         /\ main' = [Moved(main, Rebuilt, Db) EXCEPT ![Db].rows = rows]
  BY DEF Swap, LogRows
<1>3. main[Db] = None /\ main[Rebuilt] # None /\ main[Rebuilt] \in File
  BY <1>0, <1>1, Disk DEF FilesAreThere
<1>4. rows \subseteq Row /\ IsFiniteSet(rows)
  <2>1. main[Rebuilt].rows \subseteq Row /\ IsFiniteSet(main[Rebuilt].rows)
    BY <1>0, <1>3 DEF RowsAreFinite, File
  <2>2. LogRows(Db) \subseteq Row /\ IsFiniteSet(LogRows(Db))
    BY <1>0, Disk, FS_EmptySet DEF RowsAreFinite, Log, LogRows
  <2>3. IsFiniteSet(main[Rebuilt].rows \cup LogRows(Db))
    BY <2>1, <2>2, FS_Union
  <2> QED
    BY <2>1, <2>2, <2>3, FS_Subset
<1> DEFINE moved == Moved(main, Rebuilt, Db)
           new == [main[Rebuilt] EXCEPT !.rows = rows]
<1>5. /\ moved \in [Name -> File \cup {None}]
      /\ moved[Rebuilt] = None /\ moved[Db] = main[Rebuilt]
      /\ \A n \in Name \ {Rebuilt, Db} : moved[n] = main[n]
  BY <1>0, Disk, MovedIs
<1>6. /\ new \in File /\ new.rows = rows /\ new.schema = main[Rebuilt].schema
      /\ new.id = main[Rebuilt].id /\ new # None
  BY <1>3, <1>4, NoneIsNoFile DEF File
<1>7. main' = [moved EXCEPT ![Db] = new]
  BY <1>2, <1>5
<1> HIDE DEF new, moved
<1>8. /\ main' \in [Name -> File \cup {None}] /\ wal' \in [Name -> Log \cup {None}]
      /\ main'[Db] = new /\ main'[Rebuilt] = None /\ wal'[Db] = None
      /\ \A n \in Name \ {Rebuilt, Db} : main'[n] = main[n]
      /\ \A n \in Name \ {Db} : wal'[n] = wal[n]
  BY <1>0, <1>1, <1>5, <1>6, <1>7, Disk DEF At
<1>9. ReconcileType'
  <2>1. \A n \in Name : main'[n] # None => main'[n].schema \in 0..want /\ main'[n].id \in 1..made
    BY <1>0, <1>3, <1>6, <1>8 DEF ReconcileType
  <2>2. \A n \in Name : wal'[n] # None => wal'[n].id \in 1..made
    BY <1>8 DEF ReconcileType
  <2> QED
    BY <1>1, <1>8, <2>1, <2>2 DEF ReconcileType
<1>10. RowsAreFinite'
  BY <1>4, <1>6, <1>8 DEF RowsAreFinite
<1>11. FilesAreThere' /\ LogsAreTheirs' /\ CopyInventsNothing'
  BY <1>1, <1>6, <1>8 DEF FilesAreThere, LogsAreTheirs, CopyInventsNothing
<1>12. CountedAreThere'
  <2>1. torn = "no" => CountedRows \subseteq rows
    BY <1>1, <1>2 DEF CountedAreThere, LogsAreTheirs
  <2> QED
    BY <1>1, <1>6, <1>8, <2>1 DEF CountedAreThere, CountedRows, Seen
<1>13. OriginalIsKept'
  <2> SUFFICES ASSUME torn # "split", NEW r \in accepted
      PROVE  \E n \in {Db} \cup Backup : main'[n] # None /\ r \in Seen(n)'
    BY <1>1 DEF OriginalIsKept
  <2>1. PICK n \in {Db} \cup Backup : main[n] # None /\ r \in Seen(n)
    BY <1>1 DEF OriginalIsKept
  <2>2. n \in Backup /\ n \in Name \ {Rebuilt, Db}
    BY <1>0, <1>3, <2>1
  <2>3. main'[n] = main[n] /\ wal'[n] = wal[n]
    BY <1>8, <2>2
  <2> QED
    BY <2>1, <2>3 DEF Seen, Its
<1> QED
  BY <1>9, <1>10, <1>11, <1>12, <1>13

-----------------------------------------------------------------------------
(* Steps that touch the database's own file and log.                       *)

(* A step that writes the database's own file and loses no row of it.      *)
LEMMA DbStep ==
    ASSUME DatabaseInv, UNCHANGED <<want, aside, torn>>,
           pc \in {"create", "serve"}, pc' \in {"create", "serve"},
           ReconcileType', RowsAreFinite', main'[Db] # None,
           \A n \in Name \ {Db} : main'[n] = main[n] /\ wal'[n] = wal[n],
           wal'[Db] # None /\ torn # "split" => wal'[Db].id = main'[Db].id,
           main[Db] # None => Seen(Db) \subseteq Seen(Db)',
           accepted' \ accepted \subseteq Seen(Db)'
    PROVE  DatabaseInv'
<1> USE DEF DatabaseInv
<1>1. FilesAreThere' /\ CopyInventsNothing'
  BY DEF FilesAreThere, CopyInventsNothing
<1>2. LogsAreTheirs'
  BY DEF LogsAreTheirs, Its
<1>3. CountedAreThere'
  <2>1. torn = "no" => CountedRows' \subseteq Seen(Db)'
    BY DEF CountedAreThere, CountedRows
  <2> QED
    BY <2>1 DEF CountedAreThere
<1>4. OriginalIsKept'
  <2> SUFFICES ASSUME torn # "split", NEW r \in accepted'
      PROVE  \E n \in {Db} \cup Backup : main'[n] # None /\ r \in Seen(n)'
    BY DEF OriginalIsKept
  <2>1. CASE r \notin accepted
    BY <2>1
  <2>2. CASE r \in accepted
    <3>1. PICK n \in {Db} \cup Backup : main[n] # None /\ r \in Seen(n)
      BY <2>2 DEF OriginalIsKept
    <3>2. CASE n = Db
      BY <3>1, <3>2
    <3>3. CASE n # Db
      <4>1. main'[n] = main[n] /\ wal'[n] = wal[n]
        BY <3>1, <3>3, Names
      <4> QED
        BY <3>1, <4>1 DEF Seen, Its
    <3> QED
      BY <3>2, <3>3
  <2> QED
    BY <2>1, <2>2
<1> QED
  BY <1>1, <1>2, <1>3, <1>4

(* The type, when only the database's own file and log are new.            *)
LEMMA TypeOfDb ==
    ASSUME ReconcileType, RowsAreFinite,
           UNCHANGED <<want, aside, torn, tool, faults>>, pc' \in {"create", "serve"},
           made' \in Nat, made <= made', accepted' \subseteq Row,
           NEW f \in File, NEW l \in Log \cup {None},
           main' = [main EXCEPT ![Db] = f], wal' = [wal EXCEPT ![Db] = l],
           f.schema \in 0..want, f.id \in 1..made', IsFiniteSet(f.rows),
           l # None => l.id \in 1..made' /\ IsFiniteSet(l.rows)
    PROVE  /\ ReconcileType' /\ RowsAreFinite'
           /\ main'[Db] = f /\ wal'[Db] = l /\ main'[Db] # None
           /\ \A n \in Name \ {Db} : main'[n] = main[n] /\ wal'[n] = wal[n]
<1>1. /\ main' \in [Name -> File \cup {None}] /\ wal' \in [Name -> Log \cup {None}]
      /\ main'[Db] = f /\ wal'[Db] = l /\ main'[Db] # None
      /\ \A n \in Name \ {Db} : main'[n] = main[n] /\ wal'[n] = wal[n]
  BY Disk, Names, NoneIsNoFile
<1>2. \A x \in 1..made : x \in 1..made'
  BY Disk
<1>3. \A n \in Name : main'[n] # None => main'[n].schema \in 0..want /\ main'[n].id \in 1..made'
  BY <1>1, <1>2 DEF ReconcileType
<1>4. \A n \in Name : wal'[n] # None => wal'[n].id \in 1..made'
  BY <1>1, <1>2 DEF ReconcileType
<1>5. ReconcileType'
  BY <1>1, <1>3, <1>4 DEF ReconcileType
<1>6. RowsAreFinite'
  BY <1>1 DEF RowsAreFinite
<1> QED
  BY <1>1, <1>5, <1>6

(* What the database holds.                                                *)
LEMMA DbRows ==
    ASSUME DatabaseInv, main[Db] # None
    PROVE  /\ main[Db] \in File /\ main[Db].schema \in 0..want /\ main[Db].id \in 1..made
           /\ main[Db].rows \subseteq Row /\ IsFiniteSet(main[Db].rows)
           /\ Seen(Db) \subseteq Row /\ IsFiniteSet(Seen(Db))
<1> USE DEF DatabaseInv
<1>1. /\ main[Db] \in File /\ main[Db].schema \in 0..want /\ main[Db].id \in 1..made
      /\ main[Db].rows \subseteq Row /\ IsFiniteSet(main[Db].rows)
  BY Disk, Names DEF RowsAreFinite, File, ReconcileType
<1>2. wal[Db] # None => wal[Db].rows \subseteq Row /\ IsFiniteSet(wal[Db].rows)
  BY Disk, Names DEF RowsAreFinite, Log
<1> QED
  BY <1>1, <1>2, FS_Union, FS_EmptySet DEF Seen, Its

(* An empty database is created.                                           *)
LEMMA CreateStep ==
    ASSUME DatabaseInv, CreateFile
    PROVE  DatabaseInv'
<1> USE DEF DatabaseInv
<1>1. /\ pc = "create" /\ main[Db] = None /\ made' = made + 1
      /\ UNCHANGED <<want, pc, tool, aside, accepted, torn, faults>>
      /\ wal' = [wal EXCEPT ![Db] = None]
  BY DEF CreateFile, At
<1>2. PICK kept \in SUBSET LogRows(Db) :
         main' = [main EXCEPT ![Db] = [schema |-> 0, rows |-> kept, id |-> made']]
  BY DEF CreateFile, At, LogRows
<1>3. LogRows(Db) \subseteq Row /\ IsFiniteSet(LogRows(Db))
  BY Disk, Names, FS_EmptySet DEF RowsAreFinite, Log, LogRows
<1>4. kept \subseteq Row /\ IsFiniteSet(kept)
  BY <1>3, FS_Subset
<1>5. PICK f : f = [schema |-> 0, rows |-> kept, id |-> made']
  OBVIOUS
<1>6. /\ made' \in Nat /\ made <= made' /\ made' \in 1..made' /\ 0 \in 0..want
      /\ accepted' \subseteq Row
  BY <1>1, Disk DEF ReconcileType
<1>7. f \in File /\ f.schema = 0 /\ f.id = made' /\ f.rows = kept
  BY <1>4, <1>5, <1>6 DEF File
<1>8. /\ ReconcileType' /\ RowsAreFinite' /\ wal'[Db] = None /\ main'[Db] # None
      /\ \A n \in Name \ {Db} : main'[n] = main[n] /\ wal'[n] = wal[n]
  BY <1>1, <1>2, <1>4, <1>5, <1>6, <1>7, TypeOfDb
<1> QED
  BY <1>1, <1>8, DbStep

(* It is given its schema.                                                 *)
LEMMA MigrateStep ==
    ASSUME DatabaseInv, Migrate
    PROVE  DatabaseInv'
<1> USE DEF DatabaseInv
<1>1. /\ pc = "create" /\ pc' = "serve" /\ main[Db] # None
      /\ UNCHANGED <<wal, made, want, tool, aside, accepted, torn, faults>>
      /\ main' = [main EXCEPT ![Db].schema = want]
  BY DEF Migrate, Goto
<1>2. PICK f : f = [main[Db] EXCEPT !.schema = want]
  OBVIOUS
<1>3. /\ f \in File /\ f.schema = want /\ f.rows = main[Db].rows /\ f.id = main[Db].id
      /\ f.schema \in 0..want /\ f.id \in 1..made /\ IsFiniteSet(f.rows)
  BY <1>1, <1>2, DbRows, Disk DEF File
<1>4. main' = [main EXCEPT ![Db] = f] /\ wal' = [wal EXCEPT ![Db] = wal[Db]]
  BY <1>1, <1>2, Disk
<1>5. /\ wal[Db] \in Log \cup {None}
      /\ wal[Db] # None => wal[Db].id \in 1..made /\ IsFiniteSet(wal[Db].rows)
  BY Disk, Names DEF ReconcileType, RowsAreFinite
<1>6. made' = made /\ made' \in Nat /\ made <= made' /\ accepted' \subseteq Row
  BY <1>1, Disk DEF ReconcileType
<1>7. /\ ReconcileType' /\ RowsAreFinite' /\ wal'[Db] = wal[Db] /\ main'[Db] = f
      /\ main'[Db] # None
      /\ \A n \in Name \ {Db} : main'[n] = main[n] /\ wal'[n] = wal[n]
  BY <1>1, <1>3, <1>4, <1>5, <1>6, TypeOfDb
<1>8. Seen(Db)' = Seen(Db)
  BY <1>1, <1>3, <1>7 DEF Seen, Its
<1>9. wal'[Db] # None /\ torn # "split" => wal'[Db].id = main'[Db].id
  BY <1>1, <1>3, <1>7 DEF LogsAreTheirs, Its
<1> QED
  BY <1>1, <1>7, <1>8, <1>9, DbStep

(* A row is written into the log.                                          *)
LEMMA WriteStep ==
    ASSUME DatabaseInv, NEW r \in Row, Write(r)
    PROVE  DatabaseInv'
<1> USE DEF DatabaseInv
<1>1. /\ pc = "serve" /\ pc' = "serve" /\ main[Db] # None
      /\ UNCHANGED <<main, made, want, tool, aside, torn, faults>>
      /\ accepted' = accepted \cup {r}
      /\ wal' = [wal EXCEPT ![Db] = [rows |-> {r} \cup (Seen(Db) \ main[Db].rows), id |-> main[Db].id]]
  BY DEF Write, At, FilesAreThere
<1>2. PICK l : l = [rows |-> {r} \cup (Seen(Db) \ main[Db].rows), id |-> main[Db].id]
  OBVIOUS
<1>3. IsFiniteSet({r} \cup (Seen(Db) \ main[Db].rows))
  <2>1. IsFiniteSet(Seen(Db) \ main[Db].rows)
    BY <1>1, DbRows, FS_Subset
  <2> QED
    BY <2>1, FS_Singleton, FS_Union
<1>4. /\ l \in Log /\ l.rows = {r} \cup (Seen(Db) \ main[Db].rows) /\ l.id = main[Db].id
      /\ l.id \in 1..made /\ IsFiniteSet(l.rows) /\ l # None
  <2>1. main[Db].id \in Nat /\ Seen(Db) \subseteq Row /\ main[Db].id \in 1..made
    BY <1>1, DbRows DEF File
  <2> QED
    BY <1>2, <1>3, <2>1, NoneIsNoFile DEF Log
<1>5. main' = [main EXCEPT ![Db] = main[Db]]
  BY <1>1, Disk
<1>6. made' = made /\ made' \in Nat /\ made <= made' /\ accepted' \subseteq Row
  BY <1>1, Disk DEF ReconcileType
<1>7. /\ ReconcileType' /\ RowsAreFinite' /\ wal'[Db] = l /\ main'[Db] = main[Db]
      /\ main'[Db] # None
      /\ \A n \in Name \ {Db} : main'[n] = main[n] /\ wal'[n] = wal[n]
  BY <1>1, <1>2, <1>4, <1>5, <1>6, DbRows, TypeOfDb
<1>8. Seen(Db) \subseteq Seen(Db)' /\ r \in Seen(Db)'
  BY <1>4, <1>7 DEF Seen, Its
<1> QED
  BY <1>1, <1>4, <1>7, <1>8, DbStep

(* The log is folded into the file.                                        *)
LEMMA CheckpointStep ==
    ASSUME DatabaseInv, Checkpoint
    PROVE  DatabaseInv'
<1> USE DEF DatabaseInv
<1>1. /\ pc = "serve" /\ pc' = "serve" /\ main[Db] # None
      /\ UNCHANGED <<made, want, tool, aside, accepted, torn, faults>>
      /\ wal' = [wal EXCEPT ![Db] = None]
      /\ main' = [main EXCEPT ![Db].rows = Seen(Db)]
  BY DEF Checkpoint, At, FilesAreThere
<1>2. PICK seen : seen = Seen(Db)
  OBVIOUS
<1>3. PICK f : f = [main[Db] EXCEPT !.rows = seen]
  OBVIOUS
<1>4. /\ f \in File /\ f.rows = seen /\ f.id = main[Db].id /\ f.schema = main[Db].schema
      /\ f.schema \in 0..want /\ f.id \in 1..made /\ IsFiniteSet(f.rows)
  BY <1>1, <1>2, <1>3, DbRows DEF File
<1>5. main' = [main EXCEPT ![Db] = f]
  BY <1>1, <1>2, <1>3
<1>6. made' = made /\ made' \in Nat /\ made <= made' /\ accepted' \subseteq Row
  BY <1>1, Disk DEF ReconcileType
<1>7. /\ ReconcileType' /\ RowsAreFinite' /\ wal'[Db] = None /\ main'[Db] = f
      /\ main'[Db] # None
      /\ \A n \in Name \ {Db} : main'[n] = main[n] /\ wal'[n] = wal[n]
  BY <1>1, <1>4, <1>5, <1>6, TypeOfDb
<1>8. Seen(Db) \subseteq Seen(Db)'
  BY <1>2, <1>4, <1>7 DEF Seen
<1> QED
  BY <1>1, <1>7, <1>8, DbStep

(* A disk with no database satisfies the invariant.                        *)
LEMMA DatabaseInit == Init => DatabaseInv
<1> SUFFICES ASSUME Init PROVE DatabaseInv
  OBVIOUS
<1>1. /\ \A n \in Name : main[n] = None /\ wal[n] = None
      /\ main \in [Name -> File \cup {None}] /\ wal \in [Name -> Log \cup {None}]
  BY DEF Init
<1>2. 2 \in Backup /\ 1 \in 1..(MaxDeploys + 1) /\ 0 \in 0..MaxFaults
  BY ReconcileAssumption DEF Backup
<1>3. ReconcileType /\ RowsAreFinite
  BY <1>1, <1>2 DEF Init, ReconcileType, RowsAreFinite
<1> QED
  BY <1>1, <1>3, Names
     DEF Init, DatabaseInv, FilesAreThere, LogsAreTheirs, CountedAreThere, CountedRows,
         CopyInventsNothing, OriginalIsKept

-----------------------------------------------------------------------------
(* A completed configuration reads as it did.                              *)

(* A set of naturals has a least one.                                      *)
LEMMA LeastNumber ==
    ASSUME NEW S, S \subseteq Nat, S # {}
    PROVE  \E n \in S : \A m \in S : n <= m
<1>1. PICK n \in S : \A m \in S : <<m, n>> \notin OpToRel(<, Nat)
  BY NatLessThanWellFounded, WFMin
<1>2. \A m \in S : ~(m < n)
  BY <1>1 DEF OpToRel
<1> QED
  BY <1>2

(* A text with some lines put in before the first that looks like a head.  *)
Spliced(text, block, f, new) ==
    /\ text \in Seq(Line) /\ block \in Seq(Line) /\ new \in Seq(Line)
    /\ f \in 1..(Len(text) + 1)
    /\ Len(new) = Len(text) + Len(block)
    /\ \A i \in 1..(f - 1) : new[i] = text[i] /\ ~LooksLikeHead(text[i])
    /\ \A i \in f..Len(text) : new[i + Len(block)] = text[i]
    /\ \A j \in 1..Len(block) : new[(f - 1) + j] = block[j] /\ block[j][1] = "key"

(* The lines that are put in: at most one for each key, and none for a key *)
(* the text mentions.                                                      *)
LEMMA MissingIs ==
    ASSUME NEW text
    PROVE  /\ Missing(text) \in Seq(Line)
           /\ \A j \in 1..Len(Missing(text)) :
                 \/ /\ Missing(text)[j] = <<"key", "listen", DefaultListen>>
                    /\ ~Mentions(text, "listen")
                 \/ /\ Missing(text)[j] = <<"key", "storage", DefaultStorage>>
                    /\ ~Mentions(text, "storage") /\ ~MentionsStorageTable(text)
           /\ \A i, j \in 1..Len(Missing(text)) :
                 Missing(text)[i][2] = Missing(text)[j][2] => i = j
<1> DEFINE A == IF Mentions(text, "listen") THEN <<>> ELSE <<<<"key", "listen", DefaultListen>>>>
           B == IF Mentions(text, "storage") \/ MentionsStorageTable(text) THEN <<>>
                ELSE <<<<"key", "storage", DefaultStorage>>>>
           M == Missing(text)
<1>0. ASSUME NEW x \in Line
      PROVE  <<x>> \in Seq(Line) /\ Len(<<x>>) = 1 /\ <<x>>[1] = x
  OBVIOUS
<1>1. /\ A \in Seq(Line) /\ Len(A) \in 0..1
      /\ \A j \in 1..Len(A) : A[j] = <<"key", "listen", DefaultListen>> /\ ~Mentions(text, "listen")
  <2> DEFINE x == <<"key", "listen", DefaultListen>>
  <2>1. x \in Line
    BY WordsType DEF Line, DefaultListen
  <2>2. CASE Mentions(text, "listen")
    <3>1. A = <<>>
      BY <2>2
    <3> QED
      BY <3>1, EmptySeq
  <2>3. CASE ~Mentions(text, "listen")
    <3>1. A = <<x>>
      BY <2>3
    <3> HIDE DEF x, A
    <3>2. A \in Seq(Line) /\ Len(A) = 1 /\ A[1] = x
      BY <1>0, <2>1, <3>1
    <3> QED
      BY <2>3, <3>2 DEF x
  <2> QED
    BY <2>2, <2>3
<1>2. /\ B \in Seq(Line) /\ Len(B) \in 0..1
      /\ \A j \in 1..Len(B) : /\ B[j] = <<"key", "storage", DefaultStorage>>
                             /\ ~Mentions(text, "storage") /\ ~MentionsStorageTable(text)
  <2> DEFINE x == <<"key", "storage", DefaultStorage>>
  <2>1. x \in Line
    BY WordsType DEF Line, DefaultStorage
  <2>2. CASE Mentions(text, "storage") \/ MentionsStorageTable(text)
    <3>1. B = <<>>
      BY <2>2
    <3> QED
      BY <3>1, EmptySeq
  <2>3. CASE ~(Mentions(text, "storage") \/ MentionsStorageTable(text))
    <3>1. B = <<x>>
      BY <2>3
    <3> HIDE DEF x, B
    <3>2. B \in Seq(Line) /\ Len(B) = 1 /\ B[1] = x
      BY <1>0, <2>1, <3>1
    <3> QED
      BY <2>3, <3>2 DEF x
  <2> QED
    BY <2>2, <2>3
<1>3. M = A \o B
  BY DEF Missing
<1> HIDE DEF A, B, M
<1>4. /\ M \in Seq(Line) /\ Len(M) = Len(A) + Len(B)
      /\ \A j \in 1..Len(A) + Len(B) : M[j] = IF j <= Len(A) THEN A[j] ELSE B[j - Len(A)]
  BY <1>1, <1>2, <1>3, ConcatProperties
<1>5. \A j \in 1..Len(M) :
         \/ j \in 1..Len(A) /\ M[j] = A[j]
         \/ j - Len(A) \in 1..Len(B) /\ M[j] = B[j - Len(A)]
  BY <1>1, <1>2, <1>4
<1>6. \A j \in 1..Len(M) :
         \/ M[j] = <<"key", "listen", DefaultListen>> /\ ~Mentions(text, "listen")
         \/ /\ M[j] = <<"key", "storage", DefaultStorage>>
            /\ ~Mentions(text, "storage") /\ ~MentionsStorageTable(text)
  BY <1>1, <1>2, <1>5
<1>7. \A i, j \in 1..Len(M) : M[i][2] = M[j][2] => i = j
  <2> SUFFICES ASSUME NEW i \in 1..Len(M), NEW j \in 1..Len(M), M[i][2] = M[j][2], i # j
      PROVE FALSE
    OBVIOUS
  <2>0. Len(A) \in 0..1 /\ Len(B) \in 0..1 /\ Len(M) = Len(A) + Len(B)
    BY <1>1, <1>2, <1>4
  <2>1. (i \in 1..Len(A) /\ j - Len(A) \in 1..Len(B)) \/ (j \in 1..Len(A) /\ i - Len(A) \in 1..Len(B))
    <3> DEFINE a == Len(A)
               b == Len(B)
    <3>1. (a = 0 \/ a = 1) /\ (b = 0 \/ b = 1)
      BY <2>0
    <3>2. i \in Int /\ j \in Int /\ 1 <= i /\ 1 <= j /\ i <= a + b /\ j <= a + b
      BY <2>0
    <3> HIDE DEF a, b
    <3>3. a = 1 /\ b = 1
      BY <3>1, <3>2
    <3>4. (i = 1 /\ j = 2) \/ (i = 2 /\ j = 1)
      BY <3>2, <3>3
    <3>5. (1 <= i /\ i <= a /\ 1 <= j - a /\ j - a <= b) \/ (1 <= j /\ j <= a /\ 1 <= i - a /\ i - a <= b)
      BY <3>3, <3>4
    <3> QED
      BY <3>2, <3>3, <3>5 DEF a, b
  <2>2. \A k \in 1..Len(A) : M[k][2] = "listen"
    BY <1>1, <1>4
  <2>3. ASSUME NEW k \in 1..Len(M), k - Len(A) \in 1..Len(B) PROVE M[k][2] = "storage"
    <3>1. k \in 1..Len(A) + Len(B) /\ ~(k <= Len(A))
      BY <2>0, <2>3
    <3>2. M[k] = B[k - Len(A)]
      BY <1>4, <3>1
    <3> QED
      BY <1>2, <2>3, <3>2
  <2> QED
    BY <2>1, <2>2, <2>3
<1> QED
  BY <1>4, <1>6, <1>7 DEF M

(* What is completed is the text with those lines put in.                  *)
LEMMA Completion ==
    ASSUME NEW text \in Seq(Line)
    PROVE  \E f : Spliced(text, Missing(text), f, Completed(text))
<1> DEFINE N == Len(text)
           M == Missing(text)
           heads == {i \in DOMAIN text : LooksLikeHead(text[i])}
           first == IF heads = {} THEN Len(text) + 1
                    ELSE CHOOSE i \in heads : \A h \in heads : i <= h
<1>1. N \in Nat /\ DOMAIN text = 1..N /\ \A i \in 1..N : text[i] \in Line
  BY LenProperties, ElementOfSeq
<1>2. heads = {i \in 1..N : LooksLikeHead(text[i])}
  BY <1>1
<1>3. /\ first \in 1..(N + 1)
      /\ \A i \in 1..(first - 1) : ~LooksLikeHead(text[i])
  <2>1. CASE heads = {}
    BY <1>1, <1>2, <2>1
  <2>2. CASE heads # {}
    <3>1. heads \subseteq Nat
      BY <1>1, <1>2
    <3>2. \E i \in heads : \A h \in heads : i <= h
      <4> HIDE DEF heads
      <4> QED
        BY <2>2, <3>1, LeastNumber
    <3>3. first \in heads /\ \A h \in heads : first <= h
      <4> HIDE DEF heads
      <4> QED
        BY <2>2, <3>2
    <3> HIDE DEF first
    <3> QED
      BY <1>1, <1>2, <3>3
  <2> QED
    BY <2>1, <2>2
<1>4. Completed(text) = SubSeq(text, 1, first - 1) \o M \o SubSeq(text, first, N)
  BY DEF Completed
<1> HIDE DEF first, heads
<1> DEFINE S1 == SubSeq(text, 1, first - 1)
           S2 == SubSeq(text, first, N)
           new == Completed(text)
<1>5. /\ S1 \in Seq(Line) /\ Len(S1) = first - 1
      /\ \A i \in 1..(first - 1) : S1[i] = text[i]
  <2>1. 1 \in Int /\ first - 1 \in Int /\ \A i \in 1..(first - 1) : text[i] \in Line
    BY <1>1, <1>3
  <2>2. /\ S1 \in Seq(Line)
        /\ Len(S1) = IF 1 <= first - 1 THEN (first - 1) - 1 + 1 ELSE 0
        /\ \A i \in 1..((first - 1) - 1 + 1) : S1[i] = text[1 + i - 1]
    BY <2>1, SubSeqProperties
  <2> QED
    BY <1>3, <2>1, <2>2
<1>6. /\ S2 \in Seq(Line) /\ Len(S2) = N - first + 1
      /\ \A i \in 1..(N - first + 1) : S2[i] = text[first + i - 1]
  <2>1. first \in Int /\ N \in Int /\ \A i \in first..N : text[i] \in Line
    BY <1>1, <1>3
  <2>2. /\ S2 \in Seq(Line)
        /\ Len(S2) = IF first <= N THEN N - first + 1 ELSE 0
        /\ \A i \in 1..(N - first + 1) : S2[i] = text[first + i - 1]
    BY <2>1, SubSeqProperties
  <2> QED
    BY <1>1, <1>3, <2>2
<1>7. M \in Seq(Line) /\ Len(M) \in Nat
  BY MissingIs, LenProperties
<1> HIDE DEF S1, S2, M, N
<1>8. /\ S1 \o M \in Seq(Line) /\ Len(S1 \o M) = Len(S1) + Len(M)
      /\ \A i \in 1..Len(S1) + Len(M) : (S1 \o M)[i] = IF i <= Len(S1) THEN S1[i] ELSE M[i - Len(S1)]
  BY <1>5, <1>7, ConcatProperties
<1> DEFINE T == S1 \o M
<1>9. new = T \o S2
  BY <1>4 DEF S1, S2, N
<1> HIDE DEF T, new
<1>10. /\ new \in Seq(Line) /\ Len(new) = Len(T) + Len(S2)
       /\ \A i \in 1..Len(T) + Len(S2) : new[i] = IF i <= Len(T) THEN T[i] ELSE S2[i - Len(T)]
  BY <1>6, <1>8, <1>9, ConcatProperties DEF T
<1>11. /\ T \in Seq(Line) /\ Len(T) = (first - 1) + Len(M)
       /\ \A i \in 1..(first - 1) : T[i] = text[i]
       /\ \A j \in 1..Len(M) : T[(first - 1) + j] = M[j]
  <2>1. N \in Nat /\ first \in 1..(N + 1) /\ Len(S1) = first - 1 /\ Len(M) \in Nat
    BY <1>1, <1>3, <1>5, <1>7
  <2>2. T \in Seq(Line) /\ Len(T) = (first - 1) + Len(M)
    BY <1>8, <2>1 DEF T
  <2>3. ASSUME NEW i \in 1..(first - 1) PROVE T[i] = text[i]
    <3>1. i \in 1..Len(S1) + Len(M) /\ i <= Len(S1)
      BY <2>1
    <3> QED
      BY <1>5, <1>8, <3>1 DEF T
  <2>4. ASSUME NEW j \in 1..Len(M) PROVE T[(first - 1) + j] = M[j]
    <3> DEFINE k == (first - 1) + j
    <3>1. k \in 1..Len(S1) + Len(M) /\ ~(k <= Len(S1)) /\ k - Len(S1) = j
      BY <2>1
    <3> HIDE DEF k
    <3>2. T[k] = M[k - Len(S1)]
      BY <1>8, <3>1 DEF T
    <3> QED
      BY <3>1, <3>2 DEF k
  <2> QED
    BY <2>2, <2>3, <2>4
<1>18. /\ N \in Nat /\ first \in 1..(N + 1) /\ Len(M) \in Nat
         /\ Len(S2) = N - first + 1 /\ Len(T) = (first - 1) + Len(M)
  BY <1>1, <1>3, <1>6, <1>7, <1>11
<1>12. Len(new) = N + Len(M)
  BY <1>18, <1>10
<1>13. ASSUME NEW i \in 1..(first - 1) PROVE new[i] = text[i]
  <2>1. i \in 1..Len(T) + Len(S2) /\ i <= Len(T)
    BY <1>18
  <2> QED
    BY <1>10, <1>11, <2>1
<1>14. ASSUME NEW j \in 1..Len(M) PROVE new[(first - 1) + j] = M[j]
  <2>1. (first - 1) + j \in 1..Len(T) + Len(S2) /\ (first - 1) + j <= Len(T)
    BY <1>18
  <2> QED
    BY <1>10, <1>11, <2>1
<1>15. ASSUME NEW i \in first..N PROVE new[i + Len(M)] = text[i]
  <2>1. i + Len(M) \in 1..Len(T) + Len(S2) /\ ~(i + Len(M) <= Len(T))
    BY <1>18
  <2>2. i + Len(M) - Len(T) \in 1..(N - first + 1) /\ first + (i + Len(M) - Len(T)) - 1 = i
    BY <1>18
  <2> QED
    BY <1>6, <1>10, <2>1, <2>2
<1>16. \A j \in 1..Len(M) : M[j][1] = "key"
  BY MissingIs DEF M
<1>17. Spliced(text, M, first, new)
  BY <1>3, <1>7, <1>10, <1>12, <1>13, <1>14, <1>15, <1>16 DEF Spliced, N
<1> QED
  BY <1>17 DEF M, new

(* The table of a line: none before the first header, else the last one.   *)
LEMMA NoTable ==
    ASSUME NEW text, NEW i, \A j \in 1..i : ~IsHead(text[j])
    PROVE  TableAt(text, i) = ""
  BY DEF TableAt

(* A line is in the table of the last head above it.                       *)
LEMMA LastTable ==
    ASSUME NEW text, NEW i \in Nat, NEW h \in 1..i, IsHead(text[h]),
           \A j \in 1..i : IsHead(text[j]) => j <= h
    PROVE  TableAt(text, i) = text[h][2]
<1> DEFINE heads == {j \in 1..i : IsHead(text[j])}
<1>1. h \in heads /\ \A j \in heads : j <= h
  OBVIOUS
<1>2. \A j \in heads : j \in Int
  OBVIOUS
<1> HIDE DEF heads
<1>3. (CHOOSE j \in heads : \A k \in heads : k <= j) = h
  <2>1. \A j \in heads : (\A k \in heads : k <= j) => j = h
    BY <1>1, <1>2
  <2> QED
    BY <1>1, <2>1
<1>4. TableAt(text, i) = IF heads = {} THEN ""
                         ELSE text[CHOOSE j \in heads : \A k \in heads : k <= j][2]
  BY DEF TableAt, heads
<1> QED
  BY <1>1, <1>3, <1>4

(* Of the heads above a line one is the last.                              *)
LEMMA LastHead ==
    ASSUME NEW text, NEW i \in Nat, NEW o \in 1..i, IsHead(text[o])
    PROVE  \E h \in 1..i : IsHead(text[h]) /\ \A j \in 1..i : IsHead(text[j]) => j <= h
<1> DEFINE S == {n \in 0..i : n < i /\ IsHead(text[i - n])}
<1>1. S \subseteq Nat /\ i - o \in S
  OBVIOUS
<1>2. PICK n \in S : \A m \in S : n <= m
  <2> HIDE DEF S
  <2> QED
    BY <1>1, LeastNumber
<1>3. i - n \in 1..i /\ IsHead(text[i - n])
  OBVIOUS
<1>4. ASSUME NEW j \in 1..i, IsHead(text[j]) PROVE j <= i - n
  <2>1. i - j \in S
    BY <1>4
  <2>2. n <= i - j /\ n \in Nat
    BY <1>1, <1>2, <2>1
  <2> QED
    BY <2>2
<1> QED
  BY <1>3, <1>4

(* Two lines whose last heads above are the same are in the same table.    *)
LEMMA SameTable ==
    ASSUME NEW text, NEW i \in Nat, NEW new, NEW n \in Nat,
           (\A h \in 1..i : ~IsHead(text[h])) => \A j \in 1..n : ~IsHead(new[j]),
           \A h \in 1..i : IsHead(text[h]) /\ (\A k \in 1..i : IsHead(text[k]) => k <= h) =>
              \E g \in 1..n : new[g] = text[h] /\ \A j \in 1..n : IsHead(new[j]) => j <= g
    PROVE  TableAt(new, n) = TableAt(text, i)
<1>1. CASE \A h \in 1..i : ~IsHead(text[h])
  BY <1>1, NoTable
<1>2. CASE \E h \in 1..i : IsHead(text[h])
  <2>1. PICK h \in 1..i : IsHead(text[h]) /\ \A k \in 1..i : IsHead(text[k]) => k <= h
    BY <1>2, LastHead
  <2>2. PICK g \in 1..n : new[g] = text[h] /\ \A j \in 1..n : IsHead(new[j]) => j <= g
    BY <2>1
  <2>3. TableAt(text, i) = text[h][2]
    BY <2>1, LastTable
  <2>4. TableAt(new, n) = new[g][2]
    BY <2>1, <2>2, LastTable
  <2> QED
    BY <2>2, <2>3, <2>4
<1> QED
  BY <1>1, <1>2

(* Where a line of the text lies in the new one.                           *)
PlaceOf(f, block, i) == IF i < f THEN i ELSE i + Len(block)

Placed(text, block, f, new) ==
    /\ \A i \in DOMAIN text :
          /\ PlaceOf(f, block, i) \in DOMAIN new /\ new[PlaceOf(f, block, i)] = text[i]
          /\ TableAt(new, PlaceOf(f, block, i)) = TableAt(text, i)
    /\ \A j \in 1..Len(block) :
          /\ (f - 1) + j \in DOMAIN new /\ new[(f - 1) + j] = block[j]
          /\ TableAt(new, (f - 1) + j) = TableAt(text, f - 1)
    /\ \A n \in DOMAIN new :
          \/ \E i \in DOMAIN text : n = PlaceOf(f, block, i)
          \/ \E j \in 1..Len(block) : n = (f - 1) + j
    /\ \A i \in DOMAIN text : \A j \in 1..Len(block) : PlaceOf(f, block, i) # (f - 1) + j

(* A line keeps its table, and one that is put in has that of the line     *)
(* above it.                                                               *)
LEMMA SplicedLines ==
    ASSUME NEW text, NEW block, NEW f, NEW new, Spliced(text, block, f, new)
    PROVE  Placed(text, block, f, new)
<1> DEFINE N == Len(text)
           m == Len(block)
<1>1. /\ N \in Nat /\ m \in Nat /\ Len(new) = N + m /\ f \in 1..(N + 1)
      /\ DOMAIN text = 1..N /\ DOMAIN new = 1..Len(new)
  BY LenProperties DEF Spliced
<1>2. \A i \in 1..(f - 1) : new[i] = text[i]
  BY DEF Spliced
<1>3. \A i \in f..N : new[i + m] = text[i]
  BY DEF Spliced
<1>4. \A j \in 1..m : new[(f - 1) + j] = block[j] /\ ~IsHead(block[j])
  BY DEF Spliced, IsHead
<1>5. \A i : PlaceOf(f, block, i) = IF i < f THEN i ELSE i + m
  BY DEF PlaceOf
<1> HIDE DEF N, m
<1> DEFINE Pos(i) == PlaceOf(f, block, i)
<1>6. \A i \in 1..N : Pos(i) \in 1..Len(new) /\ new[Pos(i)] = text[i]
  <2> SUFFICES ASSUME NEW i \in 1..N PROVE Pos(i) \in 1..Len(new) /\ new[Pos(i)] = text[i]
    OBVIOUS
  <2>1. CASE i < f
    BY <1>1, <1>2, <1>5, <2>1
  <2>2. CASE i >= f
    BY <1>1, <1>3, <1>5, <2>2
  <2> QED
    BY <1>1, <2>1, <2>2
<1>7. \A n \in 1..Len(new) : \/ \E i \in 1..N : n = Pos(i)
                             \/ \E j \in 1..m : n = (f - 1) + j
  <2> SUFFICES ASSUME NEW n \in 1..Len(new)
      PROVE  (\E i \in 1..N : n = Pos(i)) \/ (\E j \in 1..m : n = (f - 1) + j)
    OBVIOUS
  <2>1. CASE n < f
    <3>1. n \in 1..N /\ n = Pos(n)
      BY <1>1, <1>5, <2>1
    <3> QED
      BY <3>1
  <2>2. CASE n >= f /\ n <= (f - 1) + m
    <3>1. n - (f - 1) \in 1..m /\ n = (f - 1) + (n - (f - 1))
      BY <1>1, <2>2
    <3> QED
      BY <3>1
  <2>3. CASE n > (f - 1) + m
    <3>1. n - m \in 1..N /\ n = Pos(n - m)
      BY <1>1, <1>5, <2>3
    <3> QED
      BY <3>1
  <2> QED
    BY <1>1, <2>1, <2>2, <2>3
<1>8. \A i \in 1..N : \A j \in 1..m : Pos(i) # (f - 1) + j
  BY <1>1, <1>5
<1>9. ASSUME NEW i \in 0..N, NEW n \in Nat,
             \/ i < f /\ n = i
             \/ i = f - 1 /\ n \in (f - 1)..((f - 1) + m)
             \/ i >= f /\ n = i + m
      PROVE  TableAt(new, n) = TableAt(text, i)
  <2>1. ASSUME NEW h \in 1..i PROVE Pos(h) \in 1..n /\ new[Pos(h)] = text[h]
    <3>1. h \in 1..N /\ Pos(h) \in 1..n
      BY <1>1, <1>5, <1>9
    <3> QED
      BY <1>6, <3>1
  <2>2. ASSUME NEW j \in 1..n, IsHead(new[j])
        PROVE  \E h \in 1..i : j = Pos(h) /\ new[j] = text[h]
    <3>1. j \in 1..Len(new)
      BY <1>1, <1>9
    <3>2. PICK h \in 1..N : j = Pos(h)
      BY <1>4, <1>7, <2>2, <3>1
    <3>3. h <= i
      BY <1>1, <1>5, <1>9, <3>2
    <3>4. h \in 1..i
      BY <3>3
    <3> QED
      BY <1>6, <3>2, <3>4
  <2>3. \A h, k \in 1..i : k <= h => Pos(k) <= Pos(h)
    BY <1>1, <1>5
  <2> HIDE DEF Pos
  <2>4. (\A h \in 1..i : ~IsHead(text[h])) => \A j \in 1..n : ~IsHead(new[j])
    BY <2>2
  <2>5. ASSUME NEW h \in 1..i, IsHead(text[h]), \A k \in 1..i : IsHead(text[k]) => k <= h
        PROVE  \E g \in 1..n : new[g] = text[h] /\ \A j \in 1..n : IsHead(new[j]) => j <= g
    <3>1. Pos(h) \in 1..n /\ new[Pos(h)] = text[h]
      BY <2>1
    <3>2. \A j \in 1..n : IsHead(new[j]) => j <= Pos(h)
      BY <2>2, <2>3, <2>5
    <3> QED
      BY <3>1, <3>2
  <2>6. i \in Nat /\ n \in Nat
    BY <1>1
  <2> QED
    BY <2>4, <2>5, <2>6, SameTable
<1>10. \A i \in 1..N : TableAt(new, Pos(i)) = TableAt(text, i)
  <2> SUFFICES ASSUME NEW i \in 1..N PROVE TableAt(new, Pos(i)) = TableAt(text, i)
    OBVIOUS
  <2>1. i \in 0..N /\ Pos(i) \in Nat /\ ((i < f /\ Pos(i) = i) \/ (i >= f /\ Pos(i) = i + m))
    BY <1>1, <1>5
  <2> QED
    BY <1>9, <2>1
<1>11. \A j \in 1..m : (f - 1) + j \in 1..Len(new) /\ TableAt(new, (f - 1) + j) = TableAt(text, f - 1)
  <2> SUFFICES ASSUME NEW j \in 1..m
      PROVE  (f - 1) + j \in 1..Len(new) /\ TableAt(new, (f - 1) + j) = TableAt(text, f - 1)
    OBVIOUS
  <2>1. /\ f - 1 \in 0..N /\ (f - 1) + j \in Nat /\ (f - 1) + j \in (f - 1)..((f - 1) + m)
        /\ (f - 1) + j \in 1..Len(new)
    BY <1>1
  <2> QED
    BY <1>9, <2>1
<1> HIDE DEF Pos
<1>12. /\ \A i \in DOMAIN text : /\ Pos(i) \in DOMAIN new /\ new[Pos(i)] = text[i]
                                /\ TableAt(new, Pos(i)) = TableAt(text, i)
       /\ \A j \in 1..m : /\ (f - 1) + j \in DOMAIN new /\ new[(f - 1) + j] = block[j]
                          /\ TableAt(new, (f - 1) + j) = TableAt(text, f - 1)
       /\ \A n \in DOMAIN new : (\E i \in DOMAIN text : n = Pos(i)) \/ (\E j \in 1..m : n = (f - 1) + j)
       /\ \A i \in DOMAIN text : \A j \in 1..m : Pos(i) # (f - 1) + j
  BY <1>1, <1>4, <1>6, <1>7, <1>8, <1>10, <1>11
<1> QED
  BY <1>12, Zenon DEF Placed, Pos, m

(* What a completed text says: what it said, and the missing lines, all in *)
(* one table.  They are no key twice where the result is TOML, and it is   *)
(* where the text was, and plain.                                          *)
Adds(text, table) ==
    LET M == Missing(text)  new == Completed(text) IN
    /\ Heads(new) = Heads(text)
    /\ Paths(new) = Paths(text) \cup { <<table, "", M[j][2]>> : j \in 1..Len(M) }
    /\ \A paths : Given(new, paths) = Given(text, paths) \cup
          ({ M[j][3] : j \in { n \in 1..Len(M) : <<table, "", M[n][2]>> \in paths } } \ {""})
    /\ IsToml(new) => \A j \in 1..Len(M) : <<table, "", M[j][2]>> \notin Paths(text)
    /\ IsToml(text) /\ IsPlain(text) =>
          table = "" /\ IsToml(new) /\ \A i \in DOMAIN new : ~Opens(new[i])

LEMMA CompletedSays ==
    ASSUME NEW text \in Seq(Line)
    PROVE  \E table : Adds(text, table)
<1> DEFINE M == Missing(text)
           new == Completed(text)
<1>0. PICK f : Spliced(text, M, f, new)
  BY Completion
<1>1. \A j \in 1..Len(M) :
         \/ M[j] = <<"key", "listen", DefaultListen>> /\ ~Mentions(text, "listen")
         \/ /\ M[j] = <<"key", "storage", DefaultStorage>>
            /\ ~Mentions(text, "storage") /\ ~MentionsStorageTable(text)
  BY MissingIs
<1>2. \A i, j \in 1..Len(M) : M[i][2] = M[j][2] => i = j
  BY MissingIs
<1>3. IsPlain(text) => \A i \in 1..(f - 1) : ~IsHead(text[i])
  <2>1. /\ \A i \in 1..(f - 1) : ~LooksLikeHead(text[i])
        /\ \A i \in 1..(f - 1) : i \in DOMAIN text
    BY <1>0, LenProperties DEF Spliced
  <2> QED
    BY <2>1 DEF IsPlain, IsHead, LooksLikeHead
<1>16. DOMAIN text = 1..Len(text) /\ DOMAIN new = 1..Len(new) /\ Len(text) \in Nat /\ Len(new) \in Nat
  BY <1>0, LenProperties DEF Spliced
<1> HIDE DEF M, new
<1>4. Placed(text, M, f, new)
  BY <1>0, SplicedLines
<1> DEFINE Pos(i) == PlaceOf(f, M, i)
           Put(j) == (f - 1) + j
           T == TableAt(text, f - 1)
<1>5. \A i \in DOMAIN text :
         Pos(i) \in DOMAIN new /\ new[Pos(i)] = text[i] /\ TableAt(new, Pos(i)) = TableAt(text, i)
  BY <1>4, Zenon DEF Placed
<1>6. \A j \in 1..Len(M) : Put(j) \in DOMAIN new /\ new[Put(j)] = M[j] /\ TableAt(new, Put(j)) = T
  BY <1>4, Zenon DEF Placed
<1>7. \A n \in DOMAIN new : (\E i \in DOMAIN text : n = Pos(i)) \/ (\E j \in 1..Len(M) : n = Put(j))
  BY <1>4, Zenon DEF Placed
<1>8. \A i \in DOMAIN text : \A j \in 1..Len(M) : Pos(i) # Put(j)
  BY <1>4, Zenon DEF Placed
<1> HIDE DEF Pos, Put, T
<1>9. \A i \in Keyed(text) : Pos(i) \in Keyed(new) /\ PathAt(new, Pos(i)) = PathAt(text, i)
  BY <1>5 DEF Keyed, PathAt
<1>10. \A j \in 1..Len(M) : Put(j) \in Keyed(new) /\ PathAt(new, Put(j)) = <<T, "", M[j][2]>>
  <2> SUFFICES ASSUME NEW j \in 1..Len(M)
      PROVE  Put(j) \in Keyed(new) /\ PathAt(new, Put(j)) = <<T, "", M[j][2]>>
    OBVIOUS
  <2>1. M[j][1] = "key"
    BY <1>1
  <2> QED
    BY <1>6, <2>1 DEF Keyed, IsKey, PathAt, Below
<1>11. \A n \in Keyed(new) :
          (\E i \in Keyed(text) : n = Pos(i)) \/ (\E j \in 1..Len(M) : n = Put(j))
  BY <1>5, <1>7 DEF Keyed
<1>12. /\ \A i \in Headed(text) : Pos(i) \in Headed(new) /\ new[Pos(i)] = text[i]
       /\ \A n \in Headed(new) : \E i \in Headed(text) : n = Pos(i)
  <2>0. \A j \in 1..Len(M) : M[j][1] = "key"
    BY <1>1
  <2>1. \A j \in 1..Len(M) : ~IsHead(M[j])
    BY <2>0 DEF IsHead
  <2> QED
    BY <1>5, <1>6, <1>7, <2>1 DEF Headed
<1>13. Heads(new) = Heads(text)
  <2>1. ASSUME NEW h \in Heads(new) PROVE h \in Heads(text)
    BY <1>12, <2>1 DEF Heads
  <2>2. ASSUME NEW h \in Heads(text) PROVE h \in Heads(new)
    BY <1>12, <2>2 DEF Heads
  <2> QED
    BY <2>1, <2>2
<1>14. Paths(new) = Paths(text) \cup { <<T, "", M[j][2]>> : j \in 1..Len(M) }
  <2>1. ASSUME NEW p \in Paths(new)
        PROVE  p \in Paths(text) \cup { <<T, "", M[j][2]>> : j \in 1..Len(M) }
    BY <1>9, <1>10, <1>11, <2>1 DEF Paths
  <2>2. ASSUME NEW p \in Paths(text) PROVE p \in Paths(new)
    BY <1>9, <2>2 DEF Paths
  <2>3. ASSUME NEW j \in 1..Len(M) PROVE <<T, "", M[j][2]>> \in Paths(new)
    BY <1>10 DEF Paths
  <2> QED
    BY <2>1, <2>2, <2>3
<1>15. ASSUME NEW paths
       PROVE  Given(new, paths) = Given(text, paths) \cup
                 ({ M[j][3] : j \in { n \in 1..Len(M) : <<T, "", M[n][2]>> \in paths } } \ {""})
  <2> DEFINE added == { M[j][3] : j \in { n \in 1..Len(M) : <<T, "", M[n][2]>> \in paths } } \ {""}
  <2>1. ASSUME NEW v \in Given(new, paths) PROVE v \in Given(text, paths) \cup added
    <3>1. PICK n \in Keyed(new) : PathAt(new, n) \in paths /\ v = new[n][3] /\ v # ""
      BY <2>1 DEF Given
    <3>2. CASE \E i \in Keyed(text) : n = Pos(i)
      <4>1. PICK i \in Keyed(text) : n = Pos(i)
        BY <3>2
      <4>2. PathAt(text, i) \in paths /\ v = text[i][3]
        BY <1>5, <1>9, <3>1, <4>1 DEF Keyed
      <4> QED
        BY <3>1, <4>2 DEF Given
    <3>3. CASE \E j \in 1..Len(M) : n = Put(j)
      <4>1. PICK j \in 1..Len(M) : n = Put(j)
        BY <3>3
      <4>2. <<T, "", M[j][2]>> \in paths /\ v = M[j][3]
        BY <1>6, <1>10, <3>1, <4>1
      <4> QED
        BY <3>1, <4>2
    <3> QED
      BY <1>11, <3>2, <3>3
  <2>2. ASSUME NEW v \in Given(text, paths) PROVE v \in Given(new, paths)
    <3>1. PICK i \in Keyed(text) : PathAt(text, i) \in paths /\ v = text[i][3] /\ v # ""
      BY <2>2 DEF Given
    <3>2. Pos(i) \in Keyed(new) /\ PathAt(new, Pos(i)) \in paths /\ v = new[Pos(i)][3]
      BY <1>5, <1>9, <3>1 DEF Keyed
    <3> QED
      BY <3>1, <3>2 DEF Given
  <2>3. ASSUME NEW v \in added PROVE v \in Given(new, paths)
    <3>1. PICK j \in 1..Len(M) : <<T, "", M[j][2]>> \in paths /\ v = M[j][3] /\ v # ""
      BY <2>3
    <3>2. Put(j) \in Keyed(new) /\ PathAt(new, Put(j)) \in paths /\ v = new[Put(j)][3]
      BY <1>6, <1>10, <3>1
    <3> QED
      BY <3>1, <3>2 DEF Given
  <2> HIDE DEF added
  <2>4. Given(new, paths) = Given(text, paths) \cup added
    BY <2>1, <2>2, <2>3
  <2> QED
    BY <2>4 DEF added
<1>17. ASSUME IsToml(new), NEW j \in 1..Len(M), <<T, "", M[j][2]>> \in Paths(text) PROVE FALSE
  <2>1. PICK i \in Keyed(text) : PathAt(text, i) = <<T, "", M[j][2]>>
    BY <1>17 DEF Paths
  <2>2. PathAt(new, Pos(i)) = PathAt(new, Put(j)) /\ Pos(i) \in Keyed(new) /\ Put(j) \in Keyed(new)
    BY <1>9, <1>10, <2>1
  <2>3. new[Pos(i)][2] = new[Put(j)][2]
    BY <2>2 DEF PathAt
  <2>4. Pos(i) = Put(j)
    BY <1>17, <2>2, <2>3 DEF IsToml
  <2> QED
    BY <1>8, <2>4 DEF Keyed
<1>18. ASSUME IsToml(text), IsPlain(text)
       PROVE  T = "" /\ IsToml(new) /\ \A i \in DOMAIN new : ~Opens(new[i])
  <2>1. T = ""
    BY <1>3, <1>18, NoTable DEF T
  <2>2. \A n \in DOMAIN new : new[n][1] \in {"key", "table"}
    BY <1>1, <1>5, <1>6, <1>7, <1>18 DEF IsPlain
  <2>3. \A n \in DOMAIN new : ~Opens(new[n])
    <3>1. ASSUME NEW i \in DOMAIN text, Opens(text[i]) PROVE FALSE
      <4>0. \A k \in DOMAIN text : Opens(text[k]) => k < Len(text) /\ text[k + 1][1] = "inner"
        BY <1>18, Zenon DEF IsToml
      <4>1. i + 1 \in DOMAIN text /\ text[i + 1][1] = "inner"
        BY <1>16, <3>1, <4>0
      <4> QED
        BY <1>18, <4>1 DEF IsPlain
    <3>2. ASSUME NEW j \in 1..Len(M) PROVE ~Opens(M[j])
      <4>1. M[j][3] # "["
        BY <1>1 DEF DefaultListen, DefaultStorage
      <4> QED
        BY <4>1 DEF Opens
    <3> QED
      BY <1>5, <1>6, <1>7, <3>1, <3>2
  <2>4. \A i \in Keyed(text), j \in 1..Len(M) : text[i][2] # M[j][2]
    BY <1>1, <1>18 DEF Mentions, Keyed, IsKey, IsPlain
  <2>5. ASSUME NEW a \in Keyed(new), NEW b \in Keyed(new), PathAt(new, a) = PathAt(new, b)
        PROVE  a = b
    <3>0. new[a][2] = new[b][2]
      BY <2>5 DEF PathAt
    <3>1. CASE \E i \in Keyed(text) : a = Pos(i)
      <4>1. PICK i \in Keyed(text) : a = Pos(i)
        BY <3>1
      <4>2. PICK j \in Keyed(text) : b = Pos(j)
        BY <1>5, <1>6, <1>11, <2>4, <3>0, <4>1 DEF Keyed
      <4>3. PathAt(text, i) = PathAt(text, j)
        BY <1>9, <2>5, <4>1, <4>2
      <4>4. text[i][2] = text[j][2]
        BY <4>3 DEF PathAt
      <4>5. i = j
        BY <1>18, <4>3, <4>4 DEF IsToml
      <4> QED
        BY <4>1, <4>2, <4>5
    <3>2. CASE \E j \in 1..Len(M) : a = Put(j)
      <4>1. PICK i \in 1..Len(M) : a = Put(i)
        BY <3>2
      <4>2. PICK j \in 1..Len(M) : b = Put(j)
        BY <1>5, <1>6, <1>11, <2>4, <3>0, <4>1 DEF Keyed
      <4>3. i = j
        BY <1>2, <1>6, <3>0, <4>1, <4>2
      <4> QED
        BY <4>1, <4>2, <4>3
    <3> QED
      BY <1>11, <3>1, <3>2
  <2>6. ASSUME NEW a \in Headed(new), NEW b \in Headed(new), new[a][2] = new[b][2]
        PROVE  a = b
    <3>1. PICK i \in Headed(text) : a = Pos(i)
      BY <1>12
    <3>2. PICK j \in Headed(text) : b = Pos(j)
      BY <1>12
    <3>3. text[i][2] = text[j][2]
      BY <1>12, <2>6, <3>1, <3>2
    <3>4. i = j
      BY <1>18, <3>3 DEF IsToml
    <3> QED
      BY <3>1, <3>2, <3>4
  <2>7. ~HasDotted(new)
    <3>1. \A n \in Keyed(new) : Below(new[n]) = ""
      BY <2>2 DEF Keyed, Below
    <3>2. \A n \in Keyed(new) : PathAt(new, n)[2] = ""
      BY <3>1 DEF PathAt
    <3>3. \A p \in Paths(new) : p[2] = ""
      BY <3>2 DEF Paths
    <3> QED
      BY <3>3 DEF HasDotted
  <2>8. ASSUME "storage.r2" \in Heads(new), <<"", "", "storage">> \in Paths(new) PROVE FALSE
    <3>1. MentionsStorageTable(text)
      <4>1. PICK i \in Headed(text) : text[i][2] = "storage.r2"
        BY <1>13, <2>8 DEF Heads
      <4>2. i \in DOMAIN text /\ text[i][1] = "table"
        BY <1>18, <4>1 DEF Headed, IsHead, IsPlain
      <4> QED
        BY <4>1, <4>2 DEF MentionsStorageTable
    <3>2. <<"", "", "storage">> \notin Paths(text)
      BY <1>13, <1>18, <2>8 DEF IsToml, IsRemote
    <3>3. PICK j \in 1..Len(M) : M[j][2] = "storage"
      BY <1>14, <2>8, <3>2
    <3> QED
      BY <1>1, <3>1, <3>3
  <2>9. \A i \in DOMAIN new : new[i][1] # "inner"
    BY <2>2
  <2>10. /\ ~(IsRemote(new) /\ <<"", "", "storage">> \in Paths(new))
         /\ ~(HasDotted(new) /\ "storage.r2" \in Heads(new))
    BY <2>7, <2>8 DEF IsRemote
  <2>11. IsToml(new)
    BY <2>3, <2>5, <2>6, <2>9, <2>10 DEF IsToml
  <2> QED
    BY <2>1, <2>3, <2>11
<1>19. Adds(text, T)
  BY <1>13, <1>14, <1>15, <1>17, <1>18 DEF Adds, M, new
<1> QED
  BY <1>19

(* What an added line says is what a boot does without it.                 *)
LEMMA CompletedReads ==
    ASSUME NEW text \in Seq(Line), Reads(text) # Unusable
    PROVE  Completed(text) \in Seq(Line) /\ Says(Completed(text), Reads(text))
<1> DEFINE M == Missing(text)
           new == Completed(text)
<1>1. new \in Seq(Line)
  BY Completion DEF Spliced
<1>2. \A j \in 1..Len(M) : \/ M[j] = <<"key", "listen", DefaultListen>>
                           \/ M[j] = <<"key", "storage", DefaultStorage>>
  BY MissingIs
<1>3. /\ IsToml(text)
      /\ Given(text, Top("database")) # {} /\ Given(text, {<<"oidc", "", "secret">>}) # {}
      /\ ~(IsRemote(text) /\ Given(text, Bucket) = {})
  BY DEF Reads
<1>4. PICK T : Adds(text, T)
  BY CompletedSays
<1> DEFINE js(paths) == { n \in 1..Len(M) : <<T, "", M[n][2]>> \in paths }
           added(paths) == { M[j][3] : j \in js(paths) } \ {""}
<1>5. /\ Heads(new) = Heads(text)
      /\ Paths(new) = Paths(text) \cup { <<T, "", M[j][2]>> : j \in 1..Len(M) }
  BY <1>4 DEF Adds
<1>6. \A paths : Given(new, paths) = Given(text, paths) \cup added(paths)
  BY <1>4 DEF Adds
<1>7. IsToml(new) => \A j \in 1..Len(M) : <<T, "", M[j][2]>> \notin Paths(text)
  BY <1>4 DEF Adds
<1>8. IsPlain(text) => T = "" /\ IsToml(new) /\ \A i \in DOMAIN new : ~Opens(new[i])
  BY <1>3, <1>4 DEF Adds
<1> HIDE DEF M, new
<1>9. IsRemote(new) <=> IsRemote(text)
  <2>0. \A p \in { <<T, "", M[j][2]>> : j \in 1..Len(M) } : p[2] # "storage.r2"
    <3>1. \A j \in 1..Len(M) : <<T, "", M[j][2]>>[2] # "storage.r2"
      OBVIOUS
    <3> QED
      BY <3>1
  <2>1. HasDotted(new) <=> HasDotted(text)
    BY <1>5, <2>0 DEF HasDotted
  <2> QED
    BY <1>5, <2>1 DEF IsRemote
<1>10. ASSUME NEW paths, js(paths) = {} PROVE Given(new, paths) = Given(text, paths)
  <2>1. added(paths) = {}
    <3> HIDE DEF js
    <3> QED
      BY <1>10
  <2> HIDE DEF added
  <2> QED
    BY <1>6, <2>1
<1>11. /\ Given(new, Top("database")) = Given(text, Top("database"))
       /\ Given(new, Bucket) = Given(text, Bucket)
       /\ Given(new, {<<"oidc", "", "secret">>}) = Given(text, {<<"oidc", "", "secret">>})
  <2>1. /\ js(Top("database")) = {} /\ js(Bucket) = {} /\ js({<<"oidc", "", "secret">>}) = {}
    <3>1. \A n \in 1..Len(M) : M[n][2] \in {"listen", "storage"}
      BY <1>2
    <3>2. ASSUME NEW n \in 1..Len(M), NEW t, NEW u, NEW k, k \notin {"listen", "storage"}
          PROVE  <<T, "", M[n][2]>> # <<t, u, k>>
      BY <3>1, <3>2
    <3> QED
      BY <3>2 DEF Top, Bucket
  <2> HIDE DEF js
  <2> QED
    BY <1>10, <2>1
<1>12. ASSUME IsToml(new), NEW k, NEW v, v # "",
              \A j \in 1..Len(M) : M[j][2] = k => M[j][3] = v
       PROVE  Or(Given(new, Top(k)), v) = Or(Given(text, Top(k)), v)
  <2>1. CASE js(Top(k)) = {}
    <3> HIDE DEF js
    <3> QED
      BY <1>10, <2>1
  <2>2. CASE js(Top(k)) # {}
    <3>1. PICK j \in 1..Len(M) : <<T, "", M[j][2]>> \in Top(k)
      BY <2>2
    <3>2. <<"", "", k>> \notin Paths(text) /\ M[j][2] = k
      BY <1>7, <1>12, <3>1 DEF Top
    <3>3. Given(text, Top(k)) = {}
      BY <3>2 DEF Given, Paths, Top
    <3>4. added(Top(k)) = {v}
      <4>1. \A n \in js(Top(k)) : M[n][3] = v
        BY <1>12 DEF Top
      <4>2. j \in js(Top(k))
        BY <3>1
      <4> HIDE DEF js
      <4> QED
        BY <1>12, <4>1, <4>2
    <3> HIDE DEF added
    <3>5. Given(new, Top(k)) = {v}
      BY <1>6, <3>3, <3>4
    <3> QED
      BY <3>3, <3>5 DEF Or
  <2> QED
    BY <2>1, <2>2
<1>13. ASSUME IsToml(new)
       PROVE  /\ Or(Given(new, Top("listen")), DefaultListen) = Or(Given(text, Top("listen")), DefaultListen)
              /\ Or(Given(new, Top("storage")), DefaultStorage) = Or(Given(text, Top("storage")), DefaultStorage)
  <2>1. /\ \A j \in 1..Len(M) : M[j][2] = "listen" => M[j][3] = DefaultListen
        /\ \A j \in 1..Len(M) : M[j][2] = "storage" => M[j][3] = DefaultStorage
        /\ DefaultListen # "" /\ DefaultStorage # ""
    BY <1>2 DEF DefaultListen, DefaultStorage
  <2> QED
    BY <1>12, <1>13, <2>1
<1>14. ASSUME NEW c \in Reads(new), NEW d \in Reads(text) PROVE SameSettings(c, d)
  <2>1. IsToml(new)
    BY <1>14 DEF Reads, Unusable
  <2>2. /\ c.remote = IsRemote(new) /\ d.remote = IsRemote(text)
        /\ c.storage = Or(Given(new, Top("storage")), DefaultStorage)
        /\ d.storage = Or(Given(text, Top("storage")), DefaultStorage)
        /\ c.listen = Or(Given(new, Top("listen")), DefaultListen)
        /\ d.listen = Or(Given(text, Top("listen")), DefaultListen)
    <3>1. /\ Reads(new) # {} /\ Reads(text) # {}
      BY <1>14
    <3>2. /\ c = [remote  |-> IsRemote(new),
                  storage |-> Or(Given(new, Top("storage")), DefaultStorage),
                  listen  |-> Or(Given(new, Top("listen")), DefaultListen),
                  ignored |-> Paths(new) \ Obeyed]
      BY <1>14, <3>1, Zenon DEF Reads, Unusable
    <3>3. /\ d = [remote  |-> IsRemote(text),
                  storage |-> Or(Given(text, Top("storage")), DefaultStorage),
                  listen  |-> Or(Given(text, Top("listen")), DefaultListen),
                  ignored |-> Paths(text) \ Obeyed]
      BY <1>14, <3>1, Zenon DEF Reads, Unusable
    <3> QED
      BY <3>2, <3>3
  <2>3. c.remote = d.remote
    BY <1>9, <2>2 DEF IsRemote, HasDotted
  <2> QED
    BY <1>13, <2>1, <2>2, <2>3 DEF SameSettings
<1>15. ASSUME IsPlain(text) PROVE Reads(new) = Reads(text)
  <2>1. T = "" /\ IsToml(new) /\ \A i \in Keyed(new) : ~Opens(new[i])
    BY <1>8, <1>15 DEF Keyed
  <2>2. Paths(new) \ Obeyed = Paths(text) \ Obeyed
    <3>0. \A j \in 1..Len(M) : M[j][2] \in {"listen", "storage"}
      BY <1>2
    <3>1. \A j \in 1..Len(M) : <<T, "", M[j][2]>> \in Obeyed
      BY <2>1, <3>0 DEF Obeyed, Top
    <3> QED
      BY <1>5, <3>1
  <2>3. \A i \in Keyed(text) : ~(PathAt(text, i) \in Obeyed /\ Opens(text[i]))
    BY DEF Reads
  <2>4. IsRemote(new) = IsRemote(text)
    BY <1>9 DEF IsRemote, HasDotted
  <2> QED
    BY <1>3, <1>11, <1>13, <2>1, <2>2, <2>3, <2>4 DEF Reads
<1>16. ~IsPlain(text) => ~IsPlain(new)
  <2>1. PICK f : Spliced(text, M, f, new)
    BY Completion DEF M, new
  <2>2. Placed(text, M, f, new)
    BY <2>1, SplicedLines
  <2>3. \A i \in DOMAIN text : PlaceOf(f, M, i) \in DOMAIN new /\ new[PlaceOf(f, M, i)] = text[i]
    BY <2>2, Zenon DEF Placed
  <2> QED
    BY <2>3 DEF IsPlain
<1> QED
  BY <1>1, <1>14, <1>15, <1>16 DEF Says, new

(* The defaults are a text, and one that says nothing.                     *)
LEMMA Defaults == DevelopmentDefaults \in Seq(Line)
<1>1. ASSUME NEW a \in Line, NEW b \in Line, NEW c \in Line, NEW d \in Line
      PROVE  <<a, b, c, d>> \in Seq(Line)
  OBVIOUS
<1>2. /\ <<"key", "database", "in.db">> \in Line /\ <<"key", "listen", DefaultListen>> \in Line
      /\ <<"table", "oidc", "">> \in Line /\ <<"key", "secret", "">> \in Line
  BY WordsType DEF Line
<1> QED
  BY <1>1, <1>2, Zenon DEF DevelopmentDefaults

-----------------------------------------------------------------------------
(* A boot.                                                                 *)

(* A step that leaves the database alone.                                  *)
LEMMA RestStep ==
    ASSUME DatabaseInv, UNCHANGED vars
    PROVE  DatabaseInv'
<1> USE DEF vars
<1>1. ReconcileType' /\ RowsAreFinite' /\ FilesAreThere'
  BY DEF DatabaseInv, ReconcileType, RowsAreFinite, FilesAreThere
<1>2. LogsAreTheirs'
  BY DEF DatabaseInv, LogsAreTheirs, Its
<1>3. CountedAreThere' /\ CopyInventsNothing'
  BY DEF DatabaseInv, CountedAreThere, CopyInventsNothing, CountedRows, Seen, Its, LogRows
<1>4. OriginalIsKept'
  BY DEF DatabaseInv, OriginalIsKept, Seen, Its
<1> QED
  BY <1>1, <1>2, <1>3, <1>4 DEF DatabaseInv

(* The process ends where nothing of a swap has begun.                     *)
LEMMA ExitStep ==
    ASSUME DatabaseInv, UNCHANGED <<disk, want, tool, aside, accepted, torn>>,
           pc \in {"off", "serve"}, pc' = "off", faults' = faults \/ Fault
    PROVE  DatabaseInv'
<1>1. tool \in BOOLEAN /\ faults \in 0..MaxFaults /\ MaxFaults \in Nat
  BY ReconcileAssumption DEF DatabaseInv, ReconcileType
<1>2. faults' \in 0..MaxFaults
  BY <1>1 DEF Fault
<1> QED
  BY <1>1, <1>2, QuietStep DEF Idle

(* What a boot, the command or the server does to the database.            *)
LEMMA DatabaseStep ==
    ASSUME DatabaseInv, StartupType, ToolInv, StartupNext
    PROVE  DatabaseInv'
<1>1. CASE \/ \E what \in {"server", "reconcile"} : Launch(what)
           \/ ReadConfig \/ WriteDefaults \/ WriteConfig
           \/ CheckBundle \/ MakeTree \/ OpenBucket
           \/ LoadKey \/ WriteKey \/ Seal \/ RemoveKey \/ LoseKey
           \/ \E text \in Written : Edit(text)
  <2>1. UNCHANGED vars
    BY <1>1 DEF Launch, ReadConfig, WriteDefaults, WriteConfig, CheckBundle, MakeTree, OpenBucket,
         LoadKey, WriteKey, Seal, RemoveKey, LoseKey, Edit
  <2> QED
    BY <2>1, RestStep
<1>2. CASE WriteFails
  <2>1. pc = "off" /\ pc' = pc
    BY <1>2 DEF WriteFails, StartupType
  <2> QED
    BY <1>2, <2>1, ExitStep DEF WriteFails
<1>3. CASE NothingToRebuild \/ RefuseKey \/ KeyUnreadable
  <2>1. pc \in {"off", "serve"}
    BY <1>3 DEF NothingToRebuild, RefuseKey, KeyUnreadable, StartupType
  <2>2. /\ UNCHANGED <<disk, want, tool, aside, accepted, torn>> /\ pc' = "off"
        /\ faults' = faults \/ Fault
    BY <1>3 DEF NothingToRebuild, RefuseKey, KeyUnreadable, ExitOnly, Exit
  <2> QED
    BY <2>1, <2>2, ExitStep
<1>4. CASE Open \/ OpenForCommand \/ ShutDown
  BY <1>4, QuietSteps DEF Open, OpenForCommand, ShutDown
<1>5. CASE Opening
  <2>1. CASE CreateFile \/ Migrate
    BY <2>1, CreateStep, MigrateStep
  <2>2. CASE CleanMain \/ CleanWal \/ DropMain \/ DropWal \/ Tidy \/ Copy \/ CopyLoses \/ Verify
    BY <2>2, CleanSteps, CopySteps, VerifyStep
  <2>3. CASE RebuildFails \/ SetAsideFails \/ Check
    BY <2>3, QuietSteps
  <2>4. CASE SetAside \/ MoveWal \/ Swap \/ Undo \/ UndoWal
    BY <2>4, SetAsideStep, MoveWalStep, SwapStep, UndoStep, UndoWalStep
  <2>5. CASE MoveWalFails \/ SwapFails \/ UndoFails
    BY <2>5, SwapFaults
  <2> QED
    BY <1>5, <2>1, <2>2, <2>3, <2>4, <2>5 DEF Opening
<1>6. CASE Serve
  BY <1>6, WriteStep, CheckpointStep DEF Serve
<1>7. CASE Die
  <2>1. CASE pc \in {"off", "serve"}
    BY <1>7, <2>1, ExitStep DEF Die
  <2>2. CASE pc \notin {"off", "serve"}
    BY <1>7, <2>2, SwapFaults DEF Die
  <2> QED
    BY <2>1, <2>2
<1>8. CASE Upgrade
  BY <1>8, ReleaseStep DEF Upgrade
<1> QED
  BY <1>1, <1>2, <1>3, <1>4, <1>5, <1>6, <1>7, <1>8 DEF StartupNext

(* What a text says is one configuration at most.                          *)
LEMMA OneConfiguration ==
    ASSUME NEW text
    PROVE  Cardinality(Reads(text)) \in 0..1
<1>1. ASSUME NEW c PROVE Cardinality({c}) = 1
  BY FS_Singleton
<1>2. Reads(text) = {} \/ \E c : Reads(text) = {c}
  BY DEF Reads, Unusable
<1> QED
  BY <1>1, <1>2, FS_EmptySet

(* Where the process is, when the database is opened.                      *)
LEMMA PhaseStep ==
    ASSUME DatabaseInv, StartupType, ToolInv, StartupNext
    PROVE  /\ phase' \in {"down", "config", "writing", "bundle", "tree", "bucket", "open",
                          "opening", "keying", "up"}
           /\ phase' \in {"opening", "keying", "up"} <=> pc' # "off"
           /\ phase' = "up" => pc' = "serve" /\ asked' = "server"
           /\ asked' \in {"server", "reconcile"}
           /\ ToolInv'
<1> USE DEF StartupType, ToolInv, Enter, vars
<1>1. CASE \/ \E what \in {"server", "reconcile"} : Launch(what)
           \/ ReadConfig \/ WriteDefaults \/ WriteConfig \/ WriteFails
           \/ CheckBundle \/ MakeTree \/ OpenBucket
  BY <1>1 DEF Launch, ReadConfig, WriteDefaults, WriteConfig, WriteFails, CheckBundle, MakeTree,
       OpenBucket
<1>2. CASE LoadKey \/ WriteKey
  BY <1>2 DEF LoadKey, WriteKey
<1>3. CASE NothingToRebuild \/ RefuseKey \/ KeyUnreadable \/ ShutDown
  BY <1>3 DEF NothingToRebuild, RefuseKey, KeyUnreadable, ShutDown, ExitOnly, Exit, Stop, Goto
<1>4. CASE Open
  BY <1>4 DEF Open, Boot, Goto
<1>5. CASE OpenForCommand
  BY <1>5 DEF OpenForCommand, Command, Goto
<1>6. CASE Opening
  <2>1. /\ phase = "opening" /\ asked' = asked /\ tool' = tool
        /\ phase' = IF pc' = "off" THEN "down" ELSE "opening"
    BY <1>6 DEF Opening, CreateFile, Migrate, CleanMain, CleanWal, DropMain, DropWal, Tidy, Copy,
         CopyLoses, Verify, RebuildFails, SetAside, SetAsideFails, MoveWal, MoveWalFails, Swap,
         SwapFails, Undo, UndoWal, UndoFails, Check
  <2>2. pc' \in {"create", "check", "serve"} =>
           pc \in {"create", "check"} \/ (pc = "tidy" /\ ~tool)
    BY <1>6 DEF Opening, CreateFile, Migrate, CleanMain, CleanWal, DropMain, DropWal, Tidy, Copy,
         CopyLoses, CopyInto, Verify, RebuildFails, SetAside, SetAsideFails, MoveWal, MoveWalFails,
         Swap, SwapFails, Undo, UndoWal, UndoFails, Check, Goto
  <2> QED
    BY <2>1, <2>2
<1>7. CASE Serve
  <2>1. UNCHANGED <<pc, tool>>
    BY <1>7 DEF Serve, Write, Checkpoint
  <2>2. UNCHANGED <<phase, asked>> /\ phase = "up"
    BY <1>7 DEF Serve, startup
  <2> QED
    BY <2>1, <2>2
<1>8. CASE Seal \/ RemoveKey \/ LoseKey \/ \E text \in Written : Edit(text)
  BY <1>8 DEF Seal, RemoveKey, LoseKey, Edit
<1>9. CASE Die
  BY <1>9 DEF Die, Crash, Goto
<1>10. CASE Upgrade
  BY <1>10 DEF Upgrade, Deploy, startup
<1> QED
  BY <1>1, <1>2, <1>3, <1>4, <1>5, <1>6, <1>7, <1>8, <1>9, <1>10 DEF StartupNext

(* The keys.                                                               *)
KeyType ==
    /\ key = None \/ key \in 0..keys
    /\ loaded \in 0..keys /\ sealed \subseteq 1..keys /\ lost \in BOOLEAN
    /\ phase = "up" => loaded \in 1..keys

(* A server holds the key of the file, and every sealed address is of it.  *)
LEMMA KeyStep ==
    ASSUME StartupType, KeyInv, StartupNext
    PROVE  KeyInv' /\ KeyType'
<1> USE DEF KeyInv, KeyType, Enter
<1>0. KeyType /\ None \notin Nat
  BY NoneIsNoFile DEF StartupType
<1>1. CASE LoadKey
  <2>1. CASE key \notin {None, 0} /\ loaded' = key /\ Enter("up") /\ UNCHANGED key
    BY <1>0, <1>1, <2>1 DEF LoadKey
  <2>2. CASE key = None /\ key' = 0 /\ Enter("keying") /\ UNCHANGED loaded
    BY <1>0, <1>1, <2>2 DEF LoadKey
  <2> QED
    BY <1>1, <2>1, <2>2 DEF LoadKey
<1>2. CASE WriteKey
  BY <1>0, <1>2 DEF WriteKey
<1>3. CASE Seal
  BY <1>0, <1>3 DEF Seal
<1>4. CASE RemoveKey
  BY <1>0, <1>4 DEF RemoveKey
<1>5. CASE LoseKey
  BY <1>0, <1>5 DEF LoseKey
<1>6. ASSUME UNCHANGED keyring, phase' \in {"keying", "up"} => phase' = phase
      PROVE  KeyInv' /\ KeyType'
  BY <1>0, <1>6 DEF keyring
<1>7. CASE \/ \E what \in {"server", "reconcile"} : Launch(what)
           \/ ReadConfig \/ WriteDefaults \/ WriteConfig \/ WriteFails
           \/ CheckBundle \/ MakeTree \/ OpenBucket
           \/ Open \/ OpenForCommand \/ NothingToRebuild \/ Opening
           \/ RefuseKey \/ KeyUnreadable \/ ShutDown \/ Die \/ Serve \/ Upgrade
           \/ \E text \in Written : Edit(text)
  <2>1. UNCHANGED keyring
    BY <1>7 DEF Launch, ReadConfig, WriteDefaults, WriteConfig, WriteFails, CheckBundle, MakeTree,
         OpenBucket, Open, OpenForCommand, NothingToRebuild, Opening, RefuseKey, KeyUnreadable,
         ShutDown, Die, Serve, Upgrade, Edit, startup, keyring
  <2>2. phase' \in {"keying", "up"} => phase' = phase
    BY <1>7 DEF Launch, ReadConfig, WriteDefaults, WriteConfig, WriteFails, CheckBundle, MakeTree,
         OpenBucket, Open, OpenForCommand, NothingToRebuild, Opening, RefuseKey, KeyUnreadable,
         ShutDown, Die, Serve, Upgrade, Edit, startup, ExitOnly, Exit
  <2> QED
    BY <1>6, <2>1, <2>2
<1> QED
  BY <1>1, <1>2, <1>3, <1>4, <1>5, <1>7 DEF StartupNext

(* The configuration.                                                      *)
ConfType ==
    /\ Cardinality(running) \in 0..1
    /\ ours \in BOOLEAN /\ cut \in BOOLEAN /\ edits \in 0..MaxEdits

(* The file says what runs, through every write of it.                     *)
LEMMA ConfStep ==
    ASSUME StartupType, ConfInv, StartupNext
    PROVE  ConfInv' /\ ConfType'
<1> USE DEF ConfInv, ConfType, FileSaysWhatRuns, Enter
<1>0. ConfType
  BY DEF StartupType
<1>1. <<>> \in Seq(Line)
  BY EmptySeq
<1>2. CASE ReadConfig
  <2>1. conf \in Seq(Line)
    BY <1>2 DEF ReadConfig
  <2>2. draft' \in Seq(Line) /\ Cardinality(running') \in 0..1
    BY <1>2, <2>1, Completion, OneConfiguration DEF ReadConfig, Spliced
  <2>3. running' # Unusable => Says(draft', running') /\ Says(conf, running')
    BY <1>2, <2>1, CompletedReads DEF ReadConfig, Says
  <2>4. conf' \in Seq(Line)
    BY <1>1, <1>2, <2>1 DEF ReadConfig
  <2>5. phase' = "writing" => Says(draft', running')
    BY <1>2, <2>3 DEF ReadConfig
  <2>6. phase' = "bundle" => conf' = conf /\ Says(conf, running')
    BY <1>2, <2>3 DEF ReadConfig
  <2>7. phase' \in {"down", "writing", "bundle"}
    BY <1>2 DEF ReadConfig
  <2> QED
    BY <1>0, <1>2, <2>2, <2>4, <2>5, <2>6, <2>7 DEF ReadConfig
<1>3. CASE WriteDefaults
  BY <1>0, <1>1, <1>3, Defaults, OneConfiguration DEF WriteDefaults, Says
<1>4. CASE WriteConfig
  BY <1>0, <1>1, <1>4 DEF WriteConfig
<1>5. CASE WriteFails
  <2>1. PICK n \in 0..(Len(draft) - 1) : conf' = SubSeq(draft, 1, n)
    BY <1>5 DEF WriteFails
  <2>2. conf' \in Seq(Line)
    <3>1. 1 \in Int /\ n \in Int /\ \A i \in 1..n : draft[i] \in Line
      BY <2>1, LenProperties, ElementOfSeq
    <3> QED
      BY <2>1, <3>1, SubSeqProperties
  <2> QED
    BY <1>0, <1>1, <1>5, <2>2 DEF WriteFails
<1>6. CASE \E text \in Written : Edit(text)
  <2>1. PICK text \in Written : Edit(text)
    BY <1>6
  <2>2. text \in Seq(Line) /\ MaxEdits \in Nat
    BY StartupAssumption DEF Line
  <2>3. /\ conf' = text /\ ours' = FALSE /\ cut' = FALSE /\ edits' = edits + 1
        /\ edits < MaxEdits /\ phase \in {"down", "up"}
        /\ UNCHANGED <<phase, draft, running>>
    BY <2>1 DEF Edit
  <2>4. edits' \in 0..MaxEdits
    BY <1>0, <2>2, <2>3
  <2> HIDE DEF Line
  <2> QED
    BY <1>0, <2>2, <2>3, <2>4
<1>7. CASE LoseKey
  BY <1>0, <1>7, StartupAssumption DEF LoseKey
<1>8. CASE Die
  BY <1>0, <1>8 DEF Die
<1>9. ASSUME UNCHANGED <<conf, draft, running, ours, cut, edits>>,
             phase' = "writing" => phase = "writing",
             phase' \in {"bundle", "tree", "bucket", "open", "opening", "keying", "up"} =>
                phase \in {"bundle", "tree", "bucket", "open", "opening", "keying", "up"}
      PROVE  ConfInv' /\ ConfType'
  BY <1>0, <1>9
<1>10. CASE \/ \E what \in {"server", "reconcile"} : Launch(what)
            \/ CheckBundle \/ MakeTree \/ OpenBucket \/ Open \/ OpenForCommand
            \/ NothingToRebuild \/ Opening \/ LoadKey \/ WriteKey \/ RefuseKey \/ KeyUnreadable
            \/ Serve \/ Seal \/ ShutDown \/ Upgrade \/ RemoveKey
  <2>1. UNCHANGED <<conf, draft, running, ours, cut, edits>>
    BY <1>10 DEF Launch, CheckBundle, MakeTree, OpenBucket, Open, OpenForCommand,
         NothingToRebuild, Opening, LoadKey, WriteKey, RefuseKey, KeyUnreadable, Serve, Seal,
         ShutDown, Upgrade, RemoveKey, startup
  <2>2. phase' # "writing" \/ phase' = phase
    BY <1>10 DEF Launch, CheckBundle, MakeTree, OpenBucket, Open, OpenForCommand,
         NothingToRebuild, Opening, LoadKey, WriteKey, RefuseKey, KeyUnreadable, Serve, Seal,
         ShutDown, Upgrade, RemoveKey, startup, ExitOnly, Exit
  <2>3. phase' \in {"bundle", "tree", "bucket", "open", "opening", "keying", "up"} =>
           phase \in {"bundle", "tree", "bucket", "open", "opening", "keying", "up"}
    BY <1>10 DEF Launch, CheckBundle, MakeTree, OpenBucket, Open, OpenForCommand,
         NothingToRebuild, Opening, LoadKey, WriteKey, RefuseKey, KeyUnreadable, Serve, Seal,
         ShutDown, Upgrade, RemoveKey, startup, ExitOnly, Exit
  <2> QED
    BY <1>9, <2>1, <2>2, <2>3
<1> QED
  BY <1>2, <1>3, <1>4, <1>5, <1>6, <1>7, <1>8, <1>10 DEF StartupNext

(* The invariant holds at first.                                           *)
LEMMA InvInit == StartupInit => IInv
<1> SUFFICES ASSUME StartupInit PROVE IInv
  OBVIOUS
<1>1. DatabaseInv /\ ReconcileType
  BY DatabaseInit DEF StartupInit, DatabaseInv
<1>2. Cardinality(running) \in 0..1
  BY FS_EmptySet DEF StartupInit, Unusable
<1>3. pc = "off" /\ tool = FALSE
  BY DEF StartupInit, Init
<1>5. /\ phase = "down" /\ asked = "server" /\ key = None /\ keys = 0 /\ loaded = 0 /\ sealed = {}
      /\ edits = 0
  BY DEF StartupInit
<1>6. {ours, cut, lost} \subseteq BOOLEAN
  BY DEF StartupInit
<1>7. loaded \in 0..keys /\ sealed \subseteq 1..keys /\ edits \in 0..MaxEdits
  BY <1>5, StartupAssumption
<1>8. StartupType
  BY <1>1, <1>2, <1>3, <1>5, <1>6, <1>7 DEF StartupType
<1>9. ToolInv /\ KeyInv
  BY <1>3, <1>5 DEF ToolInv, KeyInv
<1>4. ConfInv
  BY EmptySeq, StartupAssumption DEF StartupInit, ConfInv, FileSaysWhatRuns, Line
<1> QED
  BY <1>1, <1>4, <1>8, <1>9 DEF IInv

(* Every step keeps it.                                                    *)
LEMMA InvNext == IInv /\ [StartupNext]_all => IInv'
<1> SUFFICES ASSUME IInv, [StartupNext]_all PROVE IInv'
  OBVIOUS
<1> USE DEF IInv
<1>1. CASE StartupNext
  <2>1. DatabaseInv' /\ KeyInv' /\ KeyType' /\ ConfInv' /\ ConfType'
    BY <1>1, DatabaseStep, KeyStep, ConfStep
  <2>2. /\ phase' \in {"down", "config", "writing", "bundle", "tree", "bucket", "open",
                       "opening", "keying", "up"}
        /\ phase' \in {"opening", "keying", "up"} <=> pc' # "off"
        /\ phase' = "up" => pc' = "serve" /\ asked' = "server"
        /\ asked' \in {"server", "reconcile"}
        /\ ToolInv'
    BY <1>1, PhaseStep
  <2>3. StartupType'
    BY <2>1, <2>2 DEF StartupType, DatabaseInv, KeyType, ConfType
  <2> QED
    BY <2>1, <2>2, <2>3
<1>2. CASE UNCHANGED all
  <2>1. DatabaseInv'
    BY <1>2, RestStep DEF all
  <2>2. StartupType' /\ ToolInv' /\ KeyInv' /\ ConfInv'
    BY <1>2, <2>1 DEF all, vars, startup, DatabaseInv, StartupType, ToolInv, KeyInv, ConfInv,
         FileSaysWhatRuns
  <2> QED
    BY <2>1, <2>2
<1> QED
  BY <1>1, <1>2

-----------------------------------------------------------------------------
(* The theorems.                                                           *)

(* The inductive invariant: where the rows are at each step of a rebuild,  *)
(* what the key file and the configuration file hold at each step of a     *)
(* boot.                                                                   *)
THEOREM Invariance == StartupSpec => []IInv
  BY InvInit, InvNext, PTL DEF StartupSpec

(* The state of the boot and of the database keeps its type.               *)
THEOREM TypeCorrect == StartupSpec => []StartupType
<1>1. IInv => StartupType
  BY DEF IInv
<1> QED
  BY <1>1, Invariance, PTL

(* As long as no fault fell into the swap, a server that answers answers   *)
(* with every counted row it ever accepted (repair_if_stale, rebuild).     *)
THEOREM WholeServed == StartupSpec => []ServedIsWhole
<1>1. IInv => ServedIsWhole
  BY DEF IInv, DatabaseInv, FilesAreThere, CountedAreThere, ServedIsWhole
<1> QED
  BY <1>1, Invariance, PTL

(* Whatever fails, unless it comes between a file and its log (a failed    *)
(* move of the log, or a crash between the two renames), every accepted    *)
(* row can be read from the database or from a backup with its log.        *)
THEOREM KeptOriginal == StartupSpec => []OriginalIsKept
<1>1. IInv => OriginalIsKept
  BY DEF IInv, DatabaseInv
<1> QED
  BY <1>1, Invariance, PTL

(* While nobody lost the key, a server opens what any server before it     *)
(* sealed (load_or_create).                                                *)
THEOREM AddressesOpen == StartupSpec => []SealedOpens
<1>1. IInv => SealedOpens
  BY DEF IInv, KeyInv, SealedOpens
<1> QED
  BY <1>1, Invariance, PTL

(* The configuration a process leaves behind never gives the next boot     *)
(* other settings than it runs with, for any text an operator wrote of the *)
(* lines the model has, and is taken by it where they are plainly spelled  *)
(* (complete, mentions, mentions_storage_table).                           *)
THEOREM FileReadsAsRun == StartupSpec => []FileSaysWhatRuns
<1>1. IInv => FileSaysWhatRuns
  BY DEF IInv, ConfInv
<1> QED
  BY <1>1, Invariance, PTL
=============================================================================
