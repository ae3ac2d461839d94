----------------------------- MODULE Reconcile -----------------------------
(***************************************************************************)
(* The database on disk across boots: the schema laid down in an empty     *)
(* file, and the rebuild of a file of an older schema, with its copy, its  *)
(* verification and the renames that put it in place (store/reconcile.rs,  *)
(* store/turso_store.rs open, migrate and repair_if_stale).                *)
(*                                                                         *)
(* A database is a main file and, beside it under a name derived from its  *)
(* own, a write-ahead log; a crash can fall between any two of their moves. *)
(***************************************************************************)
EXTENDS Naturals, FiniteSets

CONSTANTS
    Row,          \* rows that users write
    Table,        \* the tables of the schema
    Counted,      \* those whose rows the verification counts
    TableOf,      \* the table of a row
    None,         \* no file of that name
    MaxDeploys,   \* bound: releases that change the schema
    MaxFaults     \* bound: crashes and failed or lossy operations

ASSUME ReconcileAssumption ==
    /\ Counted \subseteq Table /\ TableOf \in [Row -> Table]
    /\ MaxDeploys \in Nat \ {0} /\ MaxFaults \in Nat

File == [schema : Nat, rows : SUBSET Row, id : Nat]
Log  == [rows : SUBSET Row, id : Nat]

ASSUME NoneIsNoFile == None \notin File \cup Log \cup Nat

\* The names of the database, of the rebuilt file and of the backups.
Db == 0
Rebuilt == 1
Backup == 2..(1 + MaxDeploys + MaxFaults)
Name == {Db, Rebuilt} \cup Backup

VARIABLES
    main,       \* per name: None or a file [schema, rows, id]; schema 0 is none yet
    wal,        \* per name: None or the log [rows, id] of the file of that id
    made,       \* database files made so far, the source of ids
    want,       \* the schema the installed release declares
    pc,         \* what the process is about to do, "off" when none runs
    tool,       \* it is the command `in reconcile`, not a boot
    aside,      \* the name the old file was or will be moved to
    accepted,   \* rows a client was told are stored
    torn,       \* a fault fell into the swap: "no", "whole" or "split"
    faults

vars == <<main, wal, made, want, pc, tool, aside, accepted, torn, faults>>
disk == <<main, wal, made>>

ReconcileType ==
    /\ main \in [Name -> File \cup {None}] /\ wal \in [Name -> Log \cup {None}] /\ made \in Nat
    /\ \A n \in Name : main[n] # None =>
         main[n].schema \in 0..want /\ main[n].id \in 1..made
    /\ \A n \in Name : wal[n] # None => wal[n].id \in 1..made
    /\ want \in 1..(MaxDeploys + 1) /\ tool \in BOOLEAN /\ aside \in Backup
    /\ pc \in {"off", "create", "cleanMain", "cleanWal", "copy", "verify",
               "setAside", "moveWal", "swap", "undo", "undoWal", "tidy",
               "dropMain", "dropWal", "check", "serve"}
    /\ accepted \subseteq Row /\ torn \in {"no", "whole", "split"}
    /\ faults \in 0..MaxFaults

Init ==
    /\ main = [n \in Name |-> None] /\ wal = [n \in Name |-> None] /\ made = 0
    /\ want = 1 /\ pc = "off" /\ tool = FALSE /\ aside = 2
    /\ accepted = {} /\ torn = "no" /\ faults = 0

-----------------------------------------------------------------------------
(* Files.                                                                  *)

Its(n) == wal[n] # None /\ main[n] # None /\ wal[n].id = main[n].id

\* What a database of that name answers.
Seen(n) == main[n].rows \cup (IF Its(n) THEN wal[n].rows ELSE {})

At(f, n, file) == [f EXCEPT ![n] = file]
Moved(f, from, to) == [f EXCEPT ![to] = f[from], ![from] = None]

Goto(step) == pc' = step
Fault == faults < MaxFaults /\ faults' = faults + 1

-----------------------------------------------------------------------------
(* Boots and the command.                                                  *)

\* repair_if_stale, before anything holds the file: no file and a file with no
\* table are left to migrate, a file of the declared schema to the server.
Boot ==
    /\ pc = "off"
    /\ tool' = FALSE
    /\ Goto(IF main[Db] = None \/ main[Db].schema = 0 THEN "create"
            ELSE IF main[Db].schema = want THEN "serve" ELSE "cleanMain")
    /\ UNCHANGED <<disk, want, aside, accepted, torn, faults>>

\* The command refuses where there is no file and stops where there is nothing
\* to do; it rebuilds a file without tables, too.
Command ==
    /\ pc = "off" /\ main[Db] # None /\ main[Db].schema # want
    /\ tool' = TRUE /\ Goto("cleanMain")
    /\ UNCHANGED <<disk, want, aside, accepted, torn, faults>>

\* The engine makes the file. A log that lies there and is another file's is
\* not one it can tell from its own: whatever it then holds of either.
CreateFile ==
    /\ pc = "create" /\ main[Db] = None
    /\ made' = made + 1
    /\ \E kept \in SUBSET (IF wal[Db] = None THEN {} ELSE wal[Db].rows) :
         main' = At(main, Db, [schema |-> 0, rows |-> kept, id |-> made'])
    /\ wal' = At(wal, Db, None)
    /\ UNCHANGED <<want, pc, tool, aside, accepted, torn, faults>>

\* migrate: every table in one transaction.
Migrate ==
    /\ pc = "create" /\ main[Db] # None
    /\ main' = [main EXCEPT ![Db].schema = want]
    /\ Goto("serve")
    /\ UNCHANGED <<wal, made, want, tool, aside, accepted, torn, faults>>

-----------------------------------------------------------------------------
(* The rebuild.                                                            *)

\* cleanup_rebuilt: what an earlier attempt left, first the file, then its log.
CleanMain ==
    /\ pc = "cleanMain"
    /\ main' = At(main, Rebuilt, None)
    /\ Goto("cleanWal")
    /\ UNCHANGED <<wal, made, want, tool, aside, accepted, torn, faults>>

CleanWal ==
    /\ pc = "cleanWal"
    /\ wal' = At(wal, Rebuilt, None)
    /\ Goto("copy")
    /\ UNCHANGED <<main, made, want, tool, aside, accepted, torn, faults>>

\* The declared schema in a fresh file, and every mapped table copied into it;
\* the copy lives in the log. A log that was left there is adopted.
CopyInto(rows) ==
    /\ made' = made + 1
    /\ main' = At(main, Rebuilt, [schema |-> want, rows |-> {}, id |-> made'])
    /\ \E kept \in SUBSET rows :
         /\ wal[Rebuilt] = None => kept = rows
         /\ wal' = At(wal, Rebuilt, [rows |-> kept, id |-> made'])
    /\ Goto("verify")

Copy ==
    /\ pc = "copy"
    /\ CopyInto(Seen(Db))
    /\ UNCHANGED <<want, tool, aside, accepted, torn, faults>>

\* "The verification afterwards is what protects the data, not the copy's
\* mechanism": the copy may lose rows without saying so.
CopyLoses ==
    /\ pc = "copy" /\ Fault
    /\ \E lost \in (SUBSET Seen(Db)) \ {{}} : CopyInto(Seen(Db) \ lost)
    /\ UNCHANGED <<want, tool, aside, accepted, torn>>

\* The rebuild fails in whatever it does before the swap.
RebuildFails ==
    /\ pc \in {"copy", "verify"} /\ Fault
    /\ Goto("dropMain")
    /\ UNCHANGED <<disk, want, tool, aside, accepted, torn>>

Count(rows, t) == Cardinality({ r \in rows : TableOf[r] = t })

\* Mutant: only what was invented is refused.
VerifiedNotInvented ==
    \A t \in Counted : Count(Seen(Db), t) >= Count(Seen(Rebuilt), t)

Verified == \A t \in Counted : Count(Seen(Db), t) = Count(Seen(Rebuilt), t)

\* The counts agree and the log is folded into the file; or they do not, and
\* the caller removes the rebuilt file.
Verify ==
    /\ pc = "verify"
    /\ IF Verified
       THEN /\ main' = [main EXCEPT ![Rebuilt].rows = Seen(Rebuilt)]
            /\ wal' = At(wal, Rebuilt, None)
            /\ Goto("setAside")
       ELSE UNCHANGED <<main, wal>> /\ Goto("dropMain")
    /\ UNCHANGED <<made, want, tool, aside, accepted, torn, faults>>

DropMain ==
    /\ pc = "dropMain"
    /\ main' = At(main, Rebuilt, None)
    /\ Goto("dropWal")
    /\ UNCHANGED <<wal, made, want, tool, aside, accepted, torn, faults>>

DropWal ==
    /\ pc = "dropWal"
    /\ wal' = At(wal, Rebuilt, None)
    /\ Goto("off")
    /\ UNCHANGED <<main, made, want, tool, aside, accepted, torn, faults>>

-----------------------------------------------------------------------------
(* The swap.                                                               *)

Unused(b) == main[b] = None /\ wal[b] = None

\* backup_name: the moment, and a number when a file of that name exists.
SetAside ==
    /\ pc = "setAside"
    /\ aside' \in Backup /\ Unused(aside')
    /\ \A b \in Backup : b < aside' => ~Unused(b)
    /\ main' = Moved(main, Db, aside')
    /\ Goto("moveWal")
    /\ UNCHANGED <<wal, made, want, tool, accepted, torn, faults>>

SetAsideFails ==
    /\ pc = "setAside" /\ Fault
    /\ Goto("off")
    /\ UNCHANGED <<disk, want, tool, aside, accepted, torn>>

\* Mutant: the log stays where it is.
LeaveWal ==
    /\ pc = "moveWal"
    /\ Goto("swap")
    /\ UNCHANGED <<disk, want, tool, aside, accepted, torn, faults>>

MoveWal ==
    /\ pc = "moveWal"
    /\ wal' = IF wal[Db] = None THEN wal ELSE Moved(wal, Db, aside)
    /\ Goto("swap")
    /\ UNCHANGED <<main, made, want, tool, aside, accepted, torn, faults>>

\* The result of the log's rename is not looked at.
MoveWalFails ==
    /\ pc = "moveWal" /\ wal[Db] # None /\ Fault
    /\ torn' = "split" /\ Goto("swap")
    /\ UNCHANGED <<disk, want, tool, aside, accepted>>

\* The rebuilt file under the name of the old one, with the log that lies there.
Swap ==
    /\ pc = "swap"
    /\ \E rows \in SUBSET (main[Rebuilt].rows \cup
                           (IF wal[Db] = None THEN {} ELSE wal[Db].rows)) :
         /\ wal[Db] = None => rows = main[Rebuilt].rows
         /\ main' = [Moved(main, Rebuilt, Db) EXCEPT ![Db].rows = rows]
    /\ wal' = At(wal, Db, None)
    /\ Goto("tidy")
    /\ UNCHANGED <<made, want, tool, aside, accepted, torn, faults>>

SwapFails ==
    /\ pc = "swap" /\ Fault
    /\ Goto("undo")
    /\ UNCHANGED <<disk, want, tool, aside, accepted, torn>>

\* The old file goes back to its name, then its log, and the error is returned.
Undo ==
    /\ pc = "undo"
    /\ main' = Moved(main, aside, Db)
    /\ Goto("undoWal")
    /\ UNCHANGED <<wal, made, want, tool, aside, accepted, torn, faults>>

UndoWal ==
    /\ pc = "undoWal"
    /\ wal' = IF wal[aside] = None THEN wal ELSE Moved(wal, aside, Db)
    /\ Goto("off")
    /\ UNCHANGED <<main, made, want, tool, aside, accepted, torn, faults>>

\* "If this also fails, the caller has both the backup and the rebuilt file to
\* recover from"; the log is moved back whether or not its file was.
UndoFails ==
    /\ pc \in {"undo", "undoWal"} /\ Fault
    /\ torn' = IF torn = "split" \/ wal[aside] # None THEN "split"
               ELSE IF pc = "undo" THEN "whole" ELSE torn
    /\ Goto(IF pc = "undo" THEN "undoWal" ELSE "off")
    /\ UNCHANGED <<disk, want, tool, aside, accepted>>

Tidy ==
    /\ pc = "tidy"
    /\ wal' = At(wal, Rebuilt, None)
    /\ Goto(IF tool THEN "off" ELSE "check")
    /\ UNCHANGED <<main, made, want, tool, aside, accepted, torn, faults>>

\* The fingerprint once more, on a handle opened after the swap.
Check ==
    /\ pc = "check"
    /\ Goto(IF main[Db].schema = want THEN "serve" ELSE "off")
    /\ UNCHANGED <<disk, want, tool, aside, accepted, torn, faults>>

-----------------------------------------------------------------------------
(* The server, its end, and releases.                                      *)

Write(r) ==
    /\ pc = "serve" /\ r \notin accepted
    /\ accepted' = accepted \cup {r}
    /\ wal' = At(wal, Db, [rows |-> {r} \cup (Seen(Db) \ main[Db].rows),
                             id |-> main[Db].id])
    /\ UNCHANGED <<main, made, want, pc, tool, aside, torn, faults>>

\* The engine folds the log into the file when it sees fit.
Checkpoint ==
    /\ pc = "serve" /\ wal[Db] # None
    /\ main' = [main EXCEPT ![Db].rows = Seen(Db)]
    /\ wal' = At(wal, Db, None)
    /\ UNCHANGED <<made, want, pc, tool, aside, accepted, torn, faults>>

Stop ==
    /\ pc = "serve"
    /\ Goto("off")
    /\ UNCHANGED <<disk, want, tool, aside, accepted, torn, faults>>

\* Between the moves of a file and of its log the disk holds neither whole.
Crash ==
    /\ pc \notin {"off", "serve"} /\ Fault
    /\ Goto("off")
    /\ torn' = IF torn = "split" \/ (pc = "moveWal" /\ wal[Db] # None)
                    \/ (pc = "undoWal" /\ wal[aside] # None) THEN "split"
               ELSE IF pc \in {"moveWal", "swap", "undo"} THEN "whole" ELSE torn
    /\ UNCHANGED <<disk, want, tool, aside, accepted>>

Deploy ==
    /\ pc = "off" /\ want <= MaxDeploys
    /\ want' = want + 1
    /\ UNCHANGED <<disk, pc, tool, aside, accepted, torn, faults>>

Next ==
    \/ Boot \/ Command \/ CreateFile \/ Migrate
    \/ CleanMain \/ CleanWal \/ Copy \/ CopyLoses \/ RebuildFails \/ Verify
    \/ DropMain \/ DropWal
    \/ SetAside \/ SetAsideFails \/ MoveWal \/ MoveWalFails \/ Swap \/ SwapFails
    \/ Undo \/ UndoWal \/ UndoFails \/ Tidy \/ Check
    \/ (\E r \in Row : Write(r)) \/ Checkpoint \/ Stop \/ Crash \/ Deploy

Spec == Init /\ [][Next]_vars

-----------------------------------------------------------------------------
(* Properties.                                                             *)

CountedRows == { r \in accepted : TableOf[r] \in Counted }

\* As long as no fault fell into the swap, a server that answers answers with
\* every row it ever accepted, over any number of releases, failed rebuilds and
\* crashes. Stated of the tables the verification counts: of another table the
\* copy may lose rows unnoticed.
ServedIsWhole == pc = "serve" /\ torn = "no" => CountedRows \subseteq Seen(Db)

\* "The original file is kept as a timestamped backup": whatever fails, every
\* accepted row can be read from the database or from a backup together with the
\* log beside it; the rebuilt file, which the next attempt deletes, is not
\* needed. "split" is left out: a fault that came between a file and its log,
\* the failed move of the log or a crash before it, on the way there or back.
OriginalIsKept ==
    torn # "split" => \A r \in accepted :
        \/ pc = "moveWal" /\ wal[Db] # None /\ r \in wal[Db].rows
        \/ pc = "undoWal" /\ wal[aside] # None /\ r \in wal[aside].rows
        \/ \E n \in {Db} \cup Backup : main[n] # None /\ r \in Seen(n)
=============================================================================
