------------------------------ MODULE Startup ------------------------------
(***************************************************************************)
(* A boot from its first line to the open port (in-web/src/main.rs): the   *)
(* configuration that is read and completed in place                       *)
(* (in-core/src/config.rs), the checks that refuse a boot, the database,   *)
(* which is the module Reconcile, and the key that seals link addresses    *)
(* (store/secret.rs).  Each of the three is a file that a boot may write   *)
(* and a crash may cut short.                                              *)
(*                                                                         *)
(* A configuration is a sequence of lines <<spelling, word, value>>:       *)
(*   "key"           listen = "80"                                         *)
(*   "quoted"        "listen" = "80"                                       *)
(*   "dotted"        storage.r2.bucket = "b"                               *)
(*   "table"         [oidc], and so the two-part [storage.r2]              *)
(*   "spaced"        [ oidc ]                                              *)
(*   "quoted table"  ["storage".r2]                                        *)
(*   "inner"         the line that begins with a bracket and ends an array *)
(*                   which the line above it, of value "[", opened         *)
(* TOML reads them all; the scans that complete a file know a line by how  *)
(* it begins.  `listen` stands for the five keys that are completed with a *)
(* constant, `secret` for the three that [oidc] must have, `bucket` for    *)
(* those of [storage.r2].  Comments, inline tables, [[arrays]] of tables   *)
(* and strings over several lines are left out.                            *)
(***************************************************************************)
EXTENDS Reconcile, Sequences

CONSTANTS
    Written,    \* the configurations an operator writes
    MaxEdits    \* bound: what the operator does to the files

ASSUME StartupAssumption ==
    /\ Written \subseteq Seq(STRING \X STRING \X STRING)
    /\ MaxEdits \in Nat

VARIABLES
    phase,      \* how far main has come
    asked,      \* what it was started as: "server" or "reconcile"
    conf,       \* config/in.toml: None or its lines
    draft,      \* the text being written to it
    running,    \* the configuration this process has read
    ours,       \* nobody has edited the file since a process read or wrote it
    cut,        \* a write of the file was cut short
    key,        \* in.key: None, 0 when it is not whole, or the key
    keys,       \* keys made so far
    loaded,     \* the key this process seals with
    sealed,     \* the keys that link addresses are sealed with
    lost,       \* the operator lost a key
    edits

startup == <<phase, asked, conf, draft, running, ours, cut, key, keys, loaded, sealed, lost, edits>>
all == <<vars, startup>>
keyring == <<key, keys, loaded, sealed, lost>>

\* What a text says is a set of one configuration, or of none.
Unusable == {}

\* A process that serves holds a key; one that does not run has no database open.
StartupType ==
    /\ ReconcileType
    /\ phase \in {"down", "config", "writing", "bundle", "tree", "bucket", "open", "opening",
                  "keying", "up"}
    /\ phase \in {"opening", "keying", "up"} <=> pc # "off"
    /\ phase = "up" => pc = "serve" /\ asked = "server" /\ loaded \in 1..keys
    /\ asked \in {"server", "reconcile"}
    /\ Cardinality(running) \in 0..1
    /\ {ours, cut, lost} \subseteq BOOLEAN
    /\ key = None \/ key \in 0..keys
    /\ loaded \in 0..keys /\ sealed \subseteq 1..keys /\ edits \in 0..MaxEdits

-----------------------------------------------------------------------------
(* Reading the file: TOML.                                                 *)

IsHead(line) == line[1] \in {"table", "spaced", "quoted table"}
IsKey(line) == line[1] \in {"key", "quoted", "dotted"}

\* The value is an array that goes on in the next line.
Opens(line) == IsKey(line) /\ line[3] = "["

Keyed(text) == { i \in DOMAIN text : IsKey(text[i]) }
Headed(text) == { i \in DOMAIN text : IsHead(text[i]) }

\* The table a line belongs to, "" at the top.
TableAt(text, i) ==
    LET heads == { j \in 1..i : IsHead(text[j]) }
    IN  IF heads = {} THEN ""
        ELSE text[CHOOSE j \in heads : \A h \in heads : h <= j][2]

\* A dotted key lies in a table below the one its line is in.
Below(line) == IF line[1] = "dotted" THEN "storage.r2" ELSE ""

PathAt(text, i) == <<TableAt(text, i), Below(text[i]), text[i][2]>>
Paths(text) == { PathAt(text, i) : i \in Keyed(text) }
Heads(text) == { text[i][2] : i \in Headed(text) }

\* The bytes are in a bucket: either spelling of its table says so.
HasDotted(text) == \E p \in Paths(text) : p[1] = "" /\ p[2] = "storage.r2"
IsRemote(text) == "storage.r2" \in Heads(text) \/ HasDotted(text)

\* An empty value counts as none.
Given(text, paths) == { text[i][3] : i \in { j \in Keyed(text) : PathAt(text, j) \in paths } } \ {""}
Top(k) == {<<"", "", k>>}
Bucket == {<<"storage.r2", "", "bucket">>, <<"", "storage.r2", "bucket">>}

Or(values, default) == IF values = {} THEN default ELSE CHOOSE v \in values : TRUE

\* No key and no table twice, a key is not a table as well, a table is not
\* spelled in both ways, and an array that is opened is closed.
IsToml(text) ==
    /\ \A i, j \in Keyed(text) :
         text[i][2] = text[j][2] /\ PathAt(text, i) = PathAt(text, j) => i = j
    /\ \A i, j \in Headed(text) : text[i][2] = text[j][2] => i = j
    /\ ~(<<"", "", "storage">> \in Paths(text) /\ IsRemote(text))
    /\ ~("storage.r2" \in Heads(text) /\ HasDotted(text))
    /\ \A i \in DOMAIN text : Opens(text[i]) => i < Len(text) /\ text[i + 1][1] = "inner"
    /\ \A i \in DOMAIN text : text[i][1] = "inner" => i > 1 /\ Opens(text[i - 1])

\* Beside the database, which does not move here.
DefaultStorage == "beside"
DefaultListen == "7655"

Obeyed == Top("database") \cup Top("storage") \cup Top("listen") \cup Bucket
          \cup {<<"oidc", "", "secret">>}

\* What a boot takes from the file; the keys it sets and nothing reads are
\* named in the log.  No key that is read has an array for its value.
Reads(text) ==
    IF \/ ~IsToml(text)
       \/ \E i \in Keyed(text) : Opens(text[i]) /\ PathAt(text, i) \in Obeyed
       \/ Given(text, Top("database")) = {}
       \/ IsRemote(text) /\ Given(text, Bucket) = {}
       \/ Given(text, {<<"oidc", "", "secret">>}) = {}
    THEN Unusable
    ELSE {[remote  |-> IsRemote(text),
           storage |-> Or(Given(text, Top("storage")), DefaultStorage),
           listen  |-> Or(Given(text, Top("listen")), DefaultListen),
           ignored |-> Paths(text) \ Obeyed]}

-----------------------------------------------------------------------------
(* Completing it: a scan of the lines.                                     *)

\* A line whose first word is the key, in whatever table.
Mentions(text, k) == \E i \in DOMAIN text : text[i][1] = "key" /\ text[i][2] = k

MentionsStorageTable(text) == \E i \in DOMAIN text : text[i][1] = "table" /\ text[i][2] = "storage.r2"

\* The block of what the file is silent about.
Missing(text) ==
    (IF Mentions(text, "listen") THEN <<>> ELSE <<<<"key", "listen", DefaultListen>>>>) \o
    (IF Mentions(text, "storage") \/ MentionsStorageTable(text) THEN <<>>
     ELSE <<<<"key", "storage", DefaultStorage>>>>)

\* Mutant: the block goes to the end of the file.
CompletedAtEnd(text) == text \o Missing(text)

\* It begins with a bracket, and no space after it: a header, or so it is taken.
LooksLikeHead(line) == line[1] \in {"table", "quoted table", "inner"}

\* The block goes before the first such line.
Completed(text) ==
    LET heads == { i \in DOMAIN text : LooksLikeHead(text[i]) }
        first == IF heads = {} THEN Len(text) + 1
                 ELSE CHOOSE i \in heads : \A h \in heads : i <= h
    IN  SubSeq(text, 1, first - 1) \o Missing(text) \o SubSeq(text, first, Len(text))

\* DEVELOPMENT_DEFAULTS: [oidc] is there, and blank.
DevelopmentDefaults ==
    <<<<"key", "database", "in.db">>, <<"key", "listen", DefaultListen>>,
      <<"table", "oidc", "">>, <<"key", "secret", "">>>>

\* The provers know no string to be in STRING.
ASSUME WordsType ==
    {"key", "table", "database", "in.db", "listen", DefaultListen, "storage", DefaultStorage,
     "oidc", "secret", ""} \subseteq STRING

-----------------------------------------------------------------------------
StartupInit ==
    /\ Init
    /\ phase = "down" /\ asked = "server"
    /\ conf \in Written \cup {None} /\ draft = <<>> /\ running = Unusable
    /\ ours = FALSE /\ cut = FALSE
    /\ key = None /\ keys = 0 /\ loaded = 0 /\ sealed = {} /\ lost = FALSE
    /\ edits = 0

Enter(p) == phase' = p

\* The process ends: whatever the database was at, nothing runs.
Exit == Enter("down") /\ pc' = "off"

ExitOnly == Exit /\ UNCHANGED <<disk, want, tool, aside, accepted, torn, faults>>

Launch(what) ==
    /\ phase = "down"
    /\ asked' = what /\ Enter("config")
    /\ UNCHANGED <<vars, conf, draft, running, ours, cut, keyring, edits>>

\* A file that reads is taken, and completed if it is silent about something;
\* any other stops the boot. A write begins by emptying the file.
ReadConfig ==
    /\ phase = "config" /\ conf # None
    /\ running' = Reads(conf) /\ ours' = TRUE
    /\ draft' = Completed(conf)
    /\ conf' = IF running' # Unusable /\ draft' # conf THEN <<>> ELSE conf
    /\ Enter(IF running' = Unusable THEN "down"
             ELSE IF draft' # conf THEN "writing" ELSE "bundle")
    /\ UNCHANGED <<vars, asked, cut, keyring, edits>>

\* No file: one with the defaults is written, and then read.
WriteDefaults ==
    /\ phase = "config" /\ conf = None
    /\ draft' = DevelopmentDefaults /\ conf' = <<>> /\ ours' = TRUE
    /\ running' = Reads(DevelopmentDefaults)
    /\ Enter("writing")
    /\ UNCHANGED <<vars, asked, cut, keyring, edits>>

WriteConfig ==
    /\ phase = "writing"
    /\ conf' = draft /\ draft' = <<>>
    /\ Enter(IF running = Unusable THEN "down" ELSE "bundle")
    /\ UNCHANGED <<vars, asked, running, ours, cut, keyring, edits>>

\* A completion that fails half way is a line in the log; defaults that cannot
\* be written stop the boot.
WriteFails ==
    /\ phase = "writing" /\ Fault
    /\ \E n \in 0..(Len(draft) - 1) : conf' = SubSeq(draft, 1, n)
    /\ draft' = <<>> /\ cut' = TRUE
    /\ Enter(IF running = Unusable THEN "down" ELSE "bundle")
    /\ UNCHANGED <<disk, want, pc, tool, aside, accepted, torn, asked, running, ours, keyring, edits>>

\* The stylesheet beside the executable is of this build, or the boot stops;
\* the command does not look at it.
CheckBundle ==
    /\ phase = "bundle"
    /\ \/ Enter("tree")
       \/ asked = "server" /\ Enter("down")
    /\ UNCHANGED <<vars, asked, conf, draft, running, ours, cut, keyring, edits>>

\* ensure_storage_tree makes the directories, or the boot stops.
MakeTree ==
    /\ phase = "tree"
    /\ \/ Enter("bucket")
       \/ asked = "server" /\ Enter("down")
    /\ UNCHANGED <<vars, asked, conf, draft, running, ours, cut, keyring, edits>>

\* Where the bytes are in a bucket, its two keys are in a file of the
\* operator's, or the boot stops.
OpenBucket ==
    /\ phase = "bucket"
    /\ \/ Enter("open")
       \/ asked = "server" /\ (\E c \in running : c.remote) /\ Enter("down")
    /\ UNCHANGED <<vars, asked, conf, draft, running, ours, cut, keyring, edits>>

Open ==
    /\ phase = "open" /\ asked = "server"
    /\ Boot /\ Enter("opening")
    /\ UNCHANGED <<asked, conf, draft, running, ours, cut, keyring, edits>>

OpenForCommand ==
    /\ phase = "open" /\ asked = "reconcile"
    /\ Command /\ Enter("opening")
    /\ UNCHANGED <<asked, conf, draft, running, ours, cut, keyring, edits>>

\* No file, nothing to do, a dry run, or an answer that is not yes.
NothingToRebuild ==
    /\ phase = "open" /\ asked = "reconcile"
    /\ ExitOnly
    /\ UNCHANGED <<asked, conf, draft, running, ours, cut, keyring, edits>>

\* The steps of Reconcile up to a database that serves, or to an exit.
Opening ==
    /\ phase = "opening"
    /\ \/ CreateFile \/ Migrate
       \/ CleanMain \/ CleanWal \/ Copy \/ CopyLoses \/ RebuildFails \/ Verify
       \/ DropMain \/ DropWal
       \/ SetAside \/ SetAsideFails \/ MoveWal \/ MoveWalFails \/ Swap \/ SwapFails
       \/ Undo \/ UndoWal \/ UndoFails \/ Tidy \/ Check
    /\ Enter(IF pc' = "off" THEN "down" ELSE "opening")
    /\ UNCHANGED <<asked, conf, draft, running, ours, cut, keyring, edits>>

-----------------------------------------------------------------------------
(* The key.                                                                *)

\* A key of the right length is taken; where there is no file, one is made.
LoadKey ==
    /\ phase = "opening" /\ pc = "serve"
    /\ \/ key \notin {None, 0} /\ loaded' = key /\ Enter("up") /\ UNCHANGED key
       \/ key = None /\ key' = 0 /\ Enter("keying") /\ UNCHANGED loaded
    /\ UNCHANGED <<vars, asked, conf, draft, running, ours, cut, keys, sealed, lost, edits>>

WriteKey ==
    /\ phase = "keying"
    /\ keys' = keys + 1 /\ key' = keys' /\ loaded' = keys'
    /\ Enter("up")
    /\ UNCHANGED <<vars, asked, conf, draft, running, ours, cut, sealed, lost, edits>>

\* A file of another length stops the boot, at every boot.
RefuseKey ==
    /\ phase = "opening" /\ pc = "serve" /\ key = 0
    /\ ExitOnly
    /\ UNCHANGED <<asked, conf, draft, running, ours, cut, keyring, edits>>

\* Mutant: a key that cannot be read is taken for none.
MakeAnother ==
    /\ phase = "opening" /\ pc = "serve" /\ key # None /\ Fault
    /\ key' = 0 /\ Enter("keying")
    /\ UNCHANGED <<disk, want, pc, tool, aside, accepted, torn, asked, conf, draft, running,
                   ours, cut, keys, loaded, sealed, lost, edits>>

\* And so does a file that is there and cannot be read.
KeyUnreadable ==
    /\ phase = "opening" /\ pc = "serve" /\ key # None /\ Fault
    /\ Exit
    /\ UNCHANGED <<disk, want, tool, aside, accepted, torn, asked, conf, draft, running,
                   ours, cut, keyring, edits>>

-----------------------------------------------------------------------------
(* The server, its end, and the operator.                                  *)

Serve ==
    /\ phase = "up"
    /\ (\E r \in Row : Write(r)) \/ Checkpoint
    /\ UNCHANGED startup

\* A link is created: its token is sealed with the key this process holds.
Seal ==
    /\ phase = "up"
    /\ sealed' = sealed \cup {loaded}
    /\ UNCHANGED <<vars, phase, asked, conf, draft, running, ours, cut, key, keys, loaded, lost, edits>>

\* SIGTERM, or the end of a server that died while it served.
ShutDown ==
    /\ phase = "up" /\ Enter("down")
    /\ Stop
    /\ UNCHANGED <<asked, conf, draft, running, ours, cut, keyring, edits>>

\* A crash while the database is being opened, or at any other step of a boot.
Die ==
    /\ phase \notin {"down", "up"} /\ Enter("down")
    /\ IF pc \in {"off", "serve"}
       THEN Fault /\ pc' = "off" /\ UNCHANGED <<disk, want, tool, aside, accepted, torn>>
       ELSE Crash
    /\ cut' = (cut \/ phase = "writing")
    /\ UNCHANGED <<asked, conf, draft, running, ours, keyring, edits>>

Upgrade ==
    /\ phase = "down" /\ Deploy
    /\ UNCHANGED startup

Edit(text) ==
    /\ phase \in {"down", "up"} /\ edits < MaxEdits /\ text # conf
    /\ conf' = text /\ ours' = FALSE /\ cut' = FALSE /\ edits' = edits + 1
    /\ UNCHANGED <<vars, phase, asked, draft, running, keyring>>

\* A key that is not whole is removed, so that the server boots again.
RemoveKey ==
    /\ phase = "down" /\ key = 0
    /\ key' = None
    /\ UNCHANGED <<vars, phase, asked, conf, draft, running, ours, cut, keys, loaded, sealed, lost, edits>>

\* "A backup restored without its sibling, most likely."
LoseKey ==
    /\ phase = "down" /\ key # None /\ edits < MaxEdits
    /\ key' = None /\ lost' = TRUE /\ edits' = edits + 1
    /\ UNCHANGED <<vars, phase, asked, conf, draft, running, ours, cut, keys, loaded, sealed>>

StartupNext ==
    \/ (\E what \in {"server", "reconcile"} : Launch(what))
    \/ ReadConfig \/ WriteDefaults \/ WriteConfig \/ WriteFails
    \/ CheckBundle \/ MakeTree \/ OpenBucket \/ Open \/ OpenForCommand \/ NothingToRebuild \/ Opening
    \/ LoadKey \/ WriteKey \/ RefuseKey \/ KeyUnreadable
    \/ Serve \/ Seal \/ ShutDown \/ Die \/ Upgrade
    \/ (\E text \in Written : Edit(text)) \/ RemoveKey \/ LoseKey

StartupSpec == StartupInit /\ [][StartupNext]_all

-----------------------------------------------------------------------------
(* Properties.                                                             *)

SameSettings(c, d) == c.remote = d.remote /\ c.storage = d.storage /\ c.listen = d.listen

\* Every line is spelled so that the scans see what TOML reads.
IsPlain(text) == \A i \in DOMAIN text : text[i][1] \in {"key", "table"}

\* A boot takes the text for just this; or the text is not plain, and a boot
\* that takes it nevertheless runs with the same settings.
Says(text, run) ==
    \/ Reads(text) = run
    \/ ~IsPlain(text) /\ \A c \in Reads(text), d \in run : SameSettings(c, d)

\* "Only ever adds, never rewrites", "at the default already in use": the file
\* a process leaves behind, unless its write was cut short or somebody edited
\* it, never gives the next boot other settings than this one's, whatever the
\* scans misread; and a plain one is taken by it, ignored keys and all.
FileSaysWhatRuns ==
    ours /\ ~cut /\ phase \in {"bundle", "tree", "bucket", "open", "opening", "keying", "up"}
        => Says(conf, running)

\* As long as nobody lost the key, a server opens every link address that any
\* server before it sealed, whatever boots failed in between.
SealedOpens == phase = "up" /\ ~lost => sealed \subseteq {loaded}
=============================================================================
