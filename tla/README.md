# A verification project for `in`

`in` is a self-hosted file drive: a Rust server (`in-core`, the store;
`in-web`, routes, pages and their scripts; `in-client`, the sign-in client) over
an SQLite style database and a tree of files or a bucket. These modules model
the program's own logic, TLC checks them on small instances, and TLAPS proves
the main results for every value of the constants. `PROJECT.json` lists the
runs, the code lines behind every definition, the hazards and the theorems.

Paths below are relative to `src/crates/`; `store` is
`in-core/src/store/turso_store.rs`.

## Inventory

| part | state | operations | what makes it correct | module |
|---|---|---|---|---|
| library tree and trash (`store`) | tables `folder`, `file`: parent, name, owner, `deleted_at` | create, insert, rename, move, delete (cascade), restore (cascade), purge of a file, a folder, an owner's trash, everything expired | a forest, of one owner per tree; nothing live under trash; live siblings have different names; a restore undoes one deletion; a purge takes trash only | `Library`, `Tree` |
| quotas and uploads (`store`, `in-web/src/upload.rs`) | `user.used_bytes`, `quota_bytes`; `upload_session`; `uploads/<id>/<n>` | start, chunk, finish, abort, prune; direct writes; a service's push and deletion; a change of quota | usage is what the rows hold; growth fits the quota; a session becomes one file at most; an abort is final; requests end | `Upload` |
| the uploader (script in `in-web/src/drive.rs`) | the walk of a tab, the resume key in the browser | probe, start, put, finish, abort, retry, resume, cancel, reload | a pick makes one file; nothing is passed by that the server does not hold; every pick ends | `Uploader` |
| bytes and the boot sweep (`blobs.rs`, `r2.rs`, `store`) | `files/<id>`, `thumbs/<id>`, temp names, upload directories; the rows that name them | put, adopt, delete; the walk of the sweep | no row without its bytes; the sweep spares what a row names, will name, or that is newer than its database | `Blobs`, `Drive` |
| reads of bytes (`in-web/src/files.rs`, `share.rs`) | none | ranges, lengths, what counts as a download | what is announced is what is asked for and is there | `Spans` |
| shares (`store`, `in-web/src/share.rs`) | `share_user` | grant, withdraw; `effective_grant` climbs the tree | no access without a live grant at the target or above it | `Shares` |
| public links (`store`, `in-web/src/share.rs`) | `share_link`, the sealed address in the settings, unlock cookies | create, revoke, remint, expire, unlock, visit | a revoked, replaced or expired link opens nothing; a visit sees what is under its target only | `Links` |
| live events (`in-core/src/live.rs`, `in-web/src/live.rs`, `layout.rs`) | a sequence number, a bounded broadcast, a stream and a screen per tab | announce after commit, filter, resync, revoke, refresh, paint | a page that is behind the database has its news on the way; a disabled reader's tab leaves | `Live` |
| schema reconciliation (`reconcile.rs`, `schema.rs`) | the database file and its log, the backups, the rebuilt file | rebuild, verify, swap, undo | no row is lost, whatever step a failure or a crash meets | `Reconcile` |
| a boot (`in-web/src/main.rs`, `config.rs`, `secret.rs`) | `in.toml`, `in.key`, and the above | read and complete the configuration, open the database, load or make the key | the file says what runs; a sealed address still opens | `Startup` |
| identity and directory mirror (`main.rs`, `server.rs`, `settings.rs`, `in-client`) | table `user`, the directory's stream | provisioning on sight, full pass, stream, disablement | one administrator at first; rows follow the directory | `Identity` |
| service accounts (`store`, `in-web/src/service.rs`) | `service_key`, the service's account | mint, rotate, revoke, the ceiling of the family | one account per service; its ceiling is the family's | `Identity` |
| signing in (`in-client`) | the flight and session cookies, the cache of im's keys | sign-in, callback, key refetch, introspection, sign-out | a sign-in succeeds unless something came between; a cookie goes on im's word only | `SignIn` |
| the rest | preferences, search, thumbnails, sniffing, i18n, rendering, build | single statements, reads, pure functions | see "Not modelled" | |

How they interact. Routes authenticate and call the store. The store has one
shared connection behind an async mutex (`conn`), on which reads and single
statements run, and opens another connection for every transaction
(`tx_conn`); IMMEDIATE transactions hold the database's one write lock to their
end. Bytes are put before the transaction that names them commits, and deleted
after the one that forgets them. After a commit the store broadcasts which
surface moved, and tabs fetch it again. At boot the configuration is read and
completed, the database is opened and rebuilt if its schema is of another
release, the key is loaded, and a task runs `boot_sweeps` once: the prune of
expired sessions, and then the sweep of orphan bytes, while requests are already
being served. Two more tasks follow im: the directory and the family.

What is hard: requests that read, let go of the lock and write; two locks taken
in both orders; a crash between bytes and rows, or between two renames; a sweep
beside live writers or over a database older than its bytes; cascades that must
be undone exactly; a climb through a tree that moves; two tabs over one cookie
or one resume key; answers that arrive late or not at all. `PROJECT.json` lists
each hazard at its line with the properties that guard it.

## Modules

| module | models | composed with | proofs |
|---|---|---|---|
| `Tree` | what the library promises of its tree, one step per request | | |
| `Library` | tree and trash, statement by statement | implements `Tree` | `LibraryProofs` |
| `Upload` | quotas, usage, upload sessions, the two locks | | `UploadProofs` |
| `Uploader` | the browser's side of an upload | the routes of `Upload`, one step each | `UploaderProofs` |
| `Blobs` | rows and bytes, temp names, the sweep | implements `Drive` | `BlobsProofs` |
| `Drive` | rows and bytes as a person sees them | | |
| `Spans` | ranges, lengths, counted downloads | | in the module |
| `Shares`, `Links` | grants and links, and who reads by them | extend `Tree` | `SharesProofs`, of `Shares` |
| `Live` | announcements, streams, tabs | | |
| `Reconcile` | the database file across boots | | `StartupProofs` |
| `Startup` | a boot: configuration, database, key | extends `Reconcile` | `StartupProofs` |
| `Identity` | rows of people and services, and im's word | | `IdentityProofs` |
| `SignIn` | cookies, keys, sessions of one browser | | |
| `MC...` | small instances of the above | | |

Operators whose comment begins with "Mutant" are plausible bugs; no
specification uses them. They show that the properties can fail. Every module
with a state has a type invariant (`TypeOK`, or its name with `Type`); the
runs spend their properties elsewhere, and a line `INVARIANT` in a
configuration checks it, as it does the inductive invariants `IInv` of the proof
modules.

### Library and Tree

`rows`, `ids`, `parent`, `name`, `deletedAt` are the two tables; folders and
files share one shape. An action is one transaction. `delete_file`,
`delete_folder` and the four purges read before they open theirs, so each is
split there: `task[w]` holds what request `w` read (the stamp it took, the
candidates, each with the parent it had), and anything may commit before `w`
goes on. `Abandon` drops a request at that point. A cascade of a deletion
(`TrashFolder`) stamps every live row of the subtree; a restore (`RestoreFolder`)
brings back the rows of the subtree that wear the same stamp; a purge
(`CommitPurge`) takes the candidates that still pass the guard, and is refused
whole by a foreign key (`RefusePurge`) when it would leave a child behind.

Stamps are numbers taken from a clock that never repeats; the code takes
nanoseconds. A name is a label and its postfixes, so `a (2)` is `<<a, 2>>`, also
when it was asked for outright. Renaming to the name a row already wears is not
told apart from any other rename.

A family service pushes files under handles of its own (`External`) and deletes
them by handle. Neither passes by what the other operations check:
`InsertServiceFile` writes the name it is given, at the top or into the row the
handle already has, in the trash or not, and `DeleteServiceFile` takes a live row
outright. So two handles pushed under one name are two live siblings of that
name, and `SiblingNamesDiffer`, `NamesDifferWithinStamp` and `PurgeTakesOldTrash`
speak of pushed files (`Pushed`) apart. The routes open no session for a service's
account, so that nobody moves, trashes or shares its files; the store does not
forbid it, and neither does the model.

`Tree` forgets names, stamps and requests between two steps. `LibraryIsATree`
says that `Library` implements it, with `trashed` mapped to the rows that wear a
stamp: a deletion is of all that is live under a row, a restore of a part of the
trash that hangs together, a purge of trash that leaves nothing behind. Beside
the steps of `Tree`, a service may take a file of its own away (`Erase`).

### Upload

`quota`, `used`, `rows`, `size`, `source` are accounts and files (`source`
remembers which session a file came from); `state`, `expired`, `received`,
`staged` are the sessions and their chunk files; `conn` and `writer` the two
locks. Requests of several steps are workers, with one step per lock scope:
`BeginChunk`, `StageChunk`, `RecordReceived`; `BeginFinish`, `Assemble`,
`VetFinish`, `CommitFinish`, `Cleanup`; `BeginPrune`, `PruneOne`, `EndPrune`;
`BeginCreate`, `InsertSession`. `Abandon` is a failure or a client that leaves;
`Boot` drops every request and makes a prune due.

Sizes are counted in chunks, so the shorter last chunk is left out. Writing a
chunk and summing the directory are one step. A clean-up of directories is
not given a failure of its own (the sweep of `Blobs` is its backstop).

### Uploader

`tab` is what the script of a page holds: the session it walks, the piece it is
at, what it skips because a probe said it was staged, the attempts left, and
whether its call is on its way out or back. `key` is the resume key in the
browser's storage, which all tabs share, and `stray` are calls that nobody waits
for: cut by the network, aborted by a cancel, or left behind by a reload. A call
is one step of the server (`Handle`), which `Upload` takes apart. `Nothing` is a
refusal; `Refused`, `Missed`, `Probed`, `Armed` and the others are the branches
of `sendBig` on an answer.

What the model shows beside its properties: a session that has all its pieces
and expires before the finish is refused and keeps its key, so that the next
pick meets it again (`in-web/src/drive.rs:1435`); a cancel while a restart opens
its new session leaves that session's key behind (`:1410`); a probe that fails
for a moment drops the key, and the next pick begins anew.

### Blobs and Drive

`at` says when the bytes at a key last changed; `db` is the committed database
(files, which of them have a thumbnail, their stamps, active sessions);
`backup` an older copy of it (as it was at the last boot: the operator's
copies, taken and put back, are outside the code). Every put, rename, deletion
and commit is a step of its own. A deployment says whether the bytes lie in a
bucket (`R2Blobs`: no temp, a copy in place of a rename, times cut to
`Resolution`) or in a tree (`LocalBlobs`), whether calls fail and whether the
database may be put back. The sweep takes the write lock and the ids
(`BeginSweep`), lists a directory at a time (`ListDir`), deletes (`Reclaim`) and
lets go (`EndSweep`). `accepted` is a history variable.

`Drive` is what a person sees: a file, its bytes and its thumbnail appear and
disappear together. Under the mapping `says` = what the rows name, `has` = what
of it can be served, every step of `Blobs` is an `Accept`, a `Purge` or
nothing. A purge is of one file at a time; several at once are several.
Sessions hold a byte at least. The contents of a file are not told apart, so
the window in which a re-push has new bytes under an old size (documented at
`store:3105`) is not seen.

### Spans

A pure module: `ParseRange` of a header against a length, the length that is
read from a local file and from an object in a bucket, the reply that is
announced, and when a request counts as a download on either route. `Asked` is
the reference, a set of byte positions. Numbers are unsigned of 64 bits and
saturate as the code does. A first byte is a number, so that `00-` and `0-` are
one header; on a link `0-` followed by no number counts and is an "other" header
here.

Two differences that the module shows or leaves aside: the route of a link
counts by the text of the header (`in-web/src/share.rs:1081`), so a suffix range
that covers the whole file counts for the signed-in only, and an unsatisfiable
one from byte 0 of an empty file counts on a link only; and a row that is longer
than its object gives a 206 of length 0 where the object has no byte of the
range.

### Shares and Links

Both extend `Tree` and begin in any tree of live rows. In `Shares`, `ask[r]` is a
request between two reads: a file is read first, then vetted, then
`effective_grant` takes the shared connection (`conn`) and climbs a folder at a
time (`Climb`), reads the grants of the chain (`ReadGrant`) and lets go; bytes
need the row once more (`ReadBytes`). Tree transactions do not need that
connection and commit in between. `grants`, `vetted` are the table and the
requests between the check of a target and the UPSERT.

In `Links`, `link` is the table with its expiry and revocation; `deed` is what an
owner's request has left to do, statement by statement: `RemintSteps` vets,
inserts the new link, kills the old one, and forgets its address. `visit` is a
visitor's request from the token down to the bytes; `proofs` are the unlock
cookies of a browser, each bound to one link. `told` is a history variable: the
links whose owner was answered that they are dead. Sealing a new address is left
out.

In both modules a request remembers how many changes committed since it began
(two stand for many) and what was right before the first: the properties compare
its answer with the tree of a single moment.

What lies outside the properties: a sealed address outlives a link that is
revoked while its creation is still about to store it
(`in-web/src/share.rs:296`); a remint that cannot delete the old address is
refused after it made the new link, which stays live and is never shown (`:440`).

### Live

`news[tab]` are the topics that moved since the tab's page was rendered; a page
with no news is up to date. A writer commits (`Commit`, which also adds to the
news of every page that shows the topic) and announces later (`Announce`), which
puts its topics in each open stream's buffer or marks it lagged. The stream
hears, the tab schedules a refresh, fetches (`flights`), the server renders and
the tab paints. `CloseOverlay`, `FetchLost`, a stream that is not open and a
painted answer of another page are the openings that `NewsIsLostOnlyThere`
names. The sequence number of an announcement is in the frames, but no script
reads it, and so neither does the model. Nothing reads the page again when a
stream opens or opens again, and no page asks for the refresh by the minute
that the script provides for.

### Reconcile and Startup

A database is a main file and a log beside it under a name derived from its own;
`main` and `wal` give each name its file. A log belongs to the file whose `id` it
carries and is ignored beside another. The steps of a rebuild are those of
`reconcile`: copy, verify, set the original aside, move its log, put the rebuilt
file in place, and the undo of each. `torn` remembers a fault inside the swap:
"split" when it came between a file and its log. A boot after a crash in the
swap finds no database and makes an empty one (`reconcile.rs:114`), which is why
`ServedIsWhole` excludes every fault there; what remains true is
`OriginalIsKept`, unless the fault was a "split". That is a log whose move fails,
which is left behind (`:122`), and also a crash between the two renames
(`:115`-`:122`): in both the backup lacks what only the log held, and neither
property says anything of it.

`Startup` puts around it the file `in.toml` as a sequence of lines under table
headers, which a boot reads, completes and writes back (a write may leave any
prefix), the checks that refuse a boot, and `in.key`, which a crash may leave
empty. Of the keys one per table is kept, enough to tell where a completed line
lands.

The file is read twice, and the two readings differ. TOML (`IsHead`, `IsKey`,
`TableAt`, `IsToml`, `Reads`) knows a header with spaces inside, a quoted key or
header, a dotted key, and that a line inside an array is no header. The code that
completes the file (`Mentions`, `MentionsStorageTable`, `LooksLikeHead`) knows a
line by how it begins: it does not see `[ oidc ]`, `"listen" =` or
`storage.r2.bucket =`, and takes a line of an array that begins with `[` for a
header. So a line may be put into some table, added beside a key that is there
already, or into the middle of an array. `FileSaysWhatRuns` says what is true all
the same: whatever the spellings, the completed file never gives the next boot
other settings than this boot's; and if every line is plainly spelled the next
boot does take it, and ignores the same keys. It does not say that an oddly
spelled file is taken: a boot may complete a file that worked into one that the
next boot refuses (below). Inline tables, arrays of tables and strings over
several lines are not in the model: a line that begins with `[` inside such a
string would take the block into its value.

A prefix that lost its `[storage.r2]` table is a valid configuration of a local
store, so `FileSaysWhatRuns` excludes a write that was cut short, as it does a
file that somebody edited since.

### Identity

`word` and `limit` are im's answers, which change; `row`, `accounts`, `key`,
`ceiling` the store's. A request that meets a person introspects, and writes the
row in a transaction of its own; the mirror passes over every member, opens the
stream, hears events, and starts again when the stream ends. What an
administrator does by hand is undone by the next pass, for disablement and for a
service's quota alike. Two administrators who disable each other at the same
moment both succeed (`settings.rs:198` refuses only oneself): the next pass of
the directory is the way back in.

### SignIn

One browser with two tabs, which stand for any sign-ins that share the cookies of
a browser and the server's cache of keys. A request carries the cookies of the
moment it is sent; an answer sets or clears them when it arrives. `spoiled` is a
history variable: the flights that something came between (another tab's flight
or sign-out, a revocation, a restart, an answer that im did not give, a key that
changed after the exchange). The late answer about an earlier session may remove
a later session's cookie, which `CookieGoesOnWord` allows: it goes on im's word,
about another session.

## Runs

| run | shows |
|---|---|
| `library_races` | two requests in flight among all others, and a service that pushes and deletes: trash stays whole, moments are kept, purges take trash only, restores are exact, and the library implements `Tree` |
| `library_tree` | three folders that want one name, another user's file and a pushed one: no cycle, no equal names, no mixed tree |
| `upload_quota` | two sessions and two direct writers for one or two chunks of quota, failures and a boot |
| `upload_sessions` | a session of two chunks under two concurrent requests, with liveness |
| `uploader` | two tabs that pick the same file, an unreliable network, expiry and a boot: one copy per pick, nothing passed by that is not held, every pick ends |
| `blobs` | a tree and a bucket, a crash and the sweep, the same database or an older copy: what the database knows keeps its bytes, what may be reclaimed is, and the store implements `Drive` |
| `shares` | a reader asks while grants and the tree change under the climb |
| `links` | a visitor opens an address, with a password or without, while its owner closes, replaces or empties it |
| `live` | a tab, a writer, a buffer of one, the window, a restart: where news can be lost, and that a disabled reader's tab leaves |
| `startup` | boots and commands of two releases, two faults, an edit: counted rows are served unless a fault fell into the swap, every row stays readable unless one parted a file from its log, a completed file gives no boot other settings, addresses open |
| `identity` | two people first seen at once, a directory that changes, a stream that ends: one administrator, and in the end everything is as im says |
| `sign_in` | two tabs, a key that changes, sessions that end, silence or a restart: cookies go on a word, a lone sign-in succeeds |

Bounds, and why they are enough. Two workers are two requests between their
steps; requests of one transaction run beside them without a worker, so three
or more actors meet. Two stamps in `library_races` are a deletion inside an earlier
one, with a row that has a grandparent; the three folders of `library_tree`, with
one stamp, are a circle longer than a swap. `MaxPostfix` is 3, with at most three siblings that want a name.
Two sessions of one chunk compete for a quota of one or two; one session of two
chunks has a chunk to race and one to miss. In `Blobs` two files (one with a
thumbnail, one pushed by a service), one session, two moments after the first
(at a row's and after it) and a boot. `Uploader` has two pieces (one to skip, one
to send), two attempts, two picks and two sessions, enough for a pick that
restarts and for one that resumes what the other left; one stray call at a time.
`Shares` has two folders and a file, a chain of three, any number of commits
during a climb, and one reader, because readers change nothing; the file is
shared to be seen, so that a folder's grant can add the download.
`Links` has an offer of a folder for ever and one of a file with a password and
an expiry, and two links, the second made in place of the first. `Live` has one tab
of an admin and another member, two writes and a buffer of one, so that the
second write lags it, and two fetches in the air. `Startup` has one new release,
two faults (the second can meet the repair of the first), one edit, and three
configurations: a plain one with a bucket and a misplaced key, one whose bucket,
`listen` and header no scan sees, and one whose first header, as the scan takes
it, is the end of an array. `Identity` has two people, two
requests, and one change at im or one fault after the first sight. `SignIn` has
three flights over two tabs, two keys, and one fault
(a restart, a silence, a session that im ends) beside any number of sign-outs. Symmetry is declared over
ids, workers and tabs that are treated alike, and never in a run with liveness.

`CHECK_DEADLOCK FALSE` stands where a system may stop: a bound is used up, or
(`Shares`, `Links`) everything is purged and nobody asks.

Fairness. `Upload`: strong fairness of each worker's steps (`RequestStep`) and
of the beginning of the boot's prune, because steps wait for locks that others
take in between: tokio's mutex hands itself on in order, and a writer that waits
for the database's lock keeps trying for five seconds. A request that gives up
after that is `Abandon`, which needs no fairness. `Uploader`: weak fairness of
what answers a call, together: the server's step, the arrival of the answer, or
the network's cut; the script awaits one of them. `Live`: weak fairness of an
announcement that follows its commit, of the stream's and the browser's next
step, of an answer, and of a scheduled refresh; none of writers, of people or
of faults. `Identity`: weak fairness of requests and of the loops of the mirror
and of the family, which run as long as the process does; strong fairness of
the steps that take the write lock, and of the end of a stream, because
im closes each when its window is over (`in-web/src/main.rs:411` relies on it). A boot, a client's next call,
and a change at im are never assumed to happen.

What comments promise and the code does not quite keep. The modules state each as a
definition; no run asks for them, since the code does not keep them (of `Says`
the run and the theorem ask what is left, with the table that a header names):

| definition | what happens |
|---|---|
| `Library!PurgeSetsAreWholeSubtrees` | the candidates of `empty_trash` can miss a file of a folder they hold, and the purge is then refused whole |
| `Upload!FinishedSaysDone` | the prune's UPDATE has no state guard: a session that finished meanwhile ends as aborted |
| `Upload!AbortedStagesNothing` | a chunk vetted before an abort is written after it and makes the directory again |
| `Upload!ExpiredIsReleased` | nothing prunes between boots: an expired session holds its quota and its disk as long as the server runs |
| `Blobs!AcceptedIsKept` | a row written after an older database was put back makes everything that copy never heard of "older than the newest row" (two boots and three moments are needed) |
| `Startup!Says`, its first half alone | `complete` puts keys "never into another table" (`config.rs:636`) and `mentions_storage_table` is to keep a completed file parseable (`:684`): where the scans misread a line, as in `Completed` of a text with `["storage".r2]`, `storage.r2.bucket =`, a quoted key or an array over two lines, the completed file is refused by the next boot; below `[ oidc ]` the lines land in that table and are ignored |
| `Spans!Reply` | "a 206's `Content-Range` say[s] the clamped truth" (`files.rs:317`): a 206 of no bytes announces one, of an object shorter than its row |
| `Spans!CountedByLink` | "garbage" does not count (`share.rs:1078`): what follows the dash is not looked at, and a zero spelled `00` does not count where the signed-in route counts it |
| `Blobs!InFlightIsSpared` | the temp of a finish under way is an orphan to the sweep |

## Proofs

The properties are seldom inductive on their own. For each component an
invariant `IInv`, checked by TLC first and then proved, holds what makes them
so; the rest follows from it.

`LibraryProofs` proves that nothing live is under trash, that names differ (those
of pushed files apart), that folders are a forest and that a tree has one owner, the three action properties,
and that `Library` implements `Tree`. That a cascaded restore cannot make two
equal names (it checks the top's name only) needs `NamesDifferWithinStamp`: rows
of one stamp, parent and kind had different names when they were live, and
nothing but a push renames trash. That a restore is exact needs `OneTopPerStamp` (the rows
of a stamp form one tree) and `StampsAreFresh` (no stamp is taken twice, nor used
before its request uses it). The forest is stated over sets (every set of
folders has a member whose parent is outside), which a move preserves because
the destination is outside the subtree. For the refinement both modules'
subtrees are shown to be the same sets (`SubtreesAgree`), and each commit of a
request to be one step of `Tree` (`InsertIsInsert` and the lemmas after it): a
deletion takes the live part of a subtree whatever was read before it, a purge
that passes its foreign keys leaves no child behind.

`UploadProofs` proves that `used` counts what the rows hold, that growth fits the
quota, that a session becomes one file at most and that an abort is final. The
strengthening says who holds which lock at which step (`LocksAreHeld`), what a
finish that has vetted its session still knows of it (`VettedFits`), and that a
session with a file is settled (`SourcesAreSettled`). Usage is the cardinality
of a set of pairs (file, chunk), so that no sum has to be defined by recursion.
Two more invariants stand beside `IInv`: `RoomIsLeft`, that the claims a create
summed leave room for it until its row is there, because it holds the shared
connection and everything that adds a claim or lowers a quota waits for that
connection; and `TakenAreSettled`, that the directories a clean-up or a prune is
about to take are of settled sessions. Both are of claims, not of rows: a write
that commits between the sums and the INSERT is in neither, and a finish meets
it. `ClaimsFitQuota` and `ActiveKeepsChunks`
follow from them.

`UploaderProofs` proves that a script passes by only what the server holds, and
that a pick leaves one copy at most. `ScriptsAreSound` says that a script knows
only what is true of an active session, and that an answer on its way to it
still is when it arrives: staged pieces leave an active session never. Copies
are counted by `CopiesArePicked`: files, finishes that nobody waits for, and
scripts that have their finish still to send are together no more than the picks.

`BlobsProofs` proves that what the database knows keeps its bytes, that the sweep
spares active sessions and what is newer than the rows, that it is thorough, and
that a store on its own database implements `Drive`. The invariant says who
writes (`Holders`), that no two requests work on one file (`FilesApart`), what
each has put before its row (`FileOf`, `BytesOf`), how the rows and their copy
relate to what was accepted (`RowsHold`), and what a sweep knows, dooms and has
passed by (`DoomedOf`, `PassedOf`). Two things proved to need care: the sweep
holds the write lock, so that the rows it read stay as they are; a chunk request
takes no such lock, so a late chunk may fall into the directory of a settled
session between the look at its age and its removal, and `NewerIsKept` speaks of
files, thumbnails and temps only.

`SharesProofs` proves that nobody is served without a sufficient grant held
meanwhile, and that a climb is bounded. `HeldIsHeld` relates what a request has
read of grants to the best its user held since it began, through every commit of
the others; `QuestionsStand` says which question it may still have to ask;
`ChainIsSimple`, that a chain repeats no folder, bounds it by the number of
folders although the tree moves under it.

It also proves `AnswersAreOfOneMoment`: with one commit at most among its reads,
a request comes to what was right before that commit or what is right after it.
`Fated` is where a request leads if the world stands still from now on: what is
left of its walk, its grants and its questions, read as things are. While nothing
was committed (`Undisturbed`) the chain behind it and the live folders ahead are
all there is above the item (`OnItsWay`), so that `Fated` is what is right
(`UndisturbedIsRight`). The first commit falls into one of two kinds. A folder
that moves ahead of the climb shows it what is above the item now
(`MoveDisturbed`, by `PathStays`: what lies behind still leads to where it is, and
is not met again); any other commit shows it what was above before, or takes the
item itself away (`KeptDisturbed`). After it, every step keeps `Fated` as it is
(`GoesOnRight` and the lemmas after it), and the answer is `Fated`. The rule for
downloads asks twice, to see and then to download; that a grant for the one is a
grant for the other (`EnoughForLess`) is what keeps the two questions from
answering for two moments. The folders above one (`Anc`) are a least closed set,
not a recursion, and `Forest` says of parents that they have no circle; `SubIs`
relates them to the subtrees of the model.

`StartupProofs` covers `Reconcile` and `Startup`. `DatabaseInv` tells where the
rows are at each step of a rebuild: which files exist (`FilesAreThere`), whose
log lies where (`LogsAreTheirs`), and which of them hold the counted rows
(`CountedAreThere`). `KeyInv` says that what is sealed is sealed with the key in
the file, `ConfInv` that a text about to be written says what runs. That
completing a text changes no settings, the defaults of what it lacks included
(`CompletedReads`), is proved for every text of the model's lines. The lines of
the text keep their tables, whatever the scan took for a header, because the
block that is put in has none (`SplicedLines`); the block lies in one table. If
that is the top, the result is TOML only if the text did not have its keys in
another spelling; if it is another table, nothing there is obeyed. Where every
line is plain, the scan's headers are TOML's, and the result is TOML.

`IdentityProofs` proves that one person at most becomes administrator by the
bootstrap rule, and that a service has one account. Who has a transaction open
holds the write lock (`LocksAreHeld`), so that what it read is still so when it
commits (`ReadingsHold`), and the first one's row is never taken away
(`FirstsHaveRows`).

`Spans` proves, for every header and every 64-bit length, that an answered range
is exactly the bytes asked for that the file has (`SpanIsWhatIsAsked`), that both
homes of the bytes cut a span alike (`BackendsAgree`), that what is announced is
what is sent, except by a 206 of no bytes (`RepliesAreHonest`), and which
requests one route counts as downloads and the other does not
(`RoutesCountAlike`). The cases of the header are treated apart
and meet in one lemma (`SpanInFile`). There is nothing in it for TLC to run.

The assumptions are the named ASSUMEs of the modules: kinds of ids are disjoint,
owners are fixed, bounds are naturals, no lock is a request, im says something
of a person or nothing (`WordsType`), there is a user and an item (`IdsThere`),
and there are finitely many folder ids (`FoldersEnd`: they have 128 bits). The
bounds on clocks, boots, picks, faults and postfixes are constants there, and the
theorems hold for all of them.

Only model-checked: liveness (`RequestsEnd`, `BootReleasesExpired`, `PicksEnd`,
`RevokedTabsLeave`, `RowsFollowTheDirectory`, `CeilingFollowsFamily`), which is
out of the prover's reach; and so far everything about `Links`, `Live` and
`SignIn`.

## Not modelled

- Thumbnails, content sniffing, HTML, translation and style: pure computation or
  layout. Preferences, search, profile pictures: one statement on one row, or a
  read.
- The text of timestamps. `Rfc3339` trims the trailing zeros of the fraction
  (`store:964`), so that two stamps of one second may sort the wrong way round as
  text; moments are numbers here.
- A quota near 2^63 (`store:1237`), which is stored as a signed number and reads
  back as none.
- The cryptography of sealed addresses, cookies, passwords and tokens: right or
  wrong, sealed with this key or another.
- im, the identity provider, and the engine of the database: external, as the
  code uses them. Transactions are atomic and durable; a crash of the engine
  inside one is its own affair.
- The bodies of uploads and downloads in pieces, and a client that reads slowly.

## Plan

What is modelled is as far as the code's control goes; what is left is to prove
more of it: `VisitsAreOfOneMoment` of `Links`, for which the lemmas about `Anc`
in `SharesProofs` are what is needed, `ToldMeansClosed` of `Links`,
`NewsIsLostOnlyThere` of `Live`, and the types and the two properties of
`SignIn`.
