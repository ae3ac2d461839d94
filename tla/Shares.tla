------------------------------- MODULE Shares -------------------------------
(***************************************************************************)
(* The files and folders an owner shares with other users, composed with   *)
(* the tree they hang in (in-core/src/store/turso_store.rs, and the routes *)
(* of in-web/src/share.rs, drive.rs and files.rs that ask).                *)
(*                                                                         *)
(* A grant covers its target and all that is under it, now: no row says    *)
(* who may open a file, a request climbs from it to the root.  The climb   *)
(* holds the connection grants are written on, not the tree, whose         *)
(* transactions have connections of their own and commit between two of    *)
(* its reads.  Before the climb each read takes the connection for itself. *)
(*                                                                         *)
(* A request of several people is a request for each of them in turn, and  *)
(* what they are called, and the pages, are left out.                      *)
(***************************************************************************)
EXTENDS Tree, Integers, Sequences

CONSTANTS
    Reader,   \* the requests that may be climbing at once
    Free,     \* nobody holds the shared connection
    Offer     \* what an owner shares: items, each to see or to download

ASSUME NobodyReads == Free \notin Reader
ASSUME IdsThere    == User # {} /\ Node # {}
ASSUME KindsApart  == Folder \cap File = {} /\ Root \notin Node   \* NULL is no id
ASSUME FoldersEnd  == IsFiniteSet(Folder)   \* ids are ULIDs, of 128 bits

VARIABLES
    grants,   \* share_user: NoGrant, View or Download, by target and user
    vetted,   \* add_share requests between their check and their UPSERT
    ask,      \* what each request holds in its local variables
    conn      \* who holds the shared connection across statements

shares == <<grants, vetted, ask, conn>>
vars   == <<tree, shares>>

NoGrant == 0
View == 1        \* can_download = 0
Download == 2

ASSUME OfferType == Offer \subseteq Node \X {View, Download}

Ask == [op      : {"preview", "download", "browse"},
        user    : User,
        node    : Node,
        step    : {"idle", "reach", "vet", "climb", "read", "bytes",
                   "served", "refused"},
        needs   : Seq({View, Download}),  \* can_see, can_download: still to hold
        cursor  : Folder \cup {Root},
        chain   : Seq(Node),
        best    : NoGrant..Download,
        before  : BOOLEAN,                \* history: what was right before it
        held    : NoGrant..Download,      \* history: the best grant on anything
        changes : 0..2]                   \* history: commits since, two for many

SharesType ==
    /\ TreeType
    /\ grants \in [Node -> [User -> NoGrant..Download]]
    /\ vetted \subseteq Node \X User \X {View, Download}
    /\ ask \in [Reader -> Ask]
    /\ conn \in Reader \cup {Free}

Rest(step) == [op |-> "preview", user |-> CHOOSE u \in User : TRUE,
               node |-> CHOOSE n \in Node : TRUE, step |-> step, needs |-> <<>>,
               cursor |-> Root, chain |-> <<>>, best |-> NoGrant,
               before |-> FALSE, held |-> NoGrant, changes |-> 0]

SharesInit ==
    /\ Grown
    /\ grants = [n \in Node |-> [u \in User |-> NoGrant]]
    /\ vetted = {}
    /\ ask = [r \in Reader |-> Rest("idle")]
    /\ conn = Free

-----------------------------------------------------------------------------

Greater(a, b) == IF a < b THEN b ELSE a
Best(S)       == CHOOSE a \in S : \A b \in S : b <= a

(* What a request should be told, if the world stood still.                *)
Above(n)    == {a \in rows : n \in Sub(a)}
Level(u, n) == Best({NoGrant} \cup {grants[a][u] : a \in Above(n)})

Right(op, u, n) ==
    IF u = Owner[n] THEN n \in rows /\ (op = "preview" \/ Live(n))
    ELSE Live(n) /\ Level(u, n) >= (IF op = "download" THEN Download ELSE View)

Busy(r) == ask[r].step \in {"reach", "vet", "climb", "read", "bytes"}

RightNow(q) == Right(q.op, q.user, q.node)

(* History of the requests under way: a commit, of a grant of level l for  *)
(* u or of anything else; and what was right until the first one.          *)
Noticed(u, l) ==
    ask' = [r \in Reader |->
        IF ~Busy(r) THEN ask[r]
        ELSE [ask[r] EXCEPT !.changes = IF @ = 0 THEN 1 ELSE 2,
                            !.before = ask[r].changes = 0 /\ RightNow(ask[r]),
                            !.held = IF ask[r].user = u THEN Greater(@, l) ELSE @]]

-----------------------------------------------------------------------------
(* The owner's side.                                                       *)

TreeStep ==
    /\ \/ \E n \in Node : \E p \in (Folder \cup {Root}) \ {parent[n]} : Move(n, p)
       \/ \E n \in Folder : Trash(n)
       \/ conn = Free /\ \E n \in File : Trash(n)   \* on the shared connection
       \/ \E S \in SUBSET trashed : \E n \in S : Restore(n, S)
    /\ Noticed(Root, NoGrant)
    /\ UNCHANGED <<grants, vetted, conn>>

(* The purges delete the grants of each row with it.                       *)
PurgeShared(D) ==
    /\ D # {} /\ Purge(D)
    /\ grants' = [n \in Node |-> IF n \in D THEN [u \in User |-> NoGrant] ELSE grants[n]]
    /\ Noticed(Root, NoGrant)
    /\ UNCHANGED <<vetted, conn>>

(* add_share: the owner of a live target, someone else to share it with.   *)
Vet(n, u, l) ==
    /\ conn = Free
    /\ <<n, l>> \in Offer /\ Live(n) /\ u # Owner[n]
    /\ vetted = {}       \* bound: one at a time
    /\ vetted' = {<<n, u, l>>}
    /\ UNCHANGED <<tree, grants, ask, conn>>

(* The UPSERT, whatever became of the target since.                        *)
Grant(n, u, l) ==
    /\ conn = Free
    /\ <<n, u, l>> \in vetted
    /\ vetted' = vetted \ {<<n, u, l>>}
    /\ grants' = [grants EXCEPT ![n][u] = l]
    /\ Noticed(u, l)
    /\ UNCHANGED <<tree, conn>>

(* remove_share: the target may be in the trash.                           *)
Unshare(n, u) ==
    /\ conn = Free
    /\ n \in rows
    /\ grants[n][u] # NoGrant
    /\ grants' = [grants EXCEPT ![n][u] = NoGrant]
    /\ Noticed(Root, NoGrant)
    /\ UNCHANGED <<tree, vetted, conn>>

-----------------------------------------------------------------------------
(* The requests that ask.                                                  *)

Go(r, q)      == ask' = [ask EXCEPT ![r] = q]
Answer(r, yes) == Go(r, Rest(IF yes THEN "served" ELSE "refused"))

Question(op, u, n, step) ==
    [Rest(step) EXCEPT
        !.op = op, !.user = u, !.node = n, !.cursor = parent[n],
        !.needs = IF op = "download" THEN <<View, Download>> ELSE <<View>>,
        !.held = Best({NoGrant} \cup {grants[m][u] : m \in Node})]

(* visible_file, download and thumb: the row is read first.  The owner     *)
(* needs no grant, and looks at trash but takes none away.                 *)
OpenFile(r, op, u, n) ==
    /\ ~Busy(r) /\ conn = Free
    /\ IF n \in rows /\ u = Owner[n]
       THEN IF op = "preview" \/ Live(n)
            THEN Go(r, Question(op, u, n, "bytes")) ELSE Answer(r, FALSE)
       ELSE IF Live(n) THEN Go(r, Question(op, u, n, "vet")) ELSE Answer(r, FALSE)
    /\ UNCHANGED <<tree, grants, vetted, conn>>

(* current_folder, granted_folder: a live folder, then the ancestors.      *)
OpenFolder(r, u, n) ==
    /\ ~Busy(r) /\ conn = Free
    /\ IF Live(n) THEN Go(r, Question("browse", u, n, "reach")) ELSE Answer(r, FALSE)
    /\ UNCHANGED <<tree, grants, vetted, conn>>

(* One folder of that walk: each must be live, up to the top.              *)
Reach(r) ==
    LET q == ask[r] IN
    /\ q.step = "reach" /\ conn = Free
    /\ \/ q.cursor = Root /\ q.user = Owner[q.node] /\ Answer(r, TRUE)
       \/ q.cursor = Root /\ q.user # Owner[q.node] /\ Go(r, [q EXCEPT !.step = "vet"])
       \/ q.cursor \in Folder /\ Live(q.cursor)
             /\ Go(r, [q EXCEPT !.cursor = parent[q.cursor]])
       \/ q.cursor \in Folder /\ ~Live(q.cursor) /\ Answer(r, FALSE)
    /\ UNCHANGED <<tree, grants, vetted, conn>>

(* can_see, can_download: row_owner and target_owner.                      *)
VetTarget(r) ==
    LET q == ask[r] IN
    /\ q.step = "vet" /\ conn = Free
    /\ IF Live(q.node)
       THEN /\ conn' = r
            /\ Go(r, [q EXCEPT !.step = "climb", !.chain = <<>>, !.best = NoGrant])
       ELSE Answer(r, FALSE) /\ UNCHANGED conn
    /\ UNCHANGED <<tree, grants, vetted>>

(* effective_grant takes the connection and starts at the target, or at    *)
(* the folder the file is in by now.                                       *)
Start(r) ==
    LET q == ask[r] IN
    /\ q.step = "climb" /\ q.chain = <<>>
    /\ Go(r, [q EXCEPT !.chain = <<q.node>>,
                       !.cursor = IF q.node \in Folder THEN q.node ELSE parent[q.node]])
    /\ UNCHANGED <<tree, grants, vetted, conn>>

Visited(q) == {q.chain[i] : i \in 2..Len(q.chain)}

(* Mutant: no visited set.                                                 *)
ClimbOnTrust(r) ==
    LET q == ask[r] IN
    /\ q.step = "climb" /\ q.chain # <<>>
    /\ Go(r, IF q.cursor \in Folder /\ Live(q.cursor)
             THEN [q EXCEPT !.chain = Append(@, q.cursor), !.cursor = parent[q.cursor]]
             ELSE [q EXCEPT !.step = "read"])
    /\ UNCHANGED <<tree, grants, vetted, conn>>

(* One folder up: live, and not met before.                                *)
Climb(r) ==
    LET q == ask[r] IN
    /\ q.step = "climb" /\ q.chain # <<>>
    /\ Go(r, IF q.cursor \in Folder \ Visited(q) /\ Live(q.cursor)
             THEN [q EXCEPT !.chain = Append(@, q.cursor), !.cursor = parent[q.cursor]]
             ELSE [q EXCEPT !.step = "read"])
    /\ UNCHANGED <<tree, grants, vetted, conn>>

(* Mutants: the nearest grant decides; any grant opens the bytes.          *)
NearestWins(best, l) == IF best # NoGrant THEN best ELSE l
Suffices(best, need) == best # NoGrant

(* Most permissive wins.                                                   *)
Combined(best, l) == Greater(best, l)
Opens(best, need) == best >= need

(* One grant on the chain; after the last, the verdict.  A yes to can_see  *)
(* may have can_download to follow, which asks all over again.             *)
ReadGrant(r) ==
    LET q     == ask[r]
        best  == Combined(q.best, grants[Head(q.chain)][q.user])
        yes   == Opens(best, Head(q.needs))
    IN
    /\ q.step = "read"
    /\ IF Len(q.chain) > 1
       THEN Go(r, [q EXCEPT !.best = best, !.chain = Tail(q.chain)]) /\ UNCHANGED conn
       ELSE /\ conn' = Free
            /\ IF yes /\ Len(q.needs) > 1
               THEN Go(r, [q EXCEPT !.step = "vet", !.needs = Tail(q.needs)])
               ELSE IF yes /\ q.node \in File
               THEN Go(r, [Rest("bytes") EXCEPT !.op = q.op, !.user = q.user,
                              !.node = q.node, !.held = q.held,
                              !.before = q.before, !.changes = q.changes])
               ELSE Answer(r, yes)
    /\ UNCHANGED <<tree, grants, vetted>>

(* bytes_response and thumb_bytes: the row once more, in the trash or not. *)
ReadBytes(r) ==
    /\ ask[r].step = "bytes" /\ conn = Free
    /\ Answer(r, ask[r].node \in rows)
    /\ UNCHANGED <<tree, grants, vetted, conn>>

SharesNext ==
    \/ TreeStep
    \/ \E D \in SUBSET trashed : PurgeShared(D)
    \/ \E n \in Node, u \in User :
          \/ Unshare(n, u)
          \/ \E l \in {View, Download} : Vet(n, u, l) \/ Grant(n, u, l)
    \/ \E r \in Reader :
          \/ \E u \in User :
                \/ \E n \in File, op \in {"preview", "download"} : OpenFile(r, op, u, n)
                \/ \E n \in Folder : OpenFolder(r, u, n)
          \/ Reach(r) \/ VetTarget(r) \/ Start(r) \/ Climb(r) \/ ReadGrant(r)
          \/ ReadBytes(r)

SharesSpec == SharesInit /\ [][SharesNext]_vars

-----------------------------------------------------------------------------
(* Properties.                                                             *)

Answers(r) == Busy(r) /\ ~Busy(r)'
Yes(r)     == ask'[r].step = "served"

(* A request reads the tree and the grants in up to a dozen statements.    *)
(* If nothing, or one change, commits among them, its answer is the right  *)
(* one before that change or after it: never a mixture of the two.         *)
AnswersAreOfOneMoment ==
    [][\A r \in Reader : LET q == ask[r] IN
          Answers(r) /\ q.changes < 2 =>
              Yes(r) = RightNow(q) \/ (q.changes = 1 /\ Yes(r) = q.before)]_vars

(* Whatever moved meanwhile, nobody is served on a grant of another person *)
(* or of a lower kind, nor on one withdrawn before the request began: the  *)
(* user held a sufficient grant on something while the request ran.        *)
YesNeedsAGrant ==
    [][\A r \in Reader : LET q == ask[r] IN
          Answers(r) /\ Yes(r) /\ q.user # Owner[q.node] =>
              q.held >= (IF q.op = "download" THEN Download ELSE View)]_vars

(* The climb holds the connection every other request waits for, so it     *)
(* must end: folders moved under its feet can make it walk in a circle     *)
(* that never existed, and the visited set stops it.                       *)
ClimbIsBounded ==
    \A r \in Reader : Len(ask[r].chain) <= Cardinality(Folder) + 1
=============================================================================
