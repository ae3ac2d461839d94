-------------------------------- MODULE Links --------------------------------
(***************************************************************************)
(* The links an owner hands to anyone, composed with the tree they open    *)
(* (in-web/src/share.rs, and in-core/src/store/turso_store.rs beneath it). *)
(*                                                                         *)
(* Creating, revoking and reminting a link are statements one after the    *)
(* other, and a request may stop between any two.  A visit resolves the    *)
(* token, passes the gate of a password if there is one, then reads the    *)
(* target, the folders from the browsed one up to the target, the file and *)
(* what its bytes need, each in a statement of its own.                    *)
(*                                                                         *)
(* The setting row that seals a link's address is left out, but for the    *)
(* statement that deletes it, whose failure refuses a revocation; so are   *)
(* the pages, the byte ranges and the counting of downloads.  A password   *)
(* is right or wrong, and the proof of a right one is a cookie that is     *)
(* good for the one link whose token and hash it binds.                    *)
(***************************************************************************)
EXTENDS Tree, Integers, Sequences

CONSTANTS
    Link,      \* link ids, each with a token of its own
    Deed,      \* the owner's requests in flight
    Visitor,   \* the browsers that follow a link
    Offer,     \* what creations ask for: a subset of Terms
    Wants      \* what visits ask for: "card", "preview", "download"

Terms == [target : Node, download : BOOLEAN, locked : BOOLEAN,
          expiry : {"never", "ahead"}]

ASSUME OfferType == Offer \subseteq Terms
ASSUME WantsType == Wants \subseteq {"card", "preview", "download"}

VARIABLES
    link,      \* table share_link: status, and the terms of each row
    told,      \* history: the links whose owner was told they are dead
    deed,      \* what each request of the owner holds
    visit,     \* what each visit holds
    proofs     \* the links each browser carries the unlock cookie of

links == <<link, told, deed, visit, proofs>>
vars  == <<tree, links>>

Row == [status   : {"unborn", "open", "revoked", "purged"},
        target   : Node, download : BOOLEAN, locked : BOOLEAN,
        expiry   : {"never", "ahead", "past"}]

Step == {"vet", "insert", "kill", "unseal"}

Doing == [todo : Seq(Step), offer : Terms, old : SUBSET Link]

Visit == [step    : {"target", "walk", "file", "bytes", "list",
                     "served", "refused"},
          link    : Link,
          terms   : [target : Node, download : BOOLEAN],  \* of the row, as read
          wants   : Wants,
          shown   : BOOLEAN,             \* it carries the proof of the link
          at      : Folder,              \* the browsed folder
          cursor  : Folder \cup {Root},
          file    : File,
          before  : BOOLEAN,             \* history: what was right before it
          late    : BOOLEAN,             \* history: the owner had been told
          changes : 0..2]                \* history: commits since, two for many

LinksType ==
    /\ TreeType
    /\ link \in [Link -> Row]
    /\ told \subseteq Link
    /\ deed \in [Deed -> Doing]
    /\ visit \in [Visitor -> Visit]
    /\ proofs \in [Visitor -> SUBSET Link]

Anything == CHOOSE o \in Terms : TRUE
Rest == [todo |-> <<>>, offer |-> Anything, old |-> {}]
Home == CHOOSE f \in Folder : TRUE
TermsOf(o) == [target |-> o.target, download |-> o.download]

Away(step) == [step |-> step, link |-> CHOOSE l \in Link : TRUE,
               terms |-> TermsOf(Anything), wants |-> CHOOSE k \in Wants : TRUE,
               shown |-> FALSE, at |-> Home, cursor |-> Root, file |-> CHOOSE x \in File : TRUE,
               before |-> FALSE, late |-> FALSE, changes |-> 0]

RowOf(o, status) == [status |-> status, target |-> o.target, download |-> o.download,
                     locked |-> o.locked, expiry |-> o.expiry]

LinksInit ==
    /\ Grown
    /\ link = [l \in Link |-> RowOf(Anything, "unborn")]
    /\ told = {}
    /\ deed = [d \in Deed |-> Rest]
    /\ visit = [v \in Visitor |-> Away("refused")]
    /\ proofs = [v \in Visitor |-> {}]

-----------------------------------------------------------------------------

(* ShareLink::is_live.                                                     *)
IsLive(l) == link[l].status # "revoked" /\ link[l].expiry # "past"

(* resolve_share_link: the row the token names, if it is live.             *)
Resolved(l) == link[l].status \in {"open", "revoked"} /\ IsLive(l)

(* What a visit should be answered, if the world stood still.  A visit of  *)
(* a file link has no folder to browse and names no file but the target.   *)
InTarget(t, at) == Live(at) /\ at \in Sub(t)

Right(l, wants, shown, at, x) ==
    LET t == link[l].target IN
    /\ Resolved(l) /\ Live(t)
    /\ link[l].locked => shown
    /\ wants = "download" => link[l].download
    /\ t \in Folder =>
          /\ InTarget(t, at)
          /\ wants # "card" => Live(x) /\ parent[x] = at

Visiting(v) == visit[v].step \in {"target", "walk", "file", "bytes", "list"}

RightNow(q) == Right(q.link, q.wants, q.shown, q.at, q.file)

(* History of a visit: at the first commit, what was right until then.     *)
Noticed ==
    visit' = [v \in Visitor |->
        IF ~Visiting(v) THEN visit[v]
        ELSE [visit[v] EXCEPT !.changes = IF @ = 0 THEN 1 ELSE 2,
                              !.before = visit[v].changes = 0 /\ RightNow(visit[v])]]

-----------------------------------------------------------------------------
(* The owner's side.                                                       *)

TreeStep ==
    /\ \/ \E n \in Node : \E p \in (Folder \cup {Root}) \ {parent[n]} : Move(n, p)
       \/ \E n \in rows : Trash(n)
       \/ \E S \in SUBSET trashed : \E n \in S : Restore(n, S)
    /\ Noticed
    /\ UNCHANGED <<link, told, deed, proofs>>

(* The proof of a link that is dead for good opens nothing, and is dropped. *)
ForgetProofs(L) == proofs' = [v \in Visitor |-> proofs[v] \ L]

(* The purges delete the links of each row with it.                        *)
PurgeLinked(D) ==
    /\ D # {} /\ Purge(D)
    /\ link' = [l \in Link |->
          IF link[l].status \in {"open", "revoked"} /\ link[l].target \in D
          THEN RowOf(Anything, "purged") ELSE link[l]]
    /\ ForgetProofs({l \in Link : link[l].target \in D})
    /\ Noticed
    /\ UNCHANGED <<told, deed>>

(* The moment of expires_at passes.                                        *)
Expire(l) ==
    /\ link[l].status \in {"open", "revoked"} /\ link[l].expiry = "ahead"
    /\ link' = [link EXCEPT ![l].expiry = "past"]
    /\ Noticed
    /\ UNCHANGED <<tree, told, deed, proofs>>

Begin(d, t) ==
    /\ deed[d] = Rest
    /\ deed' = [deed EXCEPT ![d] = t]
    /\ UNCHANGED <<tree, link, told, visit, proofs>>

(* create_link up to the store: owned_target.                              *)
CreateLink(d, o) ==
    /\ Live(o.target)
    /\ \A l \in Link : link[l].status = "unborn"   \* bound: one, then its successors
    /\ Begin(d, [Rest EXCEPT !.todo = <<"vet", "insert">>, !.offer = o])

(* revoke_link: the id is among the caller's, live or not.                 *)
RevokeLink(d, l) ==
    /\ link[l].status \in {"open", "revoked"}
    /\ Begin(d, [Rest EXCEPT !.todo = <<"kill", "unseal">>, !.old = {l}])

(* Mutant: the old address is forgotten, the old link is not revoked.      *)
UnsealOnly == <<"vet", "insert", "unseal">>

(* Mutant: an expiry that has passed is carried over.                      *)
SameExpiry(e) == e

(* An elapsed expiry is dropped: it would mint a link dead on arrival.     *)
CarriedExpiry(e) == IF e = "ahead" THEN "ahead" ELSE "never"

(* remint_link: the old row's terms, whatever its status.                  *)
RemintSteps == <<"vet", "insert", "kill", "unseal">>

RemintLink(d, l) ==
    LET old == link[l] IN
    /\ old.status \in {"open", "revoked"}
    /\ Begin(d, [Rest EXCEPT !.todo = RemintSteps, !.old = {l},
                    !.offer = [target |-> old.target, download |-> old.download,
                               locked |-> old.locked,
                               expiry |-> CarriedExpiry(old.expiry)]])

Done(d)  == deed' = [deed EXCEPT ![d] = Rest]
Pop(d, o) == deed' = [deed EXCEPT ![d] = IF Len(@.todo) = 1 THEN Rest
                                         ELSE [@ EXCEPT !.todo = Tail(@), !.offer = o]]
At(d, s) == deed[d].todo # <<>> /\ Head(deed[d].todo) = s

(* create_share_link: target_owner.                                        *)
VetTarget(d) ==
    /\ At(d, "vet")
    /\ IF Live(deed[d].offer.target) THEN Pop(d, deed[d].offer) ELSE Done(d)
    /\ UNCHANGED <<tree, link, told, visit, proofs>>

(* create_share_link: the INSERT, whatever became of the target since.     *)
InsertLink(d, l) ==
    /\ At(d, "insert")
    /\ link[l].status = "unborn"
    /\ link' = [link EXCEPT ![l] = RowOf(deed[d].offer, "open")]
    /\ Pop(d, Anything)
    /\ Noticed
    /\ UNCHANGED <<tree, told, proofs>>

(* revoke_share_link: not found once purged; twice is no error.            *)
Kill(d) ==
    /\ At(d, "kill")
    /\ \E l \in deed[d].old :
          \/ /\ link[l].status = "purged"
             /\ Done(d)
             /\ UNCHANGED <<link, visit, proofs>>
          \/ /\ link[l].status # "purged"
             /\ link' = [link EXCEPT ![l].status = "revoked"]
             /\ ForgetProofs({l})
             /\ Pop(d, Anything)
             /\ Noticed
    /\ UNCHANGED <<tree, told>>

(* delete_setting of the old address, after which the owner is told.       *)
Unseal(d) ==
    /\ At(d, "unseal")
    /\ told' = told \cup deed[d].old
    /\ Done(d)
    /\ UNCHANGED <<tree, link, visit, proofs>>

(* A statement failed and the request was refused, or it was dropped.      *)
Refuse(d) ==
    /\ deed[d] # Rest
    /\ Done(d)
    /\ UNCHANGED <<tree, link, told, visit, proofs>>

-----------------------------------------------------------------------------
(* The visitor's side.                                                     *)

Go(v, q)       == visit' = [visit EXCEPT ![v] = q]
Answer(v, yes) == Go(v, Away(IF yes THEN "served" ELSE "refused"))

(* unlock_link: a live link and the right password; a wrong one, and a     *)
(* link without any, leave the browser as it was.  Between its visits: a   *)
(* visit carries the cookies it was sent with.                             *)
Unlock(v, l) ==
    /\ ~Visiting(v) /\ Resolved(l) /\ link[l].locked
    /\ proofs' = [proofs EXCEPT ![v] = @ \cup {l}]
    /\ UNCHANGED <<tree, link, told, deed, visit>>

(* The one check up front.                                                 *)
PassesGate(v, l) == link[l].locked => l \in proofs[v]

(* shared_link: the token resolves, and the gate of a password lets it by. *)
Resolve(v, l, wants, at, x) ==
    /\ ~Visiting(v) /\ link[l].status # "unborn"
    /\ link[l].target \in File => x = link[l].target /\ at = Home  \* not asked
    /\ IF Resolved(l) /\ PassesGate(v, l)
       THEN Go(v, [Away("target") EXCEPT
                      !.link = l, !.terms = TermsOf(link[l]), !.wants = wants,
                      !.shown = l \in proofs[v],
                      !.at = at, !.cursor = at, !.file = x, !.late = l \in told])
       ELSE Answer(v, FALSE)
    /\ UNCHANGED <<tree, link, told, deed, proofs>>

(* file_card, public_thumb and media_bytes for every link; download_bytes  *)
(* for those whose owner allows it.                                        *)
Deliver(v) ==
    LET q == visit[v] IN
    \/ q.wants = "card" /\ Answer(v, TRUE)
    \/ q.wants = "download" /\ ~q.terms.download /\ Answer(v, FALSE)
    \/ /\ q.wants = "preview" \/ (q.wants = "download" /\ q.terms.download)
       /\ Go(v, [q EXCEPT !.step = "bytes"])

(* The target's row; the card of a file is answered at once.  The link is  *)
(* the row that was read when the token resolved: its terms never change.  *)
LookAtTarget(v) ==
    LET q == visit[v]
        t == q.terms.target
    IN /\ q.step = "target"
       /\ \/ ~Live(t) /\ Answer(v, FALSE)
          \/ Live(t) /\ t \in File /\ Deliver(v)
          \/ Live(t) /\ t \in Folder /\ Go(v, [q EXCEPT !.step = "walk"])
       /\ UNCHANGED <<tree, link, told, deed, proofs>>

(* under_target: one folder up, each live, until the target is met.        *)
Walk(v) ==
    LET q == visit[v] IN
    /\ q.step = "walk"
    /\ \/ /\ q.cursor = q.terms.target
          /\ Go(v, [q EXCEPT !.step = IF q.wants = "card" THEN "list" ELSE "file"])
       \/ /\ q.cursor # q.terms.target
          /\ q.cursor \in Folder /\ Live(q.cursor)
          /\ Go(v, [q EXCEPT !.cursor = parent[q.cursor]])
       \/ /\ q.cursor # q.terms.target
          /\ ~(q.cursor \in Folder /\ Live(q.cursor))
          /\ Answer(v, FALSE)
    /\ UNCHANGED <<tree, link, told, deed, proofs>>

(* folder_card: the browsed folder's row once more.                        *)
ListFolder(v) ==
    /\ visit[v].step = "list"
    /\ Answer(v, visit[v].at \in rows)
    /\ UNCHANGED <<tree, link, told, deed, proofs>>

(* Mutant: any live file, wherever it is.                                  *)
LookAtAnyFile(v) ==
    /\ visit[v].step = "file"
    /\ IF Live(visit[v].file) THEN Deliver(v) ELSE Answer(v, FALSE)
    /\ UNCHANGED <<tree, link, told, deed, proofs>>

(* The file the query names: live, in the browsed folder.                  *)
LookAtFile(v) ==
    LET q == visit[v] IN
    /\ q.step = "file"
    /\ IF /\ Live(q.file) /\ parent[q.file] = q.at
          /\ Owner[q.file] = Owner[q.terms.target]
       THEN Deliver(v) ELSE Answer(v, FALSE)
    /\ UNCHANGED <<tree, link, told, deed, proofs>>

(* bytes_response and thumb_bytes: served while the file has a row, in the *)
(* trash or not; a purge in between is the dead card.                      *)
ReadBytes(v) ==
    /\ visit[v].step = "bytes"
    /\ Answer(v, visit[v].file \in rows)
    /\ UNCHANGED <<tree, link, told, deed, proofs>>

LinksNext ==
    \/ TreeStep
    \/ \E D \in SUBSET trashed : PurgeLinked(D)
    \/ \E l \in Link : Expire(l)
    \/ \E d \in Deed :
          \/ \E o \in Offer : CreateLink(d, o)
          \/ \E l \in Link : RevokeLink(d, l) \/ RemintLink(d, l) \/ InsertLink(d, l)
          \/ VetTarget(d) \/ Kill(d) \/ Unseal(d) \/ Refuse(d)
    \/ \E v \in Visitor :
          \/ \E l \in Link :
                \/ \E wants \in Wants, at \in Folder, x \in File :
                      Resolve(v, l, wants, at, x)
          \/ LookAtTarget(v) \/ Walk(v) \/ ListFolder(v) \/ LookAtFile(v) \/ ReadBytes(v)
          \/ \E l \in Link : Unlock(v, l)

LinksSpec == LinksInit /\ [][LinksNext]_vars

-----------------------------------------------------------------------------
(* Properties.                                                             *)

Answers(v) == Visiting(v) /\ ~Visiting(v)'
Served(v)  == visit'[v].step = "served"

(* A visit reads the link, the target, the folders and the file in as many *)
(* statements, while the owner moves, deletes and revokes.  With one such  *)
(* change in between, at most, its answer is the right one before or after.*)
VisitsAreOfOneMoment ==
    [][\A v \in Visitor : LET q == visit[v] IN
          Answers(v) /\ q.changes < 2 =>
              Served(v) = RightNow(q) \/ (q.changes = 1 /\ Served(v) = q.before)]_vars

(* Once the owner was told that a link is revoked or replaced, no visit    *)
(* that begins afterwards is served by it, whatever other requests of the  *)
(* owner do with the same link, restores and failures included.            *)
ToldMeansClosed ==
    [][\A v \in Visitor : ~(Served(v) /\ Answers(v) /\ visit[v].late)]_vars
=============================================================================
