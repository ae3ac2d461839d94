------------------------------ MODULE Identity ------------------------------
(***************************************************************************)
(* The local rows of people and services, and who writes them: sign-ins    *)
(* provision a row on sight, the mirror of im's directory repeats a full   *)
(* pass and a stream of events, the family beat sets the ceilings of       *)
(* services, and an administrator disables people, mints, rotates and      *)
(* revokes service keys and sets quotas (in-web main.rs, server.rs,        *)
(* settings.rs, service.rs; store/turso_store.rs; in-client lib.rs).       *)
(*                                                                         *)
(* im is external: it holds a word on each person and on the ceiling of    *)
(* the service, answers when asked, and may fail to.                       *)
(***************************************************************************)
EXTENDS Naturals, Sequences, FiniteSets

CONSTANTS
    Sub,         \* the people im knows
    Words,       \* what im may say of a person: [face, admin, disabled]
    Limits,      \* ceilings of a service
    House,       \* the ceiling of a fresh account
    None,        \* no row, no key
    MaxVisits,   \* bound: requests, in the order they come
    MaxUpsets    \* bound: changes at im, and writes and readings that fail

ASSUME IdentityAssumption ==
    /\ MaxVisits \in Nat /\ MaxUpsets \in Nat
    /\ House \in Limits /\ None \notin Limits

Worker == 1..MaxVisits
Sync == 0
Free == MaxVisits + 1
Faces == { w.face : w \in Words }
Person == [face : Faces, admin : BOOLEAN, disabled : BOOLEAN]

ASSUME WordsType == Words \subseteq Person /\ None \notin Person

VARIABLES
    word,      \* im: its word on each person
    limit,     \* im: its word on the service's ceiling
    row,       \* per person: the local row or None
    firsts,    \* people made administrator by the bootstrap rule
    lock,      \* who holds the database's write lock
    req,       \* per request: where it is, whose it is, what it read
    visits,    \* requests made
    sync,      \* the mirror: where it is, the members it has yet to file
    events,    \* the directory's stream: what is on its way to the mirror
    beat,      \* the family beat: the ceiling it fetched, and what it knows
    accounts,  \* rows under the service's name
    key,       \* the service's key is filed
    ceiling,   \* of the service's account
    upsets

im == <<word, limit>>
people == <<row, firsts>>
service == <<accounts, key, ceiling>>
vars == <<im, people, lock, req, visits, sync, events, beat, service, upsets>>

Idle == [pc |-> "idle", sub |-> None, face |-> None, empty |-> FALSE]

Request == [pc : {"idle", "asked", "begun", "admin", "minting", "minted", "pricing"},
            sub : Sub \cup {None}, face : Faces \cup {None}, empty : BOOLEAN]
Event == [sub : Sub, word : Words]
Reader == [pc : {"pass", "mirror", "begun", "disable"},
           todo : SUBSET Event, empty : BOOLEAN, open : BOOLEAN]

IdentityType ==
    /\ word \in [Sub -> Words] /\ limit \in Limits
    /\ row \in [Sub -> Person \cup {None}] /\ firsts \subseteq Sub
    /\ lock \in Worker \cup {Sync, Free}
    /\ req \in [Worker -> Request] /\ visits \in 0..MaxVisits
    /\ \A w \in Worker : req[w].pc # "idle" =>
          req[w].sub \in Sub /\ (req[w].pc \in {"asked", "begun"} => req[w].face \in Faces)
    /\ sync \in Reader /\ events \in Seq(Event)
    /\ beat \in [limit : Limits, keyed : BOOLEAN] \cup {None}
    /\ accounts \in Nat /\ key \in BOOLEAN /\ ceiling \in Limits
    /\ upsets \in 0..MaxUpsets

Upset == upsets < MaxUpsets /\ upsets' = upsets + 1

-----------------------------------------------------------------------------
(* im.                                                                     *)

\* The word changes, and the stream carries it if it is open.
ChangeWord(s) ==
    /\ Upset
    /\ \E w \in Words \ {word[s]} :
         /\ word' = [word EXCEPT ![s] = w]
         /\ events' = IF sync.open THEN Append(events, [sub |-> s, word |-> w]) ELSE events
    /\ UNCHANGED <<limit, people, lock, req, visits, sync, beat, service>>

ChangeLimit ==
    /\ Upset
    /\ limit' \in Limits \ {limit}
    /\ UNCHANGED <<word, people, lock, req, visits, sync, events, beat, service>>

-----------------------------------------------------------------------------
(* provision_user: the row follows the sight of a person. admin is the     *)
(* directory's word on the flag, or None when the sight says nothing.      *)

NoRows == \A s \in Sub : row[s] = None

\* Mutant: a deferred transaction, which reads before it has the lock.
BeginDeferred(p) == lock' = lock

\* BEGIN IMMEDIATE waits for the write lock; what the transaction reads then
\* stays as it is until its commit.
Begin(p) == lock = Free /\ lock' = p

Commit(p) == lock' = IF lock = p THEN Free ELSE lock

Provision(s, face, admin, empty) ==
    LET old == row[s]
        told == admin # None
        first == old = None /\ ~told /\ empty
    IN
    /\ row' = [row EXCEPT ![s] = IF old = None
         THEN [face |-> face, disabled |-> FALSE,
               admin |-> IF told THEN admin ELSE empty]
         ELSE [face |-> face, disabled |-> old.disabled,
               admin |-> IF told THEN admin ELSE old.admin]]
    /\ firsts' = IF first THEN firsts \cup {s} ELSE firsts

-----------------------------------------------------------------------------
(* Requests.                                                               *)

Step(w, pc) == req' = [req EXCEPT ![w].pc = pc]

\* The cookie's session is introspected: im's claims at this moment.
Introspect(w) ==
    /\ w = visits + 1 /\ visits' = w
    /\ \E s \in Sub : req' = [req EXCEPT ![w] =
         [pc |-> "asked", sub |-> s, face |-> word[s].face, empty |-> FALSE]]
    /\ UNCHANGED <<im, people, lock, sync, events, beat, service, upsets>>

BeginSight(w) ==
    /\ req[w].pc = "asked"
    /\ Begin(w)
    /\ req' = [req EXCEPT ![w].pc = "begun", ![w].empty = NoRows]
    /\ UNCHANGED <<im, people, visits, sync, events, beat, service, upsets>>

\* current_user and require_admin: a disabled person reads as nobody, and what
\* the request may do is settled here, by the row as it is.
CommitSight(w) ==
    /\ req[w].pc = "begun" /\ lock \in {w, Free}
    /\ Commit(w)
    /\ Provision(req[w].sub, req[w].face, None, req[w].empty)
    /\ LET mine == row'[req[w].sub] IN
       \/ req' = [req EXCEPT ![w] = Idle]
       \/ /\ mine.admin /\ ~mine.disabled
          /\ req' = [req EXCEPT ![w] = [Idle EXCEPT !.pc = "admin", !.sub = req[w].sub]]
    /\ UNCHANGED <<im, visits, sync, events, beat, service, upsets>>

\* The settings page: anybody's account but one's own.
DisableUser(w) ==
    /\ req[w].pc = "admin" /\ lock = Free
    /\ \E t \in Sub \ {req[w].sub}, disabled \in BOOLEAN :
         /\ row[t] # None
         /\ row' = [row EXCEPT ![t].disabled = disabled]
    /\ req' = [req EXCEPT ![w] = Idle]
    /\ UNCHANGED <<im, firsts, lock, visits, sync, events, beat, service, upsets>>

\* A service is minted when no key is filed; the form's gate and the mint are
\* apart. The account outlives its keys and is made when there is none.
MintGate(w) ==
    /\ req[w].pc = "admin" /\ ~key
    /\ Step(w, "minting")
    /\ UNCHANGED <<im, people, lock, visits, sync, events, beat, service, upsets>>

MintBegin(w) ==
    /\ req[w].pc = "minting"
    /\ Begin(w)
    /\ req' = [req EXCEPT ![w].pc = "minted", ![w].empty = (accounts = 0)]
    /\ UNCHANGED <<im, people, visits, sync, events, beat, service, upsets>>

\* One key per service: the second insertion breaks the index and the
\* transaction with it. A fresh account has the house ceiling.
MintCommit(w) ==
    /\ req[w].pc = "minted" /\ lock \in {w, Free}
    /\ Commit(w)
    /\ req' = [req EXCEPT ![w] = Idle]
    /\ IF key THEN UNCHANGED service
       ELSE /\ key' = TRUE
            /\ accounts' = IF req[w].empty THEN accounts + 1 ELSE accounts
            /\ ceiling' = IF req[w].empty THEN House ELSE ceiling
    /\ UNCHANGED <<im, people, visits, sync, events, beat, upsets>>

\* Rotating replaces the key where there is one, and changes nothing else.
RotateKey(w) ==
    /\ req[w].pc = "admin" /\ lock = Free /\ key
    /\ req' = [req EXCEPT ![w] = Idle]
    /\ UNCHANGED <<im, people, lock, visits, sync, events, beat, service, upsets>>

RevokeKey(w) ==
    /\ req[w].pc = "admin" /\ lock = Free /\ key
    /\ key' = FALSE
    /\ req' = [req EXCEPT ![w] = Idle]
    /\ UNCHANGED <<im, people, lock, visits, sync, events, beat, accounts,
                   ceiling, upsets>>

\* A service's ceiling is im's to set: refused while a key is filed, unless the
\* list of keys could not be read.
QuotaGate(w) ==
    /\ req[w].pc = "admin" /\ accounts > 0
    /\ \/ ~key /\ UNCHANGED upsets
       \/ key /\ Upset
    /\ Step(w, "pricing")
    /\ UNCHANGED <<im, people, lock, visits, sync, events, beat, service>>

SetQuota(w) ==
    /\ req[w].pc = "pricing" /\ lock = Free
    /\ ceiling' \in Limits
    /\ req' = [req EXCEPT ![w] = Idle]
    /\ UNCHANGED <<im, people, lock, visits, sync, events, beat, accounts, key,
                   upsets>>

-----------------------------------------------------------------------------
(* The mirror of the directory.                                            *)

\* The full list, as im holds it at this moment.
Pass ==
    /\ sync.pc = "pass"
    /\ sync' = [pc |-> "mirror", empty |-> FALSE, open |-> FALSE,
                todo |-> { [sub |-> s, word |-> word[s]] : s \in Sub }]
    /\ UNCHANGED <<im, people, lock, req, visits, events, beat, service, upsets>>

Current == CHOOSE m \in sync.todo : TRUE
Filed == [sync EXCEPT !.pc = "mirror", !.todo = @ \ {Current}, !.empty = FALSE]

\* mirror_member's first write.
MirrorBegin ==
    /\ sync.pc = "mirror" /\ sync.todo # {}
    /\ Begin(Sync)
    /\ sync' = [sync EXCEPT !.pc = "begun", !.empty = NoRows]
    /\ UNCHANGED <<im, people, req, visits, events, beat, service, upsets>>

MirrorCommit ==
    /\ sync.pc = "begun" /\ lock \in {Sync, Free}
    /\ Commit(Sync)
    /\ Provision(Current.sub, Current.word.face, Current.word.admin, sync.empty)
    /\ sync' = IF row'[Current.sub].disabled = Current.word.disabled THEN Filed
               ELSE [sync EXCEPT !.pc = "disable", !.empty = FALSE]
    /\ UNCHANGED <<im, req, visits, events, beat, service, upsets>>

\* Its second one, decided by the row that the first returned.
MirrorDisabled ==
    /\ sync.pc = "disable" /\ lock = Free
    /\ row' = [row EXCEPT ![Current.sub].disabled = Current.word.disabled]
    /\ sync' = Filed
    /\ UNCHANGED <<im, firsts, lock, req, visits, events, beat, service, upsets>>

\* A write that fails is a line in the log; the next member is filed.
MirrorFails ==
    /\ sync.pc \in {"begun", "disable"} /\ Upset
    /\ Commit(Sync)
    /\ sync' = Filed
    /\ UNCHANGED <<im, people, req, visits, events, beat, service>>

OpenStream ==
    /\ sync.pc = "mirror" /\ sync.todo = {} /\ ~sync.open
    /\ sync' = [sync EXCEPT !.open = TRUE]
    /\ UNCHANGED <<im, people, lock, req, visits, events, beat, service, upsets>>

HearEvent ==
    /\ sync.pc = "mirror" /\ sync.todo = {} /\ sync.open /\ events # <<>>
    /\ sync' = [sync EXCEPT !.todo = {Head(events)}]
    /\ events' = Tail(events)
    /\ UNCHANGED <<im, people, lock, req, visits, beat, service, upsets>>

\* Mutant: the stream is dialled again without a pass.
Redial ==
    /\ sync.pc = "mirror" /\ sync.todo = {} /\ sync.open
    /\ sync' = [sync EXCEPT !.open = FALSE]
    /\ events' = <<>>
    /\ UNCHANGED <<im, people, lock, req, visits, beat, service, upsets>>

\* The window closes, im restarts, the network fails or the reader lags: what
\* was on its way is gone, and the loop begins again with a pass.
StreamEnds ==
    /\ sync.pc = "mirror" /\ sync.todo = {} /\ sync.open
    /\ sync' = [sync EXCEPT !.pc = "pass", !.open = FALSE]
    /\ events' = <<>>
    /\ UNCHANGED <<im, people, lock, req, visits, beat, service, upsets>>

StreamRefused ==
    /\ sync.pc = "mirror" /\ sync.todo = {} /\ ~sync.open
    /\ sync' = [sync EXCEPT !.pc = "pass"]
    /\ UNCHANGED <<im, people, lock, req, visits, events, beat, service, upsets>>

-----------------------------------------------------------------------------
(* The family beat.                                                        *)

FetchFamily ==
    /\ beat = None
    /\ beat' = [limit |-> limit, keyed |-> FALSE]
    /\ UNCHANGED <<im, people, lock, req, visits, sync, events, service, upsets>>

\* Without a key there is no account to set a ceiling for.
FindKey ==
    /\ beat # None /\ ~beat.keyed
    /\ beat' = IF key THEN [beat EXCEPT !.keyed = TRUE] ELSE None
    /\ UNCHANGED <<im, people, lock, req, visits, sync, events, service, upsets>>

\* Mutant: a ceiling is only ever raised.
ApplyLimitUpwards ==
    /\ beat # None /\ beat.keyed /\ lock = Free
    /\ ceiling' = IF beat.limit > ceiling THEN beat.limit ELSE ceiling
    /\ beat' = None
    /\ UNCHANGED <<im, people, lock, req, visits, sync, events, accounts, key,
                   upsets>>

\* apply_service_limit, where the key may be gone since it was found.
ApplyLimit ==
    /\ beat # None /\ beat.keyed /\ lock = Free
    /\ ceiling' = beat.limit
    /\ beat' = None
    /\ UNCHANGED <<im, people, lock, req, visits, sync, events, accounts, key,
                   upsets>>

ApplyFails ==
    /\ beat # None /\ Upset
    /\ beat' = None
    /\ UNCHANGED <<im, people, lock, req, visits, sync, events, service>>

-----------------------------------------------------------------------------

Init ==
    /\ word \in [Sub -> Words]
    /\ limit = House
    /\ row = [s \in Sub |-> None] /\ firsts = {} /\ lock = Free
    /\ req = [w \in Worker |-> Idle] /\ visits = 0
    /\ sync = [pc |-> "pass", todo |-> {}, empty |-> FALSE, open |-> FALSE]
    /\ events = <<>> /\ beat = None
    /\ accounts = 0 /\ key = FALSE /\ ceiling = House /\ upsets = 0

Sight(w) == BeginSight(w) \/ CommitSight(w)
Settings(w) ==
    \/ DisableUser(w) \/ MintGate(w) \/ MintBegin(w) \/ MintCommit(w)
    \/ RotateKey(w) \/ RevokeKey(w) \/ QuotaGate(w) \/ SetQuota(w)

Mirror == Pass \/ MirrorBegin \/ MirrorCommit \/ MirrorDisabled \/ OpenStream

Beat == FetchFamily \/ FindKey \/ ApplyLimit

Next ==
    \/ (\E s \in Sub : ChangeWord(s)) \/ ChangeLimit
    \/ \E w \in Worker : Introspect(w) \/ Sight(w) \/ Settings(w)
    \/ Mirror \/ MirrorFails \/ HearEvent \/ StreamEnds \/ StreamRefused
    \/ Beat \/ ApplyFails

\* Requests come to an end and hand back the lock; the two loops of the process
\* run; the directory's stream has a window.
Spec ==
    /\ Init /\ [][Next]_vars
    /\ \A w \in Worker : WF_vars(Sight(w) \/ Settings(w))
    /\ WF_vars(Mirror \/ StreamEnds) /\ SF_vars(StreamEnds)
    /\ SF_vars(MirrorBegin) /\ SF_vars(MirrorDisabled)
    /\ WF_vars(FetchFamily \/ FindKey) /\ SF_vars(ApplyLimit)

-----------------------------------------------------------------------------
(* Properties.                                                             *)

\* "Two concurrent first sign-ins each count zero users, each claim admin":
\* the bootstrap rule makes one administrator at most, whichever requests and
\* passes of the mirror meet on the empty table.
OneBootstrapAdmin == Cardinality(firsts) <= 1

\* The account outlives its keys: however mints, revocations and further mints
\* cross, the service has one account, and so every key opens the same bytes.
OneAccount == accounts <= 1

\* Once im is silent and the requests are done, every row says what the
\* directory says, for good: whatever a sign-in wrote with claims it got before
\* a change, an administrator switched by hand, or a stream failed to carry.
RowsFollowTheDirectory == <>[](\A s \in Sub : row[s] = word[s])

\* In the same way the account of a keyed service ends with im's ceiling.
CeilingFollowsFamily == <>[](key => ceiling = limit)
=============================================================================
