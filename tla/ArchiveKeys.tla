----------------------------- MODULE ArchiveKeys -----------------------------
(***************************************************************************)
(* The keys of local mail archives: the table MailArchiveKeys              *)
(* (mail_archive_keys_store.py) and the two requests that create and       *)
(* recover a key (mail_archive_keys.py), each a sequence of database calls *)
(* and calls of the key management service (KMS).                          *)
(*                                                                         *)
(* The grant of a request is an OAuth family: it behaves as GrantFamily    *)
(* says, and its account row as CredentialRow says.  A family that has     *)
(* expired counts as closed.                                               *)
(***************************************************************************)
EXTENDS Naturals

CONSTANTS
  Owners,      \* User.UserId, the subject of the access token
  Grants,      \* families of the scope for archive keys
  OwnerOf,     \* OwnerOf[g]: the user family g was issued to
  Requests,    \* request ids, chosen by clients
  Archives,    \* archive ids, drawn at random
  Keys,        \* archive keys, drawn at random
  Workers,     \* request threads
  MaxResets,   \* bound of the model
  Restless,    \* bound of the model: owners whose account and families change
  None, NoRow  \* "not set", "no such row"

\* A ciphertext of KMS: the key, and the encryption context it is bound to.
Wrapped == [key : Keys, owner : Owners, archive : Archives]

Record == [archive : Archives, owner : Owners, request : Requests, wrapped : Wrapped]

\* family and account, before the request's work and again after KMS.
Stages ==
  {"idle", "family", "account", "lookup", "inserting", "existing",
   "unwrapping", "family again", "account again"}

\* request is None in a recovery; archive, the one asked for, in a creation.
\* late is no part of the program: was the grant dead when KMS gave the key back?
Request ==
  [grant : Grants \cup {None}, request : Requests \cup {None},
   archive : Archives \cup {None}, record : Record \cup {None}, key : Keys \cup {None},
   late : BOOLEAN]

ASSUME OwnerAssumption == OwnerOf \in [Grants -> Owners]

ASSUME BoundAssumption == MaxResets \in Nat /\ Restless \subseteq Owners

ASSUME NullAssumption ==
  /\ None \notin Grants \cup Requests \cup Archives \cup Keys
  /\ None \notin Record \cup [archive : Archives, key : Keys]
  /\ NoRow \notin Record

VARIABLES
  account,    \* the User rows, as CredentialRow shows them
  phase,      \* the families, as GrantFamily shows them
  stamp,      \* stamp[g]: credential tag family g was issued under
  registry,   \* MailArchiveKeys, by its primary key
  drawn,      \* archive ids and keys drawn so far
  answers,    \* what clients have been given
  pc, req     \* where each request is, and what it remembers

Row == INSTANCE CredentialRow WITH Users <- Owners
Family == INSTANCE GrantFamily WITH Families <- Grants

environment == <<account, phase, stamp>>
vars == <<account, phase, stamp, registry, drawn, answers, pc, req>>

NoRequest ==
  [grant |-> None, request |-> None, archive |-> None, record |-> None, key |-> None,
   late |-> FALSE]

Answers ==
  [owner : Owners, request : Requests \cup {None}, archive : Archives, key : Keys]

TypeOK ==
  /\ account \in [Owners -> [status : Row!Statuses, tag : Nat]]
  /\ phase \in [Grants -> Family!Phases]
  /\ stamp \in [Grants -> Nat]
  /\ registry \in [Archives -> Record \cup {NoRow}]
  /\ drawn \subseteq Archives \cup Keys
  /\ answers \subseteq Answers
  /\ pc \in [Workers -> Stages]
  /\ req \in [Workers -> Request]

Init ==
  /\ account = [o \in Owners |-> [status |-> "active", tag |-> 0]]
  /\ Family!Init
  /\ stamp = [g \in Grants |-> 0]
  /\ registry = [a \in Archives |-> NoRow]
  /\ drawn = {}
  /\ answers = {}
  /\ pc = [w \in Workers |-> "idle"]
  /\ req = [w \in Workers |-> NoRequest]

Goto(w, s, r) ==
  /\ pc' = [pc EXCEPT ![w] = s]
  /\ req' = [req EXCEPT ![w] = r]

Done(w) == Goto(w, "idle", NoRequest)

Owner(w) == OwnerOf[req[w].grant]

-------------------------------------------------------------------------------
(* The grant: families and accounts change under the requests.             *)

\* Native sign-in: a family bound to the present credential.
Issue(g) ==
  /\ account[OwnerOf[g]].status = "active"
  /\ Family!Issue(g)
  /\ stamp' = [stamp EXCEPT ![g] = account[OwnerOf[g]].tag]
  /\ UNCHANGED <<account, registry, drawn, answers, pc, req>>

\* Another request of the client refreshes the family, or its end comes.
Refresh(g) ==
  /\ OwnerOf[g] \in Restless
  /\ Family!Exchange(g) \/ Family!Rotate(g) \/ Family!Close({g})
  /\ UNCHANGED <<account, stamp, registry, drawn, answers, pc, req>>

ResetPassword(o) ==
  /\ o \in Restless
  /\ account[o].tag < MaxResets
  /\ Row!Replace(o)
  /\ UNCHANGED <<phase, stamp, registry, drawn, answers, pc, req>>

SetStatus(o, s) ==
  /\ o \in Restless
  /\ Row!Switch(o, s)
  /\ UNCHANGED <<phase, stamp, registry, drawn, answers, pc, req>>

-------------------------------------------------------------------------------
(* request_identity, and the check that is repeated in release.            *)

\* authenticate_mail: a token of grant g, and an account that is active.
Authenticate(w, g, q, a) ==
  /\ pc[w] = "idle"
  /\ phase[g] # "unborn"
  /\ account[OwnerOf[g]].status = "active"
  /\ Goto(w, "family", [NoRequest EXCEPT !.grant = g, !.request = q, !.archive = a])
  /\ UNCHANGED <<environment, registry, drawn, answers>>

\* Mutant of ActiveFamily: the row is found, and nothing else about it is read.
ActiveFamilyFound(g) == phase[g] # "unborn"

\* One snapshot of the two grant tables: the family is neither revoked nor
\* expired and has exactly one unused refresh credential.
ActiveFamily(g) == phase[g] = "open"

\* get_user, in a transaction of its own.
ActiveAccount(g) ==
  account[OwnerOf[g]] = [status |-> "active", tag |-> stamp[g]]

\* The credential's row is read; then the account it is bound to.
CheckFamily(w) ==
  /\ \/ /\ pc[w] = "family"
        /\ Goto(w, "account", req[w])
     \/ /\ pc[w] = "family again"
        /\ Goto(w, "account again", req[w])
  /\ ActiveFamily(req[w].grant)
  /\ UNCHANGED <<environment, registry, drawn, answers>>

CheckAccount(w) ==
  /\ pc[w] = "account"
  /\ ActiveAccount(req[w].grant)
  /\ Goto(w, "lookup", req[w])
  /\ UNCHANGED <<environment, registry, drawn, answers>>

\* INVALID_TOKEN, before or after the key was fetched.
Reject(w) ==
  /\ \/ pc[w] \in {"family", "family again"} /\ ~ActiveFamily(req[w].grant)
     \/ pc[w] \in {"account", "account again"} /\ ~ActiveAccount(req[w].grant)
  /\ Done(w)
  /\ UNCHANGED <<environment, registry, drawn, answers>>

-------------------------------------------------------------------------------
(* The registry.                                                           *)

Stored(a) == registry[a] # NoRow

\* by_request: the archives registered for an owner's request id.
ByRequest(o, q) == {a \in Archives : Stored(a) /\ registry[a].owner = o /\ registry[a].request = q}

ByArchive(o, a) == {b \in {a} : Stored(b) /\ registry[b].owner = o}

\* The row a request has asked for.
Wanted(w) ==
  IF req[w].request # None THEN ByRequest(Owner(w), req[w].request)
  ELSE ByArchive(Owner(w), req[w].archive)

\* by_request or by_archive finds the row.
Lookup(w) ==
  /\ pc[w] = "lookup"
  /\ \E a \in Wanted(w) : Goto(w, "unwrapping", [req[w] EXCEPT !.record = registry[a]])
  /\ UNCHANGED <<environment, registry, drawn, answers>>

\* ARCHIVE_NOT_FOUND.
NotFound(w) ==
  /\ pc[w] = "lookup"
  /\ req[w].request = None
  /\ Wanted(w) = {}
  /\ Done(w)
  /\ UNCHANGED <<environment, registry, drawn, answers>>

\* No row: an archive id and a key are drawn, and KMS encrypts the key under
\* the context of owner and archive.
Wrap(w, a, k) ==
  LET wrapped == [key |-> k, owner |-> Owner(w), archive |-> a] IN
  /\ pc[w] = "lookup"
  /\ req[w].request # None
  /\ Wanted(w) = {}
  /\ {a, k} \cap drawn = {}
  /\ drawn' = drawn \cup {a, k}
  /\ Goto(w, "inserting",
          [req[w] EXCEPT !.record = [archive |-> a, owner |-> Owner(w),
                                     request |-> req[w].request, wrapped |-> wrapped]])
  /\ UNCHANGED <<environment, registry, answers>>

\* Mutant of Duplicate: there is no unique key on owner and request.
DuplicateArchive(r) == Stored(r.archive)

\* The primary key, and the unique key on owner and request.
Duplicate(r) == Stored(r.archive) \/ ByRequest(r.owner, r.request) # {}

Insert(w) ==
  LET r == req[w].record IN
  /\ pc[w] = "inserting"
  /\ IF Duplicate(r)
     THEN /\ Goto(w, "existing", req[w])
          /\ UNCHANGED registry
     ELSE /\ Goto(w, "unwrapping", req[w])
          /\ registry' = [registry EXCEPT ![r.archive] = r]
  /\ UNCHANGED <<environment, drawn, answers>>

\* Mutant of ReadExisting: the request goes on with its own candidate.
ReadExistingCandidate(w) ==
  /\ pc[w] = "existing"
  /\ Goto(w, "unwrapping", req[w])
  /\ UNCHANGED <<environment, registry, drawn, answers>>

\* IntegrityError: what another request has registered is used instead.
ReadExisting(w) ==
  /\ pc[w] = "existing"
  /\ \E a \in Wanted(w) : Goto(w, "unwrapping", [req[w] EXCEPT !.record = registry[a]])
  /\ UNCHANGED <<environment, registry, drawn, answers>>

-------------------------------------------------------------------------------
(* release.                                                                *)

\* No token can revive such a grant.
Dead(g) == phase[g] = "closed" \/ account[OwnerOf[g]].tag # stamp[g]

\* Mutant of Plaintext: a result without one is passed on.
PlaintextMissing(r) == IF r.owner = r.wrapped.owner THEN None ELSE r.wrapped.key

\* What KMS returns for the ciphertext of row r.
Plaintext(r) == r.wrapped.key

\* The row must be the caller's; KMS decrypts in the context of the row.
Unwrap(w) ==
  LET r == req[w].record IN
  /\ pc[w] = "unwrapping"
  /\ r.owner = Owner(w)
  /\ <<r.wrapped.owner, r.wrapped.archive>> = <<r.owner, r.archive>>
  /\ Goto(w, "family again", [req[w] EXCEPT !.key = Plaintext(r),
                                           !.late = Dead(req[w].grant)])
  /\ UNCHANGED <<environment, registry, drawn, answers>>

\* The second check has passed; the key leaves.
Answer(w) ==
  /\ pc[w] = "account again"
  /\ ActiveAccount(req[w].grant)
  /\ answers' = answers \cup
       {[owner |-> req[w].record.owner, request |-> req[w].request,
         archive |-> req[w].record.archive, key |-> req[w].key]}
  /\ Done(w)
  /\ UNCHANGED <<environment, registry, drawn>>

\* Refusals, errors of the database or of KMS, a budget used up, a crash; also
\* the loss of an answer.  Whatever has been committed stays.
Abandon(w) ==
  /\ pc[w] # "idle"
  /\ Done(w)
  /\ UNCHANGED <<environment, registry, drawn, answers>>

Environment ==
  \/ \E g \in Grants : Issue(g) \/ Refresh(g)
  \/ \E o \in Owners : ResetPassword(o) \/ \E s \in Row!Statuses : SetStatus(o, s)

Arrive(w) ==
  \E g \in Grants :
    \/ \E q \in Requests : Authenticate(w, g, q, None)
    \/ \E a \in Archives : Authenticate(w, g, None, a)

Step(w) ==
  \/ CheckFamily(w) \/ CheckAccount(w) \/ Reject(w)
  \/ Lookup(w) \/ NotFound(w) \/ (\E a \in Archives, k \in Keys : Wrap(w, a, k))
  \/ Insert(w) \/ ReadExisting(w) \/ Unwrap(w) \/ Answer(w)

Next == Environment \/ \E w \in Workers : Arrive(w) \/ Step(w) \/ Abandon(w)

Spec == Init /\ [][Next]_vars

-------------------------------------------------------------------------------
(* What must hold.                                                         *)

(* An answer that has left can be had again: its archive is on record for  *)
(* its owner with a ciphertext that unwraps to the very key of the answer, *)
(* although two requests may have drawn keys for it.                       *)
AnsweredIsRecoverable ==
  \A x \in answers :
    \E r \in {registry[a] : a \in ByArchive(x.owner, x.archive)} :
      r.wrapped = [key |-> x.key, owner |-> x.owner, archive |-> x.archive]

(* A grant that was revoked or replayed, or whose password was replaced,   *)
(* before KMS gave the key back yields no key, although it was good when   *)
(* the request began.                                                      *)
NoKeyForDeadGrant ==
  [][\A w \in Workers : Answer(w) => ~req[w].late]_vars

\* The abstract custody: what the registry has for an owner's request id.
Custody(p) ==
  IF ByRequest(p[1], p[2]) = {} THEN None
  ELSE LET r == registry[CHOOSE a \in ByRequest(p[1], p[2]) : TRUE]
       IN [archive |-> r.archive, key |-> r.wrapped.key]

KC == INSTANCE KeyCustody
        WITH custody <- [p \in Owners \X Requests |-> Custody(p)], handed <- answers

(* A request id means one archive and one key, for ever and for one owner, *)
(* through retries, duplicates, lost answers and crashes.                  *)
CustodyRefinement == KC!Spec
===============================================================================
