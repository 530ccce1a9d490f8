-------------------------- MODULE ArchiveKeysProofs --------------------------
(***************************************************************************)
(* Proofs about ArchiveKeys, for any number of owners, grants, request     *)
(* ids, archives, keys and request threads.                                *)
(*                                                                         *)
(* The registry only grows, a closed grant stays closed and a replaced     *)
(* credential stays replaced (Growing).  So what a request has read stays  *)
(* true however long it waits for KMS (Knows), and an answer is backed by  *)
(* a row for good.                                                         *)
(***************************************************************************)
EXTENDS ArchiveKeys, TLAPS

Registered == {"unwrapping", "family again", "account again"}

\* A row whose ciphertext is bound to its own owner and archive.
Sound(r) ==
  /\ r \in Record
  /\ r.wrapped.owner = r.owner
  /\ r.wrapped.archive = r.archive

(* What a request knows at each stage.                                     *)
Knows(w) ==
  /\ pc[w] # "idle" =>
       /\ req[w].grant \in Grants
       /\ phase[req[w].grant] # "unborn"
       /\ req[w].request \in Requests \/ (req[w].request = None /\ req[w].archive \in Archives)
  /\ pc[w] \in {"inserting", "existing"} => req[w].request \in Requests
  /\ pc[w] = "inserting" =>
       /\ Sound(req[w].record)
       /\ req[w].record.owner = OwnerOf[req[w].grant]
       /\ req[w].record.request = req[w].request
  /\ pc[w] \in Registered =>
       /\ req[w].record \in Record
       /\ registry[req[w].record.archive] = req[w].record
       /\ req[w].record.owner = OwnerOf[req[w].grant]
       /\ req[w].request \in {None, req[w].record.request}
  /\ pc[w] \in {"family again", "account again"} =>
       /\ req[w].key = req[w].record.wrapped.key
       /\ req[w].late => Dead(req[w].grant)
  /\ pc[w] = "account again" /\ req[w].late =>
       account[OwnerOf[req[w].grant]].tag # stamp[req[w].grant]

(* The registry: rows are sound, and a request id has one.                 *)
RowsSound ==
  /\ \A a \in Archives : registry[a] # NoRow => Sound(registry[a]) /\ registry[a].archive = a
  /\ \A a, b \in Archives :
       /\ registry[a] # NoRow /\ registry[b] # NoRow
       /\ registry[a].owner = registry[b].owner /\ registry[a].request = registry[b].request
       => a = b

(* Every answer is that of a registered row.                               *)
AnswersBacked ==
  \A x \in answers :
    /\ registry[x.archive] # NoRow
    /\ registry[x.archive].owner = x.owner
    /\ registry[x.archive].wrapped.key = x.key

\* A family was issued under a credential its account has or has had.
StampsPast == \A g \in Grants : phase[g] # "unborn" => stamp[g] <= account[OwnerOf[g]].tag

KInv ==
  /\ TypeOK
  /\ \A w \in Workers : Knows(w)
  /\ RowsSound
  /\ AnswersBacked
  /\ StampsPast

\* What no step takes back.
Growing ==
  /\ \A a \in Archives : registry[a] # NoRow => registry'[a] = registry[a]
  /\ \A g \in Grants : phase[g] # "unborn" => phase'[g] # "unborn" /\ stamp'[g] = stamp[g]
  /\ \A g \in Grants : phase[g] = "closed" => phase'[g] = "closed"
  /\ \A o \in Owners : account[o].tag <= account'[o].tag

LEMMA Types ==
  ASSUME TypeOK
  PROVE  /\ \A o \in Owners : account[o] \in [status : Row!Statuses, tag : Nat] /\ account[o].tag \in Nat
         /\ \A g \in Grants : OwnerOf[g] \in Owners /\ stamp[g] \in Nat
         /\ \A a \in Archives : registry[a] # NoRow => registry[a] \in Record
         /\ \A w \in Workers : pc[w] \in Stages /\ req[w] \in Request
BY OwnerAssumption DEF TypeOK

LEMMA RecordType ==
  ASSUME NEW r \in Record
  PROVE  /\ r.archive \in Archives /\ r.owner \in Owners /\ r.request \in Requests
         /\ r.wrapped \in Wrapped /\ r.wrapped.key \in Keys
         /\ r # NoRow /\ r # None
BY NullAssumption DEF Record, Wrapped

\* A request that did not move knows what it knew.
LEMMA KnowsKept ==
  ASSUME KInv, TypeOK', Growing, NEW w \in Workers, pc'[w] = pc[w], req'[w] = req[w]
  PROVE  Knows(w)'
<1> DEFINE r == req[w]
<1>1. Knows(w) /\ req'[w] = r
  BY DEF KInv
<1>2. pc[w] # "idle" =>
        /\ r.grant \in Grants
        /\ phase'[r.grant] # "unborn"
        /\ stamp'[r.grant] = stamp[r.grant]
        /\ r.request \in Requests \/ (r.request = None /\ r.archive \in Archives)
  BY <1>1 DEF Knows, Growing
<1>3. pc[w] \in Registered => registry'[r.record.archive] = r.record
  BY <1>1, RecordType DEF Knows, Growing
<1>4. pc[w] # "idle" =>
        /\ account[OwnerOf[r.grant]].tag # stamp[r.grant] => account'[OwnerOf[r.grant]].tag # stamp'[r.grant]
  <2> SUFFICES ASSUME pc[w] # "idle", account[OwnerOf[r.grant]].tag # stamp[r.grant]
               PROVE  account'[OwnerOf[r.grant]].tag # stamp'[r.grant]
    OBVIOUS
  <2>1. r.grant \in Grants /\ phase[r.grant] # "unborn" /\ OwnerOf[r.grant] \in Owners
    BY <1>1, Types DEF Knows, KInv
  <2>2. /\ stamp[r.grant] \in Nat /\ account[OwnerOf[r.grant]].tag \in Nat
        /\ account'[OwnerOf[r.grant]].tag \in Nat
    BY <2>1, Types DEF KInv, TypeOK
  <2>3. stamp[r.grant] <= account[OwnerOf[r.grant]].tag
    BY <2>1 DEF KInv, StampsPast
  <2>4. account[OwnerOf[r.grant]].tag <= account'[OwnerOf[r.grant]].tag
    BY <2>1 DEF Growing
  <2>5. stamp'[r.grant] = stamp[r.grant]
    BY <1>2
  <2> QED BY <2>2, <2>3, <2>4, <2>5
<1>5. pc[w] \in {"family again", "account again"} /\ r.late =>
        phase'[r.grant] = "closed" \/ account'[OwnerOf[r.grant]].tag # stamp'[r.grant]
  BY <1>1, <1>2, <1>4 DEF Knows, Dead, Growing
<1>6. pc[w] = "account again" /\ r.late => account'[OwnerOf[r.grant]].tag # stamp'[r.grant]
  BY <1>1, <1>4 DEF Knows
<1> HIDE DEF r
<1> QED BY <1>1, <1>2, <1>3, <1>5, <1>6 DEF Knows, Dead, r

LEMMA GotoEffect ==
  ASSUME TypeOK, NEW w \in Workers, NEW s \in Stages, NEW r \in Request, Goto(w, s, r)
  PROVE  /\ pc' \in [Workers -> Stages] /\ req' \in [Workers -> Request]
         /\ pc'[w] = s /\ req'[w] = r
         /\ \A v \in Workers \ {w} : pc'[v] = pc[v] /\ req'[v] = req[v]
BY DEF Goto, TypeOK

LEMMA NoRequestType == NoRequest \in Request /\ "idle" \in Stages
BY DEF NoRequest, Request, Stages

\* A step of request w that leaves the tables and the answers alone.
LEMMA MoveStep ==
  ASSUME KInv, NEW w \in Workers, NEW s \in Stages, NEW r \in Request, Goto(w, s, r),
         UNCHANGED <<environment, registry, answers>>, drawn' \subseteq Archives \cup Keys,
         pc'[w] = s /\ req'[w] = r => Knows(w)'
  PROVE  KInv' /\ Growing
<1>1. /\ pc' \in [Workers -> Stages] /\ req' \in [Workers -> Request]
      /\ pc'[w] = s /\ req'[w] = r
      /\ \A v \in Workers \ {w} : pc'[v] = pc[v] /\ req'[v] = req[v]
  BY GotoEffect DEF KInv
<1>2. TypeOK'
  BY <1>1 DEF KInv, TypeOK, environment
<1>3. Growing
  BY Types DEF KInv, Growing, environment
<1>4. \A v \in Workers : Knows(v)'
  BY <1>1, <1>2, <1>3, KnowsKept
<1>5. RowsSound' /\ AnswersBacked' /\ StampsPast'
  BY DEF KInv, RowsSound, AnswersBacked, StampsPast, environment
<1> QED BY <1>2, <1>3, <1>4, <1>5 DEF KInv

-------------------------------------------------------------------------------
(* The environment: accounts and families.                                 *)

\* A step that moves no request and touches no row.
LEMMA TablesStep ==
  ASSUME KInv, TypeOK', Growing, StampsPast', UNCHANGED <<registry, answers, pc, req>>
  PROVE  KInv'
<1>1. \A w \in Workers : Knows(w)'
  BY KnowsKept
<1>2. RowsSound' /\ AnswersBacked'
  BY DEF KInv, RowsSound, AnswersBacked
<1> QED BY <1>1, <1>2 DEF KInv

LEMMA IssueStep ==
  ASSUME KInv, NEW g \in Grants, Issue(g)
  PROVE  KInv' /\ Growing
<1>1. /\ phase[g] = "unborn" /\ phase' = [phase EXCEPT ![g] = "open"]
      /\ stamp' = [stamp EXCEPT ![g] = account[OwnerOf[g]].tag]
      /\ UNCHANGED <<account, registry, drawn, answers, pc, req>>
  BY DEF Issue, Family!Issue
<1>2. TypeOK'
  BY <1>1, Types DEF KInv, TypeOK, Family!Phases
<1>3. Growing
  BY <1>1, Types DEF KInv, TypeOK, Growing
<1>4. StampsPast'
  BY <1>1, Types DEF KInv, TypeOK, StampsPast
<1> QED BY <1>1, <1>2, <1>3, <1>4, TablesStep

LEMMA RefreshStep ==
  ASSUME KInv, NEW g \in Grants, Refresh(g)
  PROVE  KInv' /\ Growing
<1>1. UNCHANGED <<account, stamp, registry, drawn, answers, pc, req>>
  BY DEF Refresh
<1>2. /\ phase' \in [Grants -> Family!Phases]
      /\ \A f \in Grants : phase[f] # "unborn" => phase'[f] # "unborn"
      /\ \A f \in Grants : phase[f] = "unborn" => phase'[f] = "unborn"
      /\ \A f \in Grants : phase[f] = "closed" => phase'[f] = "closed"
  BY DEF Refresh, Family!Exchange, Family!Rotate, Family!Close, Family!Phases, KInv, TypeOK
<1>3. TypeOK'
  BY <1>1, <1>2 DEF KInv, TypeOK
<1>4. Growing
  BY <1>1, <1>2, Types DEF KInv, Growing
<1>5. StampsPast'
  BY <1>1, <1>2 DEF KInv, StampsPast
<1> QED BY <1>1, <1>3, <1>4, <1>5, TablesStep

\* An account row changes and no tag goes back.
LEMMA AccountStep ==
  ASSUME KInv, UNCHANGED <<phase, stamp, registry, drawn, answers, pc, req>>,
         account' \in [Owners -> [status : Row!Statuses, tag : Nat]],
         \A o \in Owners : account[o].tag <= account'[o].tag
  PROVE  KInv' /\ Growing
<1>1. TypeOK'
  BY DEF KInv, TypeOK
<1>2. Growing
  BY DEF Growing
<1>3. ASSUME NEW g \in Grants, phase[g] # "unborn"
      PROVE  stamp[g] <= account'[OwnerOf[g]].tag
  <2>1. /\ stamp[g] \in Nat /\ account[OwnerOf[g]].tag \in Nat /\ account'[OwnerOf[g]].tag \in Nat
        /\ OwnerOf[g] \in Owners
    BY Types DEF KInv
  <2>2. stamp[g] <= account[OwnerOf[g]].tag
    BY <1>3 DEF KInv, StampsPast
  <2> QED BY <2>1, <2>2
<1>4. StampsPast'
  BY <1>3 DEF StampsPast
<1> QED BY <1>1, <1>2, <1>4, TablesStep

LEMMA EnvironmentStep ==
  ASSUME KInv, Environment
  PROVE  KInv' /\ Growing
<1>1. CASE \E g \in Grants : Issue(g)
  BY <1>1, IssueStep
<1>2. CASE \E g \in Grants : Refresh(g)
  BY <1>2, RefreshStep
<1>3. ASSUME NEW o \in Owners, ResetPassword(o) PROVE KInv' /\ Growing
  BY <1>3, AccountStep, Types DEF KInv, TypeOK, ResetPassword, Row!Replace, Row!Statuses
<1>4. ASSUME NEW o \in Owners, NEW s \in Row!Statuses, SetStatus(o, s) PROVE KInv' /\ Growing
  BY <1>4, AccountStep, Types DEF KInv, TypeOK, SetStatus, Row!Switch
<1> QED BY <1>1, <1>2, <1>3, <1>4 DEF Environment

-------------------------------------------------------------------------------
(* Requests.                                                               *)

LEMMA DoneStep ==
  ASSUME KInv, NEW w \in Workers, Done(w), UNCHANGED <<environment, registry, drawn, answers>>
  PROVE  KInv' /\ Growing
<1>1. Goto(w, "idle", NoRequest)
  BY DEF Done
<1>2. ASSUME pc'[w] = "idle" PROVE Knows(w)'
  BY <1>2 DEF Knows, Registered
<1>3. drawn' \subseteq Archives \cup Keys
  BY DEF KInv, TypeOK
<1> QED BY <1>1, <1>2, <1>3, NoRequestType, MoveStep

LEMMA AuthenticateStep ==
  ASSUME KInv, NEW w \in Workers, NEW g \in Grants,
         NEW q \in Requests \cup {None}, NEW a \in Archives \cup {None},
         q \in Requests \/ a \in Archives, Authenticate(w, g, q, a)
  PROVE  KInv' /\ Growing
<1> DEFINE r == [NoRequest EXCEPT !.grant = g, !.request = q, !.archive = a]
<1>1. r \in Request /\ r.grant = g /\ r.request = q /\ r.archive = a
  BY DEF NoRequest, Request
<1>2. Goto(w, "family", r) /\ phase[g] # "unborn"
      /\ UNCHANGED <<environment, registry, drawn, answers>>
  BY DEF Authenticate
<1> HIDE DEF r
<1>3. ASSUME pc'[w] = "family", req'[w] = r PROVE Knows(w)'
  BY <1>1, <1>2, <1>3 DEF Knows, Registered, environment
<1>4. "family" \in Stages /\ drawn' \subseteq Archives \cup Keys
  BY <1>2 DEF Stages, KInv, TypeOK
<1> QED BY <1>1, <1>2, <1>3, <1>4, MoveStep

LEMMA CheckFamilyStep ==
  ASSUME KInv, NEW w \in Workers, CheckFamily(w)
  PROVE  KInv' /\ Growing
<1>1. /\ UNCHANGED <<environment, registry, drawn, answers>>
      /\ phase[req[w].grant] = "open"
      /\ drawn' \subseteq Archives \cup Keys /\ req[w] \in Request
      /\ "account" \in Stages /\ "account again" \in Stages
  BY Types DEF CheckFamily, ActiveFamily, KInv, TypeOK, Stages
<1>2. Knows(w)
  BY DEF KInv
<1>3. CASE pc[w] = "family" /\ Goto(w, "account", req[w])
  <2>1. ASSUME pc'[w] = "account", req'[w] = req[w] PROVE Knows(w)'
    BY <1>1, <1>2, <1>3, <2>1 DEF Knows, Registered, environment
  <2> QED BY <1>1, <1>3, <2>1, MoveStep
<1>4. CASE pc[w] = "family again" /\ Goto(w, "account again", req[w])
  <2>1. req[w].late => account[OwnerOf[req[w].grant]].tag # stamp[req[w].grant]
    BY <1>1, <1>2, <1>4 DEF Knows, Dead
  <2>2. ASSUME pc'[w] = "account again", req'[w] = req[w] PROVE Knows(w)'
    BY <1>1, <1>2, <1>4, <2>1, <2>2 DEF Knows, Registered, environment, Dead
  <2> QED BY <1>1, <1>4, <2>2, MoveStep
<1> QED BY <1>3, <1>4 DEF CheckFamily

LEMMA CheckAccountStep ==
  ASSUME KInv, NEW w \in Workers, CheckAccount(w)
  PROVE  KInv' /\ Growing
<1>1. /\ UNCHANGED <<environment, registry, drawn, answers>>
      /\ pc[w] = "account" /\ Goto(w, "lookup", req[w])
      /\ drawn' \subseteq Archives \cup Keys /\ req[w] \in Request /\ "lookup" \in Stages
  BY Types DEF CheckAccount, KInv, TypeOK, Stages
<1>2. Knows(w)
  BY DEF KInv
<1>3. ASSUME pc'[w] = "lookup", req'[w] = req[w] PROVE Knows(w)'
  BY <1>1, <1>2, <1>3 DEF Knows, Registered, environment
<1> QED BY <1>1, <1>3, MoveStep

\* What Wanted finds is a row of the caller, and the row asked for.
LEMMA WantedRow ==
  ASSUME KInv, NEW w \in Workers, pc[w] \in {"lookup", "existing"}, NEW a \in Wanted(w)
  PROVE  /\ a \in Archives
         /\ registry[a] \in Record /\ registry[a].archive = a
         /\ registry[a].owner = OwnerOf[req[w].grant]
         /\ req[w].request \in {None, registry[a].request}
<1>1. Knows(w)
  BY DEF KInv
<1>2. CASE req[w].request # None
  BY <1>1, <1>2, Types DEF Wanted, ByRequest, Stored, Owner, KInv, RowsSound
<1>3. CASE req[w].request = None
  <2>1. req[w].archive \in Archives /\ a = req[w].archive
    BY <1>1, <1>3, NullAssumption DEF Knows, Wanted, ByArchive
  <2> QED BY <1>3, <2>1, Types DEF Wanted, ByArchive, Stored, Owner, KInv, RowsSound
<1> QED BY <1>2, <1>3

\* Lookup and ReadExisting: the request goes on with a row it has found.
LEMMA FoundStep ==
  ASSUME KInv, NEW w \in Workers, pc[w] \in {"lookup", "existing"}, NEW a \in Wanted(w),
         Goto(w, "unwrapping", [req[w] EXCEPT !.record = registry[a]]),
         UNCHANGED <<environment, registry, drawn, answers>>
  PROVE  KInv' /\ Growing
<1> DEFINE r == [req[w] EXCEPT !.record = registry[a]]
<1>1. Knows(w) /\ req[w] \in Request
  BY Types DEF KInv
<1>2. /\ r \in Request /\ r.record = registry[a] /\ r.grant = req[w].grant
      /\ r.request = req[w].request /\ r.archive = req[w].archive
  BY <1>1, WantedRow DEF Request
<1>3. Goto(w, "unwrapping", r)
  OBVIOUS
<1> HIDE DEF r
<1>4. ASSUME pc'[w] = "unwrapping", req'[w] = r PROVE Knows(w)'
  BY <1>1, <1>2, <1>4, WantedRow DEF Knows, Registered, environment
<1>5. "unwrapping" \in Stages /\ drawn' \subseteq Archives \cup Keys
  BY DEF Stages, KInv, TypeOK
<1> QED BY <1>2, <1>3, <1>4, <1>5, MoveStep

LEMMA WrapStep ==
  ASSUME KInv, NEW w \in Workers, NEW a \in Archives, NEW k \in Keys, Wrap(w, a, k)
  PROVE  KInv' /\ Growing
<1> DEFINE c == [archive |-> a, owner |-> Owner(w), request |-> req[w].request,
                 wrapped |-> [key |-> k, owner |-> Owner(w), archive |-> a]]
           r == [req[w] EXCEPT !.record = c]
<1>1. /\ pc[w] = "lookup" /\ req[w].request # None
      /\ drawn' = drawn \cup {a, k} /\ Goto(w, "inserting", r)
      /\ UNCHANGED <<environment, registry, answers>>
  BY DEF Wrap
<1>2. Knows(w) /\ req[w] \in Request /\ req[w].request \in Requests /\ req[w].grant \in Grants
  BY <1>1, Types DEF KInv, Knows
<1>3. /\ Sound(c) /\ c \in Record /\ c.request = req[w].request
      /\ c.owner = OwnerOf[req[w].grant]
  BY <1>2, Types DEF Sound, Record, Wrapped, Owner, KInv
<1>4. /\ r \in Request /\ r.record = c /\ r.grant = req[w].grant
      /\ r.request = req[w].request /\ r.archive = req[w].archive
  <2> HIDE DEF c
  <2> QED BY <1>2, <1>3 DEF Request
<1> HIDE DEF r, c
<1>5. ASSUME pc'[w] = "inserting", req'[w] = r PROVE Knows(w)'
  BY <1>1, <1>2, <1>3, <1>4, <1>5 DEF Knows, Registered, environment
<1>6. "inserting" \in Stages /\ drawn' \subseteq Archives \cup Keys
  BY <1>1 DEF Stages, KInv, TypeOK
<1> QED BY <1>1, <1>4, <1>5, <1>6, MoveStep

\* A duplicate: nothing is written.
LEMMA DuplicateStep ==
  ASSUME KInv, NEW w \in Workers, Insert(w), Duplicate(req[w].record)
  PROVE  KInv' /\ Growing
<1>1. /\ UNCHANGED <<environment, registry, drawn, answers>>
      /\ pc[w] = "inserting" /\ Goto(w, "existing", req[w])
      /\ drawn' \subseteq Archives \cup Keys /\ req[w] \in Request /\ "existing" \in Stages
  BY Types DEF Insert, KInv, TypeOK, Stages
<1>2. Knows(w)
  BY DEF KInv
<1>3. ASSUME pc'[w] = "existing", req'[w] = req[w] PROVE Knows(w)'
  BY <1>1, <1>2, <1>3 DEF Knows, Registered, environment
<1> QED BY <1>1, <1>3, MoveStep

\* The candidate becomes a row.
LEMMA RegisterStep ==
  ASSUME KInv, NEW w \in Workers, Insert(w), ~Duplicate(req[w].record)
  PROVE  KInv' /\ Growing
<1> DEFINE r == req[w].record
           a == req[w].record.archive
<1>1. /\ pc[w] = "inserting" /\ Goto(w, "unwrapping", req[w])
      /\ registry' = [registry EXCEPT ![a] = r]
      /\ UNCHANGED <<environment, drawn, answers>>
      /\ Knows(w)
  BY DEF Insert, KInv
<1>2. /\ Sound(r) /\ r \in Record /\ r.owner = OwnerOf[req[w].grant] /\ r.request = req[w].request
      /\ req[w].request \in Requests /\ req[w] \in Request
      /\ a \in Archives /\ r # NoRow
  BY <1>1, Types, RecordType DEF Knows, Sound, KInv
<1>3. /\ registry[a] = NoRow
      /\ \A b \in Archives :
           registry[b] # NoRow => ~(registry[b].owner = r.owner /\ registry[b].request = r.request)
  BY <1>2 DEF Duplicate, Stored, ByRequest
<1>4. /\ pc' \in [Workers -> Stages] /\ req' \in [Workers -> Request]
      /\ pc'[w] = "unwrapping" /\ req'[w] = req[w]
      /\ \A v \in Workers \ {w} : pc'[v] = pc[v] /\ req'[v] = req[v]
  <2>1. "unwrapping" \in Stages
    BY DEF Stages
  <2> QED BY <1>1, <1>2, <2>1, GotoEffect DEF KInv
<1>5. /\ registry'[a] = r
      /\ \A b \in Archives \ {a} : registry'[b] = registry[b]
  BY <1>1, <1>2 DEF KInv, TypeOK
<1>6. TypeOK'
  BY <1>1, <1>2, <1>4 DEF KInv, TypeOK, environment
<1>7. Growing
  BY <1>1, <1>3, <1>5, Types DEF KInv, Growing, environment
<1>8. Knows(w)'
  BY <1>1, <1>2, <1>4, <1>5 DEF Knows, Registered, environment
<1>9. \A v \in Workers : Knows(v)'
  BY <1>4, <1>6, <1>7, <1>8, KnowsKept
<1>10. RowsSound'
  <2> HIDE DEF r, a
  <2>1. r.archive = a
    BY DEF r, a
  <2>2. \A b \in Archives : registry'[b] # NoRow => Sound(registry'[b]) /\ registry'[b].archive = b
    BY <1>2, <1>5, <2>1 DEF KInv, RowsSound
  <2>3. \A b, c \in Archives :
          /\ registry'[b] # NoRow /\ registry'[c] # NoRow
          /\ registry'[b].owner = registry'[c].owner /\ registry'[b].request = registry'[c].request
          => b = c
    BY <1>3, <1>5 DEF KInv, RowsSound
  <2> QED BY <2>2, <2>3 DEF RowsSound, Sound
<1>11. AnswersBacked'
  BY <1>1, <1>3, <1>5 DEF KInv, AnswersBacked, TypeOK, Answers
<1>12. StampsPast'
  BY <1>1 DEF KInv, StampsPast, environment
<1> QED BY <1>6, <1>7, <1>9, <1>10, <1>11, <1>12 DEF KInv

LEMMA UnwrapStep ==
  ASSUME KInv, NEW w \in Workers, Unwrap(w)
  PROVE  KInv' /\ Growing
<1> DEFINE k == req[w].record.wrapped.key
           d == Dead(req[w].grant)
           r == [req[w] EXCEPT !.key = k, !.late = d]
<1>1. /\ pc[w] = "unwrapping" /\ Goto(w, "family again", r)
      /\ UNCHANGED <<environment, registry, drawn, answers>>
      /\ Knows(w) /\ req[w] \in Request
  BY Types DEF Unwrap, Plaintext, KInv
<1>2. k \in Keys /\ d \in BOOLEAN
  BY <1>1, RecordType DEF Knows, Registered, Dead
<1>3. phase' = phase /\ account' = account /\ stamp' = stamp
  BY <1>1 DEF environment
<1> HIDE DEF k, d
<1>4. /\ r \in Request /\ r.record = req[w].record /\ r.grant = req[w].grant
      /\ r.request = req[w].request /\ r.archive = req[w].archive /\ r.key = k
      /\ r.late <=> d
  BY <1>1, <1>2 DEF Request
<1> HIDE DEF r
<1>5. ASSUME pc'[w] = "family again", req'[w] = r PROVE Knows(w)'
  BY <1>1, <1>3, <1>4, <1>5 DEF Knows, Registered, Dead, k, d
<1>6. "family again" \in Stages /\ drawn' \subseteq Archives \cup Keys
  BY <1>1 DEF Stages, KInv, TypeOK
<1> QED BY <1>1, <1>4, <1>5, <1>6, MoveStep

\* The answer is that of the request's row.
LEMMA AnswerOf ==
  ASSUME KInv, NEW w \in Workers, pc[w] = "account again"
  PROVE  LET r == req[w].record IN
           /\ r \in Record /\ r.archive \in Archives /\ registry[r.archive] = r /\ r # NoRow
           /\ req[w].key = r.wrapped.key /\ req[w].key \in Keys
           /\ req[w].request \in {None, r.request}
           /\ [owner |-> r.owner, request |-> req[w].request, archive |-> r.archive,
               key |-> req[w].key] \in Answers
<1>1. Knows(w)
  BY DEF KInv
<1> QED BY <1>1, RecordType DEF Knows, Registered, Answers

LEMMA AnswerStep ==
  ASSUME KInv, NEW w \in Workers, Answer(w)
  PROVE  KInv' /\ Growing
<1> DEFINE r == req[w].record
           x == [owner |-> r.owner, request |-> req[w].request, archive |-> r.archive,
                 key |-> req[w].key]
<1>1. /\ pc[w] = "account again" /\ answers' = answers \cup {x}
      /\ Goto(w, "idle", NoRequest) /\ UNCHANGED <<environment, registry, drawn>>
  BY DEF Answer, Done
<1>2. /\ r \in Record /\ r.archive \in Archives /\ registry[r.archive] = r /\ r # NoRow
      /\ req[w].key = r.wrapped.key /\ x \in Answers
      /\ x.archive = r.archive /\ x.owner = r.owner /\ x.key = req[w].key
  BY <1>1, AnswerOf
<1> HIDE DEF x, r
<1>3. /\ pc' \in [Workers -> Stages] /\ req' \in [Workers -> Request]
      /\ pc'[w] = "idle" /\ req'[w] = NoRequest
      /\ \A v \in Workers \ {w} : pc'[v] = pc[v] /\ req'[v] = req[v]
  BY <1>1, NoRequestType, GotoEffect DEF KInv
<1>4. TypeOK'
  BY <1>1, <1>2, <1>3 DEF KInv, TypeOK, environment
<1>5. Growing
  <2>1. account' = account /\ phase' = phase /\ stamp' = stamp /\ registry' = registry
    BY <1>1 DEF environment
  <2> QED BY <2>1, Types DEF KInv, Growing
<1>6. Knows(w)'
  BY <1>3 DEF Knows, Registered
<1>7. \A v \in Workers : Knows(v)'
  BY <1>3, <1>4, <1>5, <1>6, KnowsKept
<1>8. RowsSound' /\ StampsPast'
  BY <1>1 DEF KInv, RowsSound, StampsPast, environment
<1>9. AnswersBacked'
  <2>1. registry' = registry /\ answers' = answers \cup {x}
    BY <1>1
  <2>2. registry[x.archive] = r
    BY <1>2
  <2>3. AnswersBacked
    BY DEF KInv
  <2> QED BY <1>2, <2>1, <2>2, <2>3 DEF AnswersBacked
<1> QED BY <1>4, <1>5, <1>7, <1>8, <1>9 DEF KInv

-------------------------------------------------------------------------------
LEMMA KInvHolds == Init => KInv
<1> SUFFICES ASSUME Init PROVE KInv
  OBVIOUS
<1>1. TypeOK
  BY NoRequestType DEF Init, TypeOK, Row!Statuses, Family!Init, Family!Phases
<1>2. \A w \in Workers : Knows(w)
  BY DEF Init, Knows, Registered
<1>3. RowsSound /\ AnswersBacked
  BY DEF Init, RowsSound, AnswersBacked
<1>4. StampsPast
  BY DEF Init, StampsPast, Family!Init
<1> QED BY <1>1, <1>2, <1>3, <1>4 DEF KInv

LEMMA KInvKept ==
  ASSUME KInv, [Next]_vars
  PROVE  KInv' /\ Growing
<1>1. CASE UNCHANGED vars
  <2>1. Growing
    BY <1>1, Types DEF KInv, Growing, vars
  <2>2. TypeOK' /\ StampsPast'
    BY <1>1 DEF KInv, TypeOK, StampsPast, vars
  <2> QED BY <1>1, <2>1, <2>2, TablesStep DEF vars
<1>2. CASE Environment
  BY <1>2, EnvironmentStep
<1>3. ASSUME NEW w \in Workers, Arrive(w) PROVE KInv' /\ Growing
  BY <1>3, AuthenticateStep DEF Arrive
<1>4. ASSUME NEW w \in Workers, Step(w) PROVE KInv' /\ Growing
  <2>1. CASE CheckFamily(w)
    BY <2>1, CheckFamilyStep
  <2>2. CASE CheckAccount(w)
    BY <2>2, CheckAccountStep
  <2>3. CASE Reject(w) \/ NotFound(w)
    BY <2>3, DoneStep DEF Reject, NotFound
  <2>4. CASE Lookup(w) \/ ReadExisting(w)
    BY <2>4, FoundStep DEF Lookup, ReadExisting
  <2>5. ASSUME NEW a \in Archives, NEW k \in Keys, Wrap(w, a, k) PROVE KInv' /\ Growing
    BY <2>5, WrapStep
  <2>6. CASE Insert(w)
    BY <2>6, DuplicateStep, RegisterStep
  <2>7. CASE Unwrap(w)
    BY <2>7, UnwrapStep
  <2>8. CASE Answer(w)
    BY <2>8, AnswerStep
  <2> QED BY <1>4, <2>1, <2>2, <2>3, <2>4, <2>5, <2>6, <2>7, <2>8 DEF Step
<1>5. ASSUME NEW w \in Workers, Abandon(w) PROVE KInv' /\ Growing
  BY <1>5, DoneStep DEF Abandon
<1> QED BY <1>1, <1>2, <1>3, <1>4, <1>5 DEF Next

LEMMA KInvAlways == Spec => []KInv
<1>1. KInv /\ [Next]_vars => KInv'
  BY KInvKept
<1> QED BY KInvHolds, <1>1, PTL DEF Spec

(* Every reachable state of accounts, families, registry and requests is   *)
(* well typed.                                                             *)
THEOREM TypeCorrect == Spec => []TypeOK
<1>1. KInv => TypeOK
  BY DEF KInv
<1> QED BY KInvAlways, <1>1, PTL

(* An answer that has left can be had again, whatever requests race and    *)
(* wherever they stop.                                                     *)
THEOREM AnswersAreRecoverable == Spec => []AnsweredIsRecoverable
<1>1. ASSUME KInv PROVE AnsweredIsRecoverable
  <2>1. ASSUME NEW x \in answers
        PROVE  \E r \in {registry[a] : a \in ByArchive(x.owner, x.archive)} :
                 r.wrapped = [key |-> x.key, owner |-> x.owner, archive |-> x.archive]
    <3>1. x.archive \in Archives
      BY <1>1, <2>1 DEF KInv, TypeOK, Answers
    <3>2. /\ registry[x.archive] # NoRow /\ registry[x.archive].owner = x.owner
          /\ registry[x.archive].wrapped.key = x.key
          /\ Sound(registry[x.archive]) /\ registry[x.archive].archive = x.archive
      BY <1>1, <2>1, <3>1 DEF KInv, AnswersBacked, RowsSound
    <3>3. x.archive \in ByArchive(x.owner, x.archive)
      BY <3>2 DEF ByArchive, Stored
    <3>4. registry[x.archive].wrapped = [key |-> x.key, owner |-> x.owner, archive |-> x.archive]
      BY <3>2 DEF Sound, Record, Wrapped
    <3> QED BY <3>3, <3>4
  <2> QED BY <2>1 DEF AnsweredIsRecoverable
<1> QED BY KInvAlways, <1>1, PTL

(* A grant that was dead when KMS gave the key back yields no key: the     *)
(* second check of family and account comes after it, and neither a        *)
(* closed family nor a replaced credential comes back between the two      *)
(* halves of the check.                                                    *)
THEOREM NoKeyForTheDead == Spec => NoKeyForDeadGrant
<1>1. ASSUME KInv, NEW w \in Workers, Answer(w) PROVE ~req[w].late
  <2>1. /\ pc[w] = "account again" /\ Knows(w)
        /\ account[OwnerOf[req[w].grant]] = [status |-> "active", tag |-> stamp[req[w].grant]]
    BY <1>1 DEF Answer, ActiveAccount, KInv
  <2>2. ASSUME NEW t, account[OwnerOf[req[w].grant]] = [status |-> "active", tag |-> t]
        PROVE  account[OwnerOf[req[w].grant]].tag = t
    BY <2>2
  <2>3. account[OwnerOf[req[w].grant]].tag = stamp[req[w].grant]
    BY <2>1, <2>2
  <2> QED BY <2>1, <2>3 DEF Knows
<1>2. KInv /\ [Next]_vars => [\A w \in Workers : Answer(w) => ~req[w].late]_vars
  BY <1>1
<1> QED BY KInvAlways, <1>2, PTL DEF Spec, NoKeyForDeadGrant

-------------------------------------------------------------------------------
(* The registry implements KeyCustody.                                     *)

custodies == [p \in Owners \X Requests |-> Custody(p)]

\* Custody of a pair is its row, and there is only one.
LEMMA CustodyOf ==
  ASSUME KInv, NEW p \in Owners \X Requests
  PROVE  /\ \A a \in Archives :
              registry[a] # NoRow /\ registry[a].owner = p[1] /\ registry[a].request = p[2] =>
                /\ Custody(p) = [archive |-> a, key |-> registry[a].wrapped.key]
                /\ Custody(p) # None
         /\ Custody(p) # None =>
              \E a \in Archives :
                registry[a] # NoRow /\ registry[a].owner = p[1] /\ registry[a].request = p[2]
<1>1. ASSUME NEW a \in Archives,
             registry[a] # NoRow, registry[a].owner = p[1], registry[a].request = p[2]
      PROVE  /\ Custody(p) = [archive |-> a, key |-> registry[a].wrapped.key]
             /\ Custody(p) # None
  <2> DEFINE b == CHOOSE b \in ByRequest(p[1], p[2]) : TRUE
  <2>1. a \in ByRequest(p[1], p[2])
    BY <1>1 DEF ByRequest, Stored
  <2>2. b \in ByRequest(p[1], p[2])
    BY <2>1
  <2> HIDE DEF b
  <2>3. b = a
    BY <1>1, <2>2 DEF ByRequest, Stored, KInv, RowsSound
  <2>4. Custody(p) = [archive |-> registry[b].archive, key |-> registry[b].wrapped.key]
    BY <2>1 DEF Custody, b
  <2>5. registry[a].archive = a /\ registry[a].wrapped.key \in Keys
    BY <1>1, RecordType DEF KInv, RowsSound, Sound
  <2>6. [archive |-> a, key |-> registry[a].wrapped.key] \in [archive : Archives, key : Keys]
    BY <2>5
  <2> QED BY <2>3, <2>4, <2>5, <2>6, NullAssumption
<1>2. ByRequest(p[1], p[2]) = {} => Custody(p) = None
  BY DEF Custody
<1> QED BY <1>1, <1>2 DEF ByRequest, Stored

\* The same of the state a step leads to.
LEMMA NextCustodyOf ==
  ASSUME KInv', NEW p \in Owners \X Requests
  PROVE  /\ \A a \in Archives :
              registry'[a] # NoRow /\ registry'[a].owner = p[1] /\ registry'[a].request = p[2] =>
                /\ Custody(p)' = [archive |-> a, key |-> registry'[a].wrapped.key]
                /\ Custody(p)' # None
         /\ Custody(p)' # None =>
              \E a \in Archives :
                registry'[a] # NoRow /\ registry'[a].owner = p[1] /\ registry'[a].request = p[2]
<1>1. ASSUME NEW a \in Archives,
             registry'[a] # NoRow, registry'[a].owner = p[1], registry'[a].request = p[2]
      PROVE  /\ Custody(p)' = [archive |-> a, key |-> registry'[a].wrapped.key]
             /\ Custody(p)' # None
  <2> DEFINE B == {b \in Archives : registry'[b] # NoRow /\ registry'[b].owner = p[1]
                                      /\ registry'[b].request = p[2]}
             b == CHOOSE b \in B : TRUE
  <2>1. a \in B
    BY <1>1
  <2>2. b \in B
    BY <2>1
  <2>3. Custody(p)' = [archive |-> registry'[b].archive, key |-> registry'[b].wrapped.key]
    BY <2>1 DEF Custody, ByRequest, Stored
  <2> HIDE DEF b
  <2>4. b = a
    BY <1>1, <2>2 DEF KInv, RowsSound
  <2>5. registry'[a].archive = a /\ registry'[a].wrapped.key \in Keys
    BY <1>1, RecordType DEF KInv, RowsSound, Sound
  <2>6. [archive |-> a, key |-> registry'[a].wrapped.key] \in [archive : Archives, key : Keys]
    BY <2>5
  <2> QED BY <2>3, <2>4, <2>5, <2>6, NullAssumption
<1>2. (\A a \in Archives : ~(registry'[a] # NoRow /\ registry'[a].owner = p[1]
                              /\ registry'[a].request = p[2])) => Custody(p)' = None
  BY DEF Custody, ByRequest, Stored
<1> QED BY <1>1, <1>2

LEMMA CustodyUnchanged ==
  ASSUME KInv, KInv', UNCHANGED <<registry, answers>>
  PROVE  UNCHANGED <<custodies, answers>>
<1>1. ASSUME NEW p \in Owners \X Requests PROVE Custody(p)' = Custody(p)
  BY CustodyOf, NextCustodyOf
<1> QED BY <1>1 DEF custodies

LEMMA RegisterImplements ==
  ASSUME KInv, KInv', NEW w \in Workers, Insert(w), ~Duplicate(req[w].record)
  PROVE  KC!Next
<1> DEFINE r == req[w].record
           p == <<r.owner, r.request>>
           k == r.wrapped.key
<1>1. /\ pc[w] = "inserting" /\ registry' = [registry EXCEPT ![r.archive] = r]
      /\ answers' = answers /\ Knows(w)
  BY DEF Insert, KInv
<1>2. /\ r \in Record /\ r.archive \in Archives /\ r # NoRow /\ k \in Keys
      /\ r.owner \in Owners /\ r.request \in Requests /\ p \in Owners \X Requests
      /\ p[1] = r.owner /\ p[2] = r.request
  BY <1>1, RecordType DEF Knows, Sound
<1>3. /\ registry[r.archive] = NoRow
      /\ \A b \in Archives :
           registry[b] # NoRow => ~(registry[b].owner = r.owner /\ registry[b].request = r.request)
  BY <1>2 DEF Duplicate, Stored, ByRequest
<1>4. /\ registry'[r.archive] = r
      /\ \A b \in Archives \ {r.archive} : registry'[b] = registry[b]
  BY <1>1, <1>2 DEF KInv, TypeOK
<1> HIDE DEF p, k
<1>5. custodies[p] = None
  BY <1>2, <1>3, CustodyOf DEF custodies
<1>6. \A q \in Owners \X Requests : custodies[q] # None => custodies[q].archive # r.archive
  <2> SUFFICES ASSUME NEW q \in Owners \X Requests, Custody(q) # None
               PROVE  Custody(q).archive # r.archive
    BY DEF custodies
  <2>1. PICK a \in Archives :
          registry[a] # NoRow /\ registry[a].owner = q[1] /\ registry[a].request = q[2]
    BY CustodyOf
  <2>2. Custody(q) = [archive |-> a, key |-> registry[a].wrapped.key]
    BY <2>1, CustodyOf
  <2>3. a # r.archive
    BY <1>3, <2>1
  <2> QED BY <2>2, <2>3
<1>7. ASSUME NEW q \in Owners \X Requests, q = p
      PROVE  Custody(q)' = [archive |-> r.archive, key |-> k]
  <2>1. registry'[r.archive] # NoRow /\ registry'[r.archive].owner = p[1]
        /\ registry'[r.archive].request = p[2] /\ registry'[r.archive].wrapped.key = k
    BY <1>2, <1>4 DEF k
  <2> QED BY <1>2, <1>7, <2>1, NextCustodyOf
<1>8. ASSUME NEW q \in Owners \X Requests, q # p PROVE Custody(q)' = Custody(q)
  <2>1. ~(r.owner = q[1] /\ r.request = q[2])
    BY <1>8 DEF p
  <2>2. \A a \in Archives :
          registry'[a] # NoRow /\ registry'[a].owner = q[1] /\ registry'[a].request = q[2]
          <=> registry[a] # NoRow /\ registry[a].owner = q[1] /\ registry[a].request = q[2]
    BY <1>3, <1>4, <2>1
  <2>3. \A a \in Archives : registry[a] # NoRow => registry'[a] = registry[a]
    BY <1>3, <1>4
  <2> QED BY <2>2, <2>3, CustodyOf, NextCustodyOf
<1>9. custodies' = [custodies EXCEPT ![p] = [archive |-> r.archive, key |-> k]]
  BY <1>2, <1>7, <1>8 DEF custodies
<1> HIDE DEF r
<1>10. KC!Register(p, r.archive, k)
  BY <1>1, <1>5, <1>6, <1>9 DEF KC!Register, KC!Pairs, custodies
<1> QED BY <1>2, <1>10 DEF KC!Next, KC!Pairs

LEMMA AnswerImplements ==
  ASSUME KInv, KInv', NEW w \in Workers, Answer(w)
  PROVE  KC!Next
<1> DEFINE r == req[w].record
           p == <<r.owner, r.request>>
<1>1. /\ pc[w] = "account again" /\ registry' = registry
      /\ answers' = answers \cup
           {[owner |-> r.owner, request |-> req[w].request, archive |-> r.archive,
             key |-> req[w].key]}
  BY DEF Answer
<1>2. /\ r \in Record /\ r.archive \in Archives /\ registry[r.archive] = r /\ r # NoRow
      /\ req[w].key = r.wrapped.key /\ req[w].request \in {None, r.request}
  BY <1>1, AnswerOf
<1>3. p \in Owners \X Requests /\ p[1] = r.owner /\ p[2] = r.request
  BY <1>2, RecordType
<1> HIDE DEF p, r
<1>4. Custody(p) = [archive |-> r.archive, key |-> req[w].key] /\ Custody(p) # None
  BY <1>2, <1>3, CustodyOf
<1>5. custodies[p] # None /\ custodies[p].archive = r.archive /\ custodies[p].key = req[w].key
  BY <1>3, <1>4 DEF custodies
<1>6. custodies' = custodies
  <2>1. ASSUME NEW q \in Owners \X Requests PROVE Custody(q)' = Custody(q)
    BY <1>1, CustodyOf, NextCustodyOf
  <2> QED BY <2>1 DEF custodies
<1>7. req[w].request \in {p[2], None}
  BY <1>2, <1>3
<1> QED BY <1>1, <1>3, <1>5, <1>6, <1>7 DEF KC!Next, KC!HandOut, KC!Pairs, custodies

(* A request id means one archive and one key, for ever and for one owner: *)
(* an insertion that is no duplicate settles an id, an answer hands out    *)
(* what is settled, and nothing else touches either.                       *)
THEOREM CustodyKept == Spec => CustodyRefinement
<1>1. Init => KC!Init
  <2> SUFFICES ASSUME Init PROVE KC!Init
    OBVIOUS
  <2>1. \A p \in Owners \X Requests : Custody(p) = None
    BY DEF Init, Custody, ByRequest, Stored
  <2> QED BY <2>1 DEF Init, KC!Init, KC!Pairs
<1>2. ASSUME KInv, [Next]_vars
      PROVE  KC!Next \/ UNCHANGED <<custodies, answers>>
  <2>1. KInv'
    BY <1>2, KInvKept
  <2>2. CASE \E w \in Workers : Insert(w) /\ ~Duplicate(req[w].record)
    BY <1>2, <2>1, <2>2, RegisterImplements
  <2>3. CASE \E w \in Workers : Answer(w)
    BY <1>2, <2>1, <2>3, AnswerImplements
  <2>4. CASE UNCHANGED <<registry, answers>>
    BY <1>2, <2>1, <2>4, CustodyUnchanged
  <2>5. Environment => UNCHANGED <<registry, answers>>
    BY DEF Environment, Issue, Refresh, ResetPassword, SetStatus
  <2>6. \A w \in Workers : Arrive(w) \/ Abandon(w) => UNCHANGED <<registry, answers>>
    BY DEF Arrive, Authenticate, Abandon
  <2>7. \A w \in Workers : Step(w) =>
          \/ UNCHANGED <<registry, answers>>
          \/ Insert(w) /\ ~Duplicate(req[w].record)
          \/ Answer(w)
    BY DEF Step, CheckFamily, CheckAccount, Reject, Lookup, NotFound, Wrap, Insert,
           ReadExisting, Unwrap
  <2>8. UNCHANGED vars => UNCHANGED <<registry, answers>>
    BY DEF vars
  <2> QED BY <1>2, <2>2, <2>3, <2>4, <2>5, <2>6, <2>7, <2>8 DEF Next
<1>3. KInv /\ [Next]_vars => [KC!Next]_<<custodies, answers>>
  BY <1>2
<1> QED BY KInvAlways, <1>1, <1>3, PTL DEF Spec, CustodyRefinement, KC!Spec, custodies
===============================================================================
