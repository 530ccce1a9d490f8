------------------------- MODULE OAuthPromisesProofs -------------------------
(***************************************************************************)
(* Further proofs about OAuthStore, on top of its chain: what a family is  *)
(* bound to, how long it lasts, that revocation and a password reset are   *)
(* final, and that the tables and requests implement GrantFamily.          *)
(*                                                                         *)
(* The argument has two halves.  Frame says what a step may do, to the     *)
(* tables, the requests and the tokens in clients' hands; every action     *)
(* obeys it (FrameStep).  Promises is the invariant; any step that obeys   *)
(* Frame keeps it (PromisesKept), and the action properties are read off   *)
(* the two together.                                                       *)
(***************************************************************************)
EXTENDS OAuthStoreProofs

Issuing == {"approved", "code", "native", "family", "stored"}

Holding == {"stored"} \cup Exchange

\* A request at stage s that remembers r agrees with the tables.
Agrees(s, r) ==
  /\ s \in Issuing => r.data.client = r.client
  /\ s # "idle" => r.at <= now /\ now <= r.at + RequestTTL
  /\ s = "hinted" => r.raw \in known
  /\ s \in Holding =>
       \A k \in Credentials :
         cred[k] # NoRow /\ cred[k].family = r.family => cred[k].data = r.data
  /\ s \in Exchange /\ grant[r.family] # NoRow =>
       /\ r.client = grant[r.family].client
       /\ cred[r.raw] # NoRow
       /\ cred[r.raw].family = r.family

\* The family a native sign-in has stored and not signed for yet: nobody else
\* knows its only credential, so it is as it was stored.
Untouched(r) ==
  /\ grant[r.family] = [client |-> r.client, expires |-> r.at + GrantTTL, revoked |-> FALSE]
  /\ r.raw \notin known
  /\ Unused(r.raw, r.family)
  /\ \A k \in Credentials : cred[k] # NoRow /\ cred[k].family = r.family => k = r.raw

\* No other request works on a family that one has just stored.
Apart ==
  \A w, v \in Workers :
    pc[w] = "stored" /\ pc[v] \in {"hinted"} \cup Holding /\ v # w
      => req[v].family # req[w].family

\* The rows of a family: one binding, the family's client, its deadline.
RowsAgree ==
  /\ \A k \in Credentials :
       cred[k] # NoRow =>
         /\ cred[k].data.client = grant[cred[k].family].client
         /\ cred[k].expires <= grant[cred[k].family].expires
  /\ \A k1, k2 \in Credentials :
       cred[k1] # NoRow /\ cred[k2] # NoRow /\ cred[k1].family = cred[k2].family
         => cred[k1].data = cred[k2].data

\* Access tokens and known secrets name what was drawn, tokens as their family.
TokensAgree ==
  /\ \A b \in bearer : b.family \in drawn
  /\ \A b \in bearer, k \in Credentials :
       cred[k] # NoRow /\ cred[k].family = b.family => b.data = cred[k].data
  /\ known \subseteq drawn

Promises ==
  /\ \A w \in Workers : Agrees(pc[w], req[w])
  /\ \A w \in Workers : pc[w] = "stored" => Untouched(req[w])
  /\ Apart
  /\ RowsAgree
  /\ TokensAgree

OInv == TypeInv /\ ChainInv /\ Promises

-------------------------------------------------------------------------------
(* What a step may do.                                                     *)

\* Somebody who knows of family f could be acting on it.
Reached(f) ==
  \/ \E k \in known : k \in Credentials /\ cred[k] # NoRow /\ cred[k].family = f
  \/ \E w \in Workers : pc[w] \in {"hinted"} \cup Exchange /\ req[w].family = f

\* A family that was there: purged when long expired, else at most revoked.
GrantKept(f) ==
  \/ grant'[f] = NoRow /\ grant[f].expires + PurgeAge < now
  \/ /\ grant'[f] # NoRow
     /\ grant'[f].client = grant[f].client
     /\ grant'[f].expires = grant[f].expires
     /\ grant'[f] = grant[f] \/ (Reached(f) /\ ~grant[f].revoked)

\* A credential that was there: purged with its family, else at most spent.
CredKept(k) ==
  \/ cred'[k] = NoRow /\ grant'[cred[k].family] = NoRow
  \/ cred'[k] = cred[k]
  \/ /\ Reached(cred[k].family) /\ cred'[k] # NoRow
     /\ cred'[k].family = cred[k].family
     /\ cred'[k].data = cred[k].data
     /\ cred'[k].expires = cred[k].expires
     /\ cred'[k].used

\* The first row of a new family.
FirstRow(k) ==
  /\ cred'[k].family \notin drawn
  /\ cred'[k].data.client = grant'[cred'[k].family].client
  /\ cred'[k].expires <= grant'[cred'[k].family].expires

\* The successor row that exchange w stores.
NextRow(w, k) ==
  /\ pc[w] = "signed" /\ pc'[w] = "idle"
  /\ cred'[k].family = req[w].family /\ cred'[k].data = req[w].data
  /\ LiveFor(req[w].family, req[w].data.client, now)
  /\ cred'[k].expires = grant[req[w].family].expires
  /\ grant' = grant

\* Request w answers with access token b.
Answered(w, b) ==
  /\ pc[w] \in {"stored", "signed"} /\ pc'[w] = "idle"
  /\ b.family = req[w].family /\ b.data = req[w].data
  /\ b.exp <= now + AccessTTL
  /\ pc[w] = "stored" => GetUser(req[w].data) /\ req[w].raw \in known' /\ UNCHANGED <<grant, cred>>
  /\ pc[w] = "signed" =>
       /\ LiveFor(req[w].family, req[w].data.client, now)
       /\ grant' = grant
       /\ \E k \in known' : cred'[k] # NoRow /\ cred'[k].family = req[w].family /\ ~cred'[k].used

\* Request w, if it moved, comes to remember what agrees with the tables.
Moved(w) ==
  /\ Agrees(pc[w], req[w])'
  /\ pc'[w] = "stored" => Untouched(req[w])'
  /\ pc'[w] \in {"hinted"} \cup Holding =>
       \/ /\ pc'[w] # "stored" /\ pc[w] \in {"hinted"} \cup Exchange
          /\ req'[w].family = req[w].family
       \/ /\ pc'[w] = "hinted"
          /\ \E k \in known : /\ k \in Credentials /\ cred[k] # NoRow
                              /\ cred[k].family = req'[w].family
       \/ req'[w].family \notin drawn
  /\ pc'[w] = "signed" => GetUser(req'[w].data)

Steady(w) ==
  /\ pc'[w] = pc[w] /\ req'[w] = req[w]
  /\ pc[w] # "idle" => now' <= req[w].at + RequestTTL

GrantsFrame ==
  /\ \A f \in Families : grant[f] # NoRow => GrantKept(f)
  /\ \A f \in Families : grant'[f] # NoRow => grant[f] # NoRow \/ f \notin drawn

CredsFrame ==
  /\ \A k \in Credentials : cred[k] # NoRow => CredKept(k)
  /\ \A k \in Credentials : cred'[k] # NoRow =>
       cred[k] # NoRow \/ (k \notin drawn /\ (FirstRow(k) \/ \E w \in Workers : NextRow(w, k)))
  /\ \A k, j \in Credentials :
       cred[k] = NoRow /\ cred'[k] # NoRow /\ cred[j] = NoRow /\ cred'[j] # NoRow => k = j

TokensFrame ==
  /\ \A b \in bearer' : b \in bearer \/ \E w \in Workers : Answered(w, b)
  /\ \A k \in known' : k \in known \/ k \notin drawn
                         \/ \E w \in Workers : pc[w] = "stored" /\ pc'[w] = "idle" /\ k = req[w].raw
  /\ known \subseteq known' /\ drawn \subseteq drawn' /\ known' \subseteq known \cup drawn'
  /\ now <= now'
  /\ \A u \in Users : account[u].tag <= account'[u].tag

RequestsFrame ==
  /\ \A w \in Workers : Steady(w) \/ Moved(w)
  /\ \A w, v \in Workers : w # v => Steady(w) \/ Steady(v)

Frame == GrantsFrame /\ CredsFrame /\ TokensFrame /\ RequestsFrame

LEMMA Types ==
  ASSUME TypeInv
  PROVE  /\ \A f \in Families : grant[f] # NoRow => grant[f] \in Grant /\ grant[f].expires \in Nat
         /\ \A k \in Credentials : cred[k] # NoRow =>
              /\ cred[k] \in Credential /\ cred[k].family \in Families
              /\ cred[k].data \in Data /\ cred[k].expires \in Nat
         /\ \A u \in Users : account[u].tag \in Nat /\ account[u].tag <= account[u].tag
         /\ now \in Nat /\ now <= now
         /\ \A w \in Workers : req[w] \in Request /\ req[w].at \in Nat /\ pc[w] \in Stages
         /\ \A w \in Workers :
              pc[w] \in {"hinted"} \cup Holding
                => req[w].family \in Families /\ req[w].raw \in Credentials
         /\ \A w \in Workers : pc[w] \in Issuing \cup Exchange => req[w].data \in Data
         /\ \A b \in bearer : b.family \in Families /\ b.data \in Data /\ b.exp \in Nat
BY DEF TypeInv, TypeOK, RequestOK, Grant, Credential, Request, Bearer, Holding, Issuing

-------------------------------------------------------------------------------
(* A step that obeys Frame keeps the promises.                             *)

LEMMA RowsKept ==
  ASSUME TypeInv, ChainInv, Promises, Frame, TypeInv', ChainInv'
  PROVE  RowsAgree'
<1>1. \A k \in Credentials : cred[k] # NoRow => grant[cred[k].family] # NoRow
  BY DEF ChainInv, NoOrphanCredential, Present
<1>2. ASSUME NEW k \in Credentials, cred'[k] # NoRow
      PROVE  /\ cred'[k].data.client = grant'[cred'[k].family].client
             /\ cred'[k].expires <= grant'[cred'[k].family].expires
  <2>1. grant'[cred'[k].family] # NoRow
    BY <1>2 DEF ChainInv, NoOrphanCredential, Present
  <2>2. CASE cred[k] # NoRow
    <3>1. cred'[k].family = cred[k].family /\ cred'[k].data = cred[k].data
          /\ cred'[k].expires = cred[k].expires
      BY <1>2, <2>2 DEF Frame, CredsFrame, CredKept
    <3>2. cred[k].family \in Families /\ grant[cred[k].family] # NoRow
      BY <2>2, <1>1, Types
    <3>3. /\ grant'[cred[k].family].client = grant[cred[k].family].client
          /\ grant'[cred[k].family].expires = grant[cred[k].family].expires
      BY <2>1, <3>1, <3>2 DEF Frame, GrantsFrame, GrantKept
    <3> QED BY <2>2, <3>1, <3>3 DEF Promises, RowsAgree
  <2>3. CASE cred[k] = NoRow
    <3>1. CASE FirstRow(k)
      BY <3>1 DEF FirstRow
    <3>2. ASSUME NEW w \in Workers, NextRow(w, k)
          PROVE  /\ cred'[k].data.client = grant'[cred'[k].family].client
                 /\ cred'[k].expires <= grant'[cred'[k].family].expires
      <4>1. /\ grant[req[w].family].expires \in Nat
            /\ grant[req[w].family].client = req[w].data.client
        BY <3>2, Types DEF NextRow, LiveFor, Present, Holding, Exchange
      <4> QED BY <3>2, <4>1 DEF NextRow
    <3> QED BY <1>2, <2>3, <3>1, <3>2 DEF Frame, CredsFrame
  <2> QED BY <2>2, <2>3
<1>3. ASSUME NEW k1 \in Credentials, NEW k2 \in Credentials,
             cred'[k1] # NoRow, cred'[k2] # NoRow, cred'[k1].family = cred'[k2].family,
             cred[k1] # NoRow
      PROVE  cred'[k1].data = cred'[k2].data
  <2>1. cred'[k1].family = cred[k1].family /\ cred'[k1].data = cred[k1].data
    BY <1>3 DEF Frame, CredsFrame, CredKept
  <2>2. cred[k1].family \in drawn
    BY <1>3 DEF ChainInv, Drawn
  <2>3. CASE cred[k2] # NoRow
    <3>1. cred'[k2].family = cred[k2].family /\ cred'[k2].data = cred[k2].data
      BY <1>3, <2>3 DEF Frame, CredsFrame, CredKept
    <3> QED BY <1>3, <2>1, <2>3, <3>1 DEF Promises, RowsAgree
  <2>4. CASE cred[k2] = NoRow
    <3>1. PICK w \in Workers : NextRow(w, k2)
      BY <1>3, <2>1, <2>2, <2>4 DEF Frame, CredsFrame, FirstRow
    <3>2. pc[w] \in Holding /\ cred[k1].family = req[w].family /\ cred'[k2].data = req[w].data
      BY <3>1, <1>3, <2>1 DEF NextRow, Holding, Exchange
    <3> QED BY <1>3, <2>1, <3>2 DEF Promises, Agrees
  <2> QED BY <2>3, <2>4
<1>4. ASSUME NEW k1 \in Credentials, NEW k2 \in Credentials,
             cred'[k1] # NoRow, cred'[k2] # NoRow, cred'[k1].family = cred'[k2].family
      PROVE  cred'[k1].data = cred'[k2].data
  <2>1. CASE cred[k1] # NoRow
    BY <1>3, <1>4, <2>1
  <2>2. CASE cred[k2] # NoRow
    BY <1>3, <1>4, <2>2
  <2>3. CASE cred[k1] = NoRow /\ cred[k2] = NoRow
    BY <1>4, <2>3 DEF Frame, CredsFrame
  <2> QED BY <2>1, <2>2, <2>3
<1> QED BY <1>2, <1>4 DEF RowsAgree

LEMMA TokensKept ==
  ASSUME TypeInv, ChainInv, Promises, Frame
  PROVE  TokensAgree'
<1>1. \A w \in Workers : pc[w] \in Holding => req[w].family \in drawn /\ req[w].raw \in drawn
  BY DEF ChainInv, Drawn, Holding, Exchange
<1>2. \A b \in bearer' : b.family \in drawn
  <2>1. \A b \in bearer, w \in Workers :
          b.family \in drawn
    BY DEF Promises, TokensAgree
  <2>2. \A b \in bearer', w \in Workers : Answered(w, b) => b.family \in drawn
    BY <1>1 DEF Answered, Holding, Exchange
  <2> QED BY <2>1, <2>2 DEF Frame, TokensFrame, Promises, TokensAgree
<1>3. ASSUME NEW b \in bearer', NEW k \in Credentials,
             cred'[k] # NoRow, cred'[k].family = b.family, cred[k] # NoRow
      PROVE  b.data = cred'[k].data
  <2>1. cred'[k].family = cred[k].family /\ cred'[k].data = cred[k].data
    BY <1>3 DEF Frame, CredsFrame, CredKept
  <2>2. CASE b \in bearer
    BY <1>3, <2>1, <2>2 DEF Promises, TokensAgree
  <2>3. ASSUME NEW w \in Workers, Answered(w, b) PROVE b.data = cred[k].data
    <3>1. pc[w] \in Holding /\ b.family = req[w].family /\ b.data = req[w].data
      BY <2>3 DEF Answered, Holding, Exchange
    <3> QED BY <3>1, <1>3, <2>1 DEF Promises, Agrees
  <2> QED BY <2>1, <2>2, <2>3 DEF Frame, TokensFrame
<1>4. ASSUME NEW b \in bearer', NEW k \in Credentials,
             cred'[k] # NoRow, cred'[k].family = b.family, cred[k] = NoRow
      PROVE  b.data = cred'[k].data
  <2>1. PICK w \in Workers : NextRow(w, k)
    BY <1>2, <1>4 DEF Frame, CredsFrame, FirstRow
  <2>2. /\ pc[w] = "signed" /\ pc[w] \in Exchange /\ pc[w] \in Holding
        /\ cred'[k].family = req[w].family /\ cred'[k].data = req[w].data
        /\ grant[req[w].family] # NoRow /\ req[w].family \in Families /\ req[w].raw \in Credentials
    BY <2>1, Types DEF NextRow, Holding, Exchange, LiveFor, Present
  <2>3. CASE b \in bearer
    <3>1. /\ cred[req[w].raw] # NoRow /\ cred[req[w].raw].family = req[w].family
          /\ cred[req[w].raw].data = req[w].data
      BY <2>2 DEF Promises, Agrees
    <3> QED BY <1>4, <2>2, <2>3, <3>1 DEF Promises, TokensAgree
  <2>4. ASSUME NEW v \in Workers, Answered(v, b) PROVE b.data = req[w].data
    <3>1. req[v].family = req[w].family /\ b.data = req[v].data /\ pc[v] \in {"stored", "signed"}
      BY <1>4, <2>2, <2>4 DEF Answered
    <3>2. pc[v] # "stored"
      BY <2>2, <3>1 DEF Promises, Apart
    <3>3. Exchanging(w, req[w].family) /\ Exchanging(v, req[w].family)
      BY <2>2, <3>1, <3>2 DEF Exchanging
    <3> QED BY <2>2, <3>1, <3>3 DEF ChainInv, LinearFamily
  <2> QED BY <2>2, <2>3, <2>4 DEF Frame, TokensFrame
<1>5. known' \subseteq drawn'
  BY DEF Frame, TokensFrame, Promises, TokensAgree
<1>6. \A b \in bearer' : b.family \in drawn'
  BY <1>2 DEF Frame, TokensFrame
<1> QED BY <1>3, <1>4, <1>5, <1>6 DEF TokensAgree

\* A family just stored by v is out of everybody's reach.
LEMMA StoredIsUnreached ==
  ASSUME Promises, NEW v \in Workers, pc[v] = "stored"
  PROVE  ~Reached(req[v].family)
BY DEF Promises, Untouched, Reached, Apart, Holding, Exchange

LEMMA UntouchedKept ==
  ASSUME TypeInv, ChainInv, Promises, Frame, NEW v \in Workers, pc[v] = "stored", Steady(v)
  PROVE  Untouched(req[v])'
<1> DEFINE f == req[v].family
           k == req[v].raw
<1>1. /\ f \in Families /\ k \in Credentials /\ req[v].at \in Nat /\ f \in drawn /\ k \in drawn
      /\ req[v].client \in Clients
  BY Types DEF ChainInv, Drawn, Holding, TypeInv, RequestOK
<1>2. /\ grant[f] = [client |-> req[v].client, expires |-> req[v].at + GrantTTL, revoked |-> FALSE]
      /\ k \notin known
      /\ cred[k] # NoRow /\ cred[k].family = f /\ ~cred[k].used
      /\ \A j \in Credentials : cred[j] # NoRow /\ cred[j].family = f => j = k
  BY DEF Promises, Untouched, Unused
<1>3. now <= req[v].at + RequestTTL /\ now \in Nat
  BY Types DEF Promises, Agrees
<1>4. grant[f] # NoRow
  BY <1>1, <1>2 DEF ChainInv, NoOrphanCredential, Present
<1>5. ~Reached(f)
  BY StoredIsUnreached
<1>6. ~(grant[f].expires + PurgeAge < now)
  BY <1>1, <1>2, <1>3, BoundAssumption
<1>7. grant'[f] = grant[f]
  BY <1>1, <1>4, <1>5, <1>6 DEF Frame, GrantsFrame, GrantKept
<1>8. cred'[k] = cred[k]
  BY <1>1, <1>2, <1>4, <1>5, <1>7 DEF Frame, CredsFrame, CredKept
<1>9. k \notin known'
  <2>1. \A w \in Workers : pc[w] = "stored" /\ pc'[w] = "idle" => req[w].raw # k
    <3>1. \A w \in Workers : pc[w] = "stored" => cred[req[w].raw].family = req[w].family
      BY DEF Promises, Untouched, Unused
    <3>2. \A w \in Workers : pc[w] = "stored" /\ w # v => req[w].family # f
      BY DEF Promises, Apart, Holding
    <3>3. pc'[v] = "stored"
      BY DEF Steady
    <3> QED BY <3>1, <3>2, <3>3, <1>2
  <2> QED BY <1>1, <1>2, <2>1 DEF Frame, TokensFrame
<1>10. ASSUME NEW j \in Credentials, cred'[j] # NoRow, cred'[j].family = f
       PROVE  j = k
  <2>1. CASE cred[j] # NoRow
    BY <1>2, <1>10, <2>1 DEF Frame, CredsFrame, CredKept
  <2>2. CASE cred[j] = NoRow
    <3>1. PICK w \in Workers : NextRow(w, j)
      BY <1>1, <1>10, <2>2 DEF Frame, CredsFrame, FirstRow
    <3>2. Reached(f)
      BY <3>1, <1>10 DEF NextRow, Reached, Exchange
    <3> QED BY <3>2, <1>5
  <2> QED BY <2>1, <2>2
<1> HIDE DEF f, k
<1>11. req'[v] = req[v]
  BY DEF Steady
<1> QED BY <1>2, <1>7, <1>8, <1>9, <1>10, <1>11 DEF Untouched, Unused, f, k

LEMMA AgreesKept ==
  ASSUME TypeInv, ChainInv, Promises, Frame, TypeInv', NEW v \in Workers, Steady(v)
  PROVE  Agrees(pc[v], req[v])'
<1> DEFINE r == req[v]
<1>1. pc'[v] = pc[v] /\ req'[v] = r /\ Agrees(pc[v], r)
  BY DEF Steady, Promises
<1>2. pc[v] # "idle" => r.at <= now' /\ now' <= r.at + RequestTTL
  <2>1. now \in Nat /\ now' \in Nat /\ r.at \in Nat
    BY Types DEF TypeInv, TypeOK
  <2>2. pc[v] # "idle" => r.at <= now
    BY <1>1 DEF Agrees
  <2>3. now <= now' /\ (pc[v] # "idle" => now' <= r.at + RequestTTL)
    BY DEF Frame, TokensFrame, Steady
  <2> QED BY <2>1, <2>2, <2>3
<1>3. pc[v] = "hinted" => r.raw \in known'
  BY <1>1 DEF Agrees, Frame, TokensFrame
<1>4. ASSUME pc[v] \in Holding, NEW k \in Credentials, cred'[k] # NoRow, cred'[k].family = r.family
      PROVE  cred'[k].data = r.data
  <2>1. r.family \in drawn
    BY <1>4 DEF ChainInv, Drawn, Holding, Exchange
  <2>2. CASE cred[k] # NoRow
    <3>1. cred'[k].family = cred[k].family /\ cred'[k].data = cred[k].data
      BY <1>4, <2>2 DEF Frame, CredsFrame, CredKept
    <3> QED BY <1>1, <1>4, <2>2, <3>1 DEF Agrees
  <2>3. CASE cred[k] = NoRow
    <3>1. PICK w \in Workers : NextRow(w, k)
      BY <1>4, <2>1, <2>3 DEF Frame, CredsFrame, FirstRow
    <3>2. pc[w] = "signed" /\ pc'[w] = "idle" /\ req[w].family = r.family
      BY <1>4, <3>1 DEF NextRow
    <3>3. w # v
      BY <1>1, <3>2
    <3>4. pc[v] # "stored"
      BY <3>2, <3>3 DEF Promises, Apart, Holding, Exchange
    <3>5. r.family \in Families /\ Exchanging(v, r.family) /\ Exchanging(w, r.family)
      BY <1>4, <3>2, <3>4, Types DEF Exchanging, Holding, Exchange
    <3> QED BY <3>3, <3>5 DEF ChainInv, LinearFamily
  <2> QED BY <2>2, <2>3
<1>5. ASSUME pc[v] \in Exchange, grant'[r.family] # NoRow
      PROVE  /\ r.client = grant'[r.family].client
             /\ cred'[r.raw] # NoRow
             /\ cred'[r.raw].family = r.family
  <2>1. r.family \in Families /\ r.raw \in Credentials /\ r.family \in drawn
    BY <1>5, Types DEF ChainInv, Drawn, Holding
  <2>2. grant[r.family] # NoRow
    BY <1>5, <2>1 DEF Frame, GrantsFrame
  <2>3. r.client = grant[r.family].client /\ cred[r.raw] # NoRow /\ cred[r.raw].family = r.family
    BY <1>1, <1>5, <2>2 DEF Agrees
  <2>4. grant'[r.family].client = grant[r.family].client
    BY <1>5, <2>1, <2>2 DEF Frame, GrantsFrame, GrantKept
  <2>5. CredKept(r.raw)
    BY <2>1, <2>3 DEF Frame, CredsFrame
  <2> QED BY <1>5, <2>3, <2>4, <2>5 DEF CredKept
<1>6. pc[v] \in Issuing => r.data.client = r.client
  BY <1>1 DEF Agrees
<1> HIDE DEF r
<1> QED BY <1>1, <1>2, <1>3, <1>4, <1>5, <1>6 DEF Agrees

LEMMA ApartKept ==
  ASSUME TypeInv, ChainInv, Promises, Frame
  PROVE  Apart'
<1> SUFFICES ASSUME NEW w \in Workers, NEW v \in Workers, pc'[w] = "stored",
                    pc'[v] \in {"hinted"} \cup Holding, v # w
             PROVE  req'[v].family # req'[w].family
  BY DEF Apart
<1>0. \A x \in Workers : pc[x] \in {"hinted"} \cup Holding => req[x].family \in drawn
  BY DEF ChainInv, Drawn, Holding
<1>1. CASE Steady(w) /\ Steady(v)
  BY <1>1 DEF Steady, Promises, Apart
<1>2. CASE Steady(w) /\ Moved(v)
  <2>1. pc[w] = "stored" /\ req'[w] = req[w] /\ req[w].family \in drawn
    BY <1>0, <1>2 DEF Steady, Holding
  <2>2. ~Reached(req[w].family)
    BY <2>1, StoredIsUnreached
  <2>3. Reached(req'[v].family) \/ req'[v].family \notin drawn
    BY <1>2 DEF Moved, Reached
  <2> QED BY <2>1, <2>2, <2>3
<1>3. CASE Moved(w) /\ Steady(v)
  <2>1. req'[w].family \notin drawn
    BY <1>3 DEF Moved, Holding
  <2>2. req'[v].family \in drawn
    BY <1>0, <1>3 DEF Steady
  <2> QED BY <2>1, <2>2
<1> QED BY <1>1, <1>2, <1>3 DEF Frame, RequestsFrame

LEMMA PromisesKept ==
  ASSUME TypeInv, ChainInv, Promises, Frame, TypeInv', ChainInv'
  PROVE  Promises'
<1>1. \A w \in Workers : Agrees(pc[w], req[w])'
  BY AgreesKept DEF Frame, RequestsFrame, Moved
<1>2. \A w \in Workers : pc'[w] = "stored" => Untouched(req[w])'
  <2>1. \A w \in Workers : Steady(w) /\ pc'[w] = "stored" => pc[w] = "stored"
    BY DEF Steady
  <2> QED BY <2>1, UntouchedKept DEF Frame, RequestsFrame, Moved
<1> QED BY <1>1, <1>2, ApartKept, RowsKept, TokensKept DEF Promises

-------------------------------------------------------------------------------
(* Every step obeys Frame.                                                 *)

\* The other requests are as they were, in a step that takes no time.
LEMMA OthersSteady ==
  ASSUME TypeInv, Promises, NEW w \in Workers, NEW s, NEW r, Goto(w, s, r), now' = now, Moved(w)
  PROVE  RequestsFrame
<1>1. \A v \in Workers \ {w} : Steady(v)
  BY GotoEffect DEF Promises, Agrees, Steady
<1> QED BY <1>1 DEF RequestsFrame

LEMMA SameGrants ==
  ASSUME TypeInv, grant' = grant
  PROVE  GrantsFrame
BY DEF GrantsFrame, GrantKept

LEMMA SameCreds ==
  ASSUME TypeInv, cred' = cred
  PROVE  CredsFrame
BY DEF CredsFrame, CredKept

LEMMA SameTokens ==
  ASSUME TypeInv, UNCHANGED <<now, drawn, known, bearer>>,
         \A u \in Users : account[u].tag <= account'[u].tag
  PROVE  TokensFrame
BY Types DEF TokensFrame

\* A request that finishes remembers nothing.
LEMMA FinishMoved ==
  ASSUME TypeInv, NEW w \in Workers, Finish(w)
  PROVE  Moved(w)
<1>1. pc'[w] = "idle"
  BY GotoEffect DEF Finish
<1> QED BY <1>1 DEF Moved, Agrees, Issuing, Holding, Exchange

\* authorize and the native login start issuing.
LEMMA StartFrame ==
  ASSUME TypeInv, ChainInv, Promises, NEW w \in Workers, NEW s \in {"approved", "native"}, NEW r,
         Goto(w, s, r), r.data.client = r.client, r.at = now,
         UNCHANGED <<now, account, tables, bearer>>
  PROVE  Frame
<1>1. pc'[w] = s /\ req'[w] = r
  BY GotoEffect
<1>2. now <= now + RequestTTL /\ now \in Nat
  BY Types, BoundAssumption
<1>3. Moved(w)
  BY <1>1, <1>2 DEF Moved, Agrees, Issuing, Holding, Exchange
<1> QED BY <1>3, OthersSteady, SameGrants, SameCreds, SameTokens, Types DEF Frame, tables

LEMMA HousekeepFrame ==
  ASSUME TypeInv, ChainInv, Promises, NEW w \in Workers, Housekeep(w)
  PROVE  Frame
<1> DEFINE s == IF pc[w] = "approved" THEN "code" ELSE "family"
           r == [req[w] EXCEPT !.at = now]
<1>1. /\ pc[w] \in Issuing /\ Goto(w, s, r) /\ s \in {"code", "family"}
      /\ r.data = req[w].data /\ r.client = req[w].client /\ r.at = now
  BY Types DEF Housekeep, Issuing, Request
<1>2. req[w].data.client = req[w].client
  BY <1>1 DEF Promises, Agrees
<1> HIDE DEF s, r
<1>3. pc'[w] = s /\ req'[w] = r /\ now' = now
  BY <1>1, GotoEffect DEF Housekeep
<1>4. now <= now + RequestTTL /\ now <= now
  BY Types, BoundAssumption
<1>5. Moved(w)
  BY <1>1, <1>2, <1>3, <1>4 DEF Moved, Agrees, Issuing, Holding, Exchange
<1>6. RequestsFrame
  BY <1>1, <1>3, <1>5, OthersSteady
<1>7. GrantsFrame /\ CredsFrame
  <2>1. CASE UNCHANGED <<grant, cred>>
    BY <2>1, SameGrants, SameCreds
  <2>2. CASE PurgeExpired(req[w].client)
    <3>1. PICK S \in PurgeBatch(req[w].client) :
            /\ grant' = [f \in Families |-> IF f \in S THEN NoRow ELSE grant[f]]
            /\ cred' = [k \in Credentials |->
                          IF cred[k] # NoRow /\ cred[k].family \in S THEN NoRow ELSE cred[k]]
      BY <2>2 DEF PurgeExpired
    <3>2. \A f \in S : f \in Families /\ grant[f].expires + PurgeAge < now
      BY DEF PurgeBatch, LongExpired
    <3>3. /\ \A f \in Families : grant'[f] = IF f \in S THEN NoRow ELSE grant[f]
          /\ \A k \in Credentials : cred'[k] = IF cred[k] # NoRow /\ cred[k].family \in S
                                               THEN NoRow ELSE cred[k]
      BY <3>1
    <3>4. \A k \in Credentials : cred[k] # NoRow => CredKept(k)
      <4>1. ASSUME NEW k \in Credentials, cred[k] # NoRow, cred[k].family \in S
            PROVE  cred'[k] = NoRow /\ grant'[cred[k].family] = NoRow
        BY <3>2, <3>3, <4>1
      <4>2. ASSUME NEW k \in Credentials, cred[k] # NoRow, cred[k].family \notin S
            PROVE  cred'[k] = cred[k]
        BY <3>3, <4>2
      <4> QED BY <4>1, <4>2 DEF CredKept
    <3>5. \A k \in Credentials : cred'[k] # NoRow => cred[k] # NoRow
      BY <3>3
    <3>6. CredsFrame
      BY <3>4, <3>5 DEF CredsFrame
    <3>7. GrantsFrame
      BY <3>2, <3>3 DEF GrantsFrame, GrantKept
    <3> QED BY <3>6, <3>7
  <2> QED BY <2>1, <2>2 DEF Housekeep
<1>8. TokensFrame
  BY Types, SameTokens DEF Housekeep
<1> QED BY <1>6, <1>7, <1>8 DEF Frame

\* A new family and its first row, whatever becomes of the request.
LEMMA InsertTables ==
  ASSUME TypeInv, ChainInv, Promises, NEW w \in Workers, NEW f \in Families, NEW k \in Credentials,
         NEW kind \in {"code", "refresh"}, NEW ttl \in Nat, ttl <= GrantTTL,
         pc[w] \in {"code", "family"}, InsertFamily(w, f, k, kind, ttl)
  PROVE  /\ GrantsFrame /\ CredsFrame
         /\ f \notin drawn /\ k \notin drawn /\ drawn' = drawn \cup {f, k}
         /\ grant'[f] = [client |-> req[w].client, expires |-> req[w].at + GrantTTL,
                         revoked |-> FALSE]
         /\ cred'[k] # NoRow /\ cred'[k].family = f /\ cred'[k].data = req[w].data
         /\ ~cred'[k].used
         /\ \A j \in Credentials \ {k} : cred'[j] = cred[j]
<1> DEFINE g == [client |-> req[w].client, expires |-> req[w].at + GrantTTL, revoked |-> FALSE]
           c == [family |-> f, kind |-> kind, data |-> req[w].data,
                 expires |-> req[w].at + ttl, used |-> FALSE]
<1>1. /\ f \notin drawn /\ k \notin drawn /\ drawn' = drawn \cup {f, k}
      /\ grant' = [grant EXCEPT ![f] = g] /\ cred' = [cred EXCEPT ![k] = c]
  BY DEF InsertFamily, FreshFamily, FreshSecret
<1>2. /\ req[w].client \in Clients /\ req[w].data \in Data /\ req[w].at \in Nat
      /\ req[w].data.client = req[w].client
  BY Types DEF TypeInv, RequestOK, Promises, Agrees, Issuing
<1>3. /\ g \in Grant /\ c \in Credential
      /\ c.family = f /\ c.data = req[w].data /\ ~c.used
      /\ c.data.client = g.client /\ c.expires <= g.expires
  BY <1>2, BoundAssumption DEF Grant, Credential
<1> HIDE DEF g, c
<1>4. /\ grant'[f] = g /\ cred'[k] = c /\ g # NoRow /\ c # NoRow
      /\ \A h \in Families \ {f} : grant'[h] = grant[h]
      /\ \A j \in Credentials \ {k} : cred'[j] = cred[j]
  BY <1>1, <1>3, NullAssumption DEF TypeInv, TypeOK
<1>5. cred[k] = NoRow /\ grant[f] = NoRow
  BY <1>1 DEF ChainInv, Drawn, Present
<1>6. FirstRow(k)
  BY <1>1, <1>3, <1>4 DEF FirstRow
<1>7. GrantsFrame
  BY <1>1, <1>4, <1>5 DEF GrantsFrame, GrantKept
<1>8. CredsFrame
  <2>1. \A j \in Credentials : cred[j] # NoRow => CredKept(j)
    BY <1>4, <1>5 DEF CredKept
  <2>2. \A j \in Credentials : cred'[j] # NoRow => cred[j] # NoRow \/ j = k
    BY <1>4
  <2> QED BY <1>1, <1>6, <2>1, <2>2 DEF CredsFrame
<1> QED BY <1>1, <1>3, <1>4, <1>7, <1>8 DEF g

LEMMA CreateCodeFrame ==
  ASSUME TypeInv, ChainInv, Promises,
         NEW w \in Workers, NEW f \in Families, NEW k \in Credentials, CreateCode(w, f, k)
  PROVE  Frame
<1>1. /\ GrantsFrame /\ CredsFrame
      /\ k \notin drawn /\ drawn' = drawn \cup {f, k}
  BY InsertTables, BoundAssumption DEF CreateCode
<1>2. TokensFrame
  BY <1>1, Types DEF CreateCode, TokensFrame
<1>3. RequestsFrame
  BY FinishMoved, OthersSteady DEF CreateCode, Finish
<1> QED BY <1>1, <1>2, <1>3 DEF Frame

LEMMA CreateRefreshFamilyFrame ==
  ASSUME TypeInv, ChainInv, Promises,
         NEW w \in Workers, NEW f \in Families, NEW k \in Credentials, CreateRefreshFamily(w, f, k)
  PROVE  Frame
<1> DEFINE r == [req[w] EXCEPT !.family = f, !.raw = k]
<1>1. /\ GrantsFrame /\ CredsFrame
      /\ f \notin drawn /\ k \notin drawn /\ drawn' = drawn \cup {f, k}
      /\ grant'[f] = [client |-> req[w].client, expires |-> req[w].at + GrantTTL,
                      revoked |-> FALSE]
      /\ cred'[k] # NoRow /\ cred'[k].family = f /\ cred'[k].data = req[w].data
      /\ ~cred'[k].used
      /\ \A j \in Credentials \ {k} : cred'[j] = cred[j]
  BY InsertTables, BoundAssumption DEF CreateRefreshFamily
<1>2. /\ r.family = f /\ r.raw = k
      /\ r.data = req[w].data /\ r.client = req[w].client /\ r.at = req[w].at
  BY Types DEF Request
<1>3. /\ pc[w] = "family" /\ Goto(w, "stored", r) /\ UNCHANGED <<now, account, known, bearer>>
  BY DEF CreateRefreshFamily
<1> HIDE DEF r
<1>4. pc'[w] = "stored" /\ req'[w] = r
  BY <1>3, GotoEffect
<1>5. TokensFrame
  BY <1>1, <1>3, Types DEF TokensFrame
<1>6. \A j \in Credentials : cred'[j] # NoRow /\ cred'[j].family = f => j = k
  BY <1>1 DEF ChainInv, Drawn
<1>7. k \notin known'
  BY <1>1, <1>3 DEF Promises, TokensAgree
<1>8. Untouched(req[w])'
  BY <1>1, <1>2, <1>4, <1>6, <1>7 DEF Untouched, Unused
<1>9. Agrees(pc[w], req[w])'
  BY <1>1, <1>2, <1>3, <1>4, <1>6 DEF Agrees, Promises, Issuing, Holding, Exchange
<1>10. Moved(w)
  BY <1>1, <1>2, <1>4, <1>8, <1>9 DEF Moved
<1>11. RequestsFrame
  BY <1>3, <1>10, OthersSteady
<1> QED BY <1>1, <1>5, <1>11 DEF Frame

LEMMA SignNativeFrame ==
  ASSUME TypeInv, ChainInv, Promises, NEW w \in Workers, SignNative(w)
  PROVE  Frame
<1> DEFINE b == [family |-> req[w].family, data |-> req[w].data, exp |-> now + AccessTTL]
<1>1. /\ pc[w] = "stored" /\ pc'[w] = "idle" /\ GetUser(req[w].data)
      /\ UNCHANGED <<now, account, grant, cred, drawn>>
      /\ known' = known \cup {req[w].raw} /\ bearer' = bearer \cup {b}
  BY GotoEffect DEF SignNative, Finish
<1>2. now + AccessTTL <= now + AccessTTL
  BY Types, BoundAssumption
<1>3. Answered(w, b)
  BY <1>1, <1>2 DEF Answered
<1>4. req[w].raw \in drawn
  BY <1>1 DEF ChainInv, Drawn
<1>5. TokensFrame
  BY <1>1, <1>3, <1>4, Types DEF TokensFrame
<1>6. RequestsFrame
  BY <1>1, FinishMoved, OthersSteady DEF SignNative, Finish
<1> QED BY <1>1, <1>5, <1>6, SameGrants, SameCreds DEF Frame

LEMMA LookupFrame ==
  ASSUME TypeInv, ChainInv, Promises,
         NEW w \in Workers, NEW c \in Clients, NEW k \in Credentials, Lookup(w, c, k)
  PROVE  Frame
<1> DEFINE r == [NoRequest EXCEPT !.client = c, !.raw = k, !.family = cred[k].family, !.at = now]
<1>1. r.raw = k /\ r.family = cred[k].family /\ r.at = now
  BY DEF NoRequest
<1>2. /\ Goto(w, "hinted", r) /\ k \in known /\ cred[k] # NoRow
      /\ UNCHANGED <<now, account, grant, cred, drawn, known, bearer>>
  BY DEF Lookup, tables
<1> HIDE DEF r
<1>3. pc'[w] = "hinted" /\ req'[w] = r
  BY <1>2, GotoEffect
<1>4. now <= now + RequestTTL /\ now <= now
  BY Types, BoundAssumption
<1>5. Moved(w)
  BY <1>1, <1>2, <1>3, <1>4 DEF Moved, Agrees, Issuing, Holding, Exchange
<1> QED BY <1>2, <1>5, OthersSteady, SameGrants, SameCreds, SameTokens, Types DEF Frame

\* A spent row, a revoked row.
LEMMA SpentRow ==
  ASSUME NEW c \in Credential
  PROVE  LET d == [c EXCEPT !.used = TRUE] IN
         /\ d \in Credential /\ d # NoRow /\ d.used
         /\ d.family = c.family /\ d.data = c.data /\ d.expires = c.expires
<1> DEFINE d == [c EXCEPT !.used = TRUE]
<1>1. d \in Credential
  BY DEF Credential
<1>2. d.used /\ d.family = c.family /\ d.data = c.data /\ d.expires = c.expires
  BY DEF Credential
<1> QED BY <1>1, <1>2, NullAssumption

LEMMA RevokedRow ==
  ASSUME NEW g \in Grant
  PROVE  LET h == [g EXCEPT !.revoked = TRUE] IN
         /\ h \in Grant /\ h # NoRow /\ h.client = g.client /\ h.expires = g.expires
         /\ g.revoked => h = g
<1> DEFINE h == [g EXCEPT !.revoked = TRUE]
<1>1. h \in Grant
  BY DEF Grant
<1>2. h.client = g.client /\ h.expires = g.expires
  BY DEF Grant
<1>3. g.revoked => h = g
  BY DEF Grant
<1> QED BY <1>1, <1>2, <1>3, NullAssumption

LEMMA ConsumeFirstFrame ==
  ASSUME TypeInv, ChainInv, Promises, NEW w \in Workers, ConsumeFirst(w)
  PROVE  Frame
<1> DEFINE k == req[w].raw
           f == req[w].family
           r == [req[w] EXCEPT !.data = cred[k].data]
<1>1. /\ pc[w] = "hinted" /\ k \in Credentials /\ f \in Families
      /\ cred[k] # NoRow /\ cred[k] \in Credential /\ cred[k].family = f
      /\ grant[f] # NoRow /\ grant[f].client = req[w].client
      /\ UNCHANGED <<now, account, grant, drawn, known, bearer>>
      /\ cred' = [cred EXCEPT ![k].used = TRUE]
      /\ Goto(w, "consumed", r)
  BY Types DEF ConsumeFirst, LiveFor, Usable, Spend, Present, ChainInv, Drawn
<1>2. /\ r.family = f /\ r.raw = k /\ r.data = cred[k].data
      /\ r.client = req[w].client /\ r.at = req[w].at
  BY Types DEF Request
<1>3. /\ cred'[k] # NoRow /\ cred'[k].family = f /\ cred'[k].used
      /\ cred'[k].data = cred[k].data /\ cred'[k].expires = cred[k].expires
      /\ \A j \in Credentials \ {k} : cred'[j] = cred[j]
  <2>1. cred'[k] = [cred[k] EXCEPT !.used = TRUE]
    BY <1>1 DEF TypeInv, TypeOK
  <2>2. \A j \in Credentials \ {k} : cred'[j] = cred[j]
    BY <1>1 DEF TypeInv, TypeOK
  <2> HIDE DEF k, r
  <2> QED BY <1>1, <2>1, <2>2, SpentRow
<1>4. pc'[w] = "consumed" /\ req'[w] = r
  <2> HIDE DEF r
  <2> QED BY <1>1, GotoEffect
<1>5. \A j \in Credentials : cred'[j] # NoRow /\ cred'[j].family = f => cred'[j].data = r.data
  <2>1. \A j \in Credentials : cred'[j] # NoRow =>
          cred[j] # NoRow /\ cred'[j].family = cred[j].family /\ cred'[j].data = cred[j].data
    BY <1>1, <1>3
  <2>2. \A j \in Credentials : cred[j] # NoRow /\ cred[j].family = f => cred[j].data = cred[k].data
    BY <1>1 DEF Promises, RowsAgree
  <2> QED BY <1>2, <2>1, <2>2
<1>6. Reached(f)
  BY <1>1 DEF Reached
<1>7. Agrees("hinted", req[w])
  BY <1>1 DEF Promises
<1> HIDE DEF r, k, f
<1>8. Agrees(pc[w], req[w])'
  BY <1>1, <1>2, <1>3, <1>4, <1>5, <1>7 DEF Agrees, Issuing, Holding, Exchange
<1>9. Moved(w)
  BY <1>1, <1>2, <1>4, <1>8 DEF Moved, f
<1>10. CredsFrame
  <2>1. \A j \in Credentials : cred[j] # NoRow => CredKept(j)
    BY <1>1, <1>3, <1>6 DEF CredKept
  <2>2. \A j \in Credentials : cred'[j] # NoRow => cred[j] # NoRow
    BY <1>1, <1>3
  <2> QED BY <2>1, <2>2 DEF CredsFrame
<1>11. RequestsFrame
  BY <1>1, <1>9, OthersSteady
<1> QED BY <1>1, <1>10, <1>11, SameGrants, SameTokens, Types DEF Frame

\* A replay or a revocation marks a family somebody reached.
LEMMA RevokedFrame ==
  ASSUME TypeInv, NEW f \in Families, grant[f] # NoRow, Reached(f),
         grant' = [grant EXCEPT ![f].revoked = TRUE]
  PROVE  GrantsFrame
<1>1. grant[f] \in Grant
  BY Types
<1>2. /\ grant'[f] = [grant[f] EXCEPT !.revoked = TRUE]
      /\ \A g \in Families \ {f} : grant'[g] = grant[g]
  BY <1>1 DEF TypeInv, TypeOK
<1>3. grant[f].revoked => grant'[f] = grant[f]
  BY <1>1, <1>2, RevokedRow
<1>4. /\ grant'[f] # NoRow
      /\ grant'[f].client = grant[f].client /\ grant'[f].expires = grant[f].expires
  BY <1>1, <1>2, RevokedRow
<1>5. grant[f].revoked \in BOOLEAN
  BY <1>1 DEF Grant
<1>6. GrantKept(f)
  BY <1>3, <1>4, <1>5 DEF GrantKept
<1>7. \A g \in Families : grant[g] # NoRow => GrantKept(g)
  BY <1>2, <1>6 DEF GrantKept
<1>8. \A g \in Families : grant'[g] # NoRow => grant[g] # NoRow
  BY <1>2
<1> QED BY <1>7, <1>8 DEF GrantsFrame

LEMMA ConsumeReplayFrame ==
  ASSUME TypeInv, ChainInv, Promises, NEW w \in Workers, ConsumeReplay(w)
  PROVE  Frame
<1>1. /\ pc[w] = "hinted" /\ req[w].family \in Families /\ grant[req[w].family] # NoRow
      /\ UNCHANGED <<now, account, cred, drawn, known, bearer>>
      /\ grant' = [grant EXCEPT ![req[w].family].revoked = TRUE]
  BY Types DEF ConsumeReplay, LiveFor, Present
<1>2. Reached(req[w].family)
  BY <1>1 DEF Reached
<1>3. RequestsFrame
  BY <1>1, FinishMoved, OthersSteady DEF ConsumeReplay, Finish
<1> QED BY <1>1, <1>2, <1>3, RevokedFrame, SameCreds, SameTokens, Types DEF Frame

LEMMA AuthenticateFrame ==
  ASSUME TypeInv, ChainInv, Promises, NEW w \in Workers, Authenticate(w)
  PROVE  Frame
<1>1. /\ pc[w] = "consumed" /\ Goto(w, "authenticated", req[w])
      /\ UNCHANGED <<now, account, grant, cred, drawn, known, bearer>>
  BY DEF Authenticate, tables
<1>2. pc'[w] = "authenticated" /\ req'[w] = req[w]
  BY <1>1, GotoEffect
<1>3. Agrees("consumed", req[w])
  BY <1>1 DEF Promises
<1>4. Agrees(pc[w], req[w])'
  BY <1>1, <1>2, <1>3 DEF Agrees, Issuing, Holding, Exchange
<1>5. Moved(w)
  BY <1>1, <1>2, <1>4 DEF Moved, Exchange
<1> QED BY <1>1, <1>5, OthersSteady, SameGrants, SameCreds, SameTokens, Types DEF Frame

LEMMA SignFrame ==
  ASSUME TypeInv, ChainInv, Promises, NEW w \in Workers, Sign(w)
  PROVE  Frame
<1> DEFINE r == [req[w] EXCEPT !.at = now]
<1>1. /\ pc[w] = "authenticated" /\ Goto(w, "signed", r) /\ GetUser(req[w].data)
      /\ UNCHANGED <<now, account, grant, cred, drawn, known, bearer>>
  BY DEF Sign, tables
<1>2. /\ r.family = req[w].family /\ r.raw = req[w].raw /\ r.data = req[w].data
      /\ r.client = req[w].client /\ r.at = now
  BY Types DEF Request
<1> HIDE DEF r
<1>3. pc'[w] = "signed" /\ req'[w] = r
  BY <1>1, GotoEffect
<1>4. Agrees("authenticated", req[w])
  BY <1>1 DEF Promises
<1>5. now <= now + RequestTTL /\ now <= now
  BY Types, BoundAssumption
<1>6. Agrees(pc[w], req[w])'
  BY <1>1, <1>2, <1>3, <1>4, <1>5 DEF Agrees, Issuing, Holding, Exchange
<1>7. Moved(w)
  BY <1>1, <1>2, <1>3, <1>6 DEF Moved, Exchange
<1> QED BY <1>1, <1>7, OthersSteady, SameGrants, SameCreds, SameTokens, Types DEF Frame

LEMMA SaveRefreshFrame ==
  ASSUME TypeInv, ChainInv, Promises, NEW w \in Workers, NEW k \in Credentials, SaveRefresh(w, k)
  PROVE  Frame
<1> DEFINE c == NextRefresh(w)
           b == [family |-> req[w].family, data |-> req[w].data, exp |-> req[w].at + AccessTTL]
<1>1. /\ pc[w] = "signed" /\ pc'[w] = "idle" /\ k \notin drawn
      /\ LiveFor(req[w].family, req[w].data.client, now)
      /\ drawn' = drawn \cup {k} /\ known' = known \cup {k} /\ bearer' = bearer \cup {b}
      /\ cred' = [cred EXCEPT ![k] = c] /\ UNCHANGED <<now, account, grant>>
  BY GotoEffect DEF SaveRefresh, Finish, FreshSecret
<1>2. /\ req[w].family \in Families /\ req[w].data \in Data /\ req[w].at \in Nat
      /\ grant[req[w].family] \in Grant
  BY <1>1, Types DEF LiveFor, Present, Holding, Exchange
<1>3. /\ c \in Credential
      /\ c.family = req[w].family /\ c.data = req[w].data /\ ~c.used
      /\ c.expires = grant[req[w].family].expires
  BY <1>2 DEF NextRefresh, Credential, Grant
<1> HIDE DEF c
<1>4. /\ cred'[k] = c /\ c # NoRow /\ cred[k] = NoRow
      /\ \A j \in Credentials \ {k} : cred'[j] = cred[j]
  BY <1>1, <1>3, NullAssumption DEF TypeInv, TypeOK, ChainInv, Drawn
<1>5. NextRow(w, k)
  BY <1>1, <1>3, <1>4 DEF NextRow
<1>6. CredsFrame
  <2>1. \A j \in Credentials : cred[j] # NoRow => CredKept(j)
    BY <1>4 DEF CredKept
  <2>2. \A j \in Credentials : cred'[j] # NoRow => cred[j] # NoRow \/ j = k
    BY <1>4
  <2> QED BY <1>1, <1>5, <2>1, <2>2 DEF CredsFrame
<1>7. req[w].at + AccessTTL <= now + AccessTTL
  <2>1. req[w].at <= now
    BY <1>1 DEF Promises, Agrees
  <2> QED BY <1>2, <2>1, Types, BoundAssumption
<1>8. Answered(w, b)
  BY <1>1, <1>3, <1>4, <1>7 DEF Answered
<1>9. TokensFrame
  BY <1>1, <1>8, Types DEF TokensFrame
<1>10. RequestsFrame
  BY <1>1, FinishMoved, OthersSteady DEF SaveRefresh, Finish
<1> QED BY <1>1, <1>6, <1>9, <1>10, SameGrants DEF Frame

\* Steps outside the requests that take no time.
LEMMA OutsideSteady ==
  ASSUME TypeInv, Promises, UNCHANGED <<pc, req, now>>
  PROVE  RequestsFrame
BY DEF RequestsFrame, Steady, Promises, Agrees

LEMMA RevokeFrame ==
  ASSUME TypeInv, ChainInv, Promises, NEW c \in Clients, NEW k \in Credentials, Revoke(c, k)
  PROVE  Frame
<1>1. /\ k \in known /\ cred[k] # NoRow /\ cred[k].family \in Families
      /\ grant[cred[k].family] # NoRow
      /\ grant' = [grant EXCEPT ![cred[k].family].revoked = TRUE]
      /\ UNCHANGED <<now, account, cred, drawn, known, pc, req, bearer>>
  BY Types DEF Revoke, Present
<1>2. Reached(cred[k].family)
  BY <1>1 DEF Reached
<1> QED BY <1>1, <1>2, RevokedFrame, SameCreds, SameTokens, OutsideSteady, Types DEF Frame

LEMMA AccountFrame ==
  ASSUME TypeInv, ChainInv, Promises, NEW u \in Users, NEW s,
         ResetPassword(u) \/ SetStatus(u, s)
  PROVE  Frame
<1>1. UNCHANGED <<now, grant, cred, drawn, known, pc, req, bearer>>
  BY DEF ResetPassword, SetStatus, tables
<1>2. account \in [Users -> [status : Row!Statuses, tag : Nat]]
  BY DEF TypeInv, TypeOK
<1>3. \A v \in Users : account[v].tag <= account'[v].tag
  <2>1. CASE ResetPassword(u)
    BY <1>2, <2>1 DEF ResetPassword, Row!Replace
  <2>2. CASE SetStatus(u, s)
    BY <1>2, <2>2 DEF SetStatus, Row!Switch
  <2> QED BY <2>1, <2>2
<1> QED BY <1>1, <1>3, SameGrants, SameCreds, SameTokens, OutsideSteady DEF Frame

LEMMA TickFrame ==
  ASSUME TypeInv, ChainInv, Promises, Tick
  PROVE  Frame
<1>1. /\ now' = now + 1 /\ bearer' \subseteq bearer
      /\ UNCHANGED <<account, grant, cred, drawn, known, pc, req>>
      /\ \A w \in Workers : pc[w] = "idle" \/ now < req[w].at + RequestTTL
  BY DEF Tick, tables
<1>2. \A w \in Workers : Steady(w)
  BY <1>1, Types, BoundAssumption DEF Steady
<1>3. RequestsFrame
  BY <1>2 DEF RequestsFrame
<1>4. TokensFrame
  BY <1>1, Types DEF TokensFrame
<1> QED BY <1>1, <1>3, <1>4, SameGrants, SameCreds DEF Frame

LEMMA FrameStep == TypeInv /\ ChainInv /\ Promises /\ [Next]_vars => Frame
<1> SUFFICES ASSUME TypeInv, ChainInv, Promises, [Next]_vars PROVE Frame
  OBVIOUS
<1>1. ASSUME NEW w \in Workers, NEW u \in Users, NEW c \in Clients, Approve(w, u, c)
      PROVE  Frame
  <2> DEFINE d == [user |-> u, tag |-> account[u].tag, scope |-> BrowserScope, client |-> c]
             r == [NoRequest EXCEPT !.client = c, !.data = d, !.at = now]
  <2>1. Goto(w, "approved", r) /\ r.data.client = r.client /\ r.at = now
    BY <1>1 DEF Approve, NoRequest
  <2> HIDE DEF r
  <2> QED BY <1>1, <2>1, StartFrame DEF Approve
<1>2. ASSUME NEW w \in Workers, NEW u \in Users, NEW s \in NativeScopes, NativeLogin(w, u, s)
      PROVE  Frame
  <2> DEFINE d == [user |-> u, tag |-> account[u].tag, scope |-> s, client |-> MailClient]
             r == [NoRequest EXCEPT !.client = MailClient, !.data = d, !.at = now]
  <2>1. Goto(w, "native", r) /\ r.data.client = r.client /\ r.at = now
    BY <1>2 DEF NativeLogin, NoRequest
  <2> HIDE DEF r
  <2> QED BY <1>2, <2>1, StartFrame DEF NativeLogin
<1>3. ASSUME NEW w \in Workers, Abandon(w) PROVE Frame
  BY <1>3, FinishMoved, OthersSteady, SameGrants, SameCreds, SameTokens, Types
  DEF Abandon, Finish, tables, Frame
<1>4. ASSUME NEW w \in Workers, Issuance(w) PROVE Frame
  BY <1>1, <1>2, <1>4, HousekeepFrame, CreateCodeFrame, CreateRefreshFamilyFrame, SignNativeFrame
  DEF Issuance
<1>5. ASSUME NEW w \in Workers, TokenEndpoint(w) PROVE Frame
  BY <1>5, LookupFrame, ConsumeFirstFrame, ConsumeReplayFrame, AuthenticateFrame, SignFrame,
     SaveRefreshFrame DEF TokenEndpoint
<1>6. CASE Environment
  BY <1>6, AccountFrame, TickFrame DEF Environment
<1>7. CASE UNCHANGED vars
  BY <1>7, SameGrants, SameCreds, SameTokens, OutsideSteady, Types DEF vars, Frame
<1> QED BY <1>3, <1>4, <1>5, <1>6, <1>7, RevokeFrame DEF Next

-------------------------------------------------------------------------------
(* The invariant and what follows from it.                                 *)

LEMMA InitPromises == Init => Promises
<1> SUFFICES ASSUME Init PROVE Promises
  OBVIOUS
<1>1. /\ \A w \in Workers : pc[w] = "idle"
      /\ \A k \in Credentials : cred[k] = NoRow
      /\ bearer = {} /\ known = {}
  BY DEF Init
<1> QED BY <1>1 DEF Promises, Agrees, Apart, RowsAgree, TokensAgree, Issuing, Holding, Exchange

LEMMA OInvInit == Init => OInv
BY InitTypeInv, InitChain, InitPromises DEF OInv

LEMMA OInvStep == OInv /\ [Next]_vars => OInv' /\ Frame
BY TypeInvStep, ChainStep, FrameStep, PromisesKept DEF OInv

LEMMA OInvAlways == Spec => []OInv
BY OInvInit, OInvStep, PTL DEF Spec

(* One family speaks for one account, one password, one scope and one      *)
(* client, in every row of it and every access token handed out for it:    *)
(* the data of a rotation comes from the row it spent, by way of the       *)
(* request that remembers it.                                              *)
THEOREM FamiliesAreBound == Spec => []FamilyBinding
<1>1. OInv => FamilyBinding
  <2> SUFFICES ASSUME OInv PROVE FamilyBinding
    OBVIOUS
  <2>1. \A w \in Workers, f \in Families :
          Exchanging(w, f) /\ Present(f) => req[w].client = grant[f].client
    BY DEF OInv, Promises, Agrees, Exchanging, Exchange, Present
  <2> QED BY <2>1 DEF OInv, Promises, RowsAgree, TokensAgree, FamilyBinding
<1> QED
  BY OInvAlways, <1>1, PTL

\* What a step adds to a family that was there: at most the successor row of a
\* live family, and tokens that it answers with.
LEMMA NothingElseIsAdded ==
  ASSUME OInv, Frame, OInv', NEW f \in Families, grant[f] # NoRow
  PROVE  /\ \A k \in Credentials :
              cred[k] = NoRow /\ cred'[k] # NoRow /\ cred'[k].family = f
                => ~grant[f].revoked /\ cred'[k].expires = grant[f].expires
         /\ \A b \in bearer' \ bearer :
              b.family = f => ~grant[f].revoked /\ b.exp < grant[f].expires + AccessTTL
<1>1. f \in drawn
  BY DEF OInv, ChainInv, Drawn, Present
<1>2. \A k \in Credentials :
        cred[k] = NoRow /\ cred'[k] # NoRow /\ cred'[k].family = f
          => ~grant[f].revoked /\ cred'[k].expires = grant[f].expires
  BY <1>1 DEF Frame, CredsFrame, FirstRow, NextRow, LiveFor
<1>3. ASSUME NEW b \in bearer', b \notin bearer, b.family = f
      PROVE  ~grant[f].revoked /\ b.exp < grant[f].expires + AccessTTL
  <2>1. PICK w \in Workers : Answered(w, b)
    BY <1>3 DEF Frame, TokensFrame
  <2>2. /\ now \in Nat /\ AccessTTL \in Nat /\ grant[f].expires \in Nat /\ b.exp \in Nat
        /\ req[w].at \in Nat /\ GrantTTL \in Nat /\ RequestTTL \in Nat
    <3>1. b.exp \in Nat
      BY DEF OInv, TypeInv, TypeOK, Bearer
    <3> QED BY <3>1, Types, BoundAssumption DEF OInv
  <2>3. CASE pc[w] = "signed"
    BY <1>3, <2>1, <2>2, <2>3 DEF Answered, LiveFor
  <2>4. CASE pc[w] = "stored"
    <3>1. /\ grant[f] = [client |-> req[w].client, expires |-> req[w].at + GrantTTL, revoked |-> FALSE]
          /\ now <= req[w].at + RequestTTL
      BY <1>3, <2>1, <2>4 DEF OInv, Promises, Untouched, Agrees, Answered
    <3>2. ~grant[f].revoked /\ now < grant[f].expires
      BY <2>2, <3>1, BoundAssumption
    <3> QED BY <2>1, <2>2, <3>2 DEF Answered
  <2> QED BY <2>1, <2>3, <2>4 DEF Answered
<1> QED BY <1>2, <1>3

(* Revocation is final: consume marks, save_refresh looks at the mark under *)
(* the family's lock, and a native sign-in's family is out of everybody's  *)
(* reach until its tokens are signed.                                      *)
THEOREM RevocationStands == Spec => RevocationIsFinal
<1>1. ASSUME OInv, OInv', Frame
      PROVE  \A f \in Families : Revoked(f) =>
               /\ grant'[f] \in {grant[f], NoRow}
               /\ \A k \in Credentials :
                    cred'[k] # NoRow /\ cred'[k].family = f => cred[k] # NoRow
               /\ \A b \in bearer' \ bearer : b.family # f
  <2> SUFFICES ASSUME NEW f \in Families, grant[f] # NoRow, grant[f].revoked
               PROVE  /\ grant'[f] \in {grant[f], NoRow}
                      /\ \A k \in Credentials :
                           cred'[k] # NoRow /\ cred'[k].family = f => cred[k] # NoRow
                      /\ \A b \in bearer' \ bearer : b.family # f
    BY DEF Revoked, Present
  <2>1. grant'[f] \in {grant[f], NoRow}
    BY <1>1 DEF Frame, GrantsFrame, GrantKept
  <2> QED BY <1>1, <2>1, NothingElseIsAdded
<1>2. OInv /\ [Next]_vars =>
        [\A f \in Families : Revoked(f) =>
           /\ grant'[f] \in {grant[f], NoRow}
           /\ \A k \in Credentials :
                cred'[k] # NoRow /\ cred'[k].family = f => cred[k] # NoRow
           /\ \A b \in bearer' \ bearer : b.family # f]_vars
  BY <1>1, OInvStep
<1> QED
  BY OInvAlways, <1>2, PTL DEF Spec, RevocationIsFinal

(* Rotation never buys time: the row that ends a rotation is stored with   *)
(* the deadline the grant was issued with, and no token is signed past it  *)
(* because no request goes as long without reading the clock as a family   *)
(* lives (BoundAssumption).                                                *)
THEOREM DeadlinesAreFixed == Spec => DeadlineFixed
<1>1. ASSUME OInv, OInv', Frame
      PROVE  \A f \in Families : Present(f) =>
               /\ Present(f)' => grant'[f].expires = grant[f].expires
               /\ \A k \in Credentials :
                    cred'[k] # NoRow /\ cred'[k].family = f => cred'[k].expires <= grant[f].expires
               /\ \A b \in bearer' \ bearer : b.family = f => b.exp < grant[f].expires + AccessTTL
  <2> SUFFICES ASSUME NEW f \in Families, grant[f] # NoRow
               PROVE  /\ grant'[f] # NoRow => grant'[f].expires = grant[f].expires
                      /\ \A k \in Credentials :
                           cred'[k] # NoRow /\ cred'[k].family = f
                             => cred'[k].expires <= grant[f].expires
                      /\ \A b \in bearer' \ bearer :
                           b.family = f => b.exp < grant[f].expires + AccessTTL
    BY DEF Present
  <2>1. grant'[f] # NoRow => grant'[f].expires = grant[f].expires
    BY <1>1 DEF Frame, GrantsFrame, GrantKept
  <2>2. ASSUME NEW k \in Credentials, cred'[k] # NoRow, cred'[k].family = f
        PROVE  cred'[k].expires <= grant[f].expires
    <3>1. CASE cred[k] # NoRow
      <4>1. cred'[k].family = cred[k].family /\ cred'[k].expires = cred[k].expires
        BY <1>1, <2>2, <3>1 DEF Frame, CredsFrame, CredKept
      <4>2. cred[k].expires <= grant[cred[k].family].expires
        BY <1>1, <3>1 DEF OInv, Promises, RowsAgree
      <4> QED BY <2>2, <4>1, <4>2
    <3>2. CASE cred[k] = NoRow
      <4>1. grant[f].expires \in Nat
        BY <1>1, Types DEF OInv
      <4> QED BY <1>1, <2>2, <3>2, <4>1, NothingElseIsAdded
    <3> QED BY <3>1, <3>2
  <2> QED BY <1>1, <2>1, <2>2, NothingElseIsAdded
<1>2. OInv /\ [Next]_vars =>
        [\A f \in Families : Present(f) =>
           /\ Present(f)' => grant'[f].expires = grant[f].expires
           /\ \A k \in Credentials :
                cred'[k] # NoRow /\ cred'[k].family = f => cred'[k].expires <= grant[f].expires
           /\ \A b \in bearer' \ bearer : b.family = f => b.exp < grant[f].expires + AccessTTL]_vars
  BY <1>1, OInvStep
<1> QED
  BY OInvAlways, <1>2, PTL DEF Spec, DeadlineFixed

(* A spent credential is on record, spent, for as long as its family could *)
(* be used: only a purge deletes rows, whole families at a time and long   *)
(* after their deadline.                                                   *)
THEOREM SpentIsRemembered == Spec => SpentRemembered
<1>1. ASSUME OInv, Frame
      PROVE  \A k \in Credentials : Spent(k) /\ grant[cred[k].family].expires > now
               => cred'[k] # NoRow /\ cred'[k].used
  <2> SUFFICES ASSUME NEW k \in Credentials, cred[k] # NoRow, cred[k].used,
                      grant[cred[k].family] # NoRow, grant[cred[k].family].expires > now
               PROVE  cred'[k] # NoRow /\ cred'[k].used
    BY DEF Spent, Present
  <2>1. /\ cred[k].family \in Families /\ grant[cred[k].family].expires \in Nat
        /\ now \in Nat /\ PurgeAge \in Nat
    BY <1>1, Types, BoundAssumption DEF OInv
  <2>2. grant'[cred[k].family] # NoRow
    BY <1>1, <2>1 DEF Frame, GrantsFrame, GrantKept
  <2> QED BY <1>1, <2>2 DEF Frame, CredsFrame, CredKept
<1>2. OInv /\ [Next]_vars =>
        [\A k \in Credentials : Spent(k) /\ grant[cred[k].family].expires > now
           => cred'[k] # NoRow /\ cred'[k].used]_vars
  BY <1>1, OInvStep
<1> QED
  BY OInvAlways, <1>2, PTL DEF Spec, SpentRemembered

(* No access token is published without a stored family and a refresh      *)
(* token the client was given along with it.                               *)
THEOREM TokensAreBacked == Spec => PublishedWithFamily
<1>1. ASSUME OInv, Frame, OInv'
      PROVE  \A b \in bearer' \ bearer :
               /\ grant'[b.family] # NoRow
               /\ \E k \in known' : cred'[k] # NoRow /\ cred'[k].family = b.family /\ ~cred'[k].used
  <2> SUFFICES ASSUME NEW b \in bearer', b \notin bearer
               PROVE  /\ grant'[b.family] # NoRow
                      /\ \E k \in known' : /\ cred'[k] # NoRow /\ cred'[k].family = b.family
                                           /\ ~cred'[k].used
    OBVIOUS
  <2>1. PICK w \in Workers : Answered(w, b)
    BY <1>1 DEF Frame, TokensFrame
  <2>2. CASE pc[w] = "signed"
    BY <2>1, <2>2 DEF Answered, LiveFor, Present
  <2>3. CASE pc[w] = "stored"
    <3>1. Unused(req[w].raw, req[w].family) /\ req[w].raw \in Credentials
      BY <1>1, <2>3, Types DEF OInv, Promises, Untouched, Holding
    <3>2. grant[req[w].family] # NoRow
      BY <1>1, <3>1 DEF OInv, ChainInv, NoOrphanCredential, Unused, Present
    <3> QED BY <2>1, <2>3, <3>1, <3>2 DEF Answered, Unused
  <2> QED BY <2>1, <2>2, <2>3 DEF Answered
<1>2. OInv /\ [Next]_vars =>
        [\A b \in bearer' \ bearer :
           /\ Present(b.family)'
           /\ \E k \in known' : Unused(k, b.family)']_vars
  BY <1>1, OInvStep DEF Present, Unused
<1> QED
  BY OInvAlways, <1>2, PTL DEF Spec, PublishedWithFamily

(* A password reset cuts off what the old password authorised, once the    *)
(* requests that had been signed for it have ended: whoever signs looks at *)
(* the account's tag first, and tags only grow.                            *)
THEOREM ResetsStand == Spec => RetiredTagStaysDead
<1>1. ASSUME OInv, Frame, OInv', NEW u \in Users, NEW t \in 0..MaxResets, Retired(u, t)
      PROVE  /\ Retired(u, t)'
             /\ \A b \in bearer' \ bearer : ~(b.data.user = u /\ b.data.tag = t)
  <2>1. /\ account[u].tag \in Nat /\ account'[u].tag \in Nat /\ t \in Nat
        /\ account[u].tag <= account'[u].tag /\ t < account[u].tag
    BY <1>1 DEF OInv, TypeInv, TypeOK, Frame, TokensFrame, Retired
  <2>2. ASSUME NEW w \in Workers, pc'[w] = "signed"
        PROVE  ~(req'[w].data.user = u /\ req'[w].data.tag = t)
    <3>1. CASE Steady(w)
      BY <1>1, <2>2, <3>1 DEF Steady, Retired
    <3>2. CASE Moved(w)
      BY <2>1, <2>2, <3>2 DEF Moved, GetUser
    <3> QED BY <1>1, <3>1, <3>2 DEF Frame, RequestsFrame
  <2>3. ASSUME NEW b \in bearer', b \notin bearer
        PROVE  ~(b.data.user = u /\ b.data.tag = t)
    <3>1. PICK w \in Workers : Answered(w, b)
      BY <1>1, <2>3 DEF Frame, TokensFrame
    <3> QED BY <1>1, <2>1, <3>1 DEF Answered, GetUser, Retired
  <2> QED BY <2>1, <2>2, <2>3 DEF Retired
<1>2. OInv /\ [Next]_vars =>
        [\A u \in Users, t \in 0..MaxResets : Retired(u, t) =>
           /\ Retired(u, t)'
           /\ \A b \in bearer' \ bearer : ~(b.data.user = u /\ b.data.tag = t)]_vars
  BY <1>1, OInvStep
<1> QED
  BY OInvAlways, <1>2, PTL DEF Spec, RetiredTagStaysDead

-------------------------------------------------------------------------------
(* OAuthStore implements GrantFamily.  Four actions move one family        *)
(* forward (Issue, Exchange, Rotate); every other step shrinks what makes  *)
(* a family open or exchanging, which is to close a set of families or to  *)
(* change no phase.                                                        *)

Good == TypeInv /\ ChainInv /\ Promises

phases == [f \in Families |-> FamilyPhase(f)]

Live(f) == f \in drawn /\ Present(f) /\ ~grant[f].revoked

LEMMA PhaseOf ==
  ASSUME Good, NEW f \in Families
  PROVE  /\ FamilyPhase(f) \in {"unborn", "open", "exchanging", "closed"}
         /\ FamilyPhase(f) = "unborn" <=> f \notin drawn
         /\ FamilyPhase(f) = "open" <=> Live(f) /\ \E k \in Credentials : Unused(k, f)
         /\ FamilyPhase(f) = "exchanging" <=> Live(f) /\ \E w \in Workers : Exchanging(w, f)
<1>1. \A k \in Credentials, w \in Workers : ~(Unused(k, f) /\ Exchanging(w, f))
  BY DEF Good, ChainInv, LinearFamily
<1> QED BY <1>1 DEF FamilyPhase, FreshFamily, Revoked, Live

\* The same of the state a step leads to.
LEMMA NextPhaseOf ==
  ASSUME Good', NEW f \in Families
  PROVE  /\ FamilyPhase(f)' \in {"unborn", "open", "exchanging", "closed"}
         /\ FamilyPhase(f)' = "unborn" <=> f \notin drawn'
         /\ FamilyPhase(f)' = "open" <=> Live(f)' /\ \E k \in Credentials : Unused(k, f)'
         /\ FamilyPhase(f)' = "exchanging" <=> Live(f)' /\ \E w \in Workers : Exchanging(w, f)'
<1>1. \A k \in Credentials, w \in Workers : ~(Unused(k, f)' /\ Exchanging(w, f)')
  BY DEF Good, ChainInv, LinearFamily
<1> QED BY <1>1 DEF FamilyPhase, FreshFamily, Revoked, Live

\* Nothing is added to what makes a family open or exchanging.
Shrinking ==
  /\ drawn' = drawn
  /\ \A f \in Families : Live(f)' => Live(f)
  /\ \A f \in Families, k \in Credentials : Unused(k, f)' => Unused(k, f)
  /\ \A f \in Families, w \in Workers : Exchanging(w, f)' => Exchanging(w, f)

LEMMA ShrinkingCloses ==
  ASSUME Good, Good', Shrinking
  PROVE  [GF!Next]_phases
<1> DEFINE S == {f \in Families : FamilyPhase(f)' # FamilyPhase(f)}
<1>1. ASSUME NEW f \in Families, FamilyPhase(f)' # FamilyPhase(f)
      PROVE  FamilyPhase(f) \in {"open", "exchanging"} /\ FamilyPhase(f)' = "closed"
  <2>1. ~(Live(f) /\ \E k \in Credentials : Unused(k, f) /\ \E w \in Workers : Exchanging(w, f))
    BY DEF Good, ChainInv, LinearFamily
  <2> QED BY <1>1, <2>1, PhaseOf, NextPhaseOf DEF Shrinking
<1>2. \A f \in S : phases[f] \in {"open", "exchanging"}
  BY <1>1 DEF phases
<1>3. phases' = [f \in Families |-> IF f \in S THEN "closed" ELSE phases[f]]
  BY <1>1 DEF phases
<1>4. S \in SUBSET Families
  OBVIOUS
<1> HIDE DEF S
<1>5. GF!Close(S)
  BY <1>2, <1>3 DEF GF!Close, phases
<1> QED BY <1>4, <1>5 DEF GF!Next, phases

\* One family moves on, and nothing is taken from or given to the others.
Others(f) ==
  \A g \in Families \ {f} :
    /\ g \in drawn' <=> g \in drawn
    /\ Live(g)' <=> Live(g)
    /\ \A k \in Credentials : Unused(k, g)' <=> Unused(k, g)
    /\ \A w \in Workers : Exchanging(w, g)' <=> Exchanging(w, g)

LEMMA OthersSame ==
  ASSUME Good, Good', NEW f \in Families, Others(f), NEW p, FamilyPhase(f)' = p
  PROVE  phases' = [phases EXCEPT ![f] = p]
<1>1. \A g \in Families \ {f} : FamilyPhase(g)' = FamilyPhase(g)
  BY PhaseOf, NextPhaseOf DEF Others
<1> QED BY <1>1 DEF phases

LEMMA IssueStep ==
  ASSUME Good, Good', NEW w \in Workers, NEW f \in Families, NEW k \in Credentials,
         CreateCode(w, f, k) \/ CreateRefreshFamily(w, f, k)
  PROVE  GF!Issue(f)
<1>1. PICK kind \in {"code", "refresh"}, ttl \in Nat :
        ttl <= GrantTTL /\ pc[w] \in {"code", "family"} /\ InsertFamily(w, f, k, kind, ttl)
  BY BoundAssumption DEF CreateCode, CreateRefreshFamily
<1>2. /\ f \notin drawn /\ k \notin drawn /\ drawn' = drawn \cup {f, k}
      /\ grant'[f].revoked = FALSE
      /\ cred'[k] # NoRow /\ cred'[k].family = f /\ ~cred'[k].used
      /\ \A j \in Credentials \ {k} : cred'[j] = cred[j]
  <2>1. TypeInv /\ ChainInv /\ Promises
    BY DEF Good
  <2>2. /\ f \notin drawn /\ k \notin drawn /\ drawn' = drawn \cup {f, k}
        /\ grant'[f] = [client |-> req[w].client, expires |-> req[w].at + GrantTTL,
                        revoked |-> FALSE]
        /\ cred'[k] # NoRow /\ cred'[k].family = f /\ ~cred'[k].used
        /\ \A j \in Credentials \ {k} : cred'[j] = cred[j]
    BY <1>1, <2>1, InsertTables
  <2> QED BY <2>2
<1>3. \A g \in Families \ {f} : grant'[g] = grant[g]
  BY <1>1 DEF InsertFamily, Good, TypeInv, TypeOK
<1>4. /\ pc'[w] \in {"idle", "stored"}
      /\ \A v \in Workers \ {w} : pc'[v] = pc[v] /\ req'[v] = req[v]
  BY GotoEffect DEF CreateCode, CreateRefreshFamily, Finish, Good
<1>5. cred[k] = NoRow
  BY <1>2 DEF Good, ChainInv, Drawn
<1>6. Others(f)
  <2> SUFFICES ASSUME NEW g \in Families \ {f}
               PROVE  /\ g \in drawn' <=> g \in drawn
                      /\ Live(g)' <=> Live(g)
                      /\ \A j \in Credentials : Unused(j, g)' <=> Unused(j, g)
                      /\ \A v \in Workers : Exchanging(v, g)' <=> Exchanging(v, g)
    BY DEF Others
  <2>1. g \in drawn' <=> g \in drawn
    BY <1>2, NullAssumption
  <2>2. Live(g)' <=> Live(g)
    BY <1>3, <2>1 DEF Live, Present
  <2>3. \A j \in Credentials : Unused(j, g)' <=> Unused(j, g)
    BY <1>2, <1>5 DEF Unused
  <2>4. \A v \in Workers : Exchanging(v, g)' <=> Exchanging(v, g)
    BY <1>1, <1>4 DEF Exchanging
  <2> QED BY <2>1, <2>2, <2>3, <2>4
<1>7. FamilyPhase(f) = "unborn"
  BY <1>2, PhaseOf
<1>8. Unused(k, f)' /\ Live(f)'
  BY <1>2 DEF Unused, Live, Good, ChainInv, NoOrphanCredential, Present
<1>9. FamilyPhase(f)' = "open"
  BY <1>8, NextPhaseOf
<1> QED BY <1>6, <1>7, <1>9, OthersSame DEF GF!Issue, phases

LEMMA ExchangeStep ==
  ASSUME Good, Good', NEW w \in Workers, NEW f \in Families, NEW k \in Credentials,
         f = req[w].family, k = req[w].raw, ConsumeFirst(w)
  PROVE  GF!Exchange(f)
<1> DEFINE r == [req[w] EXCEPT !.data = cred[k].data]
<1>1. /\ pc[w] = "hinted" /\ f \in drawn
      /\ cred[k] # NoRow /\ cred[k] \in Credential /\ cred[k].family = f /\ ~cred[k].used
      /\ Present(f) /\ ~grant[f].revoked
      /\ UNCHANGED <<grant, drawn>>
      /\ cred' = [cred EXCEPT ![k].used = TRUE]
      /\ Goto(w, "consumed", r) /\ r.family = f
  BY Types DEF ConsumeFirst, LiveFor, Usable, Spend, Good, ChainInv, Drawn, Request
<1> HIDE DEF r
<1>2. /\ pc'[w] = "consumed" /\ req'[w].family = f
      /\ \A v \in Workers \ {w} : pc'[v] = pc[v] /\ req'[v] = req[v]
  BY <1>1, GotoEffect DEF Good
<1>3. /\ cred'[k] # NoRow /\ cred'[k].family = f /\ cred'[k].used
      /\ \A j \in Credentials \ {k} : cred'[j] = cred[j]
  <2>1. /\ cred'[k] = [cred[k] EXCEPT !.used = TRUE]
        /\ \A j \in Credentials \ {k} : cred'[j] = cred[j]
    BY <1>1 DEF Good, TypeInv, TypeOK
  <2> QED BY <1>1, <2>1, SpentRow
<1>4. Others(f)
  BY <1>1, <1>2, <1>3 DEF Others, Live, Present, Unused, Exchanging
<1>5. FamilyPhase(f) = "open"
  BY <1>1, PhaseOf DEF Live, Unused
<1>6. FamilyPhase(f)' = "exchanging"
  <2>1. Live(f)' /\ Exchanging(w, f)'
    BY <1>1, <1>2 DEF Live, Present, Exchanging
  <2> QED BY <2>1, NextPhaseOf
<1> QED BY <1>4, <1>5, <1>6, OthersSame DEF GF!Exchange, phases

LEMMA RotateStep ==
  ASSUME Good, Good', NEW w \in Workers, NEW f \in Families, NEW k \in Credentials,
         f = req[w].family, SaveRefresh(w, k)
  PROVE  GF!Rotate(f)
<1>1. /\ pc[w] = "signed" /\ f \in drawn /\ k \notin drawn
      /\ Present(f) /\ ~grant[f].revoked /\ grant' = grant /\ drawn' = drawn \cup {k}
  BY Types DEF SaveRefresh, FreshSecret, LiveFor, Good, ChainInv, Drawn, Holding, Exchange
<1>2. /\ cred'[k].family = f /\ ~cred'[k].used
      /\ \A j \in Credentials \ {k} : cred'[j] = cred[j]
  BY DEF SaveRefresh, NextRefresh, Good, TypeInv, TypeOK
<1>3. cred[k] = NoRow
  BY <1>1 DEF Good, ChainInv, Drawn
<1>4. cred'[k] # NoRow
  <2>1. req[w].data \in Data /\ grant[f] \in Grant
    BY <1>1, Types DEF Good, Present, Exchange
  <2>2. NextRefresh(w) \in Credential
    BY <2>1 DEF NextRefresh, Credential, Grant
  <2> QED BY <2>2, NullAssumption DEF SaveRefresh, Good, TypeInv, TypeOK
<1>5. /\ pc'[w] = "idle"
      /\ \A v \in Workers \ {w} : pc'[v] = pc[v] /\ req'[v] = req[v]
  BY GotoEffect DEF SaveRefresh, Finish, Good
<1>6. Others(f)
  BY <1>1, <1>2, <1>3, <1>5, NullAssumption DEF Others, Live, Present, Unused, Exchanging
<1>7. FamilyPhase(f) = "exchanging"
  BY <1>1, PhaseOf DEF Live, Exchanging
<1>8. FamilyPhase(f)' = "open"
  <2>1. Live(f)' /\ Unused(k, f)'
    BY <1>1, <1>2, <1>4 DEF Live, Present, Unused
  <2> QED BY <2>1, NextPhaseOf
<1> QED BY <1>6, <1>7, <1>8, OthersSame DEF GF!Rotate, phases

\* A request that neither enters an exchange nor changes its family.
LEMMA MoveShrinks ==
  ASSUME Good, NEW w \in Workers, NEW s, NEW r, Goto(w, s, r),
         s \in Exchange => pc[w] \in Exchange /\ r.family = req[w].family
  PROVE  \A f \in Families, v \in Workers : Exchanging(v, f)' => Exchanging(v, f)
<1>1. /\ pc'[w] = s /\ req'[w] = r
      /\ \A v \in Workers \ {w} : pc'[v] = pc[v] /\ req'[v] = req[v]
  BY GotoEffect DEF Good
<1> QED BY <1>1 DEF Exchanging, Exchange

\* Rows that are gone or as they were, families at most revoked.
LEMMA RevokingShrinks ==
  ASSUME Good, NEW f \in Families, Present(f), grant' = [grant EXCEPT ![f].revoked = TRUE],
         UNCHANGED <<cred, drawn>>,
         \A g \in Families, v \in Workers : Exchanging(v, g)' => Exchanging(v, g)
  PROVE  Shrinking
<1>1. grant[f] \in Grant
  BY Types DEF Good, Present
<1>2. /\ grant'[f] = [grant[f] EXCEPT !.revoked = TRUE]
      /\ \A g \in Families \ {f} : grant'[g] = grant[g]
  BY DEF Good, TypeInv, TypeOK
<1>3. grant'[f].revoked
  BY <1>1, <1>2 DEF Grant
<1> QED BY <1>2, <1>3 DEF Shrinking, Live, Present, Unused

LEMMA SameShrinks ==
  ASSUME Good, UNCHANGED <<grant, cred, drawn>>,
         \A g \in Families, v \in Workers : Exchanging(v, g)' => Exchanging(v, g)
  PROVE  Shrinking
BY DEF Shrinking, Live, Present, Unused

LEMMA PhaseStep == Good /\ Good' /\ [Next]_vars => [GF!Next]_phases
<1> SUFFICES ASSUME Good, Good', [Next]_vars PROVE [GF!Next]_phases
  OBVIOUS
<1>1. ASSUME NEW w \in Workers, NEW f \in Families, NEW k \in Credentials,
             CreateCode(w, f, k) \/ CreateRefreshFamily(w, f, k)
      PROVE  [GF!Next]_phases
  BY <1>1, IssueStep DEF GF!Next
<1>2. ASSUME NEW w \in Workers, ConsumeFirst(w)
      PROVE  [GF!Next]_phases
  <2>1. req[w].family \in Families /\ req[w].raw \in Credentials
    BY <1>2, Types DEF ConsumeFirst, Good
  <2> QED BY <1>2, <2>1, ExchangeStep DEF GF!Next
<1>3. ASSUME NEW w \in Workers, NEW k \in Credentials, SaveRefresh(w, k)
      PROVE  [GF!Next]_phases
  <2>1. req[w].family \in Families
    BY <1>3, Types DEF SaveRefresh, Good, Holding, Exchange
  <2> QED BY <1>3, <2>1, RotateStep DEF GF!Next
<1>4. ASSUME NEW w \in Workers, NEW u \in Users, NEW c \in Clients, Approve(w, u, c)
      PROVE  Shrinking
  BY <1>4, MoveShrinks, SameShrinks DEF Approve, tables, Exchange
<1>5. ASSUME NEW w \in Workers, NEW u \in Users, NEW s \in NativeScopes, NativeLogin(w, u, s)
      PROVE  Shrinking
  BY <1>5, MoveShrinks, SameShrinks DEF NativeLogin, tables, Exchange
<1>6. ASSUME NEW w \in Workers, Housekeep(w)
      PROVE  Shrinking
  <2> DEFINE s == IF pc[w] = "approved" THEN "code" ELSE "family"
             r == [req[w] EXCEPT !.at = now]
  <2>1. Goto(w, s, r) /\ s \notin Exchange
    BY <1>6 DEF Housekeep, Exchange
  <2> HIDE DEF s, r
  <2>2. \A f \in Families, v \in Workers : Exchanging(v, f)' => Exchanging(v, f)
    BY <2>1, MoveShrinks
  <2>3. CASE UNCHANGED <<grant, cred>>
    BY <1>6, <2>2, <2>3, SameShrinks DEF Housekeep
  <2>4. CASE PurgeExpired(req[w].client)
    <3>1. PICK S \in PurgeBatch(req[w].client) :
            /\ grant' = [f \in Families |-> IF f \in S THEN NoRow ELSE grant[f]]
            /\ cred' = [k \in Credentials |->
                          IF cred[k] # NoRow /\ cred[k].family \in S THEN NoRow ELSE cred[k]]
      BY <2>4 DEF PurgeExpired
    <3>2. /\ \A f \in Families : grant'[f] = IF f \in S THEN NoRow ELSE grant[f]
          /\ \A k \in Credentials : cred'[k] = IF cred[k] # NoRow /\ cred[k].family \in S
                                               THEN NoRow ELSE cred[k]
      BY <3>1
    <3>3. drawn' = drawn
      BY <1>6 DEF Housekeep
    <3>4. \A f \in Families : Live(f)' => Live(f)
      BY <3>2, <3>3 DEF Live, Present
    <3>5. \A f \in Families, k \in Credentials : Unused(k, f)' => Unused(k, f)
      BY <3>2 DEF Unused
    <3> QED BY <2>2, <3>3, <3>4, <3>5 DEF Shrinking
  <2> QED BY <1>6, <2>3, <2>4 DEF Housekeep
<1>7. ASSUME NEW w \in Workers, SignNative(w) \/ Abandon(w)
      PROVE  Shrinking
  BY <1>7, MoveShrinks, SameShrinks DEF SignNative, Abandon, Finish, tables, Exchange
<1>8. ASSUME NEW w \in Workers, NEW c \in Clients, NEW k \in Credentials, Lookup(w, c, k)
      PROVE  Shrinking
  BY <1>8, MoveShrinks, SameShrinks DEF Lookup, tables, Exchange
<1>9. ASSUME NEW w \in Workers, ConsumeReplay(w)
      PROVE  Shrinking
  BY <1>9, MoveShrinks, RevokingShrinks, Types
  DEF ConsumeReplay, Finish, LiveFor, Exchange, Good
<1>10. ASSUME NEW w \in Workers, Authenticate(w)
      PROVE  Shrinking
  BY <1>10, MoveShrinks, SameShrinks DEF Authenticate, tables, Exchange
<1>11. ASSUME NEW w \in Workers, Sign(w)
      PROVE  Shrinking
  <2> DEFINE r == [req[w] EXCEPT !.at = now]
  <2>1. Goto(w, "signed", r) /\ r.family = req[w].family /\ pc[w] \in Exchange
    BY <1>11, Types DEF Sign, Request, Exchange, Good
  <2> HIDE DEF r
  <2> QED BY <1>11, <2>1, MoveShrinks, SameShrinks DEF Sign, tables
<1>12. ASSUME NEW c \in Clients, NEW k \in Credentials, Revoke(c, k)
      PROVE  Shrinking
  BY <1>12, RevokingShrinks, Types DEF Revoke, Exchanging, Good
<1>13. CASE Environment \/ UNCHANGED vars
  <2>1. UNCHANGED <<grant, cred, drawn, pc, req>>
    BY <1>13 DEF Environment, ResetPassword, SetStatus, Tick, tables, vars
  <2>2. \A f \in Families, v \in Workers : Exchanging(v, f)' => Exchanging(v, f)
    BY <2>1 DEF Exchanging
  <2>3. UNCHANGED <<grant, cred, drawn>>
    BY <2>1
  <2> QED BY <2>2, <2>3, SameShrinks, ShrinkingCloses
<1>14. CASE Shrinking
  BY <1>14, ShrinkingCloses
<1> QED
  BY <1>1, <1>2, <1>3, <1>4, <1>5, <1>6, <1>7, <1>8, <1>9, <1>10, <1>11, <1>12, <1>13, <1>14
  DEF Next, Issuance, TokenEndpoint

(* Every family lives the life GrantFamily describes, whatever the threads *)
(* and lifetimes: a family whose exchange was lost, refused or revoked     *)
(* never opens again.                                                      *)
THEOREM FamiliesLiveOnce == Spec => FamilyRefinement
<1>1. Init => GF!Init
  BY DEF Init, GF!Init, FamilyPhase, FreshFamily
<1>2. OInv /\ OInv' /\ [Next]_vars => [GF!Next]_phases
  BY PhaseStep DEF OInv, Good
<1>3. OInv /\ [Next]_vars => OInv'
  BY OInvStep
<1> QED
  BY <1>1, <1>2, <1>3, OInvInit, PTL DEF Spec, FamilyRefinement, GF!Spec, phases
===============================================================================
