--------------------------- MODULE OAuthStoreProofs ---------------------------
(***************************************************************************)
(* Proofs about OAuthStore, for any number of users, clients, families,    *)
(* secrets and request threads and for any lifetimes.                      *)
(***************************************************************************)
EXTENDS OAuthStore, TLAPS

Exchange == {"consumed", "authenticated", "signed"}

(* What a request remembers at each stage.                                 *)
RequestOK ==
  /\ \A w \in Workers : pc[w] # "idle" => req[w].client \in Clients
  /\ \A w \in Workers :
       pc[w] \in {"approved", "code", "native", "family", "stored"} \cup Exchange
         => req[w].data \in Data
  /\ \A w \in Workers :
       pc[w] \in {"hinted", "stored"} \cup Exchange
         => /\ req[w].family \in Families
            /\ req[w].raw \in Credentials

TypeInv == TypeOK /\ RequestOK

LEMMA NoRequestType == NoRequest \in Request
BY BoundAssumption DEF NoRequest, Request

LEMMA InitTypeInv == Init => TypeInv
BY NoRequestType, BoundAssumption
DEF Init, TypeInv, TypeOK, RequestOK, Row!Statuses, Stages, Exchange

\* A family is inserted with rows of the right type.
LEMMA InsertFamilyType ==
  ASSUME TypeInv, NEW w \in Workers, NEW f \in Families, NEW k \in Credentials,
         NEW kind \in {"code", "refresh"}, NEW ttl \in Nat,
         pc[w] \in {"code", "family"}, InsertFamily(w, f, k, kind, ttl)
  PROVE  /\ grant' \in [Families -> Grant \cup {NoRow}]
         /\ cred' \in [Credentials -> Credential \cup {NoRow}]
         /\ drawn' \subseteq Families \cup Credentials
<1>1. /\ req[w].client \in Clients
      /\ req[w].data \in Data
      /\ req[w].at \in Nat
  BY DEF TypeInv, TypeOK, RequestOK, Request
<1>2. [client |-> req[w].client, expires |-> req[w].at + GrantTTL, revoked |-> FALSE] \in Grant
  BY <1>1, BoundAssumption DEF Grant
<1>3. [family |-> f, kind |-> kind, data |-> req[w].data,
       expires |-> req[w].at + ttl, used |-> FALSE] \in Credential
  BY <1>1 DEF Credential
<1> QED
  BY <1>2, <1>3 DEF InsertFamily, TypeInv, TypeOK

\* A request moves to a stage whose requirements its new memory meets.
LEMMA GotoType ==
  ASSUME TypeInv, NEW w \in Workers, NEW s \in Stages, NEW r \in Request,
         Goto(w, s, r),
         s # "idle" => r.client \in Clients,
         s \in {"approved", "code", "native", "family", "stored"} \cup Exchange
           => r.data \in Data,
         s \in {"hinted", "stored"} \cup Exchange
           => r.family \in Families /\ r.raw \in Credentials
  PROVE  /\ pc' \in [Workers -> Stages]
         /\ req' \in [Workers -> Request]
         /\ RequestOK'
<1>1. /\ pc' \in [Workers -> Stages]
      /\ req' \in [Workers -> Request]
  BY DEF Goto, TypeInv, TypeOK
<1>2. \A v \in Workers : v # w => pc'[v] = pc[v] /\ req'[v] = req[v]
  BY DEF Goto, TypeInv, TypeOK
<1>3. pc'[w] = s /\ req'[w] = r
  BY DEF Goto, TypeInv, TypeOK
<1> QED
  BY <1>1, <1>2, <1>3 DEF RequestOK, TypeInv

LEMMA FinishType ==
  ASSUME TypeInv, NEW w \in Workers, Finish(w)
  PROVE  /\ pc' \in [Workers -> Stages]
         /\ req' \in [Workers -> Request]
         /\ RequestOK'
<1>1. "idle" \in Stages
  BY DEF Stages
<1>2. Goto(w, "idle", NoRequest)
  BY DEF Finish
<1> QED
  BY <1>1, <1>2, NoRequestType, GotoType DEF Exchange

LEMMA TypeInvStep == TypeInv /\ [Next]_vars => TypeInv'
<1> SUFFICES ASSUME TypeInv, [Next]_vars PROVE TypeInv'
  OBVIOUS
<1> USE BoundAssumption, MailClientAssumption
<1>1. ASSUME NEW w \in Workers, NEW u \in Users, NEW c \in Clients, Approve(w, u, c)
      PROVE  TypeInv'
  <2> DEFINE d == [user |-> u, tag |-> account[u].tag, scope |-> BrowserScope, client |-> c]
             r == [NoRequest EXCEPT !.client = c, !.data = d, !.at = now]
  <2>1. d \in Data
    BY DEF Data, Scopes, TypeInv, TypeOK
  <2>2. r \in Request /\ r.client = c /\ r.data = d
    BY <2>1 DEF Request, NoRequest, TypeInv, TypeOK
  <2>3. Goto(w, "approved", r) /\ "approved" \in Stages
    BY <1>1 DEF Approve, Stages
  <2>4. /\ pc' \in [Workers -> Stages] /\ req' \in [Workers -> Request] /\ RequestOK'
    <3> HIDE DEF d, r
    <3> QED BY <2>1, <2>2, <2>3, GotoType DEF Exchange
  <2> QED BY <1>1, <2>4 DEF Approve, tables, TypeInv, TypeOK
<1>2. ASSUME NEW w \in Workers, NEW u \in Users, NEW s \in NativeScopes, NativeLogin(w, u, s)
      PROVE  TypeInv'
  <2> DEFINE d == [user |-> u, tag |-> account[u].tag, scope |-> s, client |-> MailClient]
             r == [NoRequest EXCEPT !.client = MailClient, !.data = d, !.at = now]
  <2>1. d \in Data
    BY DEF Data, Scopes, TypeInv, TypeOK
  <2>2. r \in Request /\ r.client = MailClient /\ r.data = d
    BY <2>1 DEF Request, NoRequest, TypeInv, TypeOK
  <2>3. Goto(w, "native", r) /\ "native" \in Stages
    BY <1>2 DEF NativeLogin, Stages
  <2>4. /\ pc' \in [Workers -> Stages] /\ req' \in [Workers -> Request] /\ RequestOK'
    <3> HIDE DEF d, r
    <3> QED BY <2>1, <2>2, <2>3, GotoType DEF Exchange
  <2> QED BY <1>2, <2>4 DEF NativeLogin, tables, TypeInv, TypeOK
<1>3. ASSUME NEW w \in Workers, Housekeep(w)
      PROVE  TypeInv'
  <2> DEFINE s == IF pc[w] = "approved" THEN "code" ELSE "family"
             r == [req[w] EXCEPT !.at = now]
  <2>1. pc[w] \in {"approved", "native"} /\ Goto(w, s, r) /\ s \in {"code", "family"}
    BY <1>3 DEF Housekeep
  <2>2. /\ r \in Request
        /\ r.client = req[w].client /\ r.data = req[w].data
        /\ req[w].client \in Clients /\ req[w].data \in Data
    BY <2>1 DEF Request, TypeInv, TypeOK, RequestOK
  <2>3. /\ pc' \in [Workers -> Stages] /\ req' \in [Workers -> Request] /\ RequestOK'
    <3> HIDE DEF s, r
    <3>1. s \in Stages /\ s \notin {"hinted", "stored"} \cup Exchange
      BY <2>1 DEF Stages, Exchange
    <3> QED BY <2>1, <2>2, <3>1, GotoType
  <2>4. grant' \in [Families -> Grant \cup {NoRow}] /\ cred' \in [Credentials -> Credential \cup {NoRow}]
    <3>1. CASE UNCHANGED <<grant, cred>>
      BY <3>1 DEF TypeInv, TypeOK
    <3>2. CASE PurgeExpired(req[w].client)
      BY <3>2 DEF PurgeExpired, TypeInv, TypeOK
    <3> QED BY <1>3, <3>1, <3>2 DEF Housekeep
  <2> QED BY <1>3, <2>3, <2>4 DEF Housekeep, TypeInv, TypeOK
<1>4. ASSUME NEW w \in Workers, NEW f \in Families, NEW k \in Credentials, CreateCode(w, f, k)
      PROVE  TypeInv'
  <2>1. /\ grant' \in [Families -> Grant \cup {NoRow}]
        /\ cred' \in [Credentials -> Credential \cup {NoRow}]
        /\ drawn' \subseteq Families \cup Credentials
    BY <1>4, InsertFamilyType DEF CreateCode
  <2>2. /\ pc' \in [Workers -> Stages] /\ req' \in [Workers -> Request] /\ RequestOK'
    BY <1>4, FinishType DEF CreateCode
  <2> QED BY <1>4, <2>1, <2>2 DEF CreateCode, TypeInv, TypeOK
<1>5. ASSUME NEW w \in Workers, NEW f \in Families, NEW k \in Credentials,
             CreateRefreshFamily(w, f, k)
      PROVE  TypeInv'
  <2> DEFINE r == [req[w] EXCEPT !.family = f, !.raw = k]
  <2>1. /\ grant' \in [Families -> Grant \cup {NoRow}]
        /\ cred' \in [Credentials -> Credential \cup {NoRow}]
        /\ drawn' \subseteq Families \cup Credentials
    BY <1>5, InsertFamilyType DEF CreateRefreshFamily
  <2>2. pc[w] = "family" /\ Goto(w, "stored", r) /\ "stored" \in Stages
    BY <1>5 DEF CreateRefreshFamily, Stages
  <2>3. /\ r \in Request
        /\ r.client \in Clients /\ r.data \in Data /\ r.family \in Families /\ r.raw \in Credentials
    BY <2>2 DEF Request, TypeInv, TypeOK, RequestOK
  <2>4. /\ pc' \in [Workers -> Stages] /\ req' \in [Workers -> Request] /\ RequestOK'
    <3> HIDE DEF r
    <3> QED BY <2>2, <2>3, GotoType
  <2> QED BY <1>5, <2>1, <2>4 DEF CreateRefreshFamily, TypeInv, TypeOK
<1>6. ASSUME NEW w \in Workers, SignNative(w)
      PROVE  TypeInv'
  <2>1. /\ pc' \in [Workers -> Stages] /\ req' \in [Workers -> Request] /\ RequestOK'
    BY <1>6, FinishType DEF SignNative
  <2>2. /\ req[w].family \in Families /\ req[w].raw \in Credentials /\ req[w].data \in Data
    BY <1>6 DEF SignNative, TypeInv, RequestOK
  <2>3. [family |-> req[w].family, data |-> req[w].data, exp |-> now + AccessTTL] \in Bearer
    BY <2>2 DEF Bearer, TypeInv, TypeOK
  <2> QED BY <1>6, <2>1, <2>2, <2>3 DEF SignNative, TypeInv, TypeOK
<1>7. ASSUME NEW w \in Workers, NEW c \in Clients, NEW k \in Credentials, Lookup(w, c, k)
      PROVE  TypeInv'
  <2> DEFINE r == [NoRequest EXCEPT !.client = c, !.raw = k, !.family = cred[k].family, !.at = now]
  <2>1. cred[k].family \in Families
    BY <1>7 DEF Lookup, TypeInv, TypeOK, Credential
  <2>2. r \in Request /\ r.client = c /\ r.family \in Families /\ r.raw \in Credentials
    BY <2>1 DEF Request, NoRequest, TypeInv, TypeOK
  <2>3. Goto(w, "hinted", r) /\ "hinted" \in Stages
    BY <1>7 DEF Lookup, Stages
  <2>4. /\ pc' \in [Workers -> Stages] /\ req' \in [Workers -> Request] /\ RequestOK'
    <3> HIDE DEF r
    <3> QED BY <2>2, <2>3, GotoType DEF Exchange
  <2> QED BY <1>7, <2>4 DEF Lookup, tables, TypeInv, TypeOK
<1>8. ASSUME NEW w \in Workers, ConsumeFirst(w)
      PROVE  TypeInv'
  <2> DEFINE k == req[w].raw
             r == [req[w] EXCEPT !.data = cred[k].data]
  <2>1. /\ pc[w] = "hinted" /\ Usable(k, req[w].at) /\ Spend(k) /\ Goto(w, "consumed", r)
    BY <1>8 DEF ConsumeFirst
  <2>2. k \in Credentials /\ req[w].family \in Families /\ req[w].client \in Clients
    BY <2>1 DEF TypeInv, RequestOK
  <2>3. cred[k] \in Credential /\ cred[k].data \in Data
    BY <2>1, <2>2 DEF Usable, TypeInv, TypeOK, Credential
  <2>4. /\ r \in Request /\ r.data \in Data /\ r.client \in Clients
        /\ r.family \in Families /\ r.raw \in Credentials
    BY <2>2, <2>3 DEF Request, TypeInv, TypeOK
  <2>5. /\ pc' \in [Workers -> Stages] /\ req' \in [Workers -> Request] /\ RequestOK'
    <3>1. "consumed" \in Stages
      BY DEF Stages
    <3> HIDE DEF r
    <3> QED BY <2>1, <2>4, <3>1, GotoType
  <2>6. cred' \in [Credentials -> Credential \cup {NoRow}]
    <3>1. [cred[k] EXCEPT !.used = TRUE] \in Credential
      BY <2>3 DEF Credential
    <3> QED BY <2>1, <2>2, <3>1 DEF Spend, TypeInv, TypeOK
  <2> QED BY <1>8, <2>5, <2>6 DEF ConsumeFirst, TypeInv, TypeOK
<1>9. ASSUME NEW w \in Workers, ConsumeReplay(w)
      PROVE  TypeInv'
  <2>1. /\ pc' \in [Workers -> Stages] /\ req' \in [Workers -> Request] /\ RequestOK'
    BY <1>9, FinishType DEF ConsumeReplay
  <2>2. req[w].family \in Families /\ grant[req[w].family] \in Grant
    BY <1>9 DEF ConsumeReplay, LiveFor, Present, TypeInv, TypeOK, RequestOK
  <2>3. [grant[req[w].family] EXCEPT !.revoked = TRUE] \in Grant
    BY <2>2 DEF Grant
  <2>4. grant' \in [Families -> Grant \cup {NoRow}]
    BY <1>9, <2>2, <2>3 DEF ConsumeReplay, TypeInv, TypeOK
  <2> QED BY <1>9, <2>1, <2>4 DEF ConsumeReplay, TypeInv, TypeOK
<1>10. ASSUME NEW w \in Workers, Authenticate(w)
       PROVE  TypeInv'
  <2>1. /\ pc' \in [Workers -> Stages] /\ req' \in [Workers -> Request] /\ RequestOK'
    <3>1. /\ req[w] \in Request /\ req[w].client \in Clients /\ req[w].data \in Data
          /\ req[w].family \in Families /\ req[w].raw \in Credentials
      BY <1>10 DEF Authenticate, TypeInv, TypeOK, RequestOK, Exchange
    <3>2. Goto(w, "authenticated", req[w]) /\ "authenticated" \in Stages
      BY <1>10 DEF Authenticate, Stages
    <3> QED BY <3>1, <3>2, GotoType
  <2> QED BY <1>10, <2>1 DEF Authenticate, tables, TypeInv, TypeOK
<1>11. ASSUME NEW w \in Workers, Sign(w)
       PROVE  TypeInv'
  <2> DEFINE r == [req[w] EXCEPT !.at = now]
  <2>1. /\ r \in Request /\ r.client \in Clients /\ r.data \in Data
        /\ r.family \in Families /\ r.raw \in Credentials
    BY <1>11 DEF Sign, TypeInv, TypeOK, RequestOK, Exchange, Request
  <2>2. Goto(w, "signed", r) /\ "signed" \in Stages
    BY <1>11 DEF Sign, Stages
  <2>3. /\ pc' \in [Workers -> Stages] /\ req' \in [Workers -> Request] /\ RequestOK'
    <3> HIDE DEF r
    <3> QED BY <2>1, <2>2, GotoType
  <2> QED BY <1>11, <2>3 DEF Sign, tables, TypeInv, TypeOK
<1>12. ASSUME NEW w \in Workers, NEW k \in Credentials, SaveRefresh(w, k)
       PROVE  TypeInv'
  <2>1. /\ pc' \in [Workers -> Stages] /\ req' \in [Workers -> Request] /\ RequestOK'
    BY <1>12, FinishType DEF SaveRefresh
  <2>2. /\ req[w].family \in Families /\ req[w].data \in Data /\ req[w].at \in Nat
        /\ grant[req[w].family] \in Grant
    BY <1>12 DEF SaveRefresh, LiveFor, Present, TypeInv, TypeOK, RequestOK, Exchange, Request
  <2>3. NextRefresh(w) \in Credential
    BY <2>2 DEF NextRefresh, Credential, Grant
  <2>4. [family |-> req[w].family, data |-> req[w].data, exp |-> req[w].at + AccessTTL] \in Bearer
    BY <2>2 DEF Bearer
  <2> QED BY <1>12, <2>1, <2>3, <2>4 DEF SaveRefresh, TypeInv, TypeOK
<1>13. ASSUME NEW w \in Workers, Abandon(w)
       PROVE  TypeInv'
  BY <1>13, FinishType DEF Abandon, tables, TypeInv, TypeOK
<1>14. ASSUME NEW c \in Clients, NEW k \in Credentials, Revoke(c, k)
       PROVE  TypeInv'
  <2>1. cred[k].family \in Families /\ grant[cred[k].family] \in Grant
    BY <1>14 DEF Revoke, Present, TypeInv, TypeOK, Credential
  <2>2. [grant[cred[k].family] EXCEPT !.revoked = TRUE] \in Grant
    BY <2>1 DEF Grant
  <2>3. grant' \in [Families -> Grant \cup {NoRow}]
    BY <1>14, <2>1, <2>2 DEF Revoke, TypeInv, TypeOK
  <2> QED BY <1>14, <2>3 DEF Revoke, TypeInv, TypeOK, RequestOK
<1>15. ASSUME NEW u \in Users, ResetPassword(u)
       PROVE  TypeInv'
  <2>1. [status |-> "active", tag |-> account[u].tag + 1] \in [status : Row!Statuses, tag : Nat]
    BY DEF TypeInv, TypeOK, Row!Statuses
  <2> QED BY <1>15, <2>1 DEF ResetPassword, Row!Replace, tables, TypeInv, TypeOK, RequestOK
<1>16. ASSUME NEW u \in Users, NEW s \in Row!Statuses, SetStatus(u, s)
       PROVE  TypeInv'
  <2>1. [account[u] EXCEPT !.status = s] \in [status : Row!Statuses, tag : Nat]
    BY DEF TypeInv, TypeOK
  <2> QED BY <1>16, <2>1 DEF SetStatus, Row!Switch, tables, TypeInv, TypeOK, RequestOK
<1>17. CASE Tick
  BY <1>17 DEF Tick, tables, TypeInv, TypeOK, RequestOK
<1>18. CASE UNCHANGED vars
  BY <1>18 DEF vars, TypeInv, TypeOK, RequestOK
<1> QED
  BY <1>1, <1>2, <1>3, <1>4, <1>5, <1>6, <1>7, <1>8, <1>9, <1>10, <1>11, <1>12, <1>13,
     <1>14, <1>15, <1>16, <1>17, <1>18
  DEF Next, Issuance, TokenEndpoint, Environment

(* Types: every table row, request and access token of any reachable state *)
(* has its declared shape.                                                 *)
THEOREM TypeCorrect == Spec => []TypeOK
<1>1. TypeInv => TypeOK
  BY DEF TypeInv
<1> QED
  BY InitTypeInv, TypeInvStep, <1>1, PTL DEF Spec

-------------------------------------------------------------------------------
(* The chain of a family.  LinearFamily is not inductive alone: a new      *)
(* family must not meet credentials or exchanges that already name it, and *)
(* a request that waited for the lock must find the row it looked up, or   *)
(* none.                                                                   *)

Drawn ==
  /\ \A f \in Families : Present(f) => f \in drawn
  /\ \A k \in Credentials : cred[k] # NoRow => k \in drawn /\ cred[k].family \in drawn
  /\ \A w \in Workers :
       pc[w] \in {"hinted", "stored"} \cup Exchange
         => req[w].family \in drawn /\ req[w].raw \in drawn
  /\ \A w \in Workers :
       pc[w] = "hinted" /\ cred[req[w].raw] # NoRow
         => cred[req[w].raw].family = req[w].family

ChainInv == Drawn /\ LinearFamily /\ NoOrphanCredential

LEMMA InitChain == Init => ChainInv
BY DEF Init, ChainInv, Drawn, LinearFamily, NoOrphanCredential, Present, Unused, Exchanging, Exchange

\* What Goto leaves of the other requests, and makes of this one.
LEMMA GotoEffect ==
  ASSUME TypeInv, NEW w \in Workers, NEW s, NEW r, Goto(w, s, r)
  PROVE  /\ pc'[w] = s /\ req'[w] = r
         /\ \A v \in Workers \ {w} : pc'[v] = pc[v] /\ req'[v] = req[v]
BY DEF Goto, TypeInv, TypeOK

\* A request that moves without touching the tables keeps the chain, as long as
\* it does not enter an exchange or change the family it works on.
LEMMA MoveChain ==
  ASSUME TypeInv, ChainInv, NEW w \in Workers, NEW s, NEW r, Goto(w, s, r),
         UNCHANGED <<grant, cred, drawn>>,
         s \in Exchange => pc[w] \in Exchange /\ r.family = req[w].family /\ r.raw = req[w].raw,
         s # "stored",
         s = "hinted" => /\ r.raw \in Credentials
                         /\ cred[r.raw] # NoRow
                         /\ r.family = cred[r.raw].family
  PROVE  ChainInv'
<1>1. /\ pc'[w] = s /\ req'[w] = r
      /\ \A v \in Workers \ {w} : pc'[v] = pc[v] /\ req'[v] = req[v]
  BY GotoEffect
<1>2. Drawn'
  BY <1>1 DEF Drawn, ChainInv, Exchange, Present
<1>3. \A v \in Workers, f \in Families : Exchanging(v, f)' => Exchanging(v, f)
  BY <1>1 DEF Exchanging, Exchange
<1>4. LinearFamily'
  BY <1>3 DEF LinearFamily, ChainInv, Unused
<1>5. NoOrphanCredential'
  BY DEF NoOrphanCredential, ChainInv, Present
<1> QED
  BY <1>2, <1>4, <1>5 DEF ChainInv

\* A freshly drawn family starts a chain of its own.
LEMMA InsertFamilyChain ==
  ASSUME TypeInv, ChainInv, NEW w \in Workers, NEW f \in Families, NEW k \in Credentials,
         NEW kind, NEW ttl, pc[w] \in {"code", "family"}, InsertFamily(w, f, k, kind, ttl),
         NEW s \in {"idle", "stored"}, NEW r, Goto(w, s, r),
         s = "stored" => r.family = f /\ r.raw = k
  PROVE  ChainInv'
<1> DEFINE g == [client |-> req[w].client, expires |-> req[w].at + GrantTTL, revoked |-> FALSE]
           c == [family |-> f, kind |-> kind, data |-> req[w].data,
                 expires |-> req[w].at + ttl, used |-> FALSE]
<1>1. /\ f \notin drawn /\ k \notin drawn /\ drawn' = drawn \cup {f, k}
      /\ grant' = [grant EXCEPT ![f] = g]
      /\ cred' = [cred EXCEPT ![k] = c]
      /\ c.family = f
  BY DEF InsertFamily, FreshFamily, FreshSecret
<1>2. /\ pc'[w] = s /\ req'[w] = r
      /\ \A v \in Workers \ {w} : pc'[v] = pc[v] /\ req'[v] = req[v]
  BY GotoEffect
<1> HIDE DEF c
<1>3. /\ cred'[k] = c
      /\ \A j \in Credentials : j # k => cred'[j] = cred[j]
  BY <1>1 DEF TypeInv, TypeOK
<1>4. /\ grant'[f] = g /\ g # NoRow
      /\ \A h \in Families : h # f => grant'[h] = grant[h]
  <2>1. req[w].client \in Clients /\ req[w].at \in Nat
    BY DEF TypeInv, TypeOK, RequestOK, Request
  <2>2. g \in Grant
    BY <2>1, BoundAssumption DEF Grant
  <2>3. g # NoRow
    BY <2>2, NullAssumption
  <2> QED BY <1>1, <2>3 DEF TypeInv, TypeOK
<1>5. Drawn'
  BY <1>1, <1>2, <1>3, <1>4 DEF Drawn, ChainInv, Exchange, Present
<1>6. \A v \in Workers, h \in Families : Exchanging(v, h)' => Exchanging(v, h) /\ h # f
  BY <1>1, <1>2 DEF Exchanging, Exchange, Drawn, ChainInv
<1>7. /\ \A j \in Credentials, h \in Families : j # k => (Unused(j, h)' <=> Unused(j, h))
      /\ \A j \in Credentials : j # k => ~Unused(j, f)
      /\ \A h \in Families : Unused(k, h)' => h = f
  BY <1>1, <1>3 DEF Unused, Drawn, ChainInv
<1>8. LinearFamily'
  BY <1>6, <1>7 DEF LinearFamily, ChainInv
<1>9. NoOrphanCredential'
  BY <1>1, <1>3, <1>4 DEF NoOrphanCredential, ChainInv, Present
<1> QED
  BY <1>5, <1>8, <1>9 DEF ChainInv
LEMMA ChainStep == TypeInv /\ ChainInv /\ [Next]_vars => ChainInv'
<1> SUFFICES ASSUME TypeInv, ChainInv, [Next]_vars PROVE ChainInv'
  OBVIOUS
<1>1. ASSUME NEW w \in Workers, NEW u \in Users, NEW c \in Clients, Approve(w, u, c)
      PROVE  ChainInv'
  BY <1>1, MoveChain DEF Approve, tables, Exchange
<1>2. ASSUME NEW w \in Workers, NEW u \in Users, NEW s \in NativeScopes, NativeLogin(w, u, s)
      PROVE  ChainInv'
  BY <1>2, MoveChain DEF NativeLogin, tables, Exchange
<1>3. ASSUME NEW w \in Workers, Housekeep(w)
      PROVE  ChainInv'
  <2> DEFINE s == IF pc[w] = "approved" THEN "code" ELSE "family"
             r == [req[w] EXCEPT !.at = now]
  <2>1. Goto(w, s, r) /\ s \in {"code", "family"}
    BY <1>3 DEF Housekeep
  <2> HIDE DEF s, r
  <2>2. CASE UNCHANGED <<grant, cred>>
    BY <1>3, <2>1, <2>2, MoveChain DEF Housekeep, Exchange
  <2>3. CASE PurgeExpired(req[w].client)
    <3>1. /\ \A v \in Workers \ {w} : pc'[v] = pc[v] /\ req'[v] = req[v]
          /\ pc'[w] \in {"code", "family"}
      BY <2>1, GotoEffect
    <3>2. PICK S \in SUBSET Families :
            /\ \A f \in Families : grant'[f] = IF f \in S THEN NoRow ELSE grant[f]
            /\ \A k \in Credentials : cred'[k] = IF cred[k] # NoRow /\ cred[k].family \in S
                                                 THEN NoRow ELSE cred[k]
      <4>1. PICK S \in PurgeBatch(req[w].client) :
              /\ grant' = [f \in Families |-> IF f \in S THEN NoRow ELSE grant[f]]
              /\ cred' = [k \in Credentials |->
                            IF cred[k] # NoRow /\ cred[k].family \in S THEN NoRow ELSE cred[k]]
        BY <2>3 DEF PurgeExpired
      <4>2. S \in SUBSET Families
        BY DEF PurgeBatch, LongExpired
      <4> QED BY <4>1, <4>2
    <3>3. drawn' = drawn
      BY <1>3 DEF Housekeep
    <3>4. Drawn'
      <4>1. \A f \in Families : Present(f)' => f \in drawn'
        BY <3>2, <3>3 DEF Drawn, ChainInv, Present
      <4>2. \A k \in Credentials : cred'[k] # NoRow => k \in drawn' /\ cred'[k].family \in drawn'
        BY <3>2, <3>3 DEF Drawn, ChainInv
      <4>3. \A v \in Workers :
              pc'[v] \in {"hinted", "stored"} \cup Exchange
                => req'[v].family \in drawn' /\ req'[v].raw \in drawn'
        BY <3>1, <3>3 DEF Drawn, ChainInv, Exchange
      <4>4. \A v \in Workers :
              pc'[v] = "hinted" /\ cred'[req'[v].raw] # NoRow
                => cred'[req'[v].raw].family = req'[v].family
        <5>1. \A v \in Workers : pc'[v] = "hinted" => pc[v] = "hinted" /\ req'[v] = req[v]
          BY <3>1
        <5>2. \A v \in Workers : pc[v] = "hinted" => req[v].raw \in Credentials
          BY DEF TypeInv, RequestOK
        <5> QED BY <5>1, <5>2, <3>2 DEF Drawn, ChainInv
      <4> QED BY <4>1, <4>2, <4>3, <4>4 DEF Drawn
    <3>5. \A v \in Workers, f \in Families : Exchanging(v, f)' => Exchanging(v, f)
      BY <3>1 DEF Exchanging
    <3>6. \A k \in Credentials, f \in Families : Unused(k, f)' => Unused(k, f)
      BY <3>2 DEF Unused
    <3>7. LinearFamily'
      BY <3>5, <3>6 DEF LinearFamily, ChainInv
    <3>8. NoOrphanCredential'
      <4>1. \A k \in Credentials : cred[k] # NoRow => cred[k].family \in Families
        BY DEF TypeInv, TypeOK, Credential
      <4> QED BY <3>2, <4>1 DEF NoOrphanCredential, ChainInv, Present
    <3> QED BY <3>4, <3>7, <3>8 DEF ChainInv
  <2> QED BY <1>3, <2>2, <2>3 DEF Housekeep
<1>4. ASSUME NEW w \in Workers, NEW f \in Families, NEW k \in Credentials, CreateCode(w, f, k)
      PROVE  ChainInv'
  BY <1>4, InsertFamilyChain DEF CreateCode, Finish
<1>5. ASSUME NEW w \in Workers, NEW f \in Families, NEW k \in Credentials,
             CreateRefreshFamily(w, f, k)
      PROVE  ChainInv'
  <2> DEFINE r == [req[w] EXCEPT !.family = f, !.raw = k]
  <2>1. r.family = f /\ r.raw = k
    BY DEF TypeInv, TypeOK, Request
  <2>2. /\ pc[w] = "family" /\ Goto(w, "stored", r)
        /\ InsertFamily(w, f, k, "refresh", GrantTTL)
    BY <1>5 DEF CreateRefreshFamily
  <2> HIDE DEF r
  <2> QED BY <2>1, <2>2, InsertFamilyChain
<1>6. ASSUME NEW w \in Workers, SignNative(w)
      PROVE  ChainInv'
  BY <1>6, MoveChain DEF SignNative, Finish, Exchange
<1>7. ASSUME NEW w \in Workers, NEW c \in Clients, NEW k \in Credentials, Lookup(w, c, k)
      PROVE  ChainInv'
  <2> DEFINE r == [NoRequest EXCEPT !.client = c, !.raw = k, !.family = cred[k].family, !.at = now]
  <2>1. r.raw = k /\ r.family = cred[k].family
    BY DEF NoRequest
  <2>2. Goto(w, "hinted", r) /\ cred[k] # NoRow /\ UNCHANGED <<grant, cred, drawn>>
    BY <1>7 DEF Lookup, tables
  <2> HIDE DEF r
  <2> QED BY <2>1, <2>2, MoveChain DEF Exchange
<1>8. ASSUME NEW w \in Workers, ConsumeFirst(w)
      PROVE  ChainInv'
  <2> DEFINE k == req[w].raw
             f == req[w].family
             r == [req[w] EXCEPT !.data = cred[k].data]
  <2>1. /\ pc[w] = "hinted" /\ k \in Credentials /\ f \in Families
        /\ cred[k] # NoRow /\ ~cred[k].used /\ cred[k] \in Credential
        /\ cred[k].family = f
    BY <1>8 DEF ConsumeFirst, Usable, TypeInv, TypeOK, RequestOK, ChainInv, Drawn
  <2>2. r.family = f /\ r.raw = k
    BY DEF TypeInv, TypeOK, Request
  <2>3. Goto(w, "consumed", r) /\ UNCHANGED <<grant, drawn>>
    BY <1>8 DEF ConsumeFirst
  <2>4. /\ cred'[k] # NoRow /\ cred'[k].used /\ cred'[k].family = f
        /\ \A j \in Credentials : j # k => cred'[j] = cred[j]
    <3>1. [cred[k] EXCEPT !.used = TRUE] \in Credential
      BY <2>1 DEF Credential
    <3>2. cred'[k] = [cred[k] EXCEPT !.used = TRUE]
      BY <1>8, <2>1 DEF ConsumeFirst, Spend, TypeInv, TypeOK
    <3> QED BY <1>8, <2>1, <3>1, <3>2, NullAssumption DEF ConsumeFirst, Spend, TypeInv, TypeOK, Credential
  <2> HIDE DEF r
  <2>5. /\ pc'[w] = "consumed" /\ req'[w] = r
        /\ \A v \in Workers \ {w} : pc'[v] = pc[v] /\ req'[v] = req[v]
    BY <2>3, GotoEffect
  <2>6. Drawn'
    <3>1. \A v \in Workers : pc[v] = "hinted" => req[v].raw \in Credentials
      BY DEF TypeInv, RequestOK
    <3>2. \A j \in Credentials :
            cred'[j] # NoRow => cred[j] # NoRow /\ cred'[j].family = cred[j].family
      BY <2>1, <2>4
    <3>3. \A v \in Workers : pc'[v] = "hinted" => pc[v] = "hinted" /\ req'[v] = req[v]
      BY <2>5
    <3>4. \A v \in Workers :
            pc'[v] = "hinted" /\ cred'[req'[v].raw] # NoRow
              => cred'[req'[v].raw].family = req'[v].family
      BY <3>1, <3>2, <3>3 DEF Drawn, ChainInv
    <3>5. \A v \in Workers :
            pc'[v] \in {"hinted", "stored"} \cup Exchange
              => req'[v].family \in drawn' /\ req'[v].raw \in drawn'
      BY <2>1, <2>2, <2>3, <2>5 DEF Drawn, ChainInv, Exchange
    <3> QED BY <2>3, <3>2, <3>4, <3>5 DEF Drawn, ChainInv, Present
  <2>7. \A v \in Workers, h \in Families :
          Exchanging(v, h)' => Exchanging(v, h) \/ (v = w /\ h = f)
    BY <2>2, <2>5 DEF Exchanging
  <2>8. /\ Unused(k, f)
        /\ \A j \in Credentials, h \in Families : Unused(j, h)' => Unused(j, h) /\ j # k
    BY <2>1, <2>4 DEF Unused
  <2>9. LinearFamily'
    BY <2>1, <2>7, <2>8 DEF LinearFamily, ChainInv
  <2>10. NoOrphanCredential'
    BY <2>1, <2>3, <2>4 DEF NoOrphanCredential, ChainInv, Present
  <2> QED BY <2>6, <2>9, <2>10 DEF ChainInv
<1>9. ASSUME NEW w \in Workers, ConsumeReplay(w)
      PROVE  ChainInv'
  <2>1. /\ pc'[w] = "idle"
        /\ \A v \in Workers \ {w} : pc'[v] = pc[v] /\ req'[v] = req[v]
    BY <1>9, GotoEffect DEF ConsumeReplay, Finish
  <2>2. \A f \in Families : Present(f)' <=> Present(f)
    <3>1. req[w].family \in Families /\ grant[req[w].family] \in Grant
      BY <1>9 DEF ConsumeReplay, LiveFor, Present, TypeInv, TypeOK, RequestOK
    <3>2. [grant[req[w].family] EXCEPT !.revoked = TRUE] \in Grant
      BY <3>1 DEF Grant
    <3> QED BY <1>9, <3>1, <3>2, NullAssumption DEF ConsumeReplay, Present, TypeInv, TypeOK
  <2>3. cred' = cred /\ drawn' = drawn
    BY <1>9 DEF ConsumeReplay
  <2>4. \A v \in Workers : pc'[v] # "idle" => pc'[v] = pc[v] /\ req'[v] = req[v]
    BY <2>1
  <2>5. Drawn'
    BY <2>2, <2>3, <2>4 DEF ChainInv, Drawn, Exchange
  <2>6. LinearFamily'
    BY <2>3, <2>4 DEF ChainInv, LinearFamily, Exchanging, Unused
  <2>7. NoOrphanCredential'
    <3>1. \A k \in Credentials : cred[k] # NoRow => cred[k].family \in Families
      BY DEF TypeInv, TypeOK, Credential
    <3> QED BY <2>2, <2>3, <3>1 DEF ChainInv, NoOrphanCredential
  <2> QED BY <2>5, <2>6, <2>7 DEF ChainInv
<1>10. ASSUME NEW w \in Workers, Authenticate(w)
       PROVE  ChainInv'
  BY <1>10, MoveChain DEF Authenticate, tables, Exchange
<1>11. ASSUME NEW w \in Workers, Sign(w)
       PROVE  ChainInv'
  <2> DEFINE r == [req[w] EXCEPT !.at = now]
  <2>1. r.family = req[w].family /\ r.raw = req[w].raw
    BY DEF TypeInv, TypeOK, Request
  <2>2. pc[w] = "authenticated" /\ Goto(w, "signed", r) /\ UNCHANGED <<grant, cred, drawn>>
    BY <1>11 DEF Sign, tables
  <2> HIDE DEF r
  <2> QED BY <2>1, <2>2, MoveChain DEF Exchange
<1>12. ASSUME NEW w \in Workers, NEW k \in Credentials, SaveRefresh(w, k)
       PROVE  ChainInv'
  <2> DEFINE f == req[w].family
  <2>1. /\ pc[w] = "signed" /\ f \in Families /\ f \in drawn /\ Present(f)
        /\ k \notin drawn /\ drawn' = drawn \cup {k} /\ grant' = grant
    BY <1>12 DEF SaveRefresh, FreshSecret, LiveFor, TypeInv, RequestOK, ChainInv, Drawn, Exchange
  <2>2. /\ cred'[k].family = f
        /\ \A j \in Credentials : j # k => cred'[j] = cred[j]
    BY <1>12 DEF SaveRefresh, NextRefresh, TypeInv, TypeOK
  <2>3. /\ pc'[w] = "idle"
        /\ \A v \in Workers \ {w} : pc'[v] = pc[v] /\ req'[v] = req[v]
    BY <1>12, GotoEffect DEF SaveRefresh, Finish
  <2>4. Drawn'
    <3>1. \A v \in Workers : pc[v] = "hinted" => req[v].raw \in Credentials /\ req[v].raw # k
      BY <2>1 DEF TypeInv, RequestOK, Drawn, ChainInv
    <3>2. \A v \in Workers : pc'[v] # "idle" => pc'[v] = pc[v] /\ req'[v] = req[v]
      BY <2>3
    <3>3. \A v \in Workers :
            pc'[v] = "hinted" /\ cred'[req'[v].raw] # NoRow
              => cred'[req'[v].raw].family = req'[v].family
      BY <2>2, <3>1, <3>2 DEF Drawn, ChainInv
    <3>4. \A v \in Workers :
            pc'[v] \in {"hinted", "stored"} \cup Exchange
              => req'[v].family \in drawn' /\ req'[v].raw \in drawn'
      BY <2>1, <3>2 DEF Drawn, ChainInv, Exchange
    <3> QED BY <2>1, <2>2, <3>3, <3>4 DEF Drawn, ChainInv, Present
  <2>5. /\ Exchanging(w, f)
        /\ \A v \in Workers, h \in Families : Exchanging(v, h)' => Exchanging(v, h) /\ v # w
    BY <2>1, <2>3 DEF Exchanging
  <2>6. \A j \in Credentials, h \in Families :
          Unused(j, h)' => (j # k /\ Unused(j, h)) \/ (j = k /\ h = f)
    BY <2>1, <2>2 DEF Unused
  <2>7. LinearFamily'
    BY <2>1, <2>5, <2>6 DEF LinearFamily, ChainInv
  <2>8. NoOrphanCredential'
    BY <2>1, <2>2 DEF NoOrphanCredential, ChainInv, Present
  <2> QED BY <2>4, <2>7, <2>8 DEF ChainInv
<1>13. ASSUME NEW w \in Workers, Abandon(w)
       PROVE  ChainInv'
  BY <1>13, MoveChain DEF Abandon, Finish, tables, Exchange
<1>14. ASSUME NEW c \in Clients, NEW k \in Credentials, Revoke(c, k)
       PROVE  ChainInv'
  <2>1. \A f \in Families : Present(f)' <=> Present(f)
    <3>1. cred[k].family \in Families /\ grant[cred[k].family] \in Grant
      BY <1>14 DEF Revoke, Present, TypeInv, TypeOK, Credential
    <3>2. [grant[cred[k].family] EXCEPT !.revoked = TRUE] \in Grant
      BY <3>1 DEF Grant
    <3> QED BY <1>14, <3>1, <3>2, NullAssumption DEF Revoke, Present, TypeInv, TypeOK
  <2>2. UNCHANGED <<cred, drawn, pc, req>>
    BY <1>14 DEF Revoke
  <2>3. Drawn' /\ LinearFamily'
    BY <2>1, <2>2 DEF ChainInv, Drawn, LinearFamily, Exchanging, Unused, Exchange
  <2>4. NoOrphanCredential'
    <3>1. \A j \in Credentials : cred[j] # NoRow => cred[j].family \in Families
      BY DEF TypeInv, TypeOK, Credential
    <3> QED BY <2>1, <2>2, <3>1 DEF ChainInv, NoOrphanCredential
  <2> QED BY <2>3, <2>4 DEF ChainInv
<1>15. CASE UNCHANGED <<grant, cred, drawn, pc, req>>
  BY <1>15 DEF ChainInv, Drawn, LinearFamily, NoOrphanCredential, Exchanging, Unused, Exchange, Present
<1> QED
  BY <1>1, <1>2, <1>3, <1>4, <1>5, <1>6, <1>7, <1>8, <1>9, <1>10, <1>11, <1>12, <1>13, <1>14, <1>15
  DEF Next, Issuance, TokenEndpoint, Environment, ResetPassword, SetStatus, Tick, tables, vars

(* A family is a chain, whatever the number of threads presenting, rotating *)
(* and revoking its tokens: rotation (consume ... save_refresh) never forks. *)
THEOREM FamilyIsAChain == Spec => []LinearFamily
<1>1. TypeInv /\ ChainInv => LinearFamily
  BY DEF ChainInv
<1> QED
  BY InitTypeInv, TypeInvStep, InitChain, ChainStep, <1>1, PTL DEF Spec

(* No credential outlives its family, although no foreign key ties the     *)
(* tables and purge_expired runs next to save_refresh.                     *)
THEOREM CredentialsHaveFamilies == Spec => []NoOrphanCredential
<1>1. TypeInv /\ ChainInv => NoOrphanCredential
  BY DEF ChainInv
<1> QED
  BY InitTypeInv, TypeInvStep, InitChain, ChainStep, <1>1, PTL DEF Spec
===============================================================================
