------------------------------ MODULE OAuthStore ------------------------------
(***************************************************************************)
(* The OAuth grant families of the account service: the two tables         *)
(* WebsiteOAuthGrant and WebsiteOAuthCredential (connector_oauth_store.py) *)
(* and the requests of the Mail and Connector blueprints that read and     *)
(* write them (mail_oauth.py, connector_oauth.py, mail_native.py).         *)
(*                                                                         *)
(* Every database transaction is one action: each of them holds the row    *)
(* lock of its grant (or of the account) from its first locking read to    *)
(* its commit.  What a request does between two transactions, the clock    *)
(* it read before it got the lock and the lookup it made before the lock   *)
(* are steps of their own, so that requests interleave as gunicorn threads *)
(* do.                                                                     *)
(***************************************************************************)
EXTENDS Naturals, FiniteSets

CONSTANTS
  Users,          \* User.UserId
  Clients,        \* WebsiteOAuthGrant.ClientId
  MailClient,     \* the client the native sign-in issues for
  Families,       \* WebsiteOAuthGrant.GrantId
  Credentials,    \* WebsiteOAuthCredential.TokenHash, one per raw secret
  Workers,        \* request threads
  BrowserScope,   \* the scope every authorization code is bound to
  NativeScopes,   \* the scopes a native sign-in may ask for
  CodeTTL, GrantTTL, AccessTTL,   \* 120 s, 30 days, 300 s
  PurgeAge, PurgeLimit,           \* 30 days, 100 families
  RequestTTL,                     \* longest a request goes without reading the clock
  MaxTime, MaxResets,             \* bounds of the model
  None, NoRow     \* "not known in this request", "no such row"

Scopes == {BrowserScope} \cup NativeScopes

\* The JSON document a credential carries: whose it is and what for.
Data == [user : Users, tag : Nat, scope : Scopes, client : Clients]

Grant == [client : Clients, expires : Nat, revoked : BOOLEAN]

Credential ==
  [family : Families, kind : {"code", "refresh"}, data : Data,
   expires : Nat, used : BOOLEAN]

\* A signed access token in a client's hands.
Bearer == [family : Families, data : Data, exp : Nat]

Stages == {"idle", "approved", "code", "native", "family", "stored",
           "hinted", "consumed", "authenticated", "signed"}

\* What a request remembers between its steps.
Request ==
  [client : Clients \cup {None}, data : Data \cup {None},
   raw : Credentials \cup {None}, family : Families \cup {None}, at : Nat]

ASSUME MailClientAssumption == MailClient \in Clients

ASSUME BoundAssumption ==
  /\ {CodeTTL, GrantTTL, AccessTTL, PurgeAge, RequestTTL} \subseteq Nat
  /\ {MaxTime, MaxResets} \subseteq Nat
  /\ CodeTTL <= GrantTTL
  /\ RequestTTL < GrantTTL

ASSUME NullAssumption ==
  /\ None \notin Clients \cup Families \cup Credentials
  /\ None \notin Data
  /\ NoRow \notin Grant
  /\ NoRow \notin Credential
  /\ Families \cap Credentials = {}

VARIABLES
  now,        \* the clock all instances share (time.time())
  account,    \* the User row: status and credential tag
  grant,      \* WebsiteOAuthGrant
  cred,       \* WebsiteOAuthCredential
  drawn,      \* families and secrets the random generator has returned
  known,      \* secrets that have left the server in a response
  pc, req,    \* where each request is, and what it remembers
  bearer      \* access tokens handed out and not yet expired

Row == INSTANCE CredentialRow

tables == <<grant, cred, drawn, known>>
vars == <<now, account, grant, cred, drawn, known, pc, req, bearer>>

NoRequest ==
  [client |-> None, data |-> None, raw |-> None, family |-> None, at |-> 0]

-------------------------------------------------------------------------------
(* Reading the tables.                                                     *)

Present(f) == grant[f] # NoRow

\* Mutant of GetUser: the bound credential tag is not compared.
GetUserAnyTag(d) == account[d.user].status = "active"

\* Store.get_user: an active, verified account whose hash is still the bound one.
GetUser(d) ==
  /\ account[d.user].status = "active"
  /\ account[d.user].tag = d.tag

\* Mutant of LiveFor: the Revoked column is not looked at.
LiveForIgnoringRevoked(f, c, t) ==
  Present(f) /\ grant[f].client = c /\ grant[f].expires > t

\* What consume and save_refresh require of the locked grant at time t.
LiveFor(f, c, t) ==
  /\ Present(f)
  /\ grant[f].client = c
  /\ ~grant[f].revoked
  /\ grant[f].expires > t

Unused(k, f) == cred[k] # NoRow /\ cred[k].family = f /\ ~cred[k].used

\* A spent credential whose successor is not stored yet.
Exchanging(w, f) ==
  pc[w] \in {"consumed", "authenticated", "signed"} /\ req[w].family = f

FreshFamily(f) == f \notin drawn
FreshSecret(k) == k \notin drawn

-------------------------------------------------------------------------------
TypeOK ==
  /\ now \in Nat
  /\ account \in [Users -> [status : Row!Statuses, tag : Nat]]
  /\ grant \in [Families -> Grant \cup {NoRow}]
  /\ cred \in [Credentials -> Credential \cup {NoRow}]
  /\ drawn \subseteq Families \cup Credentials
  /\ known \subseteq Credentials
  /\ pc \in [Workers -> Stages]
  /\ req \in [Workers -> Request]
  /\ bearer \subseteq Bearer

Init ==
  /\ now = 0
  /\ account = [u \in Users |-> [status |-> "active", tag |-> 0]]
  /\ grant = [f \in Families |-> NoRow]
  /\ cred = [k \in Credentials |-> NoRow]
  /\ drawn = {}
  /\ known = {}
  /\ pc = [w \in Workers |-> "idle"]
  /\ req = [w \in Workers |-> NoRequest]
  /\ bearer = {}

\* The request moves to stage s and remembers r.
Goto(w, s, r) ==
  /\ pc' = [pc EXCEPT ![w] = s]
  /\ req' = [req EXCEPT ![w] = r]

Finish(w) == Goto(w, "idle", NoRequest)

-------------------------------------------------------------------------------
(* Issuing a family.                                                       *)

\* authorize (POST): current_user accepts the session and the consent is good.
Approve(w, u, c) ==
  LET d == [user |-> u, tag |-> account[u].tag, scope |-> BrowserScope, client |-> c] IN
  /\ pc[w] = "idle"
  /\ GetUser(d)
  /\ Goto(w, "approved", [NoRequest EXCEPT !.client = c, !.data = d, !.at = now])
  /\ UNCHANGED <<now, account, tables, bearer>>

\* create_session: the password matched and finish_login confirmed the row.
NativeLogin(w, u, s) ==
  LET d == [user |-> u, tag |-> account[u].tag, scope |-> s, client |-> MailClient] IN
  /\ pc[w] = "idle"
  /\ GetUser(d)
  /\ Goto(w, "native", [NoRequest EXCEPT !.client = MailClient, !.data = d, !.at = now])
  /\ UNCHANGED <<now, account, tables, bearer>>

LongExpired(c) ==
  {f \in Families : /\ Present(f)
                    /\ grant[f].client = c
                    /\ grant[f].expires + PurgeAge < now}

\* ORDER BY ExpiresAt LIMIT: the oldest PurgeLimit, or all if there are fewer.
PurgeBatch(c) ==
  {S \in SUBSET LongExpired(c) :
     /\ Cardinality(S) <= PurgeLimit
     /\ Cardinality(S) < PurgeLimit => S = LongExpired(c)
     /\ \A f \in S, g \in LongExpired(c) \ S : grant[f].expires <= grant[g].expires}

\* Mutant of PurgeExpired: every credential goes at its own expiry.
PurgeByCredential(c) ==
  /\ cred' = [k \in Credentials |->
                IF cred[k] # NoRow /\ cred[k].data.client = c /\ cred[k].expires <= now
                THEN NoRow ELSE cred[k]]
  /\ UNCHANGED grant

PurgeExpired(c) ==
  \E S \in PurgeBatch(c) :
    /\ grant' = [f \in Families |-> IF f \in S THEN NoRow ELSE grant[f]]
    /\ cred' = [k \in Credentials |->
                  IF cred[k] # NoRow /\ cred[k].family \in S THEN NoRow ELSE cred[k]]

\* _maybe_purge_expired (not due, failed, or done), then the clock is read.
Housekeep(w) ==
  /\ pc[w] \in {"approved", "native"}
  /\ Goto(w, IF pc[w] = "approved" THEN "code" ELSE "family", [req[w] EXCEPT !.at = now])
  /\ PurgeExpired(req[w].client) \/ UNCHANGED <<grant, cred>>
  /\ UNCHANGED <<now, account, drawn, known, bearer>>

\* INSERT of a new grant and its first credential in one transaction.
InsertFamily(w, f, k, kind, ttl) ==
  /\ FreshFamily(f) /\ FreshSecret(k)
  /\ drawn' = drawn \cup {f, k}
  /\ grant' = [grant EXCEPT ![f] = [client |-> req[w].client,
                                    expires |-> req[w].at + GrantTTL,
                                    revoked |-> FALSE]]
  /\ cred' = [cred EXCEPT ![k] = [family |-> f, kind |-> kind, data |-> req[w].data,
                                  expires |-> req[w].at + ttl, used |-> FALSE]]

CreateCode(w, f, k) ==
  /\ pc[w] = "code"
  /\ InsertFamily(w, f, k, "code", CodeTTL)
  /\ known' = known \cup {k}
  /\ Finish(w)
  /\ UNCHANGED <<now, account, bearer>>

\* The account row is locked and checked again before the family is stored.
CreateRefreshFamily(w, f, k) ==
  /\ pc[w] = "family"
  /\ GetUser(req[w].data)
  /\ InsertFamily(w, f, k, "refresh", GrantTTL)
  /\ Goto(w, "stored", [req[w] EXCEPT !.family = f, !.raw = k])
  /\ UNCHANGED <<now, account, known, bearer>>

\* issue_native_tokens signs after the family is stored.
SignNative(w) ==
  /\ pc[w] = "stored"
  /\ GetUser(req[w].data)
  /\ bearer' = bearer \cup {[family |-> req[w].family, data |-> req[w].data,
                             exp |-> now + AccessTTL]}
  /\ known' = known \cup {req[w].raw}
  /\ Finish(w)
  /\ UNCHANGED <<now, account, grant, cred, drawn>>

-------------------------------------------------------------------------------
(* The token endpoint.                                                     *)

\* consume up to the lock: clock and owning family, both read without it.
Lookup(w, c, k) ==
  /\ pc[w] = "idle"
  /\ k \in known
  /\ cred[k] # NoRow
  /\ Goto(w, "hinted", [NoRequest EXCEPT !.client = c, !.raw = k,
                                         !.family = cred[k].family, !.at = now])
  /\ UNCHANGED <<now, account, tables, bearer>>

\* Mutant of Usable: a spent credential is accepted again.
UsableTwice(k, t) == cred[k] # NoRow /\ cred[k].expires > t

Usable(k, t) == cred[k] # NoRow /\ ~cred[k].used /\ cred[k].expires > t

\* Mutant of Spend: the row is read, its Used column never written.
SpendNothing(k) == k \in Credentials /\ UNCHANGED cred

Spend(k) == cred' = [cred EXCEPT ![k].used = TRUE]

\* consume under the lock, first use: the credential is burnt.
ConsumeFirst(w) ==
  LET k == req[w].raw IN
  /\ pc[w] = "hinted"
  /\ LiveFor(req[w].family, req[w].client, req[w].at)
  /\ Usable(k, req[w].at)
  /\ Spend(k)
  /\ Goto(w, "consumed", [req[w] EXCEPT !.data = cred[k].data])
  /\ UNCHANGED <<now, account, grant, drawn, known, bearer>>

\* consume under the lock, replay: the whole family is revoked.
ConsumeReplay(w) ==
  LET k == req[w].raw IN
  /\ pc[w] = "hinted"
  /\ LiveFor(req[w].family, req[w].client, req[w].at)
  /\ cred[k] # NoRow
  /\ cred[k].used
  /\ grant' = [grant EXCEPT ![req[w].family].revoked = TRUE]
  /\ Finish(w)
  /\ UNCHANGED <<now, account, cred, drawn, known, bearer>>

\* authenticate_user: the account must still carry the bound credential.
Authenticate(w) ==
  /\ pc[w] = "consumed"
  /\ GetUser(req[w].data)
  /\ Goto(w, "authenticated", req[w])
  /\ UNCHANGED <<now, account, tables, bearer>>

\* access_token: check the account once more, read the clock, sign.
Sign(w) ==
  /\ pc[w] = "authenticated"
  /\ GetUser(req[w].data)
  /\ Goto(w, "signed", [req[w] EXCEPT !.at = now])
  /\ UNCHANGED <<now, account, tables, bearer>>

\* Mutant of NextRefresh: every rotation starts another 30 days.
NextRefreshSliding(w) ==
  [family |-> req[w].family, kind |-> "refresh", data |-> req[w].data,
   expires |-> now + GrantTTL, used |-> FALSE]

\* Mutant of NextRefresh: the account's present tag replaces the bound one.
NextRefreshRebound(w) ==
  [family |-> req[w].family, kind |-> "refresh",
   data |-> [req[w].data EXCEPT !.tag = account[req[w].data.user].tag],
   expires |-> grant[req[w].family].expires, used |-> FALSE]

\* Mutant of NextRefresh: the spent row is copied, its Used column included.
NextRefreshSpent(w) ==
  [family |-> req[w].family, kind |-> "refresh", data |-> req[w].data,
   expires |-> grant[req[w].family].expires, used |-> TRUE]

\* Mutant of NextRefresh: the binding is lost and null is stored.
NextRefreshUnbound(w) ==
  [family |-> req[w].family, kind |-> "refresh", data |-> None,
   expires |-> grant[req[w].family].expires, used |-> FALSE]

\* The successor row: same binding, and the family's own deadline.
NextRefresh(w) ==
  [family |-> req[w].family, kind |-> "refresh", data |-> req[w].data,
   expires |-> grant[req[w].family].expires, used |-> FALSE]

\* Mutant of SaveRefresh: what consume found is trusted, the grant not read again.
SaveRefreshUnchecked(w, k) ==
  /\ pc[w] = "signed"
  /\ FreshSecret(k)
  /\ drawn' = drawn \cup {k}
  /\ known' = known \cup {k}
  /\ cred' = [cred EXCEPT ![k] =
                [family |-> req[w].family, kind |-> "refresh", data |-> req[w].data,
                 expires |-> req[w].at + GrantTTL, used |-> FALSE]]
  /\ bearer' = bearer \cup {[family |-> req[w].family, data |-> req[w].data,
                             exp |-> req[w].at + AccessTTL]}
  /\ Finish(w)
  /\ UNCHANGED <<now, account, grant>>

\* save_refresh under the grant lock; only then does the response leave.
SaveRefresh(w, k) ==
  /\ pc[w] = "signed"
  /\ FreshSecret(k)
  /\ LiveFor(req[w].family, req[w].data.client, now)
  /\ drawn' = drawn \cup {k}
  /\ known' = known \cup {k}
  /\ cred' = [cred EXCEPT ![k] = NextRefresh(w)]
  /\ bearer' = bearer \cup {[family |-> req[w].family, data |-> req[w].data,
                             exp |-> req[w].at + AccessTTL]}
  /\ Finish(w)
  /\ UNCHANGED <<now, account, grant>>

\* The request ends with no further write: a refusal (wrong client, PKCE,
\* scope, account or family state), a database error, or a crash.
Abandon(w) ==
  /\ pc[w] # "idle"
  /\ Finish(w)
  /\ UNCHANGED <<now, account, tables, bearer>>

\* revoke: any credential of the family, of the client that owns it.
Revoke(c, k) ==
  /\ k \in known
  /\ cred[k] # NoRow
  /\ Present(cred[k].family)
  /\ grant[cred[k].family].client = c
  /\ grant' = [grant EXCEPT ![cred[k].family].revoked = TRUE]
  /\ UNCHANGED <<now, account, cred, drawn, known, pc, req, bearer>>

-------------------------------------------------------------------------------
(* The environment: the account row and the clock.                         *)

\* consume_token(reset) elsewhere in the service.
ResetPassword(u) ==
  /\ account[u].tag < MaxResets
  /\ Row!Replace(u)
  /\ UNCHANGED <<now, tables, pc, req, bearer>>

\* consume_token(verify), or an operator, changes AccountStatus.
SetStatus(u, s) ==
  /\ Row!Switch(u, s)
  /\ UNCHANGED <<now, tables, pc, req, bearer>>

\* Time passes; resource servers refuse a token from its exp on.  Every call a
\* request makes times out, so no request sleeps for longer than RequestTTL.
Tick ==
  /\ now < MaxTime
  /\ \A w \in Workers : pc[w] = "idle" \/ now < req[w].at + RequestTTL
  /\ now' = now + 1
  /\ bearer' = {b \in bearer : b.exp > now'}
  /\ UNCHANGED <<account, tables, pc, req>>

-------------------------------------------------------------------------------
Issuance(w) ==
  \/ \E u \in Users, c \in Clients : Approve(w, u, c)
  \/ \E u \in Users, s \in NativeScopes : NativeLogin(w, u, s)
  \/ Housekeep(w)
  \/ \E f \in Families, k \in Credentials : CreateCode(w, f, k) \/ CreateRefreshFamily(w, f, k)
  \/ SignNative(w)

TokenEndpoint(w) ==
  \/ \E c \in Clients, k \in Credentials : Lookup(w, c, k)
  \/ ConsumeFirst(w)
  \/ ConsumeReplay(w)
  \/ Authenticate(w)
  \/ Sign(w)
  \/ \E k \in Credentials : SaveRefresh(w, k)

Environment ==
  \/ \E u \in Users : ResetPassword(u) \/ \E s \in Row!Statuses : SetStatus(u, s)
  \/ Tick

Next ==
  \/ \E w \in Workers : Issuance(w) \/ TokenEndpoint(w) \/ Abandon(w)
  \/ \E c \in Clients, k \in Credentials : Revoke(c, k)
  \/ Environment

Spec == Init /\ [][Next]_vars
-------------------------------------------------------------------------------
(* What must hold.                                                         *)

(* A family is a chain: never two usable credentials, never two requests   *)
(* exchanging, never a usable credential next to a request that is still   *)
(* exchanging its predecessor.  Two requests presenting one refresh token, *)
(* a replay between consume and save_refresh and a late save_refresh are   *)
(* what could fork the chain.                                              *)
LinearFamily ==
  \A f \in Families :
    /\ \A k1, k2 \in Credentials : Unused(k1, f) /\ Unused(k2, f) => k1 = k2
    /\ \A w1, w2 \in Workers : Exchanging(w1, f) /\ Exchanging(w2, f) => w1 = w2
    /\ \A k \in Credentials, w \in Workers : ~(Unused(k, f) /\ Exchanging(w, f))

(* There is no foreign key between the tables, yet no credential is left   *)
(* without its family: purge_expired deletes from both, and an exchange    *)
(* that had spent its token before stores no successor after.  The 30 days *)
(* a family is kept after its end are not needed for it (PurgeAge may be   *)
(* 0); what is needed is that save_refresh reads the grant again.          *)
NoOrphanCredential ==
  \A k \in Credentials : cred[k] # NoRow => Present(cred[k].family)

(* One family speaks for one account, one password, one scope and one      *)
(* client: rotation never widens a scope, moves a family to the password   *)
(* set after it was issued, or lets Mail exchange a Connector credential   *)
(* out of the shared tables.                                               *)
FamilyBinding ==
  /\ \A k1, k2 \in Credentials :
       cred[k1] # NoRow /\ cred[k2] # NoRow /\ cred[k1].family = cred[k2].family
         => cred[k1].data = cred[k2].data
  /\ \A k \in Credentials :
       cred[k] # NoRow /\ Present(cred[k].family)
         => cred[k].data.client = grant[cred[k].family].client
  /\ \A b \in bearer, k \in Credentials :
       cred[k] # NoRow /\ cred[k].family = b.family => b.data = cred[k].data
  /\ \A w \in Workers, f \in Families :
       Exchanging(w, f) /\ Present(f) => req[w].client = grant[f].client

Revoked(f) == Present(f) /\ grant[f].revoked

Spent(k) == cred[k] # NoRow /\ cred[k].used /\ Present(cred[k].family)

(* Revocation is final: a revoked family is only ever deleted, gains no    *)
(* credential and yields no access token, not even to an exchange that had *)
(* spent its credential before the revocation.                             *)
RevocationIsFinal ==
  [][\A f \in Families : Revoked(f) =>
       /\ grant'[f] \in {grant[f], NoRow}
       /\ \A k \in Credentials :
            cred'[k] # NoRow /\ cred'[k].family = f => cred[k] # NoRow
       /\ \A b \in bearer' \ bearer : b.family # f]_vars

(* Rotation never buys time: a family keeps the deadline it was issued     *)
(* with, which bounds every credential stored in it; an access token is    *)
(* good for AccessTTL from a moment before that deadline.                  *)
DeadlineFixed ==
  [][\A f \in Families : Present(f) =>
       /\ Present(f)' => grant'[f].expires = grant[f].expires
       /\ \A k \in Credentials :
            cred'[k] # NoRow /\ cred'[k].family = f => cred'[k].expires <= grant[f].expires
       /\ \A b \in bearer' \ bearer : b.family = f => b.exp < grant[f].expires + AccessTTL]_vars

\* Tag t of user u is history, and no request signed for it is still to answer.
Retired(u, t) ==
  /\ t < account[u].tag
  /\ \A w \in Workers :
       ~(pc[w] = "signed" /\ req[w].data.user = u /\ req[w].data.tag = t)

(* A password reset cuts off everything the old password authorised, as    *)
(* soon as the requests that were already signed have ended: no code,      *)
(* refresh token or native sign-in bound to it yields a token again.       *)
RetiredTagStaysDead ==
  [][\A u \in Users, t \in 0..MaxResets : Retired(u, t) =>
       /\ Retired(u, t)'
       /\ \A b \in bearer' \ bearer : ~(b.data.user = u /\ b.data.tag = t)]_vars

(* A spent credential stays on record, spent, for as long as its family    *)
(* could still be used, so that presenting it again is always recognised   *)
(* as a replay.                                                            *)
SpentRemembered ==
  [][\A k \in Credentials : Spent(k) /\ grant[cred[k].family].expires > now
       => cred'[k] # NoRow /\ cred'[k].used]_vars

(* No access token is published that has no durably stored family with a   *)
(* refresh token the client was given along with it.                       *)
PublishedWithFamily ==
  [][\A b \in bearer' \ bearer :
       /\ Present(b.family)'
       /\ \E k \in known' : Unused(k, b.family)']_vars

-------------------------------------------------------------------------------
(* The abstract life of a family.                                          *)

FamilyPhase(f) ==
  IF FreshFamily(f) THEN "unborn"
  ELSE IF ~Present(f) \/ Revoked(f) THEN "closed"
  ELSE IF \E k \in Credentials : Unused(k, f) THEN "open"
  ELSE IF \E w \in Workers : Exchanging(w, f) THEN "exchanging"
  ELSE "closed"

GF == INSTANCE GrantFamily WITH phase <- [f \in Families |-> FamilyPhase(f)]

(* Every family lives the life GrantFamily describes: in particular a      *)
(* family whose exchange was lost, refused or revoked never opens again.   *)
FamilyRefinement == GF!Spec
===============================================================================
