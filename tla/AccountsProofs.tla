---------------------------- MODULE AccountsProofs ----------------------------
(***************************************************************************)
(* Proofs about Accounts, for any number of addresses, links and request   *)
(* threads and for any lifetimes.                                          *)
(***************************************************************************)
EXTENDS Accounts, TLAPS

(* What a request remembers at each stage.                                 *)
RequestOK ==
  \A w \in Workers :
    /\ pc[w] # "idle" => req[w].email \in Emails
    /\ pc[w] \in {"link", "issuing", "deliver", "delivered"} => req[w].purpose \in Purposes
    /\ pc[w] \in {"deliver", "delivered"} => req[w].raw \in Tokens

TypeInv == TypeOK /\ RequestOK

LEMMA NoRequestType == NoRequest \in Request
BY DEF NoRequest, Request

LEMMA TTLType == \A p \in Purposes : TTL(p) \in Nat
BY BoundAssumption DEF TTL, Purposes

LEMMA InitType == Init => TypeInv
<1> SUFFICES ASSUME Init PROVE TypeInv
  OBVIOUS
<1>1. ExternalUser \in User
  BY DEF ExternalUser, User
<1>2. row \in [Emails -> User \cup {NoRow}]
  BY <1>1 DEF Init
<1> QED
  BY <1>2, NoRequestType DEF Init, TypeInv, TypeOK, RequestOK, Stages

\* A request moves to a stage whose requirements its new memory meets.
LEMMA GotoType ==
  ASSUME TypeInv, NEW w \in Workers, NEW s \in Stages, NEW r \in Request,
         Goto(w, s, r),
         s # "idle" => r.email \in Emails,
         s \in {"link", "issuing", "deliver", "delivered"} => r.purpose \in Purposes,
         s \in {"deliver", "delivered"} => r.raw \in Tokens
  PROVE  /\ pc' \in [Workers -> Stages]
         /\ req' \in [Workers -> Request]
         /\ RequestOK'
<1>1. /\ pc' \in [Workers -> Stages]
      /\ req' \in [Workers -> Request]
  BY DEF Goto, TypeInv, TypeOK
<1>2. \A v \in Workers : v # w => pc'[v] = pc[v] /\ req'[v] = req[v]
  BY DEF Goto, TypeInv, TypeOK
<1>3. pc'[w] = s /\ req'[w] = r
  BY DEF Goto, TypeInv, TypeOK
<1> QED
  BY <1>1, <1>2, <1>3 DEF RequestOK, TypeInv

LEMMA FinishType ==
  ASSUME TypeInv, NEW w \in Workers, Finish(w)
  PROVE  /\ pc' \in [Workers -> Stages]
         /\ req' \in [Workers -> Request]
         /\ RequestOK'
<1>1. "idle" \in Stages /\ Goto(w, "idle", NoRequest)
  BY DEF Stages, Finish
<1> QED
  BY <1>1, NoRequestType, GotoType

\* The row a sign-up leaves behind.
LEMMA NewUserType == ASSUME TypeInv, NEW e \in Emails PROVE NewUser(e) \in User
BY DEF NewUser, Registered, TypeInv, TypeOK, User

\* The row a request stores is that of the account it locked.
LEMMA NewTokenType ==
  ASSUME TypeInv, NEW w \in Workers, pc[w] = "issuing",
         Issuable(req[w].email, req[w].purpose)
  PROVE  /\ NewToken(req[w]) \in Token
         /\ NewToken(req[w]).user = req[w].email
         /\ NewToken(req[w]).tag = row[req[w].email].hash
         /\ NewToken(req[w]).sent = FALSE
<1>1. /\ req[w].email \in Emails /\ req[w].purpose \in Purposes /\ req[w].at \in Nat
      /\ row[req[w].email].hash \in Nat
  BY DEF TypeInv, TypeOK, RequestOK, Request, Issuable, Registered, User
<1>2. req[w].at + TTL(req[w].purpose) \in Nat
  BY <1>1, TTLType
<1> QED
  BY <1>1, <1>2 DEF NewToken, Token

\* A good link names a registered account, and redeeming it leaves a user row.
LEMMA GoodLinkType ==
  ASSUME TypeInv, NEW t \in Tokens, NEW p \in Purposes, GoodLink(t, p)
  PROVE  /\ tok[t] \in Token
         /\ tok[t].user \in Emails
         /\ row[tok[t].user] \in User
BY DEF GoodLink, Registered, TypeInv, TypeOK, Token

LEMMA RedeemType ==
  ASSUME TypeInv, NEW t \in Tokens, NEW u \in User, tok[t] \in Token, Redeem(t, u)
  PROVE  TypeInv'
<1>1. row' \in [Emails -> User \cup {NoRow}]
  BY DEF Redeem, TypeInv, TypeOK, Token
<1>2. tok' \in [Tokens -> Token \cup {NoRow}]
  BY DEF Redeem, TypeInv, TypeOK
<1> QED
  BY <1>1, <1>2 DEF Redeem, TypeInv, TypeOK, RequestOK

LEMMA TypeStep == TypeInv /\ [Next]_vars => TypeInv'
<1> SUFFICES ASSUME TypeInv, [Next]_vars PROVE TypeInv'
  OBVIOUS
<1>1. ASSUME NEW w \in Workers, NEW e \in Emails, Signup(w, e)
      PROVE  TypeInv'
  <2>1. row' \in [Emails -> User \cup {NoRow}]
    BY <1>1, NewUserType DEF Signup, TypeInv, TypeOK
  <2>2. /\ [NoRequest EXCEPT !.email = e] \in Request
        /\ [NoRequest EXCEPT !.email = e, !.purpose = "verify"] \in Request
        /\ "exists" \in Stages /\ "link" \in Stages /\ "verify" \in Purposes
    BY DEF NoRequest, Request, Stages, Purposes
  <2>3. /\ [NoRequest EXCEPT !.email = e].email = e
        /\ [NoRequest EXCEPT !.email = e, !.purpose = "verify"].email = e
        /\ [NoRequest EXCEPT !.email = e, !.purpose = "verify"].purpose = "verify"
    BY DEF NoRequest
  <2>4. pc' \in [Workers -> Stages] /\ req' \in [Workers -> Request] /\ RequestOK'
    <3>1. CASE Registered(e)
      <4>1. Goto(w, "exists", [NoRequest EXCEPT !.email = e])
        BY <1>1, <3>1 DEF Signup
      <4> QED BY <4>1, <2>2, <2>3, GotoType
    <3>2. CASE ~Registered(e)
      <4>1. Goto(w, "link", [NoRequest EXCEPT !.email = e, !.purpose = "verify"])
        BY <1>1, <3>2 DEF Signup
      <4> QED BY <4>1, <2>2, <2>3, GotoType
    <3> QED BY <3>1, <3>2
  <2> QED BY <1>1, <2>1, <2>4 DEF Signup, TypeInv, TypeOK
<1>2. ASSUME NEW w \in Workers, FindAccount(w)
      PROVE  TypeInv'
  <2> DEFINE r == [req[w] EXCEPT !.purpose = "reset"]
  <2>1. r \in Request /\ r.email \in Emails /\ r.purpose \in Purposes
    BY <1>2 DEF FindAccount, TypeInv, TypeOK, RequestOK, Request, Purposes
  <2>2. Goto(w, "link", r) /\ "link" \in Stages
    BY <1>2 DEF FindAccount, Stages
  <2>3. pc' \in [Workers -> Stages] /\ req' \in [Workers -> Request] /\ RequestOK'
    BY <2>1, <2>2, GotoType
  <2> QED BY <1>2, <2>3 DEF FindAccount, TypeInv, TypeOK
<1>3. ASSUME NEW w \in Workers, NEW e \in Emails, NEW p \in Purposes, RequestLink(w, e, p)
      PROVE  TypeInv'
  <2> DEFINE r == [NoRequest EXCEPT !.email = e, !.purpose = p]
  <2>1. r \in Request /\ r.email \in Emails /\ r.purpose \in Purposes
    BY DEF NoRequest, Request
  <2>2. Goto(w, "link", r) /\ "link" \in Stages
    BY <1>3 DEF RequestLink, Stages
  <2>3. pc' \in [Workers -> Stages] /\ req' \in [Workers -> Request] /\ RequestOK'
    BY <2>1, <2>2, GotoType
  <2> QED BY <1>3, <2>3 DEF RequestLink, TypeInv, TypeOK
<1>4. ASSUME NEW w \in Workers, BeginIssue(w)
      PROVE  TypeInv'
  <2> DEFINE r == [req[w] EXCEPT !.at = now]
  <2>1. r \in Request /\ r.email \in Emails /\ r.purpose \in Purposes
    BY <1>4 DEF BeginIssue, TypeInv, TypeOK, RequestOK, Request
  <2>2. Goto(w, "issuing", r) /\ "issuing" \in Stages
    BY <1>4 DEF BeginIssue, Stages
  <2>3. pc' \in [Workers -> Stages] /\ req' \in [Workers -> Request] /\ RequestOK'
    BY <2>1, <2>2, GotoType
  <2> QED BY <1>4, <2>3 DEF BeginIssue, TypeInv, TypeOK
<1>5. ASSUME NEW w \in Workers, NEW t \in Tokens, IssueToken(w, t)
      PROVE  TypeInv'
  <2> DEFINE r == [req[w] EXCEPT !.raw = t]
  <2>1. r \in Request /\ r.email \in Emails /\ r.purpose \in Purposes /\ r.raw \in Tokens
    BY <1>5 DEF IssueToken, TypeInv, TypeOK, RequestOK, Request
  <2>2. Goto(w, "deliver", r) /\ "deliver" \in Stages
    BY <1>5 DEF IssueToken, Stages
  <2>3. pc' \in [Workers -> Stages] /\ req' \in [Workers -> Request] /\ RequestOK'
    BY <2>1, <2>2, GotoType
  <2>4. NewToken(req[w]) \in Token
    BY <1>5, NewTokenType DEF IssueToken
  <2>5. tok' \in [Tokens -> Token \cup {NoRow}]
    BY <1>5, <2>4 DEF IssueToken, TypeInv, TypeOK
  <2> QED BY <1>5, <2>3, <2>5 DEF IssueToken, TypeInv, TypeOK
<1>6. ASSUME NEW w \in Workers, Deliver(w)
      PROVE  TypeInv'
  <2>1. /\ req[w] \in Request /\ req[w].email \in Emails
        /\ req[w].purpose \in Purposes /\ req[w].raw \in Tokens
    BY <1>6 DEF Deliver, TypeInv, TypeOK, RequestOK
  <2>2. Goto(w, "delivered", req[w]) /\ "delivered" \in Stages
    BY <1>6 DEF Deliver, Stages
  <2>3. pc' \in [Workers -> Stages] /\ req' \in [Workers -> Request] /\ RequestOK'
    BY <2>1, <2>2, GotoType
  <2> QED BY <1>6, <2>1, <2>3 DEF Deliver, Delivery, TypeInv, TypeOK
<1>7. ASSUME NEW w \in Workers, MarkSent(w)
      PROVE  TypeInv'
  <2>1. pc' \in [Workers -> Stages] /\ req' \in [Workers -> Request] /\ RequestOK'
    BY <1>7, FinishType DEF MarkSent
  <2>2. tok' \in [Tokens -> Token \cup {NoRow}]
    BY <1>7 DEF MarkSent, TypeInv, TypeOK, Token
  <2> QED BY <1>7, <2>1, <2>2 DEF MarkSent, TypeInv, TypeOK
<1>8. ASSUME NEW w \in Workers, Abandon(w)
      PROVE  TypeInv'
  BY <1>8, FinishType DEF Abandon, TypeInv, TypeOK
<1>9. ASSUME NEW t \in Tokens, VerifyEmail(t)
      PROVE  TypeInv'
  <2>1. GoodLink(t, "verify") /\ "verify" \in Purposes
    BY <1>9 DEF VerifyEmail, Purposes
  <2>2. tok[t] \in Token /\ row[tok[t].user] \in User
    BY <2>1, GoodLinkType
  <2>3. [row[tok[t].user] EXCEPT !.verified = TRUE, !.status = "active"] \in User
    BY <2>2 DEF User
  <2> QED BY <1>9, <2>2, <2>3, RedeemType DEF VerifyEmail
<1>10. ASSUME NEW t \in Tokens, ResetPassword(t)
       PROVE  TypeInv'
  <2>1. GoodLink(t, "reset") /\ "reset" \in Purposes
    BY <1>10 DEF ResetPassword, Purposes
  <2>2. tok[t] \in Token /\ row[tok[t].user] \in User
    BY <2>1, GoodLinkType
  <2>3. [status |-> "active", verified |-> TRUE, native |-> TRUE,
         hash |-> row[tok[t].user].hash + 1] \in User
    BY <2>2 DEF User
  <2> QED BY <1>10, <2>2, <2>3, RedeemType DEF ResetPassword
<1>11. ASSUME NEW e \in Emails, NEW s \in {"pending", "active", "disabled"}, SetStatus(e, s)
       PROVE  TypeInv'
  <2>1. [row[e] EXCEPT !.status = s] \in User
    BY <1>11 DEF SetStatus, Registered, TypeInv, TypeOK, User
  <2> QED BY <1>11, <2>1 DEF SetStatus, TypeInv, TypeOK, RequestOK
<1>12. CASE Tick
  BY <1>12 DEF Tick, TypeInv, TypeOK, RequestOK
<1>13. CASE UNCHANGED vars
  BY <1>13 DEF vars, TypeInv, TypeOK, RequestOK
<1> QED
  BY <1>1, <1>2, <1>3, <1>4, <1>5, <1>6, <1>7, <1>8, <1>9, <1>10, <1>11, <1>12, <1>13
  DEF Next, Mailing

(* Every reachable state is well typed.                                    *)
THEOREM TypeCorrect == Spec => []TypeOK
<1>1. TypeInv => TypeOK
  BY DEF TypeInv
<1> QED
  BY <1>1, InitType, TypeStep, PTL DEF Spec

-------------------------------------------------------------------------------
(* Links and the password they were issued for.                            *)

LEMMA InitLinks == Init => LinksMatchPassword
BY DEF Init, LinksMatchPassword, LinksOf

LEMMA LinksStep == TypeInv /\ LinksMatchPassword /\ [Next]_vars => LinksMatchPassword'
<1> SUFFICES ASSUME TypeInv, LinksMatchPassword, [Next]_vars,
                    NEW x \in Tokens, tok'[x] # NoRow
             PROVE  LET e == tok'[x].user IN
                    row'[e] # NoRow /\ tok'[x].tag = row'[e].hash
  BY DEF LinksMatchPassword, LinksOf, Registered
<1> DEFINE e == tok'[x].user
\* Every link stored before the step matches its account.
<1>1. ASSUME NEW y \in Tokens, tok[y] # NoRow
      PROVE  /\ tok[y].user \in Emails /\ tok[y] \in Token
             /\ row[tok[y].user] # NoRow /\ row[tok[y].user] \in User
             /\ tok[y].tag = row[tok[y].user].hash
  <2>1. tok[y] \in Token /\ tok[y].user \in Emails
    BY <1>1 DEF TypeInv, TypeOK, Token
  <2>2. row[tok[y].user] # NoRow /\ tok[y].tag = row[tok[y].user].hash
    BY <1>1, <2>1 DEF LinksMatchPassword, LinksOf, Registered
  <2> QED BY <2>1, <2>2 DEF TypeInv, TypeOK
<1>2. ASSUME NEW w \in Workers, NEW d \in Emails, Signup(w, d)
      PROVE  row'[e] # NoRow /\ tok'[x].tag = row'[e].hash
  <2>1. tok' = tok /\ row'[e] = row[e]
    BY <1>1, <1>2 DEF Signup, NewUser, Registered, TypeInv, TypeOK
  <2> QED BY <1>1, <2>1
<1>3. ASSUME NEW w \in Workers, NEW t \in Tokens, IssueToken(w, t)
      PROVE  row'[e] # NoRow /\ tok'[x].tag = row'[e].hash
  <2>1. row' = row
    BY <1>3 DEF IssueToken
  <2>2. tok'[x] = IF x = t THEN NewToken(req[w]) ELSE tok[x]
    BY <1>3 DEF IssueToken
  <2>3. CASE x = t
    <3>1. tok'[x].user = req[w].email /\ tok'[x].tag = row[req[w].email].hash
      BY <1>3, <2>2, <2>3, NewTokenType DEF IssueToken
    <3> QED BY <1>3, <2>1, <3>1 DEF IssueToken, Issuable, Registered
  <2>4. CASE x # t
    BY <1>1, <2>1, <2>2, <2>4
  <2> QED BY <2>3, <2>4
<1>4. ASSUME NEW w \in Workers, MarkSent(w)
      PROVE  row'[e] # NoRow /\ tok'[x].tag = row'[e].hash
  <2>1. row' = row /\ tok[x] # NoRow /\ tok'[x].user = tok[x].user /\ tok'[x].tag = tok[x].tag
    BY <1>1, <1>4 DEF MarkSent, TypeInv, TypeOK, Token
  <2> QED BY <1>1, <2>1
\* Redemption: the account's own links are all gone, the others' rows untouched.
<1>5. ASSUME NEW t \in Tokens, NEW u, Redeem(t, u), tok[t] # NoRow
      PROVE  row'[e] # NoRow /\ tok'[x].tag = row'[e].hash
  <2>1. tok'[x] = tok[x] /\ ~Burnt(t, x)
    BY <1>5 DEF Redeem
  <2>2. e # tok[t].user
    BY <2>1 DEF Burnt
  <2>3. row'[e] = row[e]
    BY <1>1, <1>5, <2>1, <2>2 DEF Redeem, TypeInv, TypeOK
  <2> QED BY <1>1, <2>1, <2>3
<1>6. ASSUME NEW t \in Tokens, VerifyEmail(t) \/ ResetPassword(t)
      PROVE  row'[e] # NoRow /\ tok'[x].tag = row'[e].hash
  <2>1. tok[t] # NoRow
    BY <1>6 DEF VerifyEmail, ResetPassword, GoodLink
  <2> QED BY <1>5, <1>6, <2>1 DEF VerifyEmail, ResetPassword
<1>7. ASSUME NEW d \in Emails, NEW s \in {"pending", "active", "disabled"}, SetStatus(d, s)
      PROVE  row'[e] # NoRow /\ tok'[x].tag = row'[e].hash
  <2>1. tok' = tok /\ row'[e] = IF e = d THEN [row[d] EXCEPT !.status = s] ELSE row[e]
    BY <1>1, <1>7 DEF SetStatus, TypeInv, TypeOK
  <2>2. row[e] \in User /\ row[e] # NoRow /\ tok[x].tag = row[e].hash
    BY <1>1, <2>1
  <2>3. [row[e] EXCEPT !.status = s] \in User /\ [row[e] EXCEPT !.status = s].hash = row[e].hash
    BY <2>2 DEF User
  <2> QED BY <2>1, <2>2, <2>3, NullAssumption
<1>8. ASSUME UNCHANGED <<row, tok>>
      PROVE  row'[e] # NoRow /\ tok'[x].tag = row'[e].hash
  BY <1>1, <1>8
<1>9. ASSUME NEW w \in Workers,
             \/ FindAccount(w) \/ BeginIssue(w) \/ Deliver(w) \/ Abandon(w)
             \/ \E d \in Emails, p \in Purposes : RequestLink(w, d, p)
      PROVE  UNCHANGED <<row, tok>>
  BY <1>9 DEF FindAccount, BeginIssue, Deliver, Abandon, RequestLink
<1>10. Tick \/ UNCHANGED vars => UNCHANGED <<row, tok>>
  BY DEF Tick, vars
<1> QED
  BY <1>2, <1>3, <1>4, <1>6, <1>7, <1>8, <1>9, <1>10 DEF Next, Mailing

(* Every stored link carries the credential its account has now.           *)
THEOREM LinksFollowPassword == Spec => []LinksMatchPassword
<1>1. Init => TypeInv /\ LinksMatchPassword
  BY InitType, InitLinks
<1>2. TypeInv /\ LinksMatchPassword /\ [Next]_vars => (TypeInv /\ LinksMatchPassword)'
  BY TypeStep, LinksStep
<1> QED
  BY <1>1, <1>2, PTL DEF Spec

-------------------------------------------------------------------------------
(* The promise of CredentialRow.                                           *)

LEMMA InitRow == Init => CR!Init
<1> SUFFICES ASSUME Init, NEW e \in Emails
             PROVE  Seen(e) \in [status : CR!Statuses, tag : {0}]
  BY DEF CR!Init, SeenRows
<1>1. row[e] = NoRow \/ (row[e] = ExternalUser /\ row[e].hash = 0)
  BY DEF Init, ExternalUser
<1> QED
  BY <1>1 DEF Seen, Registered, CR!Statuses

\* What the others see of one account follows from its row alone.
LEMMA SeenType ==
  ASSUME TypeInv, NEW e \in Emails
  PROVE  /\ Seen(e) \in [status : CR!Statuses, tag : Nat]
         /\ Seen(e).tag = IF Registered(e) THEN row[e].hash ELSE 0
BY DEF TypeInv, TypeOK, Seen, Registered, User, CR!Statuses

LEMMA SeenTypeNext ==
  ASSUME TypeInv', NEW e \in Emails
  PROVE  /\ Seen(e)' \in [status : CR!Statuses, tag : Nat]
         /\ Seen(e)'.tag = IF row'[e] # NoRow THEN row'[e].hash ELSE 0
BY DEF TypeInv, TypeOK, Seen, Registered, User, CR!Statuses

\* A change of one row that keeps its credential is a Switch or invisible.
LEMMA KeepsHash ==
  ASSUME TypeInv, TypeInv', NEW x \in Emails,
         \A d \in Emails : d # x => row'[d] = row[d],
         Seen(x)'.tag = Seen(x).tag
  PROVE  [CR!Next]_SeenRows
<1> DEFINE s == Seen(x)'.status
<1>1. \A d \in Emails : d # x => Seen(d)' = Seen(d)
  BY DEF Seen, Registered
<1>2. Seen(x) \in [status : CR!Statuses, tag : Nat] /\ Seen(x)' \in [status : CR!Statuses, tag : Nat]
  BY SeenType, SeenTypeNext
<1>3. CASE s = Seen(x).status
  <2>1. Seen(x)' = Seen(x)
    BY <1>2, <1>3
  <2> QED BY <1>1, <2>1 DEF SeenRows
<1>4. CASE s # Seen(x).status
  <2>1. s \in CR!Statuses /\ Seen(x)' = [Seen(x) EXCEPT !.status = s]
    BY <1>2
  <2>2. SeenRows' = [SeenRows EXCEPT ![x].status = s]
    <3> HIDE DEF s
    <3> QED BY <1>1, <2>1 DEF SeenRows
  <2>3. CR!Switch(x, s)
    BY <1>4, <2>2 DEF CR!Switch, SeenRows
  <2> QED BY <2>1, <2>3 DEF CR!Next
<1> QED BY <1>3, <1>4

LEMMA RowStep ==
  ASSUME TypeInv, TypeInv', [Next]_vars
  PROVE  [CR!Next]_SeenRows
<1>1. ASSUME UNCHANGED row
      PROVE  UNCHANGED SeenRows
  BY <1>1 DEF SeenRows, Seen, Registered
<1>2. ASSUME NEW w \in Workers, NEW e \in Emails, Signup(w, e)
      PROVE  [CR!Next]_SeenRows
  <2>1. row' = [row EXCEPT ![e] = NewUser(e)] /\ row'[e] = NewUser(e)
    BY <1>2 DEF Signup, TypeInv, TypeOK
  <2>2. \A d \in Emails : d # e => row'[d] = row[d]
    BY <2>1 DEF TypeInv, TypeOK
  <2>3. Seen(e)'.tag = Seen(e).tag
    <3>1. NewUser(e) # NoRow
      BY NewUserType, NullAssumption
    <3>2. NewUser(e).hash = IF Registered(e) THEN row[e].hash ELSE 0
      BY DEF NewUser
    <3> QED BY <2>1, <3>1, <3>2, SeenType, SeenTypeNext
  <2> QED BY <2>2, <2>3, KeepsHash
<1>3. ASSUME NEW t \in Tokens, NEW e \in Emails, e = tok[t].user, VerifyEmail(t)
      PROVE  [CR!Next]_SeenRows
  <2> DEFINE u == [row[e] EXCEPT !.verified = TRUE, !.status = "active"]
  <2>1. row[e] \in User
    BY <1>3, GoodLinkType DEF VerifyEmail, Purposes
  <2>2. u \in User /\ u.hash = row[e].hash
    BY <2>1 DEF User
  <2>3. row' = [row EXCEPT ![e] = u]
    BY <1>3 DEF VerifyEmail, Redeem
  <2>4. row'[e] = u /\ \A d \in Emails : d # e => row'[d] = row[d]
    <3> HIDE DEF u
    <3> QED BY <2>1, <2>3 DEF TypeInv, TypeOK
  <2>5. Seen(e)'.tag = Seen(e).tag
    <3>1. row'[e] # NoRow /\ row[e] # NoRow
      BY <2>1, <2>2, <2>4, NullAssumption
    <3>2. Seen(e).tag = row[e].hash
      BY <2>1, <3>1, SeenType DEF Registered
    <3>3. Seen(e)'.tag = row'[e].hash
      BY <2>1, <3>1, SeenTypeNext
    <3> QED BY <2>2, <2>4, <3>2, <3>3
  <2> HIDE DEF u
  <2> QED BY <2>1, <2>4, <2>5, KeepsHash
<1>4. ASSUME NEW t \in Tokens, NEW e \in Emails, e = tok[t].user, ResetPassword(t)
      PROVE  [CR!Next]_SeenRows
  <2> DEFINE u == [status |-> "active", verified |-> TRUE, native |-> TRUE,
                   hash |-> row[e].hash + 1]
  <2>1. row[e] \in User /\ row[e] # NoRow
    BY <1>4, GoodLinkType, NullAssumption DEF ResetPassword, Purposes
  <2>2. u \in User /\ u # NoRow
    <3>1. u \in User
      BY <2>1 DEF User
    <3> QED BY <3>1, NullAssumption
  <2>3. row' = [row EXCEPT ![e] = u]
    BY <1>4 DEF ResetPassword, Redeem
  <2>4. row'[e] = u /\ \A d \in Emails : d # e => row'[d] = row[d]
    <3> HIDE DEF u
    <3> QED BY <2>1, <2>3 DEF TypeInv, TypeOK
  <2>5. \A d \in Emails : d # e => Seen(d)' = Seen(d)
    <3> HIDE DEF u
    <3> QED BY <2>4 DEF Seen, Registered
  <2>6. Seen(e)' = [status |-> "active", tag |-> Seen(e).tag + 1]
    <3>1. Seen(e).tag = row[e].hash
      BY <2>1, SeenType DEF Registered
    <3> QED BY <2>2, <2>4, <3>1 DEF Seen, Registered
  <2>7. SeenRows' = [SeenRows EXCEPT ![e] = [status |-> "active", tag |-> SeenRows[e].tag + 1]]
    <3> HIDE DEF u
    <3> QED BY <2>1, <2>5, <2>6 DEF SeenRows
  <2> QED BY <2>1, <2>7 DEF CR!Replace, CR!Next
<1>5. ASSUME NEW t \in Tokens, VerifyEmail(t) \/ ResetPassword(t)
      PROVE  tok[t].user \in Emails
  BY <1>5, GoodLinkType DEF VerifyEmail, ResetPassword, Purposes
<1>6. ASSUME NEW e \in Emails, NEW s \in {"pending", "active", "disabled"}, SetStatus(e, s)
      PROVE  [CR!Next]_SeenRows
  <2> DEFINE u == [row[e] EXCEPT !.status = s]
  <2>1. row[e] \in User /\ row[e] # NoRow
    BY <1>6 DEF SetStatus, Registered, TypeInv, TypeOK
  <2>2. u \in User /\ u.hash = row[e].hash
    BY <2>1 DEF User
  <2>3. row'[e] = u /\ \A d \in Emails : d # e => row'[d] = row[d]
    BY <1>6 DEF SetStatus, TypeInv, TypeOK
  <2>4. Seen(e)'.tag = Seen(e).tag
    <3>1. row'[e] # NoRow
      BY <2>2, <2>3, NullAssumption
    <3>2. Seen(e).tag = row[e].hash
      BY <2>1, SeenType DEF Registered
    <3>3. Seen(e)'.tag = row'[e].hash
      BY <3>1, SeenTypeNext
    <3> QED BY <2>2, <2>3, <3>2, <3>3
  <2> QED BY <2>3, <2>4, KeepsHash
<1>7. ASSUME NEW w \in Workers,
             \/ FindAccount(w) \/ BeginIssue(w) \/ Deliver(w) \/ MarkSent(w) \/ Abandon(w)
             \/ \E d \in Emails, p \in Purposes : RequestLink(w, d, p)
             \/ \E t \in Tokens : IssueToken(w, t)
      PROVE  UNCHANGED row
  BY <1>7 DEF FindAccount, BeginIssue, IssueToken, Deliver, MarkSent, Abandon, RequestLink
<1>8. Tick \/ UNCHANGED vars => UNCHANGED row
  BY DEF Tick, vars
<1> QED
  BY <1>1, <1>2, <1>3, <1>4, <1>5, <1>6, <1>7, <1>8 DEF Next, Mailing

(* Accounts implements CredentialRow, for any number of accounts: nothing  *)
(* but the redemption of a reset link changes a credential, and it never   *)
(* brings an old one back.                                                 *)
THEOREM AccountsKeepThePromise == Spec => RowRefinement
<1>1. TypeInv /\ TypeInv' /\ [Next]_vars => [CR!Next]_SeenRows
  BY RowStep
<1> QED
  BY <1>1, InitRow, InitType, TypeStep, PTL DEF Spec, RowRefinement, CR!Spec

-------------------------------------------------------------------------------
(* What happens to links, and what a link can do.  Every step has one of   *)
(* four shapes (StepShape); the properties are read off the shapes.        *)

\* No link is touched, and registered rows at most change their status.
RowsOnly ==
  /\ tok' = tok
  /\ \A e \in Emails : Registered(e) => row'[e] = [row[e] EXCEPT !.status = row'[e].status]

\* A request stores link t under the account's lock and cleans up.
Stored(w, t) ==
  /\ row' = row /\ inbox' = inbox
  /\ t \notin drawn /\ t \in drawn'
  /\ pc[w] = "issuing" /\ row[req[w].email].status # "disabled"
  /\ tok'[t].user = req[w].email /\ ~tok'[t].sent
  /\ \A x \in Tokens \ {t} : tok'[x] = tok[x] \/ (tok'[x] = NoRow /\ tok[x].expires < req[w].at)

\* A request marks the link it mailed, if it is still there.
Marked(w, t) ==
  /\ row' = row /\ inbox' = inbox /\ drawn' = drawn
  /\ pc[w] = "delivered" /\ t = req[w].raw
  /\ \A x \in Tokens \ {t} : tok'[x] = tok[x]
  /\ tok[t] = NoRow => tok'[t] = NoRow
  /\ tok[t] # NoRow => tok'[t] # NoRow /\ tok'[t].user = tok[t].user

\* Link t of account e, mailed and in time, is exchanged for a change of e.
Redeemed(t, e) ==
  /\ tok[t] # NoRow /\ tok[t].user = e /\ t \in inbox /\ tok[t].expires > now
  /\ inbox' = inbox /\ drawn' = drawn
  /\ row[e].status # "disabled" /\ row'[e] # row[e]
  /\ row'[e].hash # row[e].hash => tok[t].purpose = "reset"
  /\ \A d \in Emails \ {e} : row'[d] = row[d]
  /\ \A x \in Tokens : tok'[x] = IF tok[x] # NoRow /\ tok[x].user = e THEN NoRow ELSE tok[x]

Shaped ==
  \/ RowsOnly
  \/ \E w \in Workers, t \in Tokens : Stored(w, t) \/ Marked(w, t)
  \/ \E t \in Tokens, e \in Emails : Redeemed(t, e)

(* What requests and links know of the mailboxes and the clock.            *)
LinkInv ==
  /\ \A w \in Workers : pc[w] = "issuing" => req[w].at <= now
  /\ \A w \in Workers : pc[w] = "delivered" => req[w].raw \in inbox
  /\ \A t \in Tokens : tok[t] # NoRow => t \in drawn
  /\ SentWasDelivered

\* A registered row, before and after a step that leaves it alone.
LEMMA SameRow ==
  ASSUME TypeInv, NEW e \in Emails, Registered(e)
  PROVE  /\ row[e] \in User
         /\ row[e] = [row[e] EXCEPT !.status = row[e].status]
<1>1. row[e] \in User
  BY DEF TypeInv, TypeOK, Registered
<1> QED BY <1>1 DEF User

LEMMA QuietShape == ASSUME TypeInv, UNCHANGED <<row, tok>> PROVE RowsOnly
BY SameRow DEF RowsOnly

LEMMA RedeemShape ==
  ASSUME TypeInv, NEW t \in Tokens, NEW p \in Purposes, GoodLink(t, p), t \in inbox,
         NEW e \in Emails, e = tok[t].user, NEW u \in User, Redeem(t, u), u # row[e],
         u.hash # row[e].hash => p = "reset"
  PROVE  Redeemed(t, e)
<1>1. row'[e] = u /\ \A d \in Emails \ {e} : row'[d] = row[d]
  BY DEF Redeem, TypeInv, TypeOK
<1>2. \A x \in Tokens : tok'[x] = IF tok[x] # NoRow /\ tok[x].user = e THEN NoRow ELSE tok[x]
  BY DEF Redeem, Burnt
<1> QED BY <1>1, <1>2 DEF Redeemed, GoodLink, Redeem

LEMMA StepShape ==
  ASSUME TypeInv, LinkInv, [Next]_vars
  PROVE  Shaped
<1>1. ASSUME NEW w \in Workers, NEW e \in Emails, Signup(w, e)
      PROVE  RowsOnly
  <2>1. \A d \in Emails : Registered(d) => row'[d] = row[d]
    BY <1>1 DEF Signup, NewUser, TypeInv, TypeOK
  <2> QED BY <1>1, <2>1, SameRow DEF RowsOnly, Signup
<1>2. ASSUME NEW w \in Workers, NEW t \in Tokens, IssueToken(w, t)
      PROVE  Stored(w, t)
  <2>1. PICK S \in Cleanups(req[w].at) :
          tok' = [x \in Tokens |-> IF x = t THEN NewToken(req[w])
                                   ELSE IF x \in S THEN NoRow ELSE tok[x]]
    BY <1>2 DEF IssueToken, Dropped
  <2>2. \A x \in S : tok[x].expires < req[w].at
    BY DEF Cleanups
  <2>3. tok'[t] = NewToken(req[w]) /\ NewToken(req[w]).user = req[w].email /\ ~NewToken(req[w]).sent
    BY <2>1 DEF NewToken
  <2>4. \A x \in Tokens \ {t} : tok'[x] = tok[x] \/ (tok'[x] = NoRow /\ tok[x].expires < req[w].at)
    BY <2>1, <2>2
  <2> QED BY <1>2, <2>3, <2>4 DEF IssueToken, Stored, Issuable
<1>3. ASSUME NEW w \in Workers, MarkSent(w)
      PROVE  Marked(w, req[w].raw) /\ req[w].raw \in Tokens
  <2> DEFINE t == req[w].raw
  <2>1. pc[w] = "delivered" /\ t \in Tokens
    BY <1>3 DEF MarkSent, TypeInv, RequestOK
  <2>2. \A x \in Tokens : tok'[x] = IF x = t /\ tok[t] # NoRow
                                    THEN [tok[t] EXCEPT !.sent = TRUE] ELSE tok[x]
    BY <1>3 DEF MarkSent
  <2>3. ASSUME tok[t] # NoRow
        PROVE  tok'[t] # NoRow /\ tok'[t].user = tok[t].user
    <3>1. tok[t] \in Token
      BY <2>1, <2>3 DEF TypeInv, TypeOK
    <3>2. [tok[t] EXCEPT !.sent = TRUE] \in Token /\ [tok[t] EXCEPT !.sent = TRUE].user = tok[t].user
      BY <3>1 DEF Token
    <3> QED BY <2>1, <2>2, <2>3, <3>2, NullAssumption
  <2>4. row' = row /\ inbox' = inbox /\ drawn' = drawn
    BY <1>3 DEF MarkSent
  <2>5. /\ \A x \in Tokens \ {t} : tok'[x] = tok[x]
        /\ tok[t] = NoRow => tok'[t] = NoRow
    BY <2>1, <2>2
  <2> QED BY <2>1, <2>3, <2>4, <2>5 DEF Marked
<1>4. ASSUME NEW t \in Tokens, VerifyEmail(t)
      PROVE  \E e \in Emails : Redeemed(t, e)
  <2>1. PICK e \in Emails : e = tok[t].user /\ row[e] \in User
    BY <1>4, GoodLinkType DEF VerifyEmail, Purposes
  <2> DEFINE u == [row[e] EXCEPT !.verified = TRUE, !.status = "active"]
  <2>2. u \in User /\ u.hash = row[e].hash /\ u.status = "active"
    BY <2>1 DEF User
  <2>3. row[e].status = "pending" /\ Redeem(t, u) /\ GoodLink(t, "verify") /\ t \in inbox
    BY <1>4, <2>1 DEF VerifyEmail
  <2> HIDE DEF u
  <2> QED BY <2>1, <2>2, <2>3, RedeemShape DEF Purposes
<1>5. ASSUME NEW t \in Tokens, ResetPassword(t)
      PROVE  \E e \in Emails : Redeemed(t, e)
  <2>1. PICK e \in Emails : e = tok[t].user /\ row[e] \in User
    BY <1>5, GoodLinkType DEF ResetPassword, Purposes
  <2> DEFINE u == [status |-> "active", verified |-> TRUE, native |-> TRUE,
                   hash |-> row[e].hash + 1]
  <2>2. u \in User /\ u.hash # row[e].hash
    BY <2>1 DEF User
  <2>3. Redeem(t, u) /\ GoodLink(t, "reset") /\ t \in inbox
    BY <1>5, <2>1 DEF ResetPassword
  <2> HIDE DEF u
  <2> QED BY <2>1, <2>2, <2>3, RedeemShape DEF Purposes
<1>6. ASSUME NEW e \in Emails, NEW s \in {"pending", "active", "disabled"}, SetStatus(e, s)
      PROVE  RowsOnly
  <2>1. tok' = tok /\ row'[e] = [row[e] EXCEPT !.status = s]
        /\ \A d \in Emails \ {e} : row'[d] = row[d]
    BY <1>6 DEF SetStatus, TypeInv, TypeOK
  <2>2. Registered(e) => row'[e].status = s
    BY <2>1, SameRow DEF User
  <2> QED BY <2>1, <2>2, SameRow DEF RowsOnly
<1>7. ASSUME NEW w \in Workers,
             \/ FindAccount(w) \/ BeginIssue(w) \/ Deliver(w) \/ Abandon(w)
             \/ \E d \in Emails, p \in Purposes : RequestLink(w, d, p)
      PROVE  RowsOnly
  BY <1>7, QuietShape DEF FindAccount, BeginIssue, Deliver, Abandon, RequestLink
<1>8. Tick \/ UNCHANGED vars => RowsOnly
  BY QuietShape DEF Tick, vars
<1> QED
  BY <1>1, <1>2, <1>3, <1>4, <1>5, <1>6, <1>7, <1>8 DEF Next, Mailing, Shaped

LEMMA Growing ==
  ASSUME TypeInv, [Next]_vars
  PROVE  inbox \subseteq inbox' /\ drawn \subseteq drawn' /\ now <= now'
<1>1. now \in Nat
  BY DEF TypeInv, TypeOK
<1>2. CASE Tick
  BY <1>1, <1>2 DEF Tick
<1>3. CASE ~Tick
  <2>1. now' = now
    BY <1>3 DEF Next, Mailing, Signup, FindAccount, RequestLink, BeginIssue, IssueToken, Deliver,
                MarkSent, Abandon, VerifyEmail, ResetPassword, Redeem, SetStatus, vars
  <2>2. inbox \subseteq inbox' /\ drawn \subseteq drawn'
    BY <1>3 DEF Next, Mailing, Signup, FindAccount, RequestLink, BeginIssue, IssueToken, Deliver,
                Delivery, MarkSent, Abandon, VerifyEmail, ResetPassword, Redeem, SetStatus, vars
  <2> QED BY <1>1, <2>1, <2>2
<1> QED BY <1>2, <1>3

LEMMA Goes ==
  ASSUME TypeInv, NEW w \in Workers, NEW s, NEW r, Goto(w, s, r)
  PROVE  /\ pc'[w] = s /\ req'[w] = r
         /\ \A v \in Workers \ {w} : pc'[v] = pc[v] /\ req'[v] = req[v]
BY DEF Goto, TypeInv, TypeOK

\* How a request comes to the stages at which it knows something.
LEMMA Arrivals ==
  ASSUME TypeInv, [Next]_vars, NEW w \in Workers
  PROVE  \/ pc'[w] = pc[w] /\ req'[w] = req[w]
         \/ pc'[w] \notin {"issuing", "delivered"}
         \/ pc'[w] = "issuing" /\ req'[w].at = now /\ now' = now
         \/ pc'[w] = "delivered" /\ req'[w].raw \in inbox'
<1> DEFINE Arrives(v) ==
             \/ pc'[v] = pc[v] /\ req'[v] = req[v]
             \/ pc'[v] \notin {"issuing", "delivered"}
             \/ pc'[v] = "issuing" /\ req'[v].at = now /\ now' = now
             \/ pc'[v] = "delivered" /\ req'[v].raw \in inbox'
<1>1. ASSUME NEW v \in Workers, NEW s \in {"idle", "exists", "link", "deliver"}, NEW r, Goto(v, s, r)
      PROVE  Arrives(w)
  BY <1>1, Goes
<1>2. ASSUME NEW v \in Workers, BeginIssue(v)
      PROVE  Arrives(w)
  <2> DEFINE r == [req[v] EXCEPT !.at = now]
  <2>1. r.at = now /\ Goto(v, "issuing", r) /\ now' = now
    BY <1>2 DEF BeginIssue, TypeInv, TypeOK, Request
  <2> HIDE DEF r
  <2> QED BY <2>1, Goes
<1>3. ASSUME NEW v \in Workers, Deliver(v)
      PROVE  Arrives(w)
  <2>1. Goto(v, "delivered", req[v]) /\ req[v].raw \in inbox'
    BY <1>3 DEF Deliver, Delivery
  <2> QED BY <2>1, Goes
<1>4. ASSUME NEW v \in Workers, NEW e \in Emails, Signup(v, e) PROVE Arrives(w)
  BY <1>1, <1>4 DEF Signup
<1>5. ASSUME NEW v \in Workers, FindAccount(v) \/ MarkSent(v) \/ Abandon(v) PROVE Arrives(w)
  BY <1>1, <1>5 DEF FindAccount, MarkSent, Abandon, Finish
<1>6. ASSUME NEW v \in Workers, NEW e \in Emails, NEW p \in Purposes, RequestLink(v, e, p)
      PROVE  Arrives(w)
  BY <1>1, <1>6 DEF RequestLink
<1>7. ASSUME NEW v \in Workers, NEW t \in Tokens, IssueToken(v, t) PROVE Arrives(w)
  BY <1>1, <1>7 DEF IssueToken
<1>8. UNCHANGED <<pc, req>> => Arrives(w)
  OBVIOUS
<1> HIDE DEF Arrives
<1>9. Arrives(w)
  BY <1>2, <1>3, <1>4, <1>5, <1>6, <1>7, <1>8
  DEF Next, Mailing, VerifyEmail, ResetPassword, Redeem, SetStatus, Tick, vars
<1> QED BY <1>9 DEF Arrives

LEMMA LinkInit == Init => LinkInv
BY DEF Init, LinkInv, SentWasDelivered

LEMMA LinkStep == TypeInv /\ LinkInv /\ [Next]_vars => LinkInv'
<1> SUFFICES ASSUME TypeInv, LinkInv, [Next]_vars PROVE LinkInv'
  OBVIOUS
<1>1. Shaped
  BY StepShape
<1>2. inbox \subseteq inbox' /\ drawn \subseteq drawn' /\ now <= now' /\ now \in Nat
  BY Growing DEF TypeInv, TypeOK
<1>3. ASSUME NEW w \in Workers, pc'[w] = "issuing" PROVE req'[w].at <= now'
  <2>1. TypeInv'
    BY TypeStep
  <2>2. now' \in Nat /\ req'[w].at \in Nat
    BY <2>1 DEF TypeInv, TypeOK, Request
  <2>3. req'[w].at <= now
    <3>1. CASE pc'[w] = pc[w] /\ req'[w] = req[w]
      BY <1>3, <3>1 DEF LinkInv
    <3>2. CASE req'[w].at = now
      BY <1>2, <3>2
    <3> QED BY <1>3, <3>1, <3>2, Arrivals
  <2> QED BY <1>2, <2>2, <2>3
<1>4. ASSUME NEW w \in Workers, pc'[w] = "delivered" PROVE req'[w].raw \in inbox'
  BY <1>2, <1>4, Arrivals DEF LinkInv
<1>5. ASSUME NEW x \in Tokens, tok'[x] # NoRow
      PROVE  x \in drawn' /\ (tok'[x].sent => x \in inbox')
  <2>1. tok[x] # NoRow => x \in drawn' /\ (tok[x].sent => x \in inbox')
    BY <1>2 DEF LinkInv, SentWasDelivered
  <2>2. CASE RowsOnly
    BY <1>5, <2>1, <2>2 DEF RowsOnly
  <2>3. ASSUME NEW w \in Workers, NEW t \in Tokens, Stored(w, t)
        PROVE  x \in drawn' /\ (tok'[x].sent => x \in inbox')
    BY <1>5, <2>1, <2>3 DEF Stored
  <2>4. ASSUME NEW w \in Workers, NEW t \in Tokens, Marked(w, t)
        PROVE  x \in drawn' /\ (tok'[x].sent => x \in inbox')
    <3>1. t \in inbox'
      BY <1>2, <2>4 DEF Marked, LinkInv
    <3> QED BY <1>5, <2>1, <2>4, <3>1 DEF Marked
  <2>5. ASSUME NEW t \in Tokens, NEW e \in Emails, Redeemed(t, e)
        PROVE  x \in drawn' /\ (tok'[x].sent => x \in inbox')
    BY <1>5, <2>1, <2>5 DEF Redeemed
  <2> QED BY <1>1, <2>2, <2>3, <2>4, <2>5 DEF Shaped
<1> QED BY <1>3, <1>4, <1>5 DEF LinkInv, SentWasDelivered

LEMMA LinksAlways == Spec => [](TypeInv /\ LinkInv)
BY InitType, TypeStep, LinkInit, LinkStep, PTL DEF Spec

(* A link is marked as sent only after the mail service has accepted it:   *)
(* the request that marks it is the one that mailed it.                    *)
THEOREM SentMeansDelivered == Spec => []SentWasDelivered
<1>1. LinkInv => SentWasDelivered
  BY DEF LinkInv
<1> QED
  BY <1>1, LinksAlways, PTL

(* A registered account's password and verified mark change only by        *)
(* redeeming a mailed link in time, and that burns all its links.          *)
THEOREM OnlyTheOwnerChangesIt == Spec => OwnerProofOnly
<1>1. ASSUME TypeInv, LinkInv, [Next]_vars, NEW e \in Emails, Registered(e),
             <<row'[e].hash, row'[e].verified>> # <<row[e].hash, row[e].verified>>
      PROVE  /\ \E t \in LinksOf(e) \cap inbox :
                  /\ tok[t].expires > now
                  /\ row'[e].hash # row[e].hash => tok[t].purpose = "reset"
             /\ LinksOf(e)' = {}
  <2>1. row'[e] # row[e]
    BY <1>1
  <2>2. ~RowsOnly
    <3>1. row[e] \in User
      BY <1>1, SameRow
    <3>2. RowsOnly => row'[e].hash = row[e].hash /\ row'[e].verified = row[e].verified
      BY <1>1, <3>1 DEF RowsOnly, User
    <3> QED BY <1>1, <3>2
  <2>3. PICK t \in Tokens : Redeemed(t, e)
    BY <1>1, <2>1, <2>2, StepShape DEF Shaped, Stored, Marked, Redeemed
  <2>4. \A x \in Tokens : tok'[x] # NoRow => tok'[x].user # e
    BY <2>3 DEF Redeemed
  <2> QED BY <2>3, <2>4 DEF Redeemed, LinksOf
<1>2. TypeInv /\ LinkInv /\ [Next]_vars =>
        [\A e \in Emails :
           /\ Registered(e)
           /\ <<row'[e].hash, row'[e].verified>> # <<row[e].hash, row[e].verified>>
           => /\ \E t \in LinksOf(e) \cap inbox :
                   /\ tok[t].expires > now
                   /\ row'[e].hash # row[e].hash => tok[t].purpose = "reset"
              /\ LinksOf(e)' = {}]_vars
  BY <1>1
<1> QED
  BY <1>2, LinksAlways, PTL DEF Spec, OwnerProofOnly

(* A link somebody can still use goes only when its own account is         *)
(* verified or reset: the clock a clean-up works with is never ahead.      *)
THEOREM LinksAreKept == Spec => ResendKeepsLinks
<1>1. ASSUME TypeInv, LinkInv, [Next]_vars, NEW e \in Emails, NEW t \in Tokens,
             tok[t] # NoRow, tok[t].user = e, tok[t].expires > now,
             ~(tok'[t] # NoRow /\ tok'[t].user = e)
      PROVE  row'[e] # row[e]
  <2>1. ~RowsOnly
    BY <1>1 DEF RowsOnly
  <2>2. \A w \in Workers, x \in Tokens : ~Stored(w, x)
    <3> SUFFICES ASSUME NEW w \in Workers, NEW x \in Tokens, Stored(w, x) PROVE FALSE
      OBVIOUS
    <3>1. t # x /\ pc[w] = "issuing"
      BY <1>1 DEF Stored, LinkInv
    <3>2. tok[t].expires < req[w].at
      BY <1>1, <3>1 DEF Stored
    <3>3. req[w].at <= now /\ req[w].at \in Nat /\ now \in Nat /\ tok[t].expires \in Nat
      BY <1>1, <3>1 DEF LinkInv, TypeInv, TypeOK, Request, Token
    <3> QED BY <1>1, <3>2, <3>3
  <2>3. \A w \in Workers, x \in Tokens : ~Marked(w, x)
    BY <1>1 DEF Marked
  <2>4. PICK x \in Tokens, d \in Emails : Redeemed(x, d)
    BY <1>1, <2>1, <2>2, <2>3, StepShape DEF Shaped
  <2>5. d = e
    BY <1>1, <2>4 DEF Redeemed
  <2> QED BY <2>4, <2>5 DEF Redeemed
<1>2. TypeInv /\ LinkInv /\ [Next]_vars =>
        [\A e \in Emails : \A t \in LinksOf(e) :
           tok[t].expires > now /\ t \notin LinksOf(e)' => row'[e] # row[e]]_vars
  BY <1>1 DEF LinksOf
<1> QED
  BY <1>2, LinksAlways, PTL DEF Spec, ResendKeepsLinks

(* A disabled account stays as it is until an operator enables it, and     *)
(* gets no new link.                                                       *)
THEOREM DisabledStays == Spec => DisabledUntouched
<1>1. ASSUME TypeInv, LinkInv, [Next]_vars, NEW e \in Emails, Registered(e),
             row[e].status = "disabled"
      PROVE  /\ row'[e] = [row[e] EXCEPT !.status = row'[e].status]
             /\ LinksOf(e)' \subseteq LinksOf(e)
  <2>1. CASE RowsOnly
    BY <1>1, <2>1 DEF RowsOnly, LinksOf
  <2>2. ASSUME NEW w \in Workers, NEW t \in Tokens, Stored(w, t)
        PROVE  row'[e] = row[e] /\ LinksOf(e)' \subseteq LinksOf(e)
    BY <1>1, <2>2 DEF Stored, LinksOf
  <2>3. ASSUME NEW w \in Workers, NEW t \in Tokens, Marked(w, t)
        PROVE  row'[e] = row[e] /\ LinksOf(e)' \subseteq LinksOf(e)
    BY <1>1, <2>3 DEF Marked, LinksOf
  <2>4. ASSUME NEW t \in Tokens, NEW d \in Emails, Redeemed(t, d)
        PROVE  row'[e] = row[e] /\ LinksOf(e)' \subseteq LinksOf(e)
    BY <1>1, <2>4 DEF Redeemed, LinksOf
  <2> QED BY <1>1, <2>1, <2>2, <2>3, <2>4, SameRow, StepShape DEF Shaped
<1>2. TypeInv /\ LinkInv /\ [Next]_vars =>
        [\A e \in Emails : Registered(e) /\ row[e].status = "disabled" =>
           /\ row'[e] = [row[e] EXCEPT !.status = row'[e].status]
           /\ LinksOf(e)' \subseteq LinksOf(e)]_vars
  BY <1>1
<1> QED
  BY <1>2, LinksAlways, PTL DEF Spec, DisabledUntouched
===============================================================================
