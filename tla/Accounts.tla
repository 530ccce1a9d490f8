------------------------------- MODULE Accounts -------------------------------
(***************************************************************************)
(* Sign-up, verification and password recovery: the User rows, the         *)
(* one-time links of WebsiteActionToken (store.py) and the requests of     *)
(* app.py that create, mail and redeem them.                               *)
(*                                                                         *)
(* Each action is one transaction, or what happens between two: the clock  *)
(* of issue_token is read before the account row is locked, signup looks   *)
(* the account up without a lock, and a link is stored, mailed and marked  *)
(* as sent in three steps that may each be the last one.                   *)
(***************************************************************************)
EXTENDS Naturals, FiniteSets

CONSTANTS
  Emails,               \* one account row per address (User.Email is unique)
  Tokens,               \* WebsiteActionToken.TokenHash, one per raw link
  Workers,              \* request threads
  VerifyTTL, ResetTTL,  \* 24 hours, 30 minutes
  CleanupLimit,         \* 100 rows
  MaxTime, MaxHashes,   \* bounds of the model
  None, NoRow           \* "not known in this request", "no such row"

Purposes == {"verify", "reset"}

\* native: an argon2 hash.  hash numbers the salted hashes an account has had.
User == [status : {"pending", "active", "disabled"}, verified : BOOLEAN,
         native : BOOLEAN, hash : Nat]

Token == [user : Emails, purpose : Purposes, tag : Nat, expires : Nat, sent : BOOLEAN]

Stages == {"idle", "exists", "link", "issuing", "deliver", "delivered"}

Request == [email : Emails \cup {None}, purpose : Purposes \cup {None},
            raw : Tokens \cup {None}, at : Nat]

ASSUME BoundAssumption ==
  /\ {VerifyTTL, ResetTTL} \subseteq Nat \ {0}
  /\ {CleanupLimit, MaxTime, MaxHashes} \subseteq Nat

ASSUME NullAssumption ==
  /\ None \notin Emails \cup Tokens \cup Purposes
  /\ NoRow \notin User
  /\ NoRow \notin Token

VARIABLES
  now,      \* the clock all instances share
  row,      \* the User table
  tok,      \* WebsiteActionToken
  drawn,    \* tokens the random generator has returned
  inbox,    \* links that reached their owner's mailbox
  pc, req   \* where each request is, and what it remembers

vars == <<now, row, tok, drawn, inbox, pc, req>>

NoRequest == [email |-> None, purpose |-> None, raw |-> None, at |-> 0]

\* An account from before native passwords: active, nothing to sign in with.
ExternalUser == [status |-> "active", verified |-> TRUE, native |-> FALSE, hash |-> 0]

TypeOK ==
  /\ now \in Nat
  /\ row \in [Emails -> User \cup {NoRow}]
  /\ tok \in [Tokens -> Token \cup {NoRow}]
  /\ drawn \subseteq Tokens
  /\ inbox \subseteq Tokens
  /\ pc \in [Workers -> Stages]
  /\ req \in [Workers -> Request]

Init ==
  /\ now = 0
  /\ row \in [Emails -> {NoRow, ExternalUser}]
  /\ tok = [t \in Tokens |-> NoRow]
  /\ drawn = {}
  /\ inbox = {}
  /\ pc = [w \in Workers |-> "idle"]
  /\ req = [w \in Workers |-> NoRequest]

Goto(w, s, r) ==
  /\ pc' = [pc EXCEPT ![w] = s]
  /\ req' = [req EXCEPT ![w] = r]

Finish(w) == Goto(w, "idle", NoRequest)

Registered(e) == row[e] # NoRow

-------------------------------------------------------------------------------
(* Requests for a link.                                                    *)

\* Mutant of NewUser: signing up again overwrites the row.
UpsertUser(e) ==
  [status |-> "pending", verified |-> FALSE, native |-> TRUE,
   hash |-> IF Registered(e) THEN row[e].hash + 1 ELSE 0]

\* create_pending: INSERT fails on the unique email and leaves the row alone.
NewUser(e) ==
  IF Registered(e) THEN row[e]
  ELSE [status |-> "pending", verified |-> FALSE, native |-> TRUE, hash |-> 0]

\* signup: whether the row was new decides how the request goes on.
Signup(w, e) ==
  /\ pc[w] = "idle"
  /\ row' = [row EXCEPT ![e] = NewUser(e)]
  /\ IF Registered(e)
     THEN Goto(w, "exists", [NoRequest EXCEPT !.email = e])
     ELSE Goto(w, "link", [NoRequest EXCEPT !.email = e, !.purpose = "verify"])
  /\ UNCHANGED <<now, tok, drawn, inbox>>

\* find_account, without a lock: a pending owner is sent a reset link.
FindAccount(w) ==
  /\ pc[w] = "exists"
  /\ Registered(req[w].email)
  /\ row[req[w].email].status = "pending"
  /\ Goto(w, "link", [req[w] EXCEPT !.purpose = "reset"])
  /\ UNCHANGED <<now, row, tok, drawn, inbox>>

\* request_verification and request_reset.
RequestLink(w, e, p) ==
  /\ pc[w] = "idle"
  /\ Goto(w, "link", [NoRequest EXCEPT !.email = e, !.purpose = p])
  /\ UNCHANGED <<now, row, tok, drawn, inbox>>

\* issue_token reads the clock, then waits for the account row.
BeginIssue(w) ==
  /\ pc[w] = "link"
  /\ Goto(w, "issuing", [req[w] EXCEPT !.at = now])
  /\ UNCHANGED <<now, row, tok, drawn, inbox>>

\* Mutant of Issuable: the caller's lookup is trusted for the status.
IssuableAsLookedUp(e, p) ==
  Registered(e) /\ (p = "verify" => ~row[e].verified)

\* What issue_token requires of the locked row.
Issuable(e, p) ==
  /\ Registered(e)
  /\ row[e].status \in {"pending", "active"}
  /\ p = "verify" => ~row[e].verified /\ row[e].status = "pending"

TTL(p) == IF p = "verify" THEN VerifyTTL ELSE ResetTTL

\* DELETE ... WHERE ExpiresAt < at LIMIT: any account's, in no given order.
Cleanups(at) ==
  LET Old == {t \in Tokens : tok[t] # NoRow /\ tok[t].expires < at} IN
  {S \in SUBSET Old : /\ Cardinality(S) <= CleanupLimit
                      /\ Cardinality(S) < CleanupLimit => S = Old}

\* Mutant of NewToken: the action's name is stored for the purpose.
NewTokenWithAction(r) ==
  [user |-> r.email, purpose |-> "request-reset", tag |-> row[r.email].hash,
   expires |-> r.at + TTL(r.purpose), sent |-> FALSE]

NewToken(r) ==
  [user |-> r.email, purpose |-> r.purpose, tag |-> row[r.email].hash,
   expires |-> r.at + TTL(r.purpose), sent |-> FALSE]

\* Mutant of Dropped: a resend replaces the account's earlier links.
DroppedOnResend(S, e) == {x \in Tokens : x \in S \/ (tok[x] # NoRow /\ tok[x].user = e)}

\* The rows a resend removes: the expired ones and no other.
Dropped(S, e) == S

\* issue_token under the account lock: insert, then clean up.
IssueToken(w, t) ==
  /\ pc[w] = "issuing"
  /\ t \notin drawn
  /\ Issuable(req[w].email, req[w].purpose)
  /\ drawn' = drawn \cup {t}
  /\ \E S \in Cleanups(req[w].at) :
       tok' = [x \in Tokens |-> IF x = t THEN NewToken(req[w])
                                ELSE IF x \in Dropped(S, req[w].email) THEN NoRow ELSE tok[x]]
  /\ Goto(w, "deliver", [req[w] EXCEPT !.raw = t])
  /\ UNCHANGED <<now, row, inbox>>

\* Mutant of Delivery: a refusal of the mail service passes for success.
DeliveryLost(t) == t \in Tokens /\ UNCHANGED inbox

Delivery(t) == inbox' = inbox \cup {t}

\* Mailer.send: the mail service accepts the message.
Deliver(w) ==
  /\ pc[w] = "deliver"
  /\ Delivery(req[w].raw)
  /\ Goto(w, "delivered", req[w])
  /\ UNCHANGED <<now, row, tok, drawn>>

\* mark_token_sent: by now the row may be gone.
MarkSent(w) ==
  LET t == req[w].raw IN
  /\ pc[w] = "delivered"
  /\ tok' = [x \in Tokens |-> IF x = t /\ tok[t] # NoRow
                              THEN [tok[t] EXCEPT !.sent = TRUE] ELSE tok[x]]
  /\ Finish(w)
  /\ UNCHANGED <<now, row, drawn, inbox>>

\* The request ends with no further write: nothing to send, a delivery that
\* failed or was reported as failed, a database error, or a crash.
Abandon(w) ==
  /\ pc[w] # "idle"
  /\ Finish(w)
  /\ UNCHANGED <<now, row, tok, drawn, inbox>>

-------------------------------------------------------------------------------
(* Redeeming a link.                                                       *)

\* Mutant of GoodLink: a link still works in its last second.
GoodLinkLate(t, p) ==
  /\ tok[t] # NoRow
  /\ tok[t].purpose = p
  /\ tok[t].expires >= now
  /\ row[tok[t].user].status \in {"active", "pending"}
  /\ tok[t].tag = row[tok[t].user].hash

\* What consume_token requires under the account and token locks.
GoodLink(t, p) ==
  /\ tok[t] # NoRow
  /\ Registered(tok[t].user)
  /\ tok[t].purpose = p
  /\ tok[t].expires > now
  /\ row[tok[t].user].status \in {"active", "pending"}
  /\ tok[t].tag = row[tok[t].user].hash

\* Mutant of Burnt: only the redeemed link is deleted.
BurntOne(t, x) == x = t

\* DELETE FROM WebsiteActionToken WHERE UserId: every link of the account.
Burnt(t, x) == tok[x] # NoRow /\ tok[x].user = tok[t].user

\* consume_token rewrites the row and burns the account's links in one step.
Redeem(t, u) ==
  /\ row' = [row EXCEPT ![tok[t].user] = u]
  /\ tok' = [x \in Tokens |-> IF Burnt(t, x) THEN NoRow ELSE tok[x]]
  /\ UNCHANGED <<now, drawn, inbox, pc, req>>

\* verify_email with a mailed link.
VerifyEmail(t) ==
  /\ t \in inbox
  /\ GoodLink(t, "verify")
  /\ row[tok[t].user].status = "pending"
  /\ Redeem(t, [row[tok[t].user] EXCEPT !.verified = TRUE, !.status = "active"])

\* reset_password: the new hash is salted, so it is none the account has had.
ResetPassword(t) ==
  /\ t \in inbox
  /\ GoodLink(t, "reset")
  /\ row[tok[t].user].hash < MaxHashes
  /\ Redeem(t, [status |-> "active", verified |-> TRUE, native |-> TRUE,
                hash |-> row[tok[t].user].hash + 1])

-------------------------------------------------------------------------------
\* An operator changes AccountStatus in the database.
SetStatus(e, s) ==
  /\ Registered(e)
  /\ row[e].status # s
  /\ row' = [row EXCEPT ![e].status = s]
  /\ UNCHANGED <<now, tok, drawn, inbox, pc, req>>

Tick ==
  /\ now < MaxTime
  /\ now' = now + 1
  /\ UNCHANGED <<row, tok, drawn, inbox, pc, req>>

Mailing(w) ==
  \/ \E e \in Emails : Signup(w, e) \/ \E p \in Purposes : RequestLink(w, e, p)
  \/ FindAccount(w)
  \/ BeginIssue(w)
  \/ \E t \in Tokens : IssueToken(w, t)
  \/ Deliver(w)
  \/ MarkSent(w)
  \/ Abandon(w)

Next ==
  \/ \E w \in Workers : Mailing(w)
  \/ \E t \in Tokens : VerifyEmail(t) \/ ResetPassword(t)
  \/ \E e \in Emails, s \in {"pending", "active", "disabled"} : SetStatus(e, s)
  \/ Tick

Spec == Init /\ [][Next]_vars

-------------------------------------------------------------------------------
(* What must hold.                                                         *)

LinksOf(e) == {t \in Tokens : tok[t] # NoRow /\ tok[t].user = e}

(* Every stored link carries the credential its account has now: issuance  *)
(* and redemption lock the account row first, so no link issued for one    *)
(* password outlives it, whatever the two of them interleave with.         *)
LinksMatchPassword ==
  \A e \in Emails : \A t \in LinksOf(e) : Registered(e) /\ tok[t].tag = row[e].hash

(* Only a link that was really mailed counts as sent.                      *)
SentWasDelivered ==
  \A t \in Tokens : tok[t] # NoRow /\ tok[t].sent => t \in inbox

(* After the first signup, an account's password and verified mark change  *)
(* only in exchange for a link that reached the address and has not        *)
(* expired, and the same step kills all its other links: no second signup, *)
(* no second redemption and no older mail has any effect afterwards.       *)
OwnerProofOnly ==
  [][\A e \in Emails :
       /\ Registered(e)
       /\ <<row'[e].hash, row'[e].verified>> # <<row[e].hash, row[e].verified>>
       => /\ \E t \in LinksOf(e) \cap inbox :
               /\ tok[t].expires > now
               /\ row'[e].hash # row[e].hash => tok[t].purpose = "reset"
          /\ LinksOf(e)' = {}]_vars

(* A resend, a failed delivery, another account's request or the cleanup   *)
(* of expired rows never takes away a link somebody can still use: it goes *)
(* only when its own account is verified or reset.                         *)
ResendKeepsLinks ==
  [][\A e \in Emails : \A t \in LinksOf(e) :
       tok[t].expires > now /\ t \notin LinksOf(e)' => row'[e] # row[e]]_vars

(* A disabled account stays as it is until an operator enables it: links   *)
(* mailed before do nothing, and a request that looked it up before it was *)
(* disabled obtains no new one.                                            *)
DisabledUntouched ==
  [][\A e \in Emails : Registered(e) /\ row[e].status = "disabled" =>
       /\ row'[e] = [row[e] EXCEPT !.status = row'[e].status]
       /\ LinksOf(e)' \subseteq LinksOf(e)]_vars

\* The row as the rest of the service sees it (get_user, finish_login).
Seen(e) ==
  [status |-> IF Registered(e) /\ row[e].status = "active" /\ row[e].verified /\ row[e].native
              THEN "active" ELSE "inactive",
   tag |-> IF Registered(e) THEN row[e].hash ELSE 0]

SeenRows == [e \in Emails |-> Seen(e)]

CR == INSTANCE CredentialRow WITH Users <- Emails, account <- SeenRows

(* The account service keeps the promise CredentialRow states to whatever  *)
(* is bound to a password: a replaced credential never comes back.         *)
RowRefinement == CR!Spec
===============================================================================
