------------------------------- MODULE Sessions -------------------------------
(***************************************************************************)
(* Browser sessions: the table WebsiteSession (store.py), the way a        *)
(* request loads, changes and saves its session (app.py), and the consent  *)
(* and pending sign-in the OAuth pages of each product keep in it          *)
(* (mail_oauth.py; ConnectorPages adds those of connector_oauth.py).       *)
(*                                                                         *)
(* A request reads the whole session when it starts and writes the whole   *)
(* session when it ends; nothing is locked in between.  Every database     *)
(* call of a handler is a step of its own.  A session may expire at any    *)
(* moment.                                                                 *)
(***************************************************************************)
EXTENDS Naturals

CONSTANTS
  Users,       \* User.UserId
  Digests,     \* WebsiteSession.TokenHash, one per cookie
  Nonces,      \* consent nonces
  Products, Mail,       \* products with OAuth pages, and the one of mail_oauth.py
  Flows, ProductOf,     \* authorization requests (their parameters), each to a product
  Workers,     \* request threads
  Restless,    \* users whose account is switched on and off in this instance
  MaxResets, MaxUses,   \* bounds of the model
  None, NoRow  \* "not set", "no such row"

\* One consent page: what it asks, and whom.
Consent == [nonce : Nonces, user : Users, flow : Flows]

\* A request put off, and the user it is reserved for, if any.
Pending == [flow : Flows, user : Users \cup {None}]

\* The session document: a consent page and a put-off request per product.  csrf
\* stands for the token itself: it is drawn with the session, or again when login
\* rotates it, and never changed.
Session ==
  [user : Users \cup {None}, tag : Nat, csrf : BOOLEAN,
   consent : [Products -> Consent \cup {None}],
   pending : [Products -> Pending \cup {None}]]

Nothing == [p \in Products |-> None]

Empty ==
  [user |-> None, tag |-> 0, csrf |-> FALSE, consent |-> Nothing, pending |-> Nothing]

Stages == {"idle", "open", "checked", "identified", "asked", "approved", "save"}

\* A request's copy of its session; digest is None as long as it is a new one.
Request ==
  [digest : Digests \cup {None}, data : Session, who : Users \cup {None}, tag : Nat,
   code : Consent \cup {None}]

ASSUME BoundAssumption == {MaxResets, MaxUses} \subseteq Nat /\ Restless \subseteq Users

ASSUME ProductAssumption == Mail \in Products /\ ProductOf \in [Flows -> Products]

ASSUME NullAssumption ==
  /\ None \notin Users \cup Digests \cup Nonces \cup Flows
  /\ None \notin Consent \cup Pending
  /\ NoRow \notin Session

VARIABLES
  account,    \* the User rows, as CredentialRow shows them
  sess,       \* WebsiteSession
  drawn,      \* digests and nonces the random generator has returned
  shown,      \* consent pages a browser may have on display
  codes,      \* what authorization codes were created for
  uses,       \* uses[n]: codes created on the strength of nonce n
  pc, req     \* where each request is, and its copy of the session

vars == <<account, sess, drawn, shown, codes, uses, pc, req>>

Row == INSTANCE CredentialRow

NoRequest == [digest |-> None, data |-> Empty, who |-> None, tag |-> 0, code |-> None]

TypeOK ==
  /\ account \in [Users -> [status : Row!Statuses, tag : Nat]]
  /\ sess \in [Digests -> Session \cup {NoRow}]
  /\ drawn \subseteq Digests \cup Nonces
  /\ shown \subseteq Consent
  /\ codes \subseteq Consent
  /\ uses \in [Nonces -> Nat]
  /\ pc \in [Workers -> Stages]
  /\ req \in [Workers -> Request]

NoSessions == [d \in Digests |-> NoRow]

\* No request is under way and no page has been shown.
Idle ==
  /\ account = [u \in Users |-> [status |-> "active", tag |-> 0]]
  /\ shown = {}
  /\ codes = {}
  /\ uses = [n \in Nonces |-> 0]
  /\ pc = [w \in Workers |-> "idle"]
  /\ req = [w \in Workers |-> NoRequest]

Init ==
  /\ Idle
  /\ sess = NoSessions
  /\ drawn = {}

Goto(w, s, r) ==
  /\ pc' = [pc EXCEPT ![w] = s]
  /\ req' = [req EXCEPT ![w] = r]

Finish(w) == Goto(w, "idle", NoRequest)

\* The request goes on to save data in place of what it loaded.
SaveLater(w, data) == Goto(w, "save", [req[w] EXCEPT !.data = data])

\* get_user for the session's own user and tag.
Current(data) ==
  /\ data.user # None
  /\ account[data.user] = [status |-> "active", tag |-> data.tag]

\* require_ready lets a POST through: the session it loaded has a CSRF token.
MayPost(w) == pc[w] = "open" /\ req[w].digest # None /\ req[w].data.csrf

-------------------------------------------------------------------------------
(* Loading and saving.                                                     *)

\* open_session with a cookie that is still good.
Open(w, d) ==
  /\ pc[w] = "idle"
  /\ sess[d] # NoRow
  /\ Goto(w, "open", [NoRequest EXCEPT !.digest = d, !.data = sess[d]])
  /\ UNCHANGED <<account, sess, drawn, shown, codes, uses>>

\* open_session without one: the new session gets its token when it is saved.
OpenNew(w) ==
  /\ pc[w] = "idle"
  /\ Goto(w, "open", NoRequest)
  /\ UNCHANGED <<account, sess, drawn, shown, codes, uses>>

\* The response leaves with the consent page, if there is one.
Display(data) == shown' = shown \cup ({data.consent[p] : p \in Products} \ {None})

\* Store.delete_session.
Delete(S) == sess' = [d \in Digests |-> IF d \in S THEN NoRow ELSE sess[d]]

\* save_session of a session that was emptied.
SaveCleared(w) ==
  /\ pc[w] = "save"
  /\ req[w].data = Empty
  /\ Delete({req[w].digest})
  /\ Finish(w)
  /\ UNCHANGED <<account, drawn, shown, codes, uses>>

\* save_session of a new session: INSERT under a new token.
SaveNew(w, d) ==
  /\ pc[w] = "save"
  /\ req[w].data # Empty
  /\ req[w].digest = None
  /\ d \notin drawn
  /\ drawn' = drawn \cup {d}
  /\ sess' = [sess EXCEPT ![d] = req[w].data]
  /\ Display(req[w].data)
  /\ Finish(w)
  /\ UNCHANGED <<account, codes, uses>>

\* Mutant of Overwrite: the session is inserted again when it is gone.
OverwriteOrInsert(d, data) == sess' = [sess EXCEPT ![d] = data]

\* UPDATE WebsiteSession: the last request to save wins, unless it is gone.
Overwrite(d, data) == sess' = [sess EXCEPT ![d] = IF @ = NoRow THEN NoRow ELSE data]

\* save_session of an existing session.
SaveOld(w) ==
  /\ pc[w] = "save"
  /\ req[w].data # Empty
  /\ req[w].digest # None
  /\ Overwrite(req[w].digest, req[w].data)
  /\ Display(req[w].data)
  /\ Finish(w)
  /\ UNCHANGED <<account, drawn, codes, uses>>

\* The request ends without (another) write: a refusal that leaves the session
\* alone, an answer that does, a database error, or a crash.
Abandon(w) ==
  /\ pc[w] # "idle"
  /\ Finish(w)
  /\ UNCHANGED <<account, sess, drawn, shown, codes, uses>>

-------------------------------------------------------------------------------
(* The handlers of app.py.                                                 *)

\* csrf_token.
CsrfToken(w) ==
  /\ pc[w] = "open"
  /\ ~req[w].data.csrf
  /\ SaveLater(w, [req[w].data EXCEPT !.csrf = TRUE])
  /\ UNCHANGED <<account, sess, drawn, shown, codes, uses>>

\* current_user: a session whose password was changed is emptied.
CurrentUser(w) ==
  /\ pc[w] = "open"
  /\ req[w].data.user # None
  /\ ~Current(req[w].data)
  /\ SaveLater(w, Empty)
  /\ UNCHANGED <<account, sess, drawn, shown, codes, uses>>

\* logout.
Logout(w) ==
  /\ MayPost(w)
  /\ SaveLater(w, Empty)
  /\ UNCHANGED <<account, sess, drawn, shown, codes, uses>>

\* login: the row is read without a lock and the password matches its hash.
Login(w, u) ==
  /\ MayPost(w)
  /\ account[u].status = "active"
  /\ Goto(w, "checked", [req[w] EXCEPT !.who = u, !.tag = account[u].tag])
  /\ UNCHANGED <<account, sess, drawn, shown, codes, uses>>

\* finish_login: under the row lock, still the row that was read.
FinishLogin(w) ==
  /\ pc[w] = "checked"
  /\ account[req[w].who] = [status |-> "active", tag |-> req[w].tag]
  /\ Goto(w, "identified", req[w])
  /\ UNCHANGED <<account, sess, drawn, shown, codes, uses>>

\* Mutant of SignedIn: what the session held before is kept, consent included.
SignedInKeepingAll(r, kept) ==
  [r.data EXCEPT !.user = r.who, !.tag = r.tag, !.csrf = TRUE, !.pending = kept]

\* Mutant of SignedIn: the identity is stored without its credential tag.
SignedInUntagged(r, kept) ==
  [Empty EXCEPT !.user = r.who, !.tag = None, !.csrf = TRUE, !.pending = kept]

\* Mutant of SignedIn: the tag is read again after finish_login.
SignedInWithNewTag(r, kept) ==
  [Empty EXCEPT !.user = r.who, !.tag = account[r.who].tag, !.csrf = TRUE, !.pending = kept]

\* The session after login: only requests put off are carried over, as they are.
SignedIn(r, kept) ==
  [Empty EXCEPT !.user = r.who, !.tag = r.tag, !.csrf = TRUE, !.pending = kept]

\* Mutant of Rotate: the user is signed in under the token the request came with.
RotateInPlace(w) ==
  /\ pc[w] = "identified"
  /\ SaveLater(w, SignedIn(req[w], Nothing))
  /\ UNCHANGED <<account, sess, drawn, shown, codes, uses>>

\* rotate: the old row is deleted now, the new one inserted by save_session.
\* A request put off more than ten minutes ago is dropped.
Rotate(w) ==
  /\ pc[w] = "identified"
  /\ Delete({req[w].digest})
  /\ \E fresh \in SUBSET Products :
       LET kept == [p \in Products |-> IF p \in fresh THEN req[w].data.pending[p] ELSE None]
       IN Goto(w, "save", [NoRequest EXCEPT !.data = SignedIn(req[w], kept)])
  /\ UNCHANGED <<account, drawn, shown, codes, uses>>

\* reset_password: consume_token replaces the hash and deletes the account's
\* sessions in one transaction; then the request's own session is emptied.
ResetPassword(w, u) ==
  /\ MayPost(w)
  /\ account[u].tag < MaxResets
  /\ Row!Replace(u)
  /\ Delete({d \in Digests : sess[d] # NoRow /\ sess[d].user = u})
  /\ SaveLater(w, Empty)
  /\ UNCHANGED <<drawn, shown, codes, uses>>

-------------------------------------------------------------------------------
(* The OAuth pages, as mail_oauth.py has them.                             *)

\* authorize without a signed-in user: the request is kept for after login.
StorePending(w, f) ==
  /\ pc[w] = "open"
  /\ ~Current(req[w].data)
  /\ SaveLater(w, [req[w].data EXCEPT
                     !.pending[ProductOf[f]] = [flow |-> f, user |-> None]])
  /\ UNCHANGED <<account, sess, drawn, shown, codes, uses>>

\* authorize (GET): a consent page with a new nonce for this user and request.
AskConsent(w, f, n) ==
  /\ pc[w] = "open"
  /\ Current(req[w].data)
  /\ n \notin drawn
  /\ drawn' = drawn \cup {n}
  /\ SaveLater(w, [req[w].data EXCEPT
                     !.consent[ProductOf[f]] =
                       [nonce |-> n, user |-> req[w].data.user, flow |-> f],
                     !.csrf = TRUE])
  /\ UNCHANGED <<account, sess, shown, codes, uses>>

\* Mutant of Agreed: any page will do as long as some question is open.
AgreedToAnyPage(consent, c, u, f) ==
  consent # None /\ c \in shown /\ consent.user = u /\ consent.flow = f

\* The submitted page is the session's open question, for this user and request.
Agreed(consent, c, u, f) ==
  consent # None /\ consent.nonce = c.nonce /\ consent.user = u /\ consent.flow = f

\* authorize (POST) of page c with the parameters f: the nonce is taken out of
\* the request's copy of the session.
Approve(w, c, f, next) ==
  LET data == req[w].data IN
  /\ MayPost(w)
  /\ Current(data)
  /\ c \in shown
  /\ Agreed(data.consent[ProductOf[f]], c, data.user, f)
  /\ Goto(w, next, [req[w] EXCEPT
                       !.data.consent[ProductOf[f]] = None,
                       !.code = [nonce |-> c.nonce, user |-> data.user, flow |-> f]])
  /\ UNCHANGED <<account, sess, drawn, shown, codes, uses>>

\* authorize (POST) of anything else, or a denial: the nonce is taken out too.
Refuse(w, p) ==
  /\ MayPost(w)
  /\ Current(req[w].data)
  /\ req[w].data.consent[p] # None
  /\ SaveLater(w, [req[w].data EXCEPT !.consent[p] = None])
  /\ UNCHANGED <<account, sess, drawn, shown, codes, uses>>

\* create_code, in its own transaction before the session is saved.
CreateCode(w) ==
  LET c == req[w].code IN
  /\ pc[w] = "approved"
  /\ uses[c.nonce] < MaxUses
  /\ codes' = codes \cup {c}
  /\ uses' = [uses EXCEPT ![c.nonce] = @ + 1]
  /\ Goto(w, "save", [req[w] EXCEPT !.code = None])
  /\ UNCHANGED <<account, sess, drawn, shown>>

\* resume: the request put off is taken out, and the browser sent back to it.
Resume(w, p) ==
  /\ pc[w] = "open"
  /\ req[w].data.pending[p] # None
  /\ SaveLater(w, [req[w].data EXCEPT !.pending[p] = None])
  /\ UNCHANGED <<account, sess, drawn, shown, codes, uses>>

-------------------------------------------------------------------------------
\* ExpiresAt has passed: read and update ignore the row, a cleanup deletes it.
Expire(d) ==
  /\ sess[d] # NoRow
  /\ Delete({d})
  /\ UNCHANGED <<account, drawn, shown, codes, uses, pc, req>>

SetStatus(u, s) ==
  /\ Row!Switch(u, s)
  /\ UNCHANGED <<sess, drawn, shown, codes, uses, pc, req>>

LoadAndSave(w) ==
  \/ \E d \in Digests : Open(w, d) \/ SaveNew(w, d)
  \/ OpenNew(w) \/ SaveCleared(w) \/ SaveOld(w) \/ Abandon(w)

AccountPages(w) ==
  \/ CsrfToken(w) \/ CurrentUser(w) \/ Logout(w) \/ FinishLogin(w) \/ Rotate(w)
  \/ \E u \in Users : Login(w, u) \/ ResetPassword(w, u)

\* What the authorize page of a product accepts.
FlowsOf(p) == {f \in Flows : ProductOf[f] = p}

MailPages(w) ==
  \/ \E f \in FlowsOf(Mail) : \/ StorePending(w, f)
                              \/ \E n \in Nonces : AskConsent(w, f, n)
                              \/ \E c \in shown : Approve(w, c, f, "approved")
  \/ Refuse(w, Mail) \/ CreateCode(w) \/ Resume(w, Mail)

Environment ==
  \/ \E d \in Digests : Expire(d)
  \/ \E u \in Restless, s \in Row!Statuses : SetStatus(u, s)

Next ==
  \/ \E w \in Workers : LoadAndSave(w) \/ AccountPages(w) \/ MailPages(w)
  \/ Environment

Spec == Init /\ [][Next]_vars

-------------------------------------------------------------------------------
(* What must hold.                                                         *)

(* The consent page a session holds is addressed to the user the session   *)
(* belongs to, in the table and in every request's copy: a login while a   *)
(* page is on display does not hand the page to the next user.             *)
ConsentOwner ==
  LET OnlyTo(data) ==
        \A p \in Products : data.consent[p] # None => data.consent[p].user = data.user
  IN /\ \A d \in Digests : sess[d] # NoRow => OnlyTo(sess[d])
     /\ \A w \in Workers : OnlyTo(req[w].data)

(* A code is created only on the strength of a consent page that was       *)
(* displayed, and for the user and the request that very page named: the   *)
(* pages of two tabs overwrite each other in the session, and neither must *)
(* be answered with what the other asks.                                   *)
CodeWasConsented == codes \subseteq shown

(* A session that was deleted (logout, rotation, reset, expiry) never      *)
(* comes back, although requests that loaded it before may still save it.  *)
DeletedStaysDeleted ==
  [][\A d \in Digests \cap drawn : sess[d] = NoRow => sess'[d] = NoRow]_vars

(* A stored session never changes hands: signing in always moves to a new  *)
(* token, and no stale copy carries another identity into the row.         *)
IdentityFixed ==
  [][\A d \in Digests : sess[d] # NoRow /\ sess'[d] # NoRow
       => sess'[d].user = sess[d].user /\ sess'[d].tag = sess[d].tag]_vars

(* As documented, the consent nonce works once.  Two requests that loaded  *)
(* the session before either saved it both find the nonce in their copy.   *)
ConsentUsedOnce == \A n \in Nonces : uses[n] <= 1

\* Signed in with a password that has been replaced.
Retired(data) == data.user # None /\ data.tag # account[data.user].tag

(* A password change locks everybody out, even the login that was          *)
(* confirmed before it and inserts its session after the reset has deleted *)
(* the account's sessions: what it stores is refused, and a session whose  *)
(* password has been replaced is never good again.                         *)
LateLoginLockedOut ==
  [][/\ \A w \in Workers :
          Rotate(w) /\ req[w].tag # account[req[w].who].tag => Retired(req[w].data)'
     /\ \A d \in Digests :
          sess[d] # NoRow /\ Retired(sess[d]) =>
            sess'[d] = NoRow \/ sess'[d].user = None \/ Retired(sess[d])']_vars
===============================================================================
