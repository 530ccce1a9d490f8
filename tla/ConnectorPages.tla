---------------------------- MODULE ConnectorPages ----------------------------
(***************************************************************************)
(* The OAuth pages of the Database Connector (connector_oauth.py) in the   *)
(* session documents of Sessions.  They differ from Mail's in one respect: *)
(* a user without a database is sent to set one up first, the request      *)
(* waits in the session under that user's name, and consent and approval   *)
(* each ask the registry of databases, a service outside the account       *)
(* service.                                                                *)
(***************************************************************************)
EXTENDS Sessions

CONSTANTS
  Connector,  \* the product of connector_oauth.py
  MaxMoves    \* bound of the model: how often a user's databases come or go

ASSUME ConnectorAssumption == Connector \in Products \ {Mail} /\ MaxMoves \in Nat

VARIABLES
  connected,  \* users with a database in the registry
  moves,      \* how often that has changed
  sent,       \* history: requests put off, and for whom
  witnessed   \* history: approvals whose user has had a database since

connectorVars == <<vars, connected, moves, sent, witnessed>>

ConnectorTypeOK ==
  /\ TypeOK
  /\ connected \subseteq Users
  /\ moves \in 0..MaxMoves
  /\ sent \subseteq Pending
  /\ witnessed \subseteq Workers

\* A browser that has no session yet, or in which somebody has signed in.
Browser ==
  \/ Init
  \/ \E d \in Digests, u \in Users :
       /\ Idle
       /\ sess = [NoSessions EXCEPT ![d] = [Empty EXCEPT !.user = u, !.csrf = TRUE]]
       /\ drawn = {d}

ConnectorInit ==
  /\ Browser
  /\ connected \in SUBSET Users
  /\ moves = 0
  /\ sent = {}
  /\ witnessed = {}

\* Every step keeps the second history: since a page was approved, its user has had
\* a database at some moment.
Witness ==
  witnessed' = {w \in Workers : /\ pc'[w] \in {"asked", "approved"}
                                /\ w \in witnessed \/ req'[w].data.user \in connected'}

\* What authorize accepts: one of the registered callbacks, the read scope, PKCE.
ConnectorRequests == FlowsOf(Connector)

\* authorize without a signed-in user.
PutOff(w, f) ==
  /\ StorePending(w, f)
  /\ sent' = sent \cup {[flow |-> f, user |-> None]}
  /\ UNCHANGED <<connected, moves>>

\* database_ready: a token is signed for the user, if still current, and the
\* registry answers with it.
DatabaseReady(w) == Current(req[w].data) /\ req[w].data.user \in connected

\* authorize (GET) of a user with a database.
AskConnection(w, f, n) ==
  /\ DatabaseReady(w)
  /\ AskConsent(w, f, n)
  /\ UNCHANGED <<connected, moves, sent>>

\* setup_redirect: the request waits for its user to connect a database.
SetUpFirst(w, f) ==
  LET waiting == [flow |-> f, user |-> req[w].data.user] IN
  /\ Current(req[w].data)
  /\ req[w].data.user \notin connected
  /\ Goto(w, "save", [req[w] EXCEPT !.data.pending[Connector] = waiting, !.code = None])
  /\ sent' = sent \cup {waiting}
  /\ UNCHANGED <<account, sess, drawn, shown, codes, uses, connected, moves>>

\* authorize (POST): the page is answered, then the registry asked again.
ApproveConnection(w, c, f) ==
  /\ Approve(w, c, f, "asked")
  /\ UNCHANGED <<connected, moves, sent>>

\* Mutant of Confirm: the answer to the page is taken to be enough.
ConfirmAnyway(w) ==
  /\ pc[w] = "asked"
  /\ Goto(w, "approved", req[w])
  /\ UNCHANGED <<account, sess, drawn, shown, codes, uses, connected, moves, sent>>

\* authorize (POST) of anything else, or a denial.
RefuseConnection(w) ==
  /\ Refuse(w, Connector)
  /\ UNCHANGED <<connected, moves, sent>>

\* The registry has a database: go on to create_code.
Confirm(w) ==
  /\ pc[w] = "asked"
  /\ DatabaseReady(w)
  /\ Goto(w, "approved", req[w])
  /\ UNCHANGED <<account, sess, drawn, shown, codes, uses, connected, moves, sent>>

\* The registry cannot be asked: 503, and the nonce is gone from the session.
RegistryFails(w) ==
  /\ pc[w] = "asked"
  /\ Goto(w, "save", [req[w] EXCEPT !.code = None])
  /\ UNCHANGED <<account, sess, drawn, shown, codes, uses, connected, moves, sent>>

\* Mutant of Reserved: any signed-in user may go on with the request.
ReservedForNobody(data, pending) == pending.user = None \/ Current(data)

\* A request put off for one user waits for that user.
Reserved(data, pending) ==
  pending.user = None \/ (Current(data) /\ data.user = pending.user)

\* resume: back to authorize, if it is for whoever is signed in now.
ResumeConnection(w) ==
  /\ Resume(w, Connector)
  /\ Reserved(req[w].data, req[w].data.pending[Connector])
  /\ UNCHANGED <<connected, moves, sent>>

\* resume: the account changed, or the request is too old; it is taken out too.
RefuseResume(w) ==
  /\ Resume(w, Connector)
  /\ UNCHANGED <<connected, moves, sent>>

\* cancel_setup: ChatGPT is told that access was denied.
CancelSetup(w) ==
  LET pending == req[w].data.pending[Connector] IN
  /\ MayPost(w)
  /\ pending # None
  /\ pending.user # None
  /\ Reserved(req[w].data, pending)
  /\ SaveLater(w, [req[w].data EXCEPT !.pending[Connector] = None])
  /\ UNCHANGED <<account, sess, drawn, shown, codes, uses, connected, moves, sent>>

\* The set-up page connects a first database, or removes the last one.
Move(u) ==
  /\ moves < MaxMoves
  /\ moves' = moves + 1
  /\ connected' \in {connected \cup {u}, connected \ {u}} \ {connected}
  /\ UNCHANGED <<vars, sent>>

ConnectorPage(w) ==
  \/ \E f \in ConnectorRequests :
       \/ PutOff(w, f)
       \/ pc[w] = "open" /\ SetUpFirst(w, f)
       \/ pc[w] = "asked" /\ f = req[w].code.flow /\ SetUpFirst(w, f)
       \/ \E n \in Nonces : AskConnection(w, f, n)
       \/ \E c \in shown : ApproveConnection(w, c, f)
  \/ Confirm(w) \/ RegistryFails(w)
  \/ ResumeConnection(w) \/ RefuseResume(w) \/ CancelSetup(w)
  \/ RefuseConnection(w)

ConnectorNext ==
  /\ \/ Next /\ UNCHANGED <<connected, moves, sent>>
     \/ \E w \in Workers : ConnectorPage(w)
     \/ \E u \in Users : Move(u)
  /\ Witness

ConnectorSpec == ConnectorInit /\ [][ConnectorNext]_connectorVars

-------------------------------------------------------------------------------
(* As connector_oauth.py:54 puts it, no code is issued until a connection  *)
(* exists: the user of every code had a database at some moment after the  *)
(* approval it was created for, not only when the page was shown.          *)
CodeNeedsDatabase ==
  [][\A w \in Workers : CreateCode(w) /\ ProductOf[req[w].code.flow] = Connector
       => w \in witnessed]_connectorVars

(* A request that was put off while one user set up a database is neither  *)
(* resumed nor cancelled by another, although a login carries it over to   *)
(* the next user's session and stale tabs put it back.                     *)
SetupIsPersonal ==
  [][\A w \in Workers : ResumeConnection(w) \/ CancelSetup(w)
       => LET flow == req[w].data.pending[Connector].flow
          IN \E u \in {None, req[w].data.user} : [flow |-> flow, user |-> u] \in sent
    ]_connectorVars
===============================================================================
