---------------------------- MODULE SessionsProofs ----------------------------
(***************************************************************************)
(* Proofs about Sessions and ConnectorPages, for any number of users,      *)
(* cookies, nonces, products, authorization requests and request threads.  *)
(* Everything is proved of SessionStep, which is a step of either          *)
(* specification as far as the variables of Sessions are concerned.        *)
(***************************************************************************)
EXTENDS ConnectorPages, TLAPS

SessionStep ==
  \/ Next
  \/ \E w \in Workers : ConnectorPage(w)
  \/ UNCHANGED vars

-------------------------------------------------------------------------------
(* The inductive invariant.                                                *)

SameOwner(x, y) == x.user = y.user /\ x.tag = y.tag

PagesToOwner(data) ==
  \A p \in Products : data.consent[p] # None => data.consent[p].user = data.user

\* No tag is ahead of its account's.
PastTag(u, t) == u # None => t <= account[u].tag

\* A stored session: its cookie was drawn, its pages are its user's.
RowInv(d) ==
  sess[d] # NoRow =>
    /\ d \in drawn
    /\ PagesToOwner(sess[d])
    /\ PastTag(sess[d].user, sess[d].tag)

\* A request at stage s that remembers r: whatever it may still write into the row
\* it came from leaves the row with the identity it has.
RequestInv(s, r) ==
  /\ s \in {"checked", "identified"} => r.who \in Users
  /\ s \in {"asked", "approved"} => r.code \in Consent
  /\ r.code # None => r.code \in shown
  /\ PagesToOwner(r.data)
  /\ PastTag(r.data.user, r.data.tag)
  /\ PastTag(r.who, r.tag)
  /\ r.digest # None => r.digest \in drawn
  /\ r.digest # None /\ sess[r.digest] # NoRow /\ (s # "save" \/ r.data # Empty)
       => SameOwner(r.data, sess[r.digest])

\* A consent page somebody has, in a session, in a request or on display.
Has(data, c) == \E p \in Products : data.consent[p] = c

InUse(c) ==
  \/ c \in shown
  \/ \E d \in Digests : sess[d] # NoRow /\ Has(sess[d], c)
  \/ \E w \in Workers : Has(req[w].data, c)

\* A nonce stands for one page.
OnePageEach ==
  /\ \A c \in Consent : InUse(c) => c.nonce \in drawn
  /\ \A c1, c2 \in Consent : InUse(c1) /\ InUse(c2) /\ c1.nonce = c2.nonce => c1 = c2

Inv ==
  /\ TypeOK
  /\ \A d \in Digests : RowInv(d)
  /\ \A w \in Workers : RequestInv(pc[w], req[w])
  /\ OnePageEach
  /\ CodeWasConsented

\* What no step does: bring a deleted session back, hand a session to another user,
\* turn an account's tag back, forget a page or a drawn value.
Frame ==
  /\ \A d \in Digests :
       sess'[d] # NoRow => \/ d \notin drawn
                           \/ sess[d] # NoRow /\ SameOwner(sess'[d], sess[d])
  /\ \A u \in Users : account[u].tag <= account'[u].tag
  /\ shown \subseteq shown'
  /\ drawn \subseteq drawn'

-------------------------------------------------------------------------------
LEMMA NullFacts ==
  /\ None \notin Users /\ None \notin Digests /\ None \notin Flows
  /\ None \notin Consent /\ None \notin Pending /\ NoRow \notin Session
BY NullAssumption

LEMMA EmptyFacts ==
  /\ Empty \in Session /\ Empty.user = None /\ Empty.tag = 0
  /\ \A p \in Products : Empty.consent[p] = None
BY DEF Empty, Session, Nothing

LEMMA NoRequestFacts ==
  /\ NoRequest \in Request
  /\ NoRequest.digest = None /\ NoRequest.who = None /\ NoRequest.code = None
  /\ NoRequest.data = Empty /\ NoRequest.tag = 0
BY EmptyFacts DEF NoRequest, Request

\* A request that remembers nothing.
LEMMA Forgotten ==
  ASSUME NEW s \in {"idle", "open"}
  PROVE  RequestInv(s, NoRequest)
BY NullFacts, EmptyFacts, NoRequestFacts DEF RequestInv, PagesToOwner, PastTag

\* What a request may assume survives the steps of the others.
LEMMA OthersKeep ==
  ASSUME Inv, Frame, TypeOK', NEW w \in Workers, pc'[w] = pc[w], req'[w] = req[w]
  PROVE  RequestInv(pc[w], req[w])'
<1> DEFINE s == pc[w]
           r == req[w]
<1>1. /\ s \in Stages /\ r \in Request /\ RequestInv(s, r)
      /\ s' = s /\ r' = r
  BY DEF Inv, TypeOK
<1>2. /\ r.data.user \in Users \cup {None} /\ r.who \in Users \cup {None}
      /\ r.data.tag \in Nat /\ r.tag \in Nat
      /\ r.digest \in Digests \cup {None}
  BY <1>1 DEF Request, Session
<1>3. \A u \in Users : account[u].tag \in Nat /\ account'[u].tag \in Nat
                       /\ account[u].tag <= account'[u].tag
  BY DEF Inv, TypeOK, Frame
<1>4. PastTag(r.data.user, r.data.tag)' /\ PastTag(r.who, r.tag)'
  BY <1>1, <1>2, <1>3 DEF RequestInv, PastTag
<1>5. r.digest # None => r.digest \in drawn'
  BY <1>1 DEF RequestInv, Frame
<1>6. r.code # None => r.code \in shown'
  BY <1>1 DEF RequestInv, Frame
<1>7. ASSUME r.digest # None, sess'[r.digest] # NoRow, s # "save" \/ r.data # Empty
      PROVE  SameOwner(r.data, sess'[r.digest])
  <2>1. r.digest \in Digests /\ r.digest \in drawn
    BY <1>1, <1>2, <1>7 DEF RequestInv
  <2>2. sess[r.digest] # NoRow /\ SameOwner(sess'[r.digest], sess[r.digest])
    BY <2>1, <1>7 DEF Frame
  <2> QED BY <2>2, <1>1, <1>7 DEF RequestInv, SameOwner
<1> HIDE DEF s, r
<1>8. RequestInv(s, r)'
  BY <1>1, <1>4, <1>5, <1>6, <1>7 DEF RequestInv, PagesToOwner
<1> QED BY <1>8 DEF s, r

\* The parts of the invariant about the next state, put together.  x is the page
\* that a step adds, if any.
LEMMA Together ==
  ASSUME Inv, Frame, TypeOK', NEW x,
         x \in Consent => x.nonce \in drawn' \ drawn,
         \A c \in Consent : InUse(c)' => InUse(c) \/ c = x,
         \A d \in Digests : RowInv(d)',
         \A w \in Workers : \/ pc'[w] = pc[w] /\ req'[w] = req[w]
                            \/ RequestInv(pc[w], req[w])',
         codes' \subseteq shown'
  PROVE  Inv'
<1>1. \A w \in Workers : RequestInv(pc[w], req[w])'
  BY OthersKeep
<1>2. OnePageEach'
  <2>1. \A c \in Consent : InUse(c)' => c.nonce \in drawn'
    BY DEF Inv, OnePageEach, Frame
  <2>2. ASSUME NEW c1 \in Consent, NEW c2 \in Consent,
               InUse(c1)', InUse(c2)', c1.nonce = c2.nonce
        PROVE  c1 = c2
    <3>1. CASE InUse(c1) /\ InUse(c2)
      BY <2>2, <3>1 DEF Inv, OnePageEach
    <3>2. CASE c1 = x /\ InUse(c2)
      BY <2>2, <3>2 DEF Inv, OnePageEach
    <3>3. CASE c2 = x /\ InUse(c1)
      BY <2>2, <3>3 DEF Inv, OnePageEach
    <3> QED BY <2>2, <3>1, <3>2, <3>3
  <2> QED BY <2>1, <2>2 DEF OnePageEach
<1> QED BY <1>1, <1>2 DEF Inv, CodeWasConsented

-------------------------------------------------------------------------------
(* Steps that write no session, or delete some.                            *)

LEMMA Moved ==
  ASSUME Inv, NEW w \in Workers, NEW s \in Stages, NEW r \in Request, Goto(w, s, r)
  PROVE  /\ pc' \in [Workers -> Stages] /\ req' \in [Workers -> Request]
         /\ pc'[w] = s /\ req'[w] = r
         /\ \A v \in Workers \ {w} : pc'[v] = pc[v] /\ req'[v] = req[v]
BY DEF Goto, Inv, TypeOK

\* Request w moves on; sessions are at most deleted.  x is a new page, if any.
LEMMA Local ==
  ASSUME Inv, NEW w \in Workers,
         pc' \in [Workers -> Stages], req' \in [Workers -> Request],
         \A v \in Workers \ {w} : pc'[v] = pc[v] /\ req'[v] = req[v],
         RequestInv(pc[w], req[w])',
         shown' = shown,
         sess' \in [Digests -> Session \cup {NoRow}],
         \A d \in Digests : sess'[d] \in {sess[d], NoRow},
         account' \in [Users -> [status : Row!Statuses, tag : Nat]],
         \A u \in Users : account[u].tag <= account'[u].tag,
         drawn \subseteq drawn', drawn' \subseteq Digests \cup Nonces,
         uses' \in [Nonces -> Nat], codes' \subseteq shown,
         NEW x, x \in Consent => x.nonce \in drawn' \ drawn,
         \A p \in Products : req'[w].data.consent[p] \in {None, x, req[w].data.consent[p]}
  PROVE  Inv' /\ Frame
<1>1. TypeOK'
  BY DEF Inv, TypeOK
<1>2. Frame
  BY DEF Frame, SameOwner
<1>3. \A d \in Digests : RowInv(d)'
  <2> SUFFICES ASSUME NEW d \in Digests, sess'[d] # NoRow
               PROVE  /\ d \in drawn'
                      /\ PagesToOwner(sess[d])'
                      /\ PastTag(sess[d].user, sess[d].tag)'
    BY DEF RowInv
  <2>1. sess'[d] = sess[d] /\ sess[d] \in Session /\ RowInv(d)
    BY DEF Inv, TypeOK
  <2>2. /\ sess[d].user \in Users \cup {None} /\ sess[d].tag \in Nat
        /\ \A u \in Users : account[u].tag \in Nat /\ account'[u].tag \in Nat
    BY <2>1 DEF Session, Inv, TypeOK
  <2> QED BY <2>1, <2>2 DEF RowInv, PastTag, PagesToOwner
<1>4. ASSUME NEW c \in Consent, InUse(c)' PROVE InUse(c) \/ c = x
  <2>1. CASE c \in shown'
    BY <2>1 DEF InUse
  <2>2. CASE \E d \in Digests : sess'[d] # NoRow /\ Has(sess'[d], c)
    BY <2>2 DEF InUse
  <2>3. CASE \E v \in Workers : Has(req'[v].data, c)
    <3>1. PICK v \in Workers : Has(req'[v].data, c)
      BY <2>3
    <3>2. CASE v # w
      BY <3>1, <3>2 DEF InUse
    <3>3. CASE v = w
      BY <3>1, <3>3, NullFacts DEF InUse, Has
    <3> QED BY <3>2, <3>3
  <2> QED BY <1>4, <2>1, <2>2, <2>3 DEF InUse, Has
<1>5. \A v \in Workers : \/ pc'[v] = pc[v] /\ req'[v] = req[v]
                         \/ RequestInv(pc[v], req[v])'
  OBVIOUS
<1>6. codes' \subseteq shown'
  OBVIOUS
<1> HIDE DEF Inv
<1> QED BY <1>1, <1>2, <1>3, <1>4, <1>5, <1>6, Together

\* The tables as they are, for Local.
LEMMA TablesKept ==
  ASSUME Inv
  PROVE  /\ sess \in [Digests -> Session \cup {NoRow}]
         /\ account \in [Users -> [status : Row!Statuses, tag : Nat]]
         /\ \A u \in Users : account[u].tag \in Nat /\ account[u].tag <= account[u].tag
         /\ drawn \subseteq Digests \cup Nonces
         /\ uses \in [Nonces -> Nat] /\ codes \subseteq shown
         /\ shown \subseteq Consent
BY DEF Inv, TypeOK, CodeWasConsented

\* Request w ends, or begins with a new session.
LEMMA Rests ==
  ASSUME Inv, NEW w \in Workers, NEW s \in {"idle", "open"}, Goto(w, s, NoRequest),
         sess' \in [Digests -> Session \cup {NoRow}],
         \A d \in Digests : sess'[d] \in {sess[d], NoRow},
         UNCHANGED <<account, drawn, shown, codes, uses>>
  PROVE  Inv' /\ Frame
<1>1. s \in Stages
  BY DEF Stages
<1>2. /\ pc' \in [Workers -> Stages] /\ req' \in [Workers -> Request]
      /\ pc'[w] = s /\ req'[w] = NoRequest
      /\ \A v \in Workers \ {w} : pc'[v] = pc[v] /\ req'[v] = req[v]
  BY <1>1, NoRequestFacts, Moved
<1>3. RequestInv(pc[w], req[w])'
  BY <1>2, NullFacts, EmptyFacts, NoRequestFacts DEF RequestInv, PagesToOwner, PastTag
<1>4. \A p \in Products : req'[w].data.consent[p] \in {None, req[w].data.consent[p]}
  BY <1>2, NoRequestFacts, EmptyFacts
<1>5. None \notin Consent
  BY NullFacts
<1> QED BY <1>2, <1>3, <1>4, <1>5, TablesKept, Local

\* A copy of the session that kept its identity and gained no page.
Edited(data, y) ==
  /\ y \in Session
  /\ SameOwner(y, data)
  /\ \A p \in Products : y.consent[p] \in {None, data.consent[p]}

\* Request w goes on with an edited copy; who it logs in and its code may be set.
LEMMA Edits ==
  ASSUME Inv, NEW w \in Workers, NEW s \in Stages, NEW r \in Request, Goto(w, s, r),
         pc[w] # "save", r.digest = req[w].digest, Edited(req[w].data, r.data),
         PastTag(r.who, r.tag),
         s \in {"checked", "identified"} => r.who \in Users,
         s \in {"asked", "approved"} => r.code \in Consent,
         r.code # None => r.code \in shown,
         uses' \in [Nonces -> Nat], codes' \subseteq shown,
         UNCHANGED <<account, sess, drawn, shown>>
  PROVE  Inv' /\ Frame
<1>1. /\ pc' \in [Workers -> Stages] /\ req' \in [Workers -> Request]
      /\ pc'[w] = s /\ req'[w] = r
      /\ \A v \in Workers \ {w} : pc'[v] = pc[v] /\ req'[v] = req[v]
  BY Moved
<1>2. RequestInv(pc[w], req[w])
  BY DEF Inv
<1>3. RequestInv(pc[w], req[w])'
  <2>1. PagesToOwner(r.data)
    BY <1>2, NullFacts DEF RequestInv, PagesToOwner, Edited, SameOwner
  <2>2. PastTag(r.data.user, r.data.tag)
    BY <1>2 DEF RequestInv, Edited, SameOwner
  <2>3. r.digest # None /\ sess[r.digest] # NoRow => SameOwner(r.data, sess[r.digest])
    BY <1>2 DEF RequestInv, Edited, SameOwner
  <2>4. r.digest # None => r.digest \in drawn
    BY <1>2 DEF RequestInv
  <2> QED BY <1>1, <2>1, <2>2, <2>3, <2>4 DEF RequestInv, PagesToOwner, PastTag
<1>4. \A p \in Products : req'[w].data.consent[p] \in {None, req[w].data.consent[p]}
  BY <1>1 DEF Edited
<1>5. None \notin Consent
  BY NullFacts
<1> QED BY <1>1, <1>3, <1>4, <1>5, TablesKept, Local

\* The session is emptied; others may be deleted and tags go on.
LEMMA Wipes ==
  ASSUME Inv, NEW w \in Workers, pc[w] = "open", SaveLater(w, Empty),
         sess' \in [Digests -> Session \cup {NoRow}],
         \A d \in Digests : sess'[d] \in {sess[d], NoRow},
         account' \in [Users -> [status : Row!Statuses, tag : Nat]],
         \A u \in Users : account[u].tag <= account'[u].tag,
         UNCHANGED <<drawn, shown, codes, uses>>
  PROVE  Inv' /\ Frame
<1> DEFINE r == [req[w] EXCEPT !.data = Empty]
<1>1. req[w] \in Request /\ RequestInv(pc[w], req[w]) /\ "save" \in Stages
  BY DEF Inv, TypeOK, Stages
<1>2. /\ r \in Request /\ r.data = Empty
      /\ r.digest = req[w].digest /\ r.who = req[w].who /\ r.tag = req[w].tag
      /\ r.code = req[w].code
  BY <1>1, EmptyFacts DEF Request
<1>3. Goto(w, "save", r)
  BY DEF SaveLater
<1> HIDE DEF r
<1>4. /\ pc' \in [Workers -> Stages] /\ req' \in [Workers -> Request]
      /\ pc'[w] = "save" /\ req'[w] = r
      /\ \A v \in Workers \ {w} : pc'[v] = pc[v] /\ req'[v] = req[v]
  BY <1>1, <1>2, <1>3, Moved
<1>5. RequestInv(pc[w], req[w])'
  <2>1. PagesToOwner(Empty) /\ Empty.user = None
    BY EmptyFacts DEF PagesToOwner
  <2>2. r.who # None => r.tag <= account'[r.who].tag
    <3>1. /\ r.who \in Users \cup {None} /\ r.tag \in Nat
          /\ \A u \in Users : account[u].tag \in Nat /\ account'[u].tag \in Nat
      BY <1>2, TablesKept DEF Request
    <3>2. r.who # None => r.tag <= account[r.who].tag
      BY <1>1, <1>2 DEF RequestInv, PastTag
    <3> QED BY <3>1, <3>2
  <2>3. r.digest # None => r.digest \in drawn
    BY <1>1, <1>2 DEF RequestInv
  <2>4. r.code # None => r.code \in shown
    BY <1>1, <1>2 DEF RequestInv
  <2> QED BY <1>2, <1>4, <2>1, <2>2, <2>3, <2>4 DEF RequestInv, PagesToOwner, PastTag
<1>6. \A p \in Products : req'[w].data.consent[p] = None
  BY <1>2, <1>4, EmptyFacts
<1>7. None \notin Consent
  BY NullFacts
<1>8. /\ shown' = shown /\ drawn' \subseteq Digests \cup Nonces /\ drawn \subseteq drawn'
      /\ uses' \in [Nonces -> Nat] /\ codes' \subseteq shown
  BY TablesKept
<1> QED BY <1>4, <1>5, <1>6, <1>7, <1>8, Local

-------------------------------------------------------------------------------
(* Steps that write a session.                                             *)

\* Request w stores its copy in row d, or finds the row gone, and ends.
LEMMA Saves ==
  ASSUME Inv, NEW w \in Workers, NEW d \in Digests,
         sess' \in [Digests -> Session \cup {NoRow}],
         \A e \in Digests \ {d} : sess'[e] = sess[e],
         sess'[d] # NoRow =>
           /\ sess'[d] = req[w].data
           /\ \/ d \notin drawn
              \/ sess[d] # NoRow /\ SameOwner(req[w].data, sess[d]),
         drawn' = drawn \cup {d}, Display(req[w].data), Finish(w),
         UNCHANGED <<account, codes, uses>>
  PROVE  Inv' /\ Frame
<1> DEFINE data == req[w].data
<1>1. data \in Session /\ RequestInv(pc[w], req[w])
  BY DEF Inv, TypeOK, Request
<1>2. /\ pc' \in [Workers -> Stages] /\ req' \in [Workers -> Request]
      /\ pc'[w] = "idle" /\ req'[w] = NoRequest
      /\ \A v \in Workers \ {w} : pc'[v] = pc[v] /\ req'[v] = req[v]
  BY NoRequestFacts, Moved DEF Finish, Stages
<1>3. \A c \in Consent : c \in shown' => c \in shown \/ Has(data, c)
  BY DEF Display, Has
<1>4. shown \subseteq shown' /\ shown' \subseteq Consent
  BY <1>1, TablesKept DEF Display, Session
<1>5. TypeOK'
  BY <1>2, <1>4 DEF Inv, TypeOK
<1>6. Frame
  BY <1>4, TablesKept DEF Frame, SameOwner
<1>7. \A e \in Digests : RowInv(e)'
  <2> SUFFICES ASSUME NEW e \in Digests, sess'[e] # NoRow
               PROVE  /\ e \in drawn'
                      /\ PagesToOwner(sess[e])'
                      /\ PastTag(sess[e].user, sess[e].tag)'
    BY DEF RowInv
  <2>1. CASE e = d
    BY <1>1, <2>1 DEF RequestInv, PagesToOwner, PastTag
  <2>2. CASE e # d
    <3>1. sess'[e] = sess[e] /\ RowInv(e)
      BY <2>2 DEF Inv
    <3> QED BY <3>1 DEF RowInv, PagesToOwner, PastTag
  <2> QED BY <2>1, <2>2
<1>8. ASSUME NEW c \in Consent, InUse(c)' PROVE InUse(c)
  <2>1. Has(data, c) => InUse(c)
    BY DEF InUse
  <2>2. CASE c \in shown'
    BY <2>1, <2>2, <1>3 DEF InUse
  <2>3. CASE \E e \in Digests : sess'[e] # NoRow /\ Has(sess'[e], c)
    BY <2>1, <2>3 DEF InUse
  <2>4. CASE \E v \in Workers : Has(req'[v].data, c)
    <3>1. ~Has(NoRequest.data, c)
      BY NoRequestFacts, EmptyFacts, NullFacts DEF Has
    <3> QED BY <2>4, <3>1, <1>2 DEF InUse
  <2> QED BY <1>8, <2>2, <2>3, <2>4 DEF InUse, Has
<1>9. RequestInv(pc[w], req[w])'
  BY <1>2, NullFacts, EmptyFacts, NoRequestFacts DEF RequestInv, PagesToOwner, PastTag
<1>10. \A v \in Workers : \/ pc'[v] = pc[v] /\ req'[v] = req[v]
                          \/ RequestInv(pc[v], req[v])'
  BY <1>2, <1>9
<1>11. None \notin Consent /\ codes' \subseteq shown'
  BY <1>4, NullFacts, TablesKept
<1> HIDE DEF Inv, data
<1> QED BY <1>5, <1>6, <1>7, <1>8, <1>10, <1>11, Together

LEMMA SaveNewHolds ==
  ASSUME Inv, NEW w \in Workers, NEW d \in Digests, SaveNew(w, d)
  PROVE  Inv' /\ Frame
<1>1. req[w].data \in Session /\ sess \in [Digests -> Session \cup {NoRow}]
  BY DEF Inv, TypeOK, Request
<1>2. /\ sess' \in [Digests -> Session \cup {NoRow}] /\ sess'[d] = req[w].data
      /\ \A e \in Digests \ {d} : sess'[e] = sess[e]
  BY <1>1 DEF SaveNew
<1> QED BY <1>2, Saves DEF SaveNew

LEMMA SaveOldHolds ==
  ASSUME Inv, NEW w \in Workers, SaveOld(w)
  PROVE  Inv' /\ Frame
<1> DEFINE d == req[w].digest
<1>1. /\ req[w].data \in Session /\ sess \in [Digests -> Session \cup {NoRow}]
      /\ d \in Digests /\ RequestInv(pc[w], req[w])
  BY DEF Inv, TypeOK, Request, SaveOld
<1>2. /\ sess' \in [Digests -> Session \cup {NoRow}]
      /\ sess'[d] = IF sess[d] = NoRow THEN NoRow ELSE req[w].data
      /\ \A e \in Digests \ {d} : sess'[e] = sess[e]
  BY <1>1 DEF SaveOld, Overwrite
<1>3. sess[d] # NoRow => SameOwner(req[w].data, sess[d])
  BY <1>1, NullFacts DEF SaveOld, RequestInv
<1>4. d \in drawn /\ drawn' = drawn \cup {d}
  BY <1>1, NullFacts DEF SaveOld, RequestInv
<1> HIDE DEF d
<1> QED BY <1>1, <1>2, <1>3, <1>4, Saves DEF SaveOld

-------------------------------------------------------------------------------
(* The steps that are neither edits nor saves.                             *)

LEMMA OpenHolds ==
  ASSUME Inv, NEW w \in Workers, NEW d \in Digests, Open(w, d)
  PROVE  Inv' /\ Frame
<1> DEFINE r == [NoRequest EXCEPT !.digest = d, !.data = sess[d]]
<1>1. sess[d] # NoRow /\ sess[d] \in Session /\ RowInv(d) /\ "open" \in Stages
  BY DEF Inv, TypeOK, Open, Stages
<1>2. /\ r \in Request /\ r.data = sess[d] /\ r.digest = d
      /\ r.who = None /\ r.code = None
  BY <1>1, NoRequestFacts DEF Request, NoRequest
<1>3. Goto(w, "open", r) /\ UNCHANGED <<account, sess, drawn, shown, codes, uses>>
  BY DEF Open
<1> HIDE DEF r
<1>4. /\ pc' \in [Workers -> Stages] /\ req' \in [Workers -> Request]
      /\ pc'[w] = "open" /\ req'[w] = r
      /\ \A v \in Workers \ {w} : pc'[v] = pc[v] /\ req'[v] = req[v]
  BY <1>1, <1>2, <1>3, Moved
<1>5. RequestInv(pc[w], req[w])'
  BY <1>1, <1>2, <1>3, <1>4 DEF RequestInv, RowInv, PagesToOwner, PastTag, SameOwner
<1>6. TypeOK'
  BY <1>3, <1>4 DEF Inv, TypeOK
<1>7. Frame
  BY <1>3, TablesKept DEF Frame, SameOwner
<1>8. \A e \in Digests : RowInv(e)'
  BY <1>3 DEF Inv, RowInv, PagesToOwner, PastTag
<1>9. ASSUME NEW c \in Consent, InUse(c)' PROVE InUse(c)
  BY <1>1, <1>2, <1>3, <1>4, <1>9 DEF InUse, Has
<1>10. \A v \in Workers : \/ pc'[v] = pc[v] /\ req'[v] = req[v]
                          \/ RequestInv(pc[v], req[v])'
  BY <1>4, <1>5
<1>11. None \notin Consent /\ codes' \subseteq shown'
  BY <1>3, NullFacts, TablesKept
<1> HIDE DEF Inv
<1> QED BY <1>6, <1>7, <1>8, <1>9, <1>10, <1>11, Together

LEMMA SignedInFacts ==
  ASSUME NEW r \in Request, r.who \in Users, NEW kept \in [Products -> Pending \cup {None}]
  PROVE  /\ SignedIn(r, kept) \in Session
         /\ SignedIn(r, kept).user = r.who
         /\ SignedIn(r, kept).tag = r.tag
         /\ \A p \in Products : SignedIn(r, kept).consent[p] = None
BY DEF SignedIn, Empty, Session, Nothing, Request

LEMMA RotateHolds ==
  ASSUME Inv, NEW w \in Workers, Rotate(w)
  PROVE  /\ Inv' /\ Frame
         /\ req'[w].data.user = req[w].who /\ req'[w].data.tag = req[w].tag
         /\ req[w].who \in Users
<1>1. /\ req[w] \in Request /\ RequestInv(pc[w], req[w]) /\ req[w].who \in Users
      /\ "save" \in Stages
  BY DEF Inv, TypeOK, Rotate, RequestInv, Stages
<1>2. PICK fresh \in SUBSET Products :
        Goto(w, "save", [NoRequest EXCEPT !.data = SignedIn(req[w],
               [p \in Products |-> IF p \in fresh THEN req[w].data.pending[p] ELSE None])])
  BY DEF Rotate
<1> DEFINE kept == [p \in Products |-> IF p \in fresh THEN req[w].data.pending[p] ELSE None]
           r == [NoRequest EXCEPT !.data = SignedIn(req[w], kept)]
<1>3. kept \in [Products -> Pending \cup {None}]
  BY <1>1 DEF Request, Session
<1>4. /\ r.data \in Session /\ r.data.user = req[w].who /\ r.data.tag = req[w].tag
      /\ \A p \in Products : r.data.consent[p] = None
  BY <1>1, <1>3, SignedInFacts, NoRequestFacts DEF NoRequest
<1>5. r \in Request /\ r.digest = None /\ r.who = None /\ r.code = None
  BY <1>4, NoRequestFacts DEF NoRequest, Request
<1>6. Goto(w, "save", r)
  BY <1>2
<1> HIDE DEF r, kept
<1>7. /\ pc' \in [Workers -> Stages] /\ req' \in [Workers -> Request]
      /\ pc'[w] = "save" /\ req'[w] = r
      /\ \A v \in Workers \ {w} : pc'[v] = pc[v] /\ req'[v] = req[v]
  BY <1>1, <1>5, <1>6, Moved
<1>8. UNCHANGED <<account, drawn, shown, codes, uses>>
  BY DEF Rotate
<1>9. RequestInv(pc[w], req[w])'
  BY <1>1, <1>4, <1>5, <1>7, <1>8 DEF RequestInv, PagesToOwner, PastTag
<1>10. /\ sess' \in [Digests -> Session \cup {NoRow}]
       /\ \A d \in Digests : sess'[d] \in {sess[d], NoRow}
  BY TablesKept DEF Rotate, Delete
<1>11. \A p \in Products : req'[w].data.consent[p] = None
  BY <1>4, <1>7
<1>12. None \notin Consent
  BY NullFacts
<1>13. Inv' /\ Frame
  BY <1>7, <1>8, <1>9, <1>10, <1>11, <1>12, TablesKept, Local
<1> QED BY <1>1, <1>4, <1>7, <1>13

LEMMA AskConsentHolds ==
  ASSUME Inv, NEW w \in Workers, NEW f \in Flows, NEW n \in Nonces, AskConsent(w, f, n)
  PROVE  Inv' /\ Frame
<1> DEFINE data == req[w].data
           x == [nonce |-> n, user |-> data.user, flow |-> f]
           y == [data EXCEPT !.consent[ProductOf[f]] = x, !.csrf = TRUE]
           r == [req[w] EXCEPT !.data = y]
<1>1. /\ req[w] \in Request /\ data \in Session /\ RequestInv(pc[w], req[w])
      /\ "save" \in Stages /\ ProductOf[f] \in Products
  BY ProductAssumption DEF Inv, TypeOK, Request, Stages
<1>2. /\ pc[w] = "open" /\ data.user # None /\ n \notin drawn /\ drawn' = drawn \cup {n}
      /\ UNCHANGED <<account, sess, shown, codes, uses>>
  BY DEF AskConsent, Current
<1>3. x \in Consent
  BY <1>1, <1>2 DEF Consent, Session
<1>4. y = [data EXCEPT !.consent = [data.consent EXCEPT ![ProductOf[f]] = x], !.csrf = TRUE]
  BY <1>1 DEF Session
<1>5. [data.consent EXCEPT ![ProductOf[f]] = x] \in [Products -> Consent \cup {None}]
  BY <1>1, <1>3 DEF Session
<1>6. /\ y \in Session /\ y.user = data.user /\ y.tag = data.tag
      /\ \A p \in Products : y.consent[p] = IF p = ProductOf[f] THEN x ELSE data.consent[p]
  <2> DEFINE cs == [data.consent EXCEPT ![ProductOf[f]] = x]
  <2>1. \A p \in Products : cs[p] = IF p = ProductOf[f] THEN x ELSE data.consent[p]
    BY <1>1 DEF Session
  <2>2. y.consent = cs
    BY <1>1, <1>4 DEF Session
  <2>3. y \in Session /\ y.user = data.user /\ y.tag = data.tag
    BY <1>1, <1>4, <1>5 DEF Session
  <2> QED BY <2>1, <2>2, <2>3
<1>7. /\ r \in Request /\ r.data = y
      /\ r.digest = req[w].digest /\ r.who = req[w].who /\ r.tag = req[w].tag
      /\ r.code = req[w].code
  BY <1>1, <1>6 DEF Request
<1>8. Goto(w, "save", r)
  BY DEF AskConsent, SaveLater
<1>9. x.user = data.user /\ x.nonce = n
  OBVIOUS
<1> HIDE DEF r, y, x
<1>10. /\ pc' \in [Workers -> Stages] /\ req' \in [Workers -> Request]
       /\ pc'[w] = "save" /\ req'[w] = r
       /\ \A v \in Workers \ {w} : pc'[v] = pc[v] /\ req'[v] = req[v]
  BY <1>1, <1>7, <1>8, Moved
<1>11. RequestInv(pc[w], req[w])'
  <2>1. PagesToOwner(y)
    BY <1>1, <1>6, <1>9 DEF PagesToOwner, RequestInv
  <2>2. PastTag(y.user, y.tag)
    BY <1>1, <1>6 DEF RequestInv
  <2>3. r.digest # None /\ sess[r.digest] # NoRow => SameOwner(y, sess[r.digest])
    BY <1>1, <1>2, <1>6, <1>7 DEF RequestInv, SameOwner
  <2> QED BY <1>1, <1>2, <1>7, <1>10, <2>1, <2>2, <2>3 DEF RequestInv, PagesToOwner, PastTag
<1>12. \A p \in Products : req'[w].data.consent[p] \in {None, x, req[w].data.consent[p]}
  BY <1>6, <1>7, <1>10
<1>13. x \in Consent => x.nonce \in drawn' \ drawn
  BY <1>2, <1>9
<1> QED BY <1>2, <1>10, <1>11, <1>12, <1>13, TablesKept, Local

-------------------------------------------------------------------------------
(* The edits.                                                              *)

LEMMA PageTaken ==
  ASSUME NEW data \in Session, NEW p \in Products
  PROVE  Edited(data, [data EXCEPT !.consent[p] = None])
<1> DEFINE cs == [data.consent EXCEPT ![p] = None]
           y == [data EXCEPT !.consent = cs]
<1>1. /\ cs \in [Products -> Consent \cup {None}]
      /\ \A q \in Products : cs[q] \in {None, data.consent[q]}
  BY DEF Session
<1>2. y = [data EXCEPT !.consent[p] = None]
  BY DEF Session
<1>3. y \in Session /\ y.consent = cs /\ y.user = data.user /\ y.tag = data.tag
  BY <1>1 DEF Session
<1> QED BY <1>1, <1>2, <1>3 DEF Edited, SameOwner

LEMMA PendingSet ==
  ASSUME NEW data \in Session, NEW p \in Products, NEW x \in Pending \cup {None}
  PROVE  Edited(data, [data EXCEPT !.pending[p] = x])
<1> DEFINE ps == [data.pending EXCEPT ![p] = x]
           y == [data EXCEPT !.pending = ps]
<1>1. ps \in [Products -> Pending \cup {None}]
  BY DEF Session
<1>2. y = [data EXCEPT !.pending[p] = x]
  BY DEF Session
<1>3. y \in Session /\ y.consent = data.consent /\ y.user = data.user /\ y.tag = data.tag
  BY <1>1 DEF Session
<1> QED BY <1>2, <1>3 DEF Edited, SameOwner

LEMMA TokenSet ==
  ASSUME NEW data \in Session
  PROVE  Edited(data, [data EXCEPT !.csrf = TRUE])
BY DEF Edited, Session, SameOwner

LEMMA RequestFacts ==
  ASSUME Inv, NEW w \in Workers
  PROVE  /\ req[w] \in Request /\ req[w].data \in Session
         /\ RequestInv(pc[w], req[w])
         /\ Edited(req[w].data, req[w].data)
BY DEF Inv, TypeOK, Request, Session, Edited, SameOwner

\* The handler edits the session and the request goes on to save it.
LEMMA SaveLaterHolds ==
  ASSUME Inv, NEW w \in Workers, pc[w] = "open", NEW y, Edited(req[w].data, y),
         SaveLater(w, y), UNCHANGED <<account, sess, drawn, shown, codes, uses>>
  PROVE  Inv' /\ Frame
<1> DEFINE r == [req[w] EXCEPT !.data = y]
<1>1. /\ r \in Request /\ r.data = y
      /\ r.digest = req[w].digest /\ r.who = req[w].who /\ r.tag = req[w].tag
      /\ r.code = req[w].code
  BY RequestFacts DEF Request, Edited
<1>2. Goto(w, "save", r) /\ "save" \in Stages
  BY DEF SaveLater, Stages
<1>3. PastTag(req[w].who, req[w].tag) /\ (req[w].code # None => req[w].code \in shown)
  BY RequestFacts DEF RequestInv
<1>4. uses' \in [Nonces -> Nat] /\ codes' \subseteq shown
  BY TablesKept
<1> HIDE DEF r
<1> QED BY <1>1, <1>2, <1>3, <1>4, Edits

\* Request r is request q with an edited session, with or without its code.
EditedRequest(q, r) ==
  /\ r \in Request
  /\ r.digest = q.digest /\ r.who = q.who /\ r.tag = q.tag
  /\ Edited(q.data, r.data)
  /\ r.code \in {None, q.code}

\* The request loses its code, or moves on with it.
LEMMA CodeHolds ==
  ASSUME Inv, NEW w \in Workers, NEW s \in {"approved", "save"}, NEW r \in Request,
         pc[w] \in {"open", "asked", "approved"}, EditedRequest(req[w], r),
         s = "approved" => pc[w] = "asked" /\ r = req[w],
         Goto(w, s, r),
         uses' \in [Nonces -> Nat], codes' \subseteq shown,
         UNCHANGED <<account, sess, drawn, shown>>
  PROVE  Inv' /\ Frame
<1>1. PastTag(r.who, r.tag) /\ (r.code # None => r.code \in shown)
  BY RequestFacts DEF RequestInv, EditedRequest
<1>2. s = "approved" => r.code \in Consent
  BY RequestFacts DEF RequestInv
<1>3. s \in Stages
  BY DEF Stages
<1> QED BY <1>1, <1>2, <1>3, Edits DEF EditedRequest

LEMMA CodeDropped ==
  ASSUME Inv, NEW w \in Workers
  PROVE  EditedRequest(req[w], [req[w] EXCEPT !.code = None])
BY RequestFacts DEF EditedRequest, Request

LEMMA LoginHolds ==
  ASSUME Inv, NEW w \in Workers, NEW u \in Users, Login(w, u)
  PROVE  Inv' /\ Frame
<1> DEFINE r == [req[w] EXCEPT !.who = u, !.tag = account[u].tag]
<1>1. account[u].tag \in Nat
  BY TablesKept
<1>2. /\ r \in Request /\ r.data = req[w].data /\ r.code = req[w].code
      /\ r.digest = req[w].digest /\ r.who = u /\ r.tag = account[u].tag
  BY <1>1, RequestFacts DEF Request
<1>3. PastTag(r.who, r.tag) /\ (r.code # None => r.code \in shown)
  BY <1>1, <1>2, RequestFacts DEF RequestInv, PastTag
<1>4. Edited(req[w].data, r.data)
  BY <1>2, RequestFacts
<1>5. /\ Goto(w, "checked", r) /\ "checked" \in Stages /\ pc[w] # "save"
      /\ UNCHANGED <<account, sess, drawn, shown, codes, uses>>
  BY DEF Login, MayPost, Stages
<1>6. uses' \in [Nonces -> Nat] /\ codes' \subseteq shown
  BY <1>5, TablesKept
<1> HIDE DEF r
<1> QED BY <1>2, <1>3, <1>4, <1>5, <1>6, Edits

LEMMA FinishLoginHolds ==
  ASSUME Inv, NEW w \in Workers, FinishLogin(w)
  PROVE  Inv' /\ Frame
<1>1. /\ Goto(w, "identified", req[w]) /\ "identified" \in Stages /\ pc[w] = "checked"
      /\ UNCHANGED <<account, sess, drawn, shown, codes, uses>>
  BY DEF FinishLogin, Stages
<1>2. /\ PastTag(req[w].who, req[w].tag) /\ req[w].who \in Users
      /\ req[w].code # None => req[w].code \in shown
  BY <1>1, RequestFacts DEF RequestInv
<1>3. uses' \in [Nonces -> Nat] /\ codes' \subseteq shown
  BY <1>1, TablesKept
<1>4. req[w].digest = req[w].digest
  OBVIOUS
<1> QED BY <1>1, <1>2, <1>3, <1>4, RequestFacts, Edits

\* The page that is approved is one that was shown, since a nonce stands for one page.
LEMMA ApproveHolds ==
  ASSUME Inv, NEW w \in Workers, NEW c \in shown, NEW f \in Flows,
         NEW s \in {"asked", "approved"}, Approve(w, c, f, s)
  PROVE  Inv' /\ Frame
<1> DEFINE data == req[w].data
           k == data.consent[ProductOf[f]]
           y == [data EXCEPT !.consent[ProductOf[f]] = None]
           code == [nonce |-> c.nonce, user |-> data.user, flow |-> f]
           r == [req[w] EXCEPT !.data = y, !.code = code]
<1>1. ProductOf[f] \in Products /\ c \in Consent
  BY ProductAssumption, TablesKept
<1>2. /\ k # None /\ k.nonce = c.nonce /\ k.user = data.user /\ k.flow = f
      /\ pc[w] = "open" /\ UNCHANGED <<account, sess, drawn, shown, codes, uses>>
  BY DEF Approve, Agreed, MayPost
<1>3. k \in Consent
  BY <1>1, <1>2, RequestFacts DEF Session
<1>4. InUse(k) /\ InUse(c)
  BY <1>1 DEF InUse, Has
<1>5. k = c
  BY <1>1, <1>2, <1>3, <1>4 DEF Inv, OnePageEach
<1>6. code = c
  BY <1>1, <1>2, <1>5 DEF Consent
<1>7. Edited(data, y)
  BY <1>1, RequestFacts, PageTaken
<1>8. r = [req[w] EXCEPT !.data.consent[ProductOf[f]] = None, !.code = code]
  BY RequestFacts DEF Request
<1>9. Goto(w, s, r) /\ s \in Stages
  BY <1>8 DEF Approve, Stages
<1> HIDE DEF y, code
<1>10. /\ r \in Request /\ r.data = y /\ r.code = c
       /\ r.digest = req[w].digest /\ r.who = req[w].who /\ r.tag = req[w].tag
  BY <1>1, <1>6, <1>7, RequestFacts DEF Request, Edited
<1>11. PastTag(r.who, r.tag)
  BY <1>10, RequestFacts DEF RequestInv
<1>12. uses' \in [Nonces -> Nat] /\ codes' \subseteq shown
  BY <1>2, TablesKept
<1> HIDE DEF r
<1> QED BY <1>1, <1>2, <1>7, <1>9, <1>10, <1>11, <1>12, Edits

-------------------------------------------------------------------------------
(* All steps together.                                                     *)

LEMMA LoadAndSaveHolds ==
  ASSUME Inv, NEW w \in Workers, LoadAndSave(w)
  PROVE  Inv' /\ Frame
<1> USE TablesKept
<1>1. CASE \E d \in Digests : Open(w, d)
  BY <1>1, OpenHolds
<1>2. CASE \E d \in Digests : SaveNew(w, d)
  BY <1>2, SaveNewHolds
<1>3. CASE OpenNew(w)
  BY <1>3, Rests DEF OpenNew
<1>4. CASE SaveCleared(w)
  BY <1>4, Rests DEF SaveCleared, Finish, Delete
<1>5. CASE SaveOld(w)
  BY <1>5, SaveOldHolds
<1>6. CASE Abandon(w)
  BY <1>6, Rests DEF Abandon, Finish
<1> QED BY <1>1, <1>2, <1>3, <1>4, <1>5, <1>6 DEF LoadAndSave

LEMMA AccountPagesHold ==
  ASSUME Inv, NEW w \in Workers, AccountPages(w)
  PROVE  Inv' /\ Frame
<1>1. CASE CsrfToken(w)
  BY <1>1, RequestFacts, TokenSet, SaveLaterHolds DEF CsrfToken
<1>2. CASE CurrentUser(w)
  BY <1>2, TablesKept, Wipes DEF CurrentUser
<1>3. CASE Logout(w)
  BY <1>3, TablesKept, Wipes DEF Logout, MayPost
<1>4. CASE FinishLogin(w)
  BY <1>4, FinishLoginHolds
<1>5. CASE Rotate(w)
  BY <1>5, RotateHolds
<1>6. CASE \E u \in Users : Login(w, u)
  BY <1>6, LoginHolds
<1>7. CASE \E u \in Users : ResetPassword(w, u)
  <2>1. PICK u \in Users : ResetPassword(w, u)
    BY <1>7
  <2>2. /\ sess' \in [Digests -> Session \cup {NoRow}]
        /\ \A d \in Digests : sess'[d] \in {sess[d], NoRow}
    BY <2>1, TablesKept DEF ResetPassword, Delete
  <2>3. /\ account' \in [Users -> [status : Row!Statuses, tag : Nat]]
        /\ \A v \in Users : account[v].tag <= account'[v].tag
    BY <2>1, TablesKept DEF ResetPassword, Row!Replace, Row!Statuses
  <2> QED BY <2>1, <2>2, <2>3, Wipes DEF ResetPassword, MayPost
<1> QED BY <1>1, <1>2, <1>3, <1>4, <1>5, <1>6, <1>7 DEF AccountPages

\* The steps that the pages of both products have.
LEMMA StorePendingHolds ==
  ASSUME Inv, NEW w \in Workers, NEW f \in Flows, StorePending(w, f)
  PROVE  Inv' /\ Frame
<1>1. [flow |-> f, user |-> None] \in Pending \cup {None} /\ ProductOf[f] \in Products
  BY ProductAssumption DEF Pending
<1> QED BY <1>1, RequestFacts, PendingSet, SaveLaterHolds DEF StorePending

LEMMA RefuseHolds ==
  ASSUME Inv, NEW w \in Workers, NEW p \in Products, Refuse(w, p)
  PROVE  Inv' /\ Frame
BY RequestFacts, PageTaken, SaveLaterHolds DEF Refuse, MayPost

LEMMA ResumeHolds ==
  ASSUME Inv, NEW w \in Workers, NEW p \in Products, Resume(w, p)
  PROVE  Inv' /\ Frame
BY RequestFacts, PendingSet, SaveLaterHolds DEF Resume

LEMMA CreateCodeHolds ==
  ASSUME Inv, NEW w \in Workers, CreateCode(w)
  PROVE  Inv' /\ Frame
<1>1. req[w].code \in Consent /\ pc[w] = "approved"
  BY RequestFacts DEF CreateCode, RequestInv
<1>2. req[w].code \in shown
  BY <1>1, NullFacts, RequestFacts DEF RequestInv
<1>3. uses' \in [Nonces -> Nat] /\ codes' \subseteq shown
  <2>1. req[w].code.nonce \in Nonces /\ uses[req[w].code.nonce] \in Nat
    BY <1>1, TablesKept DEF Consent
  <2> QED BY <1>2, <2>1, TablesKept DEF CreateCode
<1>4. Goto(w, "save", [req[w] EXCEPT !.code = None])
  BY DEF CreateCode
<1>5. UNCHANGED <<account, sess, drawn, shown>>
  BY DEF CreateCode
<1>6. /\ EditedRequest(req[w], [req[w] EXCEPT !.code = None])
      /\ [req[w] EXCEPT !.code = None] \in Request
  BY CodeDropped DEF EditedRequest
<1> QED BY <1>1, <1>3, <1>4, <1>5, <1>6, CodeHolds

LEMMA MailPagesHold ==
  ASSUME Inv, NEW w \in Workers, MailPages(w)
  PROVE  Inv' /\ Frame
<1>1. CASE \E f \in FlowsOf(Mail) : StorePending(w, f)
  BY <1>1, StorePendingHolds DEF FlowsOf
<1>2. CASE \E f \in FlowsOf(Mail), n \in Nonces : AskConsent(w, f, n)
  BY <1>2, AskConsentHolds DEF FlowsOf
<1>3. CASE \E f \in FlowsOf(Mail), c \in shown : Approve(w, c, f, "approved")
  BY <1>3, ApproveHolds DEF FlowsOf
<1>4. CASE Refuse(w, Mail) \/ Resume(w, Mail)
  BY <1>4, ProductAssumption, RefuseHolds, ResumeHolds
<1>5. CASE CreateCode(w)
  BY <1>5, CreateCodeHolds
<1> QED BY <1>1, <1>2, <1>3, <1>4, <1>5 DEF MailPages

\* The tables change and no request moves.
LEMMA EnvironmentHolds ==
  ASSUME Inv, Environment
  PROVE  Inv' /\ Frame
<1>1. /\ sess' \in [Digests -> Session \cup {NoRow}]
      /\ \A d \in Digests : sess'[d] \in {sess[d], NoRow}
  BY TablesKept DEF Environment, Expire, Delete, SetStatus
<1>2. /\ account' \in [Users -> [status : Row!Statuses, tag : Nat]]
      /\ \A u \in Users : account'[u].tag = account[u].tag
  <2>1. CASE \E d \in Digests : Expire(d)
    BY <2>1, TablesKept DEF Expire
  <2>2. ASSUME NEW v, NEW s \in Row!Statuses, SetStatus(v, s)
        PROVE  /\ account' \in [Users -> [status : Row!Statuses, tag : Nat]]
               /\ \A u \in Users : account'[u].tag = account[u].tag
    <3>1. account' = [account EXCEPT ![v].status = s]
      BY <2>2 DEF SetStatus, Row!Switch
    <3> QED BY <3>1, TablesKept
  <2> QED BY <2>1, <2>2 DEF Environment
<1>3. UNCHANGED <<drawn, shown, codes, uses, pc, req>>
  BY DEF Environment, Expire, SetStatus
<1>4. TypeOK'
  BY <1>1, <1>2, <1>3 DEF Inv, TypeOK
<1>5. Frame
  BY <1>1, <1>2, <1>3, TablesKept DEF Frame, SameOwner
<1>6. ASSUME NEW d \in Digests PROVE RowInv(d)'
  <2>1. RowInv(d) /\ sess[d] \in Session \cup {NoRow}
    BY TablesKept DEF Inv
  <2>2. sess'[d] = NoRow => RowInv(d)'
    BY DEF RowInv
  <2>3. CASE sess'[d] = sess[d] /\ sess[d] # NoRow
    <3>1. sess[d].user # None => account'[sess[d].user].tag = account[sess[d].user].tag
      BY <2>1, <2>3, <1>2 DEF Session
    <3> QED BY <2>1, <2>3, <3>1, <1>3 DEF RowInv, PagesToOwner, PastTag
  <2> QED BY <2>2, <2>3, <1>1
<1>7. ASSUME NEW c \in Consent, InUse(c)' PROVE InUse(c)
  BY <1>1, <1>3, <1>7 DEF InUse, Has
<1>8. None \notin Consent /\ codes' \subseteq shown'
  BY <1>3, NullFacts, TablesKept
<1> HIDE DEF Inv
<1> QED BY <1>3, <1>4, <1>5, <1>6, <1>7, <1>8, Together

LEMMA SetUpFirstHolds ==
  ASSUME Inv, NEW w \in Workers, NEW f \in Flows, pc[w] \in {"open", "asked"},
         SetUpFirst(w, f)
  PROVE  Inv' /\ Frame
<1> DEFINE waiting == [flow |-> f, user |-> req[w].data.user]
           y == [req[w].data EXCEPT !.pending[Connector] = waiting]
<1>1. waiting \in Pending \cup {None} /\ Connector \in Products
  BY RequestFacts, ConnectorAssumption DEF Pending, Session
<1>2. Edited(req[w].data, y)
  BY <1>1, RequestFacts, PendingSet
<1>3. Goto(w, "save", [req[w] EXCEPT !.data.pending[Connector] = waiting, !.code = None])
  BY DEF SetUpFirst
<1> DEFINE r == [req[w] EXCEPT !.data.pending[Connector] = waiting, !.code = None]
<1>4. EditedRequest(req[w], r) /\ r \in Request
  <2>1. r = [req[w] EXCEPT !.data = y, !.code = None]
    BY RequestFacts DEF Request
  <2> HIDE DEF y
  <2> QED BY <2>1, <1>2, RequestFacts DEF EditedRequest, Request, Edited
<1>5. UNCHANGED <<account, sess, drawn, shown, uses, codes>>
  BY DEF SetUpFirst
<1>6. uses' \in [Nonces -> Nat] /\ codes' \subseteq shown
  BY <1>5, TablesKept
<1>7. Goto(w, "save", r)
  BY <1>3
<1> HIDE DEF r
<1> QED BY <1>4, <1>5, <1>6, <1>7, CodeHolds

LEMMA ConnectorPageHolds ==
  ASSUME Inv, NEW w \in Workers, ConnectorPage(w)
  PROVE  Inv' /\ Frame
<1>1. CASE \E f \in ConnectorRequests : PutOff(w, f)
  BY <1>1, StorePendingHolds DEF PutOff, ConnectorRequests, FlowsOf
<1>2. CASE \E f \in ConnectorRequests : pc[w] \in {"open", "asked"} /\ SetUpFirst(w, f)
  BY <1>2, SetUpFirstHolds DEF ConnectorRequests, FlowsOf
<1>3. CASE \E f \in ConnectorRequests, n \in Nonces : AskConnection(w, f, n)
  BY <1>3, AskConsentHolds DEF AskConnection, ConnectorRequests, FlowsOf
<1>4. CASE \E f \in ConnectorRequests, c \in shown : ApproveConnection(w, c, f)
  BY <1>4, ApproveHolds DEF ApproveConnection, ConnectorRequests, FlowsOf
<1>5. CASE Confirm(w)
  <2>1. /\ pc[w] = "asked" /\ Goto(w, "approved", req[w])
        /\ UNCHANGED <<account, sess, drawn, shown, codes, uses>>
    BY <1>5 DEF Confirm
  <2>2. EditedRequest(req[w], req[w]) /\ req[w] \in Request
    BY RequestFacts DEF EditedRequest
  <2>3. uses' \in [Nonces -> Nat] /\ codes' \subseteq shown
    BY <2>1, TablesKept
  <2> QED BY <2>1, <2>2, <2>3, CodeHolds
<1>6. CASE RegistryFails(w)
  <2>1. /\ pc[w] = "asked" /\ Goto(w, "save", [req[w] EXCEPT !.code = None])
        /\ UNCHANGED <<account, sess, drawn, shown, codes, uses>>
    BY <1>6 DEF RegistryFails
  <2>2. /\ EditedRequest(req[w], [req[w] EXCEPT !.code = None])
        /\ [req[w] EXCEPT !.code = None] \in Request
    BY CodeDropped DEF EditedRequest
  <2>3. uses' \in [Nonces -> Nat] /\ codes' \subseteq shown
    BY <2>1, TablesKept
  <2> QED BY <2>1, <2>2, <2>3, CodeHolds
<1>7. CASE ResumeConnection(w) \/ RefuseResume(w)
  BY <1>7, ConnectorAssumption, ResumeHolds DEF ResumeConnection, RefuseResume
<1>8. CASE CancelSetup(w)
  BY <1>8, ConnectorAssumption, RequestFacts, PendingSet, SaveLaterHolds
  DEF CancelSetup, MayPost
<1>9. CASE RefuseConnection(w)
  BY <1>9, ConnectorAssumption, RefuseHolds DEF RefuseConnection
<1> QED BY <1>1, <1>2, <1>3, <1>4, <1>5, <1>6, <1>7, <1>8, <1>9 DEF ConnectorPage

LEMMA StutterHolds ==
  ASSUME Inv, UNCHANGED vars
  PROVE  Inv' /\ Frame
<1>1. Frame
  BY TablesKept DEF Frame, SameOwner, vars
<1>2. Inv'
  BY DEF vars, Inv, TypeOK, RowInv, RequestInv, PagesToOwner, PastTag, OnePageEach, InUse, Has,
         CodeWasConsented
<1> QED BY <1>1, <1>2

LEMMA StepHolds ==
  ASSUME Inv, SessionStep
  PROVE  Inv' /\ Frame
<1>1. CASE \E w \in Workers : LoadAndSave(w) \/ AccountPages(w) \/ MailPages(w)
  BY <1>1, LoadAndSaveHolds, AccountPagesHold, MailPagesHold
<1>2. CASE Environment
  BY <1>2, EnvironmentHolds
<1>3. CASE \E w \in Workers : ConnectorPage(w)
  BY <1>3, ConnectorPageHolds
<1>4. CASE UNCHANGED vars
  BY <1>4, StutterHolds
<1> QED BY <1>1, <1>2, <1>3, <1>4 DEF SessionStep, Next

\* Nobody is signed in, or one browser has a session.
LEMMA BrowserHolds == Browser => Inv
<1> SUFFICES ASSUME Browser PROVE Inv
  OBVIOUS
<1>1. /\ account = [u \in Users |-> [status |-> "active", tag |-> 0]]
      /\ shown = {} /\ codes = {} /\ uses = [n \in Nonces |-> 0]
      /\ pc = [w \in Workers |-> "idle"] /\ req = [w \in Workers |-> NoRequest]
  BY DEF Browser, Init, Idle
<1>2. /\ sess \in [Digests -> Session \cup {NoRow}]
      /\ drawn \subseteq Digests \cup Nonces
      /\ \A d \in Digests : sess[d] # NoRow =>
           /\ d \in drawn /\ sess[d].tag = 0
           /\ \A p \in Products : sess[d].consent[p] = None
  <2>1. CASE Init
    BY <2>1 DEF Init, NoSessions
  <2>2. ASSUME NEW d \in Digests, NEW u \in Users,
               sess = [NoSessions EXCEPT ![d] = [Empty EXCEPT !.user = u, !.csrf = TRUE]],
               drawn = {d}
        PROVE  <1>2!:
    <3>1. /\ [Empty EXCEPT !.user = u, !.csrf = TRUE] \in Session
          /\ [Empty EXCEPT !.user = u, !.csrf = TRUE].tag = 0
          /\ [Empty EXCEPT !.user = u, !.csrf = TRUE].consent = Nothing
      BY DEF Empty, Session, Nothing
    <3> QED BY <2>2, <3>1 DEF NoSessions, Nothing
  <2> QED BY <2>1, <2>2 DEF Browser
<1>3. TypeOK
  BY <1>1, <1>2, NoRequestFacts DEF TypeOK, Stages, Row!Statuses
<1>4. \A d \in Digests : RowInv(d)
  BY <1>1, <1>2 DEF RowInv, PagesToOwner, PastTag, Session
<1>5. \A w \in Workers : RequestInv(pc[w], req[w])
  BY <1>1, Forgotten
<1>6. \A c \in Consent : ~InUse(c)
  BY <1>1, <1>2, NoRequestFacts, EmptyFacts, NullFacts DEF InUse, Has
<1> QED BY <1>1, <1>3, <1>4, <1>5, <1>6 DEF Inv, OnePageEach, CodeWasConsented

-------------------------------------------------------------------------------
(* The theorems.                                                           *)

LEMMA StepsAreSessionSteps ==
  /\ [Next]_vars => SessionStep
  /\ [ConnectorNext]_connectorVars => SessionStep
BY DEF SessionStep, ConnectorNext, connectorVars, Move

LEMMA Inductive == Spec => []Inv /\ [][SessionStep]_vars
<1>1. Init => Inv
  BY BrowserHolds DEF Browser
<1>2. Inv /\ [Next]_vars => Inv'
  BY StepHolds, StepsAreSessionSteps
<1>3. [Next]_vars => [SessionStep]_vars
  BY StepsAreSessionSteps
<1> QED BY <1>1, <1>2, <1>3, PTL DEF Spec

LEMMA ConnectorInductive == ConnectorSpec => []Inv /\ [][SessionStep]_vars
<1>1. ConnectorInit => Inv
  BY BrowserHolds DEF ConnectorInit
<1>2. Inv /\ [ConnectorNext]_connectorVars => Inv'
  BY StepHolds, StepsAreSessionSteps
<1>3. [ConnectorNext]_connectorVars => [SessionStep]_vars
  BY StepsAreSessionSteps
<1> QED BY <1>1, <1>2, <1>3, PTL DEF ConnectorSpec

(* Every reachable state of sessions and requests is well typed.           *)
THEOREM TypeCorrect == Spec => []TypeOK
<1>1. Inv => TypeOK
  BY DEF Inv
<1> QED BY <1>1, Inductive, PTL

(* Codes exist only for pages that were shown, whatever a browser's tabs   *)
(* overwrite of each other.                                                *)
THEOREM CodesWereConsented == Spec => []CodeWasConsented
<1>1. Inv => CodeWasConsented
  BY DEF Inv
<1> QED BY <1>1, Inductive, PTL

(* Neither Mail's pages nor the Connector's are ever in another user's     *)
(* session.                                                                *)
THEOREM PagesFollowTheirUser == ConnectorSpec => []ConsentOwner
<1>1. Inv => ConsentOwner
  BY DEF Inv, ConsentOwner, RowInv, RequestInv, PagesToOwner
<1> QED BY <1>1, ConnectorInductive, PTL

(* A session that was deleted never comes back.                            *)
THEOREM NoSessionComesBack == Spec => DeletedStaysDeleted
<1>1. Inv /\ [SessionStep]_vars
        => [\A d \in Digests \cap drawn : sess[d] = NoRow => sess'[d] = NoRow]_vars
  <2> SUFFICES ASSUME Inv, SessionStep
               PROVE  \A d \in Digests \cap drawn : sess[d] = NoRow => sess'[d] = NoRow
    OBVIOUS
  <2> QED BY StepHolds DEF Frame
<1> QED BY <1>1, Inductive, PTL DEF DeletedStaysDeleted

(* A stored session never changes hands.                                   *)
THEOREM SessionsKeepTheirIdentity == ConnectorSpec => IdentityFixed
<1>1. Inv /\ [SessionStep]_vars
        => [\A d \in Digests : sess[d] # NoRow /\ sess'[d] # NoRow
              => sess'[d].user = sess[d].user /\ sess'[d].tag = sess[d].tag]_vars
  <2> SUFFICES ASSUME Inv, SessionStep,
                      NEW d \in Digests, sess[d] # NoRow, sess'[d] # NoRow
               PROVE  sess'[d].user = sess[d].user /\ sess'[d].tag = sess[d].tag
    OBVIOUS
  <2>1. Frame /\ d \in drawn
    BY StepHolds DEF Inv, RowInv
  <2> QED BY <2>1 DEF Frame, SameOwner
<1> QED BY <1>1, ConnectorInductive, PTL DEF IdentityFixed

(* A login that was confirmed before a reset is of no use after it, and    *)
(* neither is any session of the replaced password.                        *)
THEOREM LateLoginsAreLockedOut == Spec => LateLoginLockedOut
<1>1. ASSUME Inv, SessionStep, NEW w \in Workers, Rotate(w),
             req[w].tag # account[req[w].who].tag
      PROVE  Retired(req[w].data)'
  <2>1. /\ req'[w].data.user = req[w].who /\ req'[w].data.tag = req[w].tag
        /\ req[w].who # None /\ account' = account
    BY <1>1, RotateHolds, NullFacts DEF Rotate
  <2> QED BY <2>1, <1>1 DEF Retired
<1>2. ASSUME Inv, SessionStep, NEW d \in Digests, sess[d] # NoRow, Retired(sess[d]),
             sess'[d] # NoRow
      PROVE  Retired(sess[d])'
  <2>1. /\ sess'[d].user = sess[d].user /\ sess'[d].tag = sess[d].tag
        /\ sess[d] \in Session
    BY <1>2, StepHolds, TablesKept DEF Inv, RowInv, Frame, SameOwner
  <2>2. sess[d].user \in Users /\ sess[d].tag \in Nat
    BY <2>1, <1>2 DEF Retired, Session
  <2>3. sess[d].tag <= account[sess[d].user].tag
    BY <1>2, <2>2, NullFacts DEF Inv, RowInv, PastTag
  <2>4. /\ account[sess[d].user].tag <= account'[sess[d].user].tag
        /\ account[sess[d].user].tag \in Nat /\ account'[sess[d].user].tag \in Nat
    BY <1>2, <2>2, StepHolds DEF Inv, TypeOK, Frame
  <2>5. sess[d].tag # account'[sess[d].user].tag
    BY <1>2, <2>2, <2>3, <2>4 DEF Retired
  <2> QED BY <1>2, <2>1, <2>5 DEF Retired
<1>3. Inv /\ [SessionStep]_vars =>
        [/\ \A w \in Workers :
              Rotate(w) /\ req[w].tag # account[req[w].who].tag => Retired(req[w].data)'
         /\ \A d \in Digests :
              sess[d] # NoRow /\ Retired(sess[d]) =>
                sess'[d] = NoRow \/ sess'[d].user = None \/ Retired(sess[d])']_vars
  BY <1>1, <1>2
<1> QED BY <1>3, Inductive, PTL DEF LateLoginLockedOut

-------------------------------------------------------------------------------
(* ConnectorPages: no code without a database, and a request that waits    *)
(* for a set-up waits for one user.  Both follow a value (an approval, a   *)
(* request put off) through the copies requests make of their session.     *)

\* An approved page of the Connector has been confirmed with the registry.
Confirmed ==
  \A w \in Workers :
    pc[w] = "approved" /\ ProductOf[req[w].code.flow] = Connector => w \in witnessed

\* A request put off, wherever a copy of it is, was put off for the user it names.
WasSent(data) == data.pending[Connector] # None => data.pending[Connector] \in sent

ConnectorInv ==
  /\ Inv
  /\ ConnectorTypeOK
  /\ Confirmed
  /\ \A d \in Digests : sess[d] # NoRow => WasSent(sess[d])
  /\ \A w \in Workers : WasSent(req[w].data)

\* Where the request that is put off in w's copy comes from.
PendingFrom(w) ==
  \/ req'[w].data.pending[Connector] \in {None, req[w].data.pending[Connector]} \cup sent'
  \/ \E d \in Digests : sess[d] # NoRow /\ req'[w].data = sess[d]

\* How w gets to the point at which it creates a code.
ApprovedBy(w) ==
  pc'[w] = "approved" => \/ pc[w] = "approved" /\ req'[w] = req[w]
                         \/ Confirm(w)
                         \/ ProductOf[req'[w].code.flow] = Mail

StoredFrom ==
  \A d \in Digests : sess'[d] # NoRow =>
    sess'[d] = sess[d] \/ \E w \in Workers : sess'[d] = req[w].data

Follows == StoredFrom /\ \A w \in Workers : PendingFrom(w) /\ ApprovedBy(w)

-------------------------------------------------------------------------------
LEMMA GotoFacts ==
  ASSUME Inv, NEW w \in Workers, NEW s, NEW r, Goto(w, s, r)
  PROVE  /\ pc'[w] = s /\ req'[w] = r
         /\ \A v \in Workers \ {w} : pc'[v] = pc[v] /\ req'[v] = req[v]
BY DEF Goto, Inv, TypeOK

\* Request w alone has moved.
LEMMA OneFollows ==
  ASSUME NEW w \in Workers, StoredFrom, PendingFrom(w), ApprovedBy(w),
         \A v \in Workers \ {w} : pc'[v] = pc[v] /\ req'[v] = req[v]
  PROVE  Follows
BY DEF Follows, PendingFrom, ApprovedBy

\* The request edits its session elsewhere, or takes the pending request out.
LEMMA SaveLaterFollows ==
  ASSUME Inv, NEW w \in Workers, NEW y, SaveLater(w, y), StoredFrom,
         y.pending[Connector] \in {None, req[w].data.pending[Connector]} \cup sent'
  PROVE  Follows
<1> DEFINE r == [req[w] EXCEPT !.data = y]
<1>1. Goto(w, "save", r)
  BY DEF SaveLater
<1>2. r.data = y
  BY RequestFacts DEF Request
<1> HIDE DEF r
<1>3. /\ pc'[w] = "save" /\ req'[w] = r
      /\ \A v \in Workers \ {w} : pc'[v] = pc[v] /\ req'[v] = req[v]
  BY <1>1, GotoFacts
<1>4. PendingFrom(w) /\ ApprovedBy(w)
  BY <1>2, <1>3 DEF PendingFrom, ApprovedBy
<1> QED BY <1>3, <1>4, OneFollows

LEMMA EmptyPending == Empty.pending[Connector] = None /\ NoRequest.data = Empty
BY ConnectorAssumption DEF Empty, Nothing, NoRequest

\* What is put off in an edited document.
LEMMA PendingOf ==
  ASSUME NEW data \in Session
  PROVE  /\ [data EXCEPT !.csrf = TRUE].pending = data.pending
         /\ \A p \in Products : [data EXCEPT !.consent[p] = None].pending = data.pending
         /\ \A p \in Products : \A x :
              [data EXCEPT !.consent[p] = x, !.csrf = TRUE].pending = data.pending
BY DEF Session

LEMMA PendingAt ==
  ASSUME NEW data \in Session, NEW p \in Products, NEW x
  PROVE  [data EXCEPT !.pending[p] = x].pending[Connector]
           = IF p = Connector THEN x ELSE data.pending[Connector]
BY ConnectorAssumption DEF Session

LEMMA LoadAndSaveFollows ==
  ASSUME Inv, NEW w \in Workers, LoadAndSave(w)
  PROVE  Follows
<1>1. CASE \E d \in Digests : Open(w, d)
  <2>1. PICK d \in Digests : Open(w, d)
    BY <1>1
  <2> DEFINE r == [NoRequest EXCEPT !.digest = d, !.data = sess[d]]
  <2>2. Goto(w, "open", r) /\ r.data = sess[d] /\ sess' = sess /\ sess[d] # NoRow
    BY <2>1 DEF Open, NoRequest
  <2> HIDE DEF r
  <2>3. /\ pc'[w] = "open" /\ req'[w] = r
        /\ \A v \in Workers \ {w} : pc'[v] = pc[v] /\ req'[v] = req[v]
    BY <2>2, GotoFacts
  <2>4. PendingFrom(w) /\ ApprovedBy(w) /\ StoredFrom
    BY <2>2, <2>3 DEF PendingFrom, ApprovedBy, StoredFrom
  <2> QED BY <2>3, <2>4, OneFollows
<1>2. ASSUME NEW s \in {"idle", "open"}, Goto(w, s, NoRequest), StoredFrom
      PROVE  Follows
  <2>1. PendingFrom(w) /\ ApprovedBy(w)
    BY <1>2, GotoFacts, EmptyPending DEF PendingFrom, ApprovedBy
  <2> QED BY <2>1, <1>2, GotoFacts, OneFollows
<1>3. CASE \E d \in Digests : SaveNew(w, d)
  <2>1. StoredFrom /\ Finish(w)
    BY <1>3, TablesKept DEF SaveNew, StoredFrom
  <2> QED BY <2>1, <1>2 DEF Finish
<1>4. CASE OpenNew(w)
  <2>1. StoredFrom
    BY <1>4 DEF OpenNew, StoredFrom
  <2> QED BY <2>1, <1>2, <1>4 DEF OpenNew
<1>5. CASE SaveCleared(w)
  <2>1. StoredFrom /\ Finish(w)
    BY <1>5, TablesKept DEF SaveCleared, Delete, StoredFrom
  <2> QED BY <2>1, <1>2 DEF Finish
<1>6. CASE SaveOld(w)
  <2>1. StoredFrom /\ Finish(w)
    BY <1>6, TablesKept DEF SaveOld, Overwrite, StoredFrom
  <2> QED BY <2>1, <1>2 DEF Finish
<1>7. CASE Abandon(w)
  <2>1. StoredFrom /\ Finish(w)
    BY <1>7 DEF Abandon, StoredFrom
  <2> QED BY <2>1, <1>2 DEF Finish
<1> QED BY <1>1, <1>3, <1>4, <1>5, <1>6, <1>7 DEF LoadAndSave

LEMMA AccountPagesFollow ==
  ASSUME Inv, NEW w \in Workers, AccountPages(w)
  PROVE  Follows
<1>1. ASSUME UNCHANGED sess PROVE StoredFrom
  BY <1>1 DEF StoredFrom
<1>2. CASE CsrfToken(w)
  BY <1>1, <1>2, RequestFacts, PendingOf, SaveLaterFollows DEF CsrfToken
<1>3. CASE CurrentUser(w) \/ Logout(w)
  BY <1>1, <1>3, EmptyPending, SaveLaterFollows DEF CurrentUser, Logout
<1>4. CASE FinishLogin(w)
  <2>1. /\ pc'[w] = "identified" /\ req'[w] = req[w] /\ sess' = sess
        /\ \A v \in Workers \ {w} : pc'[v] = pc[v] /\ req'[v] = req[v]
    BY <1>4, GotoFacts DEF FinishLogin
  <2>2. PendingFrom(w) /\ ApprovedBy(w)
    BY <2>1 DEF PendingFrom, ApprovedBy
  <2> QED BY <1>1, <2>1, <2>2, OneFollows
<1>5. CASE \E u \in Users : Login(w, u)
  <2>1. PICK u \in Users : Login(w, u)
    BY <1>5
  <2> DEFINE r == [req[w] EXCEPT !.who = u, !.tag = account[u].tag]
  <2>2. Goto(w, "checked", r) /\ r.data = req[w].data /\ sess' = sess
    BY <2>1, RequestFacts DEF Login, Request
  <2> HIDE DEF r
  <2>3. /\ pc'[w] = "checked" /\ req'[w] = r
        /\ \A v \in Workers \ {w} : pc'[v] = pc[v] /\ req'[v] = req[v]
    BY <2>2, GotoFacts
  <2>4. PendingFrom(w) /\ ApprovedBy(w)
    BY <2>2, <2>3 DEF PendingFrom, ApprovedBy
  <2> QED BY <1>1, <2>2, <2>3, <2>4, OneFollows
<1>6. CASE Rotate(w)
  <2>1. PICK fresh \in SUBSET Products :
          Goto(w, "save", [NoRequest EXCEPT !.data = SignedIn(req[w],
                 [p \in Products |-> IF p \in fresh THEN req[w].data.pending[p] ELSE None])])
    BY <1>6 DEF Rotate
  <2> DEFINE kept == [p \in Products |-> IF p \in fresh THEN req[w].data.pending[p] ELSE None]
  <2>2. /\ pc'[w] = "save" /\ req'[w].data = SignedIn(req[w], kept)
        /\ \A v \in Workers \ {w} : pc'[v] = pc[v] /\ req'[v] = req[v]
    BY <2>1, GotoFacts DEF NoRequest
  <2>3. req'[w].data.pending = kept
    BY <2>2 DEF SignedIn, Empty
  <2>4. PendingFrom(w) /\ ApprovedBy(w)
    BY <2>2, <2>3, ConnectorAssumption DEF PendingFrom, ApprovedBy
  <2>5. StoredFrom
    BY <1>6, TablesKept DEF Rotate, Delete, StoredFrom
  <2> QED BY <2>2, <2>4, <2>5, OneFollows
<1>7. CASE \E u \in Users : ResetPassword(w, u)
  <2>1. StoredFrom /\ SaveLater(w, Empty)
    BY <1>7, TablesKept DEF ResetPassword, Delete, StoredFrom
  <2> QED BY <2>1, EmptyPending, SaveLaterFollows
<1> QED BY <1>2, <1>3, <1>4, <1>5, <1>6, <1>7 DEF AccountPages

\* A step of a page that writes no session.
LEMMA PageFollows ==
  ASSUME Inv, NEW w \in Workers, NEW s, NEW r, Goto(w, s, r), UNCHANGED sess,
         r.data.pending[Connector] \in {None, req[w].data.pending[Connector]} \cup sent',
         \/ s # "approved"
         \/ Confirm(w)
         \/ ProductOf[r.code.flow] = Mail
  PROVE  Follows
<1>1. /\ pc'[w] = s /\ req'[w] = r
      /\ \A v \in Workers \ {w} : pc'[v] = pc[v] /\ req'[v] = req[v]
  BY GotoFacts
<1>2. StoredFrom
  BY DEF StoredFrom
<1>3. PendingFrom(w) /\ ApprovedBy(w)
  BY <1>1 DEF PendingFrom, ApprovedBy
<1> QED BY <1>1, <1>2, <1>3, OneFollows

\* StorePending of a request that is put off by the Connector's pages, or of Mail's.
LEMMA StorePendingFollows ==
  ASSUME Inv, NEW w \in Workers, NEW f \in Flows, StorePending(w, f),
         \/ ProductOf[f] = Mail
         \/ [flow |-> f, user |-> None] \in sent'
  PROVE  Follows
<1> DEFINE x == [flow |-> f, user |-> None]
           y == [req[w].data EXCEPT !.pending[ProductOf[f]] = x]
<1>1. y.pending[Connector] = IF ProductOf[f] = Connector THEN x
                             ELSE req[w].data.pending[Connector]
  <2>1. req[w].data \in Session /\ ProductOf[f] \in Products
    BY ProductAssumption, RequestFacts
  <2>2. ASSUME NEW z, NEW p \in Products
        PROVE  [req[w].data EXCEPT !.pending[p] = z].pending[Connector]
                 = IF p = Connector THEN z ELSE req[w].data.pending[Connector]
    BY <2>1, ConnectorAssumption DEF Session
  <2> HIDE DEF x
  <2> QED BY <2>1, <2>2
<1>2. SaveLater(w, y) /\ UNCHANGED sess
  BY DEF StorePending
<1>3. StoredFrom
  BY <1>2 DEF StoredFrom
<1>4. x \in sent' \/ ProductOf[f] # Connector
  BY ConnectorAssumption
<1> HIDE DEF x, y
<1> QED BY <1>1, <1>2, <1>3, <1>4, SaveLaterFollows

LEMMA AskConsentFollows ==
  ASSUME Inv, NEW w \in Workers, NEW f \in Flows, NEW n \in Nonces, AskConsent(w, f, n)
  PROVE  Follows
<1> DEFINE x == [nonce |-> n, user |-> req[w].data.user, flow |-> f]
           y == [req[w].data EXCEPT !.consent[ProductOf[f]] = x, !.csrf = TRUE]
<1>1. y.pending[Connector] = req[w].data.pending[Connector]
  BY ProductAssumption, RequestFacts, PendingOf
<1>2. SaveLater(w, y) /\ UNCHANGED sess
  BY DEF AskConsent
<1>3. StoredFrom
  BY <1>2 DEF StoredFrom
<1> HIDE DEF x, y
<1> QED BY <1>1, <1>2, <1>3, SaveLaterFollows

LEMMA ApproveFollows ==
  ASSUME Inv, NEW w \in Workers, NEW c \in shown, NEW f \in Flows, NEW s,
         Approve(w, c, f, s), s # "approved" \/ ProductOf[f] = Mail
  PROVE  Follows
<1> DEFINE code == [nonce |-> c.nonce, user |-> req[w].data.user, flow |-> f]
           y == [req[w].data EXCEPT !.consent[ProductOf[f]] = None]
           r == [req[w] EXCEPT !.data.consent[ProductOf[f]] = None, !.code = code]
<1>1. y.pending = req[w].data.pending
  BY ProductAssumption, RequestFacts, PendingOf
<1>2. r.data = y /\ r.code.flow = f
  BY RequestFacts DEF Request
<1>3. Goto(w, s, r) /\ UNCHANGED sess
  BY DEF Approve
<1> HIDE DEF r, y
<1> QED BY <1>1, <1>2, <1>3, PageFollows

LEMMA RefuseFollows ==
  ASSUME Inv, NEW w \in Workers, NEW p \in Products, Refuse(w, p)
  PROVE  Follows
<1> DEFINE y == [req[w].data EXCEPT !.consent[p] = None]
<1>1. y.pending[Connector] = req[w].data.pending[Connector]
  BY RequestFacts, PendingOf
<1>2. SaveLater(w, y) /\ UNCHANGED sess
  BY DEF Refuse
<1>3. StoredFrom
  BY <1>2 DEF StoredFrom
<1> HIDE DEF y
<1> QED BY <1>1, <1>2, <1>3, SaveLaterFollows

\* The request put off for product p is taken out.
LEMMA TakenOutFollows ==
  ASSUME Inv, NEW w \in Workers, NEW p \in Products, UNCHANGED sess,
         SaveLater(w, [req[w].data EXCEPT !.pending[p] = None])
  PROVE  Follows
<1> DEFINE y == [req[w].data EXCEPT !.pending[p] = None]
<1>1. y.pending[Connector] \in {None, req[w].data.pending[Connector]}
  BY RequestFacts, PendingAt
<1>2. StoredFrom
  BY DEF StoredFrom
<1>3. SaveLater(w, y)
  OBVIOUS
<1> HIDE DEF y
<1> QED BY <1>1, <1>2, <1>3, SaveLaterFollows

LEMMA CodeDroppedFollows ==
  ASSUME Inv, NEW w \in Workers, UNCHANGED sess, Goto(w, "save", [req[w] EXCEPT !.code = None])
  PROVE  Follows
<1> DEFINE r == [req[w] EXCEPT !.code = None]
<1>1. r.data = req[w].data /\ Goto(w, "save", r)
  BY RequestFacts DEF Request
<1> HIDE DEF r
<1> QED BY <1>1, PageFollows

LEMMA MailPagesFollow ==
  ASSUME Inv, NEW w \in Workers, MailPages(w)
  PROVE  Follows
<1>1. CASE \E f \in FlowsOf(Mail) : StorePending(w, f)
  BY <1>1, StorePendingFollows DEF FlowsOf
<1>2. CASE \E f \in FlowsOf(Mail), n \in Nonces : AskConsent(w, f, n)
  BY <1>2, AskConsentFollows DEF FlowsOf
<1>3. CASE \E f \in FlowsOf(Mail), c \in shown : Approve(w, c, f, "approved")
  BY <1>3, ApproveFollows DEF FlowsOf
<1>4. CASE Refuse(w, Mail)
  BY <1>4, ProductAssumption, RefuseFollows
<1>5. CASE Resume(w, Mail)
  BY <1>5, ProductAssumption, TakenOutFollows DEF Resume
<1>6. CASE CreateCode(w)
  BY <1>6, CodeDroppedFollows DEF CreateCode
<1> QED BY <1>1, <1>2, <1>3, <1>4, <1>5, <1>6 DEF MailPages

LEMMA ConnectorPageFollows ==
  ASSUME Inv, NEW w \in Workers, ConnectorPage(w)
  PROVE  Follows
<1>1. CASE \E f \in ConnectorRequests : PutOff(w, f)
  BY <1>1, StorePendingFollows DEF PutOff, ConnectorRequests, FlowsOf
<1>2. CASE \E f \in ConnectorRequests : SetUpFirst(w, f)
  <2>1. PICK f \in Flows : SetUpFirst(w, f)
    BY <1>2 DEF ConnectorRequests, FlowsOf
  <2> DEFINE x == [flow |-> f, user |-> req[w].data.user]
             y == [req[w].data EXCEPT !.pending[Connector] = x]
             r == [req[w] EXCEPT !.data.pending[Connector] = x, !.code = None]
  <2>2. Goto(w, "save", r) /\ x \in sent' /\ UNCHANGED sess
    BY <2>1 DEF SetUpFirst
  <2>3. r.data = y
    BY RequestFacts DEF Request
  <2>4. y.pending[Connector] = x
    <3>1. req[w].data \in Session /\ Connector \in Products
      BY ConnectorAssumption, RequestFacts
    <3> HIDE DEF x
    <3> QED BY <3>1, PendingAt, Zenon
  <2> HIDE DEF r, y, x
  <2> QED BY <2>2, <2>3, <2>4, PageFollows
<1>3. CASE \E f \in ConnectorRequests, n \in Nonces : AskConnection(w, f, n)
  BY <1>3, AskConsentFollows DEF AskConnection, ConnectorRequests, FlowsOf
<1>4. CASE \E f \in ConnectorRequests, c \in shown : ApproveConnection(w, c, f)
  BY <1>4, ApproveFollows DEF ApproveConnection, ConnectorRequests, FlowsOf
<1>5. CASE Confirm(w)
  <2>1. Goto(w, "approved", req[w]) /\ UNCHANGED sess
    BY <1>5 DEF Confirm
  <2> QED BY <1>5, <2>1, PageFollows
<1>6. CASE RegistryFails(w)
  BY <1>6, CodeDroppedFollows DEF RegistryFails
<1>7. CASE ResumeConnection(w) \/ RefuseResume(w)
  BY <1>7, ConnectorAssumption, TakenOutFollows DEF ResumeConnection, RefuseResume, Resume
<1>8. CASE CancelSetup(w)
  BY <1>8, ConnectorAssumption, TakenOutFollows DEF CancelSetup
<1>9. CASE RefuseConnection(w)
  BY <1>9, ConnectorAssumption, RefuseFollows DEF RefuseConnection
<1> QED BY <1>1, <1>2, <1>3, <1>4, <1>5, <1>6, <1>7, <1>8, <1>9 DEF ConnectorPage

LEMMA EverythingFollows ==
  ASSUME Inv, ConnectorNext
  PROVE  Follows
<1>1. CASE \E w \in Workers : LoadAndSave(w) \/ AccountPages(w) \/ MailPages(w)
  BY <1>1, LoadAndSaveFollows, AccountPagesFollow, MailPagesFollow
<1>2. CASE \E w \in Workers : ConnectorPage(w)
  BY <1>2, ConnectorPageFollows
<1>3. CASE Environment \/ UNCHANGED vars
  <2>1. UNCHANGED <<pc, req>>
    BY <1>3 DEF Environment, Expire, SetStatus, vars
  <2>2. StoredFrom
    BY <1>3, TablesKept DEF Environment, Expire, Delete, SetStatus, vars, StoredFrom
  <2> QED BY <2>1, <2>2 DEF Follows, PendingFrom, ApprovedBy
<1> QED BY <1>1, <1>2, <1>3 DEF ConnectorNext, Next, Move

-------------------------------------------------------------------------------
LEMMA SentGrows ==
  ASSUME ConnectorInv, ConnectorNext
  PROVE  /\ sent \subseteq sent' /\ sent' \subseteq Pending
         /\ connected' \subseteq Users /\ moves' \in 0..MaxMoves
         /\ witnessed' \subseteq Workers
<1>1. witnessed' \subseteq Workers
  BY DEF ConnectorNext, Witness
<1>2. CASE UNCHANGED <<connected, moves, sent>>
  BY <1>1, <1>2 DEF ConnectorInv, ConnectorTypeOK
<1>3. CASE \E u \in Users : Move(u)
  BY <1>1, <1>3, ConnectorAssumption DEF ConnectorInv, ConnectorTypeOK, Move
<1>4. CASE \E w \in Workers, f \in ConnectorRequests : PutOff(w, f)
  BY <1>1, <1>4 DEF ConnectorInv, ConnectorTypeOK, PutOff, Pending, ConnectorRequests, FlowsOf
<1>5. CASE \E w \in Workers, f \in ConnectorRequests : SetUpFirst(w, f)
  <2>1. PICK w \in Workers, f \in ConnectorRequests : SetUpFirst(w, f)
    BY <1>5
  <2>2. [flow |-> f, user |-> req[w].data.user] \in Pending
    BY <2>1, RequestFacts DEF ConnectorInv, Pending, Session, ConnectorRequests, FlowsOf
  <2>3. /\ sent' = sent \cup {[flow |-> f, user |-> req[w].data.user]}
        /\ UNCHANGED <<connected, moves>>
    BY <2>1 DEF SetUpFirst
  <2> QED BY <1>1, <2>2, <2>3 DEF ConnectorInv, ConnectorTypeOK
<1> QED BY <1>2, <1>3, <1>4, <1>5
    DEF ConnectorNext, ConnectorPage, AskConnection, ApproveConnection, Confirm, RegistryFails,
        ResumeConnection, RefuseResume, CancelSetup, RefuseConnection

LEMMA ConfirmedStep ==
  ASSUME ConnectorInv, ConnectorNext
  PROVE  Confirmed'
<1> SUFFICES ASSUME NEW w \in Workers, pc'[w] = "approved",
                    ProductOf[req'[w].code.flow] = Connector
             PROVE  w \in witnessed'
  BY DEF Confirmed
<1>1. ApprovedBy(w)
  BY EverythingFollows DEF ConnectorInv, Follows
<1>2. witnessed' = {v \in Workers : /\ pc'[v] \in {"asked", "approved"}
                                    /\ v \in witnessed \/ req'[v].data.user \in connected'}
  BY DEF ConnectorNext, Witness
<1>3. CASE pc[w] = "approved" /\ req'[w] = req[w]
  BY <1>2, <1>3 DEF ConnectorInv, Confirmed
<1>4. CASE Confirm(w)
  <2>1. req'[w] = req[w]
    BY <1>4, GotoFacts DEF Confirm, ConnectorInv
  <2>2. req[w].data.user \in connected'
    BY <1>4 DEF Confirm, DatabaseReady
  <2> QED BY <1>2, <2>1, <2>2
<1> QED BY <1>1, <1>3, <1>4, ConnectorAssumption DEF ApprovedBy

LEMMA WasSentStep ==
  ASSUME ConnectorInv, ConnectorNext
  PROVE  /\ \A d \in Digests : sess'[d] # NoRow => WasSent(sess[d])'
         /\ \A w \in Workers : WasSent(req[w].data)'
<1>1. Follows /\ sent \subseteq sent'
  BY EverythingFollows, SentGrows DEF ConnectorInv
<1>2. ASSUME NEW d \in Digests, sess'[d] # NoRow PROVE WasSent(sess[d])'
  <2>1. CASE sess'[d] = sess[d]
    BY <1>1, <1>2, <2>1 DEF ConnectorInv, WasSent
  <2>2. CASE \E w \in Workers : sess'[d] = req[w].data
    BY <1>1, <2>2 DEF ConnectorInv, WasSent
  <2> QED BY <1>1, <1>2, <2>1, <2>2 DEF Follows, StoredFrom
<1>3. ASSUME NEW w \in Workers PROVE WasSent(req[w].data)'
  <2>1. PendingFrom(w)
    BY <1>1 DEF Follows
  <2>2. CASE req'[w].data.pending[Connector]
               \in {None, req[w].data.pending[Connector]} \cup sent'
    BY <1>1, <2>2 DEF ConnectorInv, WasSent
  <2>3. CASE \E d \in Digests : sess[d] # NoRow /\ req'[w].data = sess[d]
    BY <1>1, <2>3 DEF ConnectorInv, WasSent
  <2> QED BY <2>1, <2>2, <2>3 DEF PendingFrom
<1> QED BY <1>2, <1>3

LEMMA ConnectorStep == ConnectorInv /\ [ConnectorNext]_connectorVars => ConnectorInv'
<1> SUFFICES ASSUME ConnectorInv, [ConnectorNext]_connectorVars PROVE ConnectorInv'
  OBVIOUS
<1>1. Inv'
  BY StepHolds, StepsAreSessionSteps DEF ConnectorInv
<1>2. CASE ConnectorNext
  <2>1. ConnectorTypeOK'
    BY <1>1, <1>2, SentGrows DEF ConnectorTypeOK, Inv
  <2> QED BY <1>1, <1>2, <2>1, ConfirmedStep, WasSentStep DEF ConnectorInv
<1>3. CASE UNCHANGED connectorVars
  BY <1>1, <1>3 DEF ConnectorInv, ConnectorTypeOK, Inv, Confirmed, WasSent, connectorVars, vars
<1> QED BY <1>2, <1>3

LEMMA ConnectorStart == ConnectorInit => ConnectorInv
<1> SUFFICES ASSUME ConnectorInit PROVE ConnectorInv
  OBVIOUS
<1>1. Inv
  BY BrowserHolds DEF ConnectorInit
<1>2. ConnectorTypeOK
  BY <1>1, ConnectorAssumption DEF ConnectorInit, ConnectorTypeOK, Inv
<1>3. /\ pc = [w \in Workers |-> "idle"] /\ req = [w \in Workers |-> NoRequest]
      /\ \A d \in Digests : sess[d] # NoRow => sess[d].pending = Nothing
  <2>1. CASE Init
    BY <2>1 DEF Init, Idle, NoSessions
  <2>2. ASSUME NEW d \in Digests, NEW u \in Users, Idle,
               sess = [NoSessions EXCEPT ![d] = [Empty EXCEPT !.user = u, !.csrf = TRUE]]
        PROVE  <1>3!:
    BY <2>2 DEF Idle, NoSessions, Empty
  <2> QED BY <2>1, <2>2 DEF ConnectorInit, Browser
<1>4. \A w \in Workers : WasSent(req[w].data)
  BY <1>3, EmptyPending DEF WasSent
<1>5. \A d \in Digests : sess[d] # NoRow => WasSent(sess[d])
  BY <1>3, ConnectorAssumption DEF WasSent, Nothing
<1> QED BY <1>1, <1>2, <1>3, <1>4, <1>5 DEF ConnectorInv, Confirmed

LEMMA ConnectorInvariant == ConnectorSpec => []ConnectorInv
BY ConnectorStart, ConnectorStep, PTL DEF ConnectorSpec

-------------------------------------------------------------------------------
(* Every reachable state of the Connector's pages is well typed.           *)
THEOREM ConnectorTypeCorrect == ConnectorSpec => []ConnectorTypeOK
<1>1. ConnectorInv => ConnectorTypeOK
  BY DEF ConnectorInv
<1> QED BY <1>1, ConnectorInvariant, PTL

(* No Connector code is created for a user who has had no database since   *)
(* the approval.                                                           *)
THEOREM NoCodeWithoutDatabase == ConnectorSpec => CodeNeedsDatabase
<1>1. ConnectorInv =>
        [\A w \in Workers : CreateCode(w) /\ ProductOf[req[w].code.flow] = Connector
           => w \in witnessed]_connectorVars
  BY DEF ConnectorInv, Confirmed, CreateCode
<1> QED BY <1>1, ConnectorInvariant, PTL DEF CodeNeedsDatabase

(* A request that waits for a set-up is resumed and cancelled only by the  *)
(* user it was put off for.                                                *)
THEOREM WaitingIsPersonal == ConnectorSpec => SetupIsPersonal
<1>1. ASSUME ConnectorInv, NEW w \in Workers, ResumeConnection(w) \/ CancelSetup(w)
      PROVE  LET flow == req[w].data.pending[Connector].flow
             IN \E u \in {None, req[w].data.user} : [flow |-> flow, user |-> u] \in sent
  <2> DEFINE x == req[w].data.pending[Connector]
  <2>1. x # None /\ Reserved(req[w].data, x)
    BY <1>1 DEF ResumeConnection, Resume, CancelSetup
  <2>2. x \in sent /\ x \in Pending
    BY <1>1, <2>1, ConnectorAssumption, RequestFacts
    DEF ConnectorInv, ConnectorTypeOK, WasSent
  <2>3. x = [flow |-> x.flow, user |-> x.user] /\ x.user \in {None, req[w].data.user}
    BY <2>1, <2>2 DEF Pending, Reserved
  <2> HIDE DEF x
  <2>4. \E u \in {None, req[w].data.user} : [flow |-> x.flow, user |-> u] \in sent
    BY <2>2, <2>3
  <2> QED BY <2>4 DEF x
<1>2. ConnectorInv =>
        [\A w \in Workers : ResumeConnection(w) \/ CancelSetup(w)
           => LET flow == req[w].data.pending[Connector].flow
              IN \E u \in {None, req[w].data.user} :
                   [flow |-> flow, user |-> u] \in sent]_connectorVars
  BY <1>1
<1> QED BY <1>2, ConnectorInvariant, PTL DEF SetupIsPersonal
===============================================================================
