--------------------------- MODULE RateLimitsProofs ---------------------------
(***************************************************************************)
(* Proofs about RateLimits, for any buckets, limits, windows, ranks and    *)
(* keys, and any finite number of request threads.                         *)
(*                                                                         *)
(* A row has one holder at a time and changes only in its hands, so what a *)
(* request has read is still true when it commits: the mail budgets follow *)
(* from that.  The call budgets follow from the expiry of their rows: one  *)
(* that a sweep may delete belongs to a window whose last call has been    *)
(* answered.                                                               *)
(***************************************************************************)
EXTENDS RateLimits, FiniteSetTheorems, WellFoundedInduction, TLAPS

\* Request w has tested the budget of bucket b.
HasRead(w, b) == \E x \in req[w].rows : x.bucket = b

\* What it will write is one mail more than what is stored, within the limit.
ReadsHold(w) ==
  \A x \in req[w].rows :
    /\ x.bucket \in Held(w)
    /\ Attempts(x.bucket, req[w].at) < Limit[x.bucket]
    /\ x.row = OneMore(x.bucket, req[w].at)

\* Buckets are locked by rank.
InOrder(w) == \A b \in Held(w), c \in Unlocked(w) : Rank[b] < Rank[c]

Mailing(w) == pc[w] \in {"locking", "reading"}

MailGood(w) ==
  Mailing(w) =>
    /\ req[w].mine \in Mails
    /\ Held(w) \subseteq req[w].mine
    /\ ReadsHold(w)
    /\ InOrder(w)
    /\ pc[w] = "locking" => \A b \in Held(w) : HasRead(w, b)
    /\ pc[w] = "reading" =>
         \E b \in Held(w) : ~HasRead(w, b) /\ \A c \in Held(w) \ {b} : HasRead(w, c)

CallGood(w) ==
  pc[w] \in {"calling", "sweeping"} =>
    /\ req[w].call \in CallBuckets
    /\ req[w].at \div CallSeconds = req[w].call[2]
    /\ pc[w] = "sweeping" =>
         /\ req[w].call \in Held(w)
         /\ \A c \in Swept(w) : row[c] # NoRow /\ row[c].expires < req[w].at

\* The clock was read, and not long ago.
Timely(w) == pc[w] # "idle" => req[w].at <= now /\ now <= req[w].at + RequestTTL

\* What holds of request w.
Good(w) ==
  /\ Timely(w)
  /\ MailGood(w)
  /\ CallGood(w)
  /\ pc[w] \in {"idle", "calling"} => Held(w) = {}

OneHolder == \A b \in Buckets : \A v, w \in holders[b] : v = w

\* The moment up to which the row of call bucket b is kept.
CallEnd(b) == (b[2] + 2) * CallSeconds

\* A row lives as long as its window may be counted in, and counts every call
\* that is let through.
CallsCounted ==
  \A b \in CallBuckets :
    /\ allowed[b] <= CallLimit
    /\ row[b] # NoRow => CallEnd(b) <= row[b].expires
    /\ now < CallEnd(b) => allowed[b] <= (IF row[b] = NoRow THEN 0 ELSE row[b].attempts)

SInv ==
  /\ TypeOK
  /\ now <= MaxTime
  /\ OneHolder
  /\ \A w \in Workers : Good(w)
  /\ BudgetsExact
  /\ CallsCounted

-------------------------------------------------------------------------------
(* Windows, ranks and rows.                                                *)

LEMMA BoundFacts ==
  /\ CallSeconds \in Nat \ {0} /\ CallLimit \in Nat \ {0} /\ Retries \in Nat \ {0}
  /\ RequestTTL \in Nat /\ MaxTime \in Nat /\ RequestTTL <= CallSeconds
BY BoundAssumption

\* Windows of the clock do not go back.
LEMMA WindowsGrow ==
  ASSUME NEW t \in Nat, NEW u \in Nat, t <= u, NEW d \in Nat \ {0}
  PROVE  t \div d \in Nat /\ t \div d <= u \div d
OBVIOUS

\* A call that began in the window of b commits before the row may be swept,
\* and gives a new row all the time that needs.
LEMMA CallEnds ==
  ASSUME NEW b, NEW t \in Nat, t \div CallSeconds = b[2], NEW u \in Nat, u <= t + RequestTTL
  PROVE  u < CallEnd(b) /\ CallEnd(b) <= CallExpiry(t)
<1> DEFINE n == t \div CallSeconds
<1>1. n \in Nat /\ CallSeconds * n <= t /\ t < CallSeconds * n + CallSeconds
  BY BoundFacts
<1>2. CallEnd(b) = CallSeconds * n + 2 * CallSeconds
  <2> HIDE DEF n
  <2>1. b[2] = n
    BY DEF n
  <2> QED BY <1>1, <2>1, BoundFacts DEF CallEnd
<1> HIDE DEF n
<1>3. CallSeconds * n \in Nat
  BY <1>1, BoundFacts
<1> QED BY <1>1, <1>2, <1>3, BoundFacts DEF CallExpiry

LEMMA CallEndIsInt ==
  ASSUME NEW b \in CallBuckets
  PROVE  CallEnd(b) \in Nat
<1>1. b[2] \in Nat
  <2>1. b[2] \in 0 .. MaxTime \div CallSeconds
    BY DEF CallBuckets
  <2> QED BY <2>1
<1> QED BY <1>1, BoundFacts DEF CallEnd

\* In a finite set with a rank, some element has the greatest rank: the one
\* with the fewest above it.
LEMMA GreatestRank ==
  ASSUME NEW S, S # {}, IsFiniteSet(S), NEW f \in [S -> Nat]
  PROVE  \E x \in S : \A y \in S : f[y] <= f[x]
<1> DEFINE Above(x) == {y \in S : f[y] > f[x]}
           T == {Above(x) : x \in S}
<1>1. T \subseteq FiniteSubsetsOf(S) /\ T # {}
  <2>1. FiniteSubsetsOf(S) = SUBSET S
    BY FS_FiniteSubsetsOfFinite
  <2>2. T \subseteq SUBSET S
    OBVIOUS
  <2>3. PICK x \in S : Above(x) \in T
    OBVIOUS
  <2> HIDE DEF T
  <2> QED BY <2>1, <2>2, <2>3
<1>2. PICK X \in T : \A Y \in T : <<Y, X>> \notin StrictSubsetOrdering(S)
  <2> HIDE DEF T
  <2> QED BY <1>1, FS_StrictSubsetOrderingWellFounded, WFMin
<1>3. PICK x \in S : X = Above(x)
  BY <1>2
<1>4. ASSUME NEW y \in S, f[y] > f[x]
      PROVE  FALSE
  <2>1. Above(y) \subseteq Above(x) /\ y \in Above(x) /\ y \notin Above(y) /\ Above(x) \subseteq S
    BY <1>4
  <2>2. <<Above(y), X>> \in StrictSubsetOrdering(S)
    <3> HIDE DEF Above
    <3> QED BY <1>3, <2>1 DEF StrictSubsetOrdering
  <2> QED BY <1>2, <2>2
<1> QED BY <1>4

\* In a nonempty set of ranked things, some have the least rank.
LEMMA LeastRank ==
  ASSUME NEW S, S # {}, NEW f \in [S -> Nat]
  PROVE  \E x \in S : \A y \in S : f[x] <= f[y]
<1>1. PICK z \in S : TRUE
  OBVIOUS
<1> DEFINE U == 0 .. f[z]
           Ranks(x) == 0 .. f[x]
           T == {Ranks(x) : x \in {y \in S : f[y] <= f[z]}}
<1>2. f[z] \in Nat /\ IsFiniteSet(U)
  BY FS_Interval
<1>3. T \subseteq FiniteSubsetsOf(U) /\ T # {}
  <2>1. FiniteSubsetsOf(U) = SUBSET U
    <3> HIDE DEF U
    <3> QED BY <1>2, FS_FiniteSubsetsOfFinite
  <2>2. T \subseteq SUBSET U
    BY <1>2
  <2>3. Ranks(z) \in T
    BY <1>2
  <2> QED BY <2>1, <2>2, <2>3
<1>4. PICK X \in T : \A Y \in T : <<Y, X>> \notin StrictSubsetOrdering(U)
  <2> HIDE DEF T, U
  <2> QED BY <1>3, FS_StrictSubsetOrderingWellFounded, WFMin
<1>5. PICK x \in S : X = Ranks(x) /\ f[x] <= f[z]
  BY <1>4
<1>6. ASSUME NEW y \in S, f[y] < f[x]
      PROVE  FALSE
  <2>1. f[x] \in Nat /\ f[y] \in Nat /\ f[y] <= f[z]
    BY <1>2, <1>5, <1>6
  <2>2. Ranks(y) \in T
    BY <2>1
  <2>3. Ranks(y) \subseteq Ranks(x) /\ f[x] \in Ranks(x) /\ f[x] \notin Ranks(y) /\ Ranks(x) \subseteq U
    BY <1>2, <1>5, <1>6, <2>1
  <2>4. <<Ranks(y), X>> \in StrictSubsetOrdering(U)
    <3> HIDE DEF Ranks, U
    <3> QED BY <1>5, <2>3 DEF StrictSubsetOrdering
  <2> HIDE DEF T
  <2> QED BY <1>4, <2>2, <2>4
<1> QED BY <1>6

-------------------------------------------------------------------------------
(* Locks and requests.                                                     *)

LEMMA TypeFacts ==
  ASSUME SInv, NEW w \in Workers
  PROVE  /\ now \in Nat /\ pc[w] \in Stages /\ req[w] \in Request
         /\ req[w].mine \subseteq MailBuckets /\ req[w].at \in Nat
         /\ req[w].retry \in 0 .. Retries - 1
         /\ req[w].rows \subseteq [bucket : MailBuckets, row : Row]
         /\ req[w].call \in CallBuckets \cup {None}
         /\ Held(w) \subseteq Buckets /\ Good(w)
<1>1. now \in Nat /\ pc[w] \in Stages /\ req[w] \in Request
  BY DEF SInv, TypeOK
<1> QED BY <1>1 DEF SInv, Request, Held

LEMMA RowFacts ==
  ASSUME SInv, NEW b \in Buckets, row[b] # NoRow
  PROVE  row[b] \in Row /\ row[b].attempts \in Nat /\ row[b].expires \in Nat
BY DEF SInv, TypeOK, Row

LEMMA BucketFacts ==
  /\ MailBuckets \subseteq Buckets /\ CallBuckets \subseteq Buckets
  /\ \A b \in MailBuckets :
       /\ b \notin CallBuckets /\ Limit[b] \in Nat /\ Limit[b] >= 1
       /\ Seconds[b] \in Nat /\ Seconds[b] >= 1 /\ Rank[b] \in Nat
BY RuleAssumption, RankAssumption DEF Buckets

LEMMA NoRequestFacts == NoRequest \in Request /\ "idle" \in Stages
<1>1. 0 \in 0 .. Retries - 1
  BY BoundFacts
<1> QED BY <1>1 DEF NoRequest, Request, Stages

\* Two requests never hold the same row.
LEMMA HeldApart ==
  ASSUME SInv, NEW w \in Workers, NEW v \in Workers \ {w}, NEW b \in Held(v)
  PROVE  b \in Buckets \ Held(w)
BY DEF SInv, OneHolder, Held

LEMMA LockEffect ==
  ASSUME SInv, NEW w \in Workers, NEW b \in Buckets, holders[b] = {}, Lock(w, b)
  PROVE  /\ holders' \in [Buckets -> SUBSET Workers] /\ OneHolder'
         /\ b \notin Held(w) /\ Held(w)' = Held(w) \cup {b}
         /\ \A v \in Workers \ {w} : Held(v)' = Held(v)
<1>1. /\ holders \in [Buckets -> SUBSET Workers]
      /\ holders' = [holders EXCEPT ![b] = {w}]
  BY DEF SInv, TypeOK, Lock
<1>2. \A c \in Buckets : holders'[c] = IF c = b THEN {w} ELSE holders[c]
  BY <1>1
<1> QED BY <1>1, <1>2 DEF SInv, OneHolder, Held

LEMMA ReleaseEffect ==
  ASSUME SInv, NEW w \in Workers, Release(w)
  PROVE  /\ holders' \in [Buckets -> SUBSET Workers] /\ OneHolder'
         /\ Held(w)' = {}
         /\ \A v \in Workers \ {w} : Held(v)' = Held(v)
<1>1. holders \in [Buckets -> SUBSET Workers]
  BY DEF SInv, TypeOK
<1>2. \A c \in Buckets : holders'[c] = holders[c] \ {w}
  BY DEF Release
<1> QED BY <1>1, <1>2 DEF SInv, OneHolder, Held, Release

\* The clock of a request stays timely while time stands still.
LEMMA ClockKept ==
  ASSUME SInv, NEW w \in Workers, pc[w] # "idle", req'[w].at = req[w].at, now' = now
  PROVE  Timely(w)'
BY TypeFacts DEF Good, Timely

LEMMA ClockRead ==
  ASSUME SInv, NEW w \in Workers, req'[w].at = now, now' = now
  PROVE  Timely(w)'
BY TypeFacts, BoundFacts DEF Timely

\* What holds of a request depends on the clock, the request and its rows.
LEMMA GoodDepends ==
  ASSUME SInv, NEW v \in Workers, pc'[v] = pc[v], req'[v] = req[v], Held(v)' = Held(v),
         now' = now, \A b \in Held(v) : row'[b] = row[b]
  PROVE  Good(v)'
<1>1. Good(v)
  BY DEF SInv
<1>2. MailGood(v)'
  <2>1. ReadsHold(v) => ReadsHold(v)'
    BY DEF ReadsHold, Attempts, OneMore
  <2>2. InOrder(v) => InOrder(v)'
    BY DEF InOrder, Unlocked
  <2>3. \A b : HasRead(v, b)' <=> HasRead(v, b)
    BY DEF HasRead
  <2> HIDE DEF ReadsHold, InOrder, HasRead
  <2> QED BY <1>1, <2>1, <2>2, <2>3 DEF Good, MailGood, Mailing
<1>3. CallGood(v)'
  BY <1>1 DEF Good, CallGood, Swept
<1> QED BY <1>1, <1>2, <1>3 DEF Good, Timely

\* A request that changes none but its own rows disturbs no other.
LEMMA MoveKeepsGood ==
  ASSUME SInv, NEW w \in Workers, NEW s \in Stages, NEW r \in Request, Goto(w, s, r),
         now' = now, \A v \in Workers \ {w} : Held(v)' = Held(v),
         \A b \in Buckets \ Held(w) : row'[b] = row[b],
         pc'[w] = s /\ req'[w] = r => Good(w)'
  PROVE  /\ pc' \in [Workers -> Stages] /\ req' \in [Workers -> Request]
         /\ \A v \in Workers : Good(v)'
<1>1. /\ pc' \in [Workers -> Stages] /\ req' \in [Workers -> Request]
      /\ pc'[w] = s /\ req'[w] = r
      /\ \A v \in Workers \ {w} : pc'[v] = pc[v] /\ req'[v] = req[v]
  BY DEF SInv, TypeOK, Goto
<1>2. ASSUME NEW v \in Workers \ {w}
      PROVE  Good(v)'
  <2>1. \A b \in Held(v) : row'[b] = row[b]
    BY HeldApart
  <2> QED BY <1>1, <2>1, GoodDepends
<1> QED BY <1>1, <1>2

-------------------------------------------------------------------------------
(* What a request turns to.                                                *)

LEMMA TurnIsFirst ==
  ASSUME SInv, NEW w \in Workers, Unlocked(w) # {}
  PROVE  /\ Turn(w) \in Unlocked(w) /\ Turn(w) \in MailBuckets
         /\ \A c \in Unlocked(w) \ {Turn(w)} : Rank[Turn(w)] < Rank[c]
<1> DEFINE U == Unlocked(w)
<1>1. U \subseteq MailBuckets
  BY TypeFacts DEF Unlocked
<1>2. \E b \in U : \A c \in U : Rank[b] <= Rank[c]
  <2> DEFINE f == [b \in U |-> Rank[b]]
  <2>1. f \in [U -> Nat]
    BY <1>1, BucketFacts
  <2>2. PICK b \in U : \A c \in U : f[b] <= f[c]
    <3> HIDE DEF f, U
    <3>1. U # {}
      BY DEF U
    <3> QED BY <2>1, <3>1, LeastRank
  <2> QED BY <2>2
<1>3. Turn(w) \in U /\ \A c \in U : Rank[Turn(w)] <= Rank[c]
  BY <1>2 DEF Turn
<1>4. \A c \in U : Rank[c] \in Nat /\ (Rank[c] = Rank[Turn(w)] => c = Turn(w))
  BY <1>1, <1>3, BucketFacts, RankAssumption
<1> HIDE DEF U
<1>5. Turn(w) \in U /\ Turn(w) \in MailBuckets /\ \A c \in U \ {Turn(w)} : Rank[Turn(w)] < Rank[c]
  BY <1>1, <1>3, <1>4
<1> QED BY <1>5 DEF U

LEMMA CurrentIsUnread ==
  ASSUME SInv, NEW w \in Workers, pc[w] = "reading"
  PROVE  /\ Current(w) \in Held(w) /\ Current(w) \in MailBuckets
         /\ ~HasRead(w, Current(w))
         /\ \A c \in Held(w) \ {Current(w)} : HasRead(w, c)
         /\ holders[Current(w)] = {w}
<1>1. /\ Held(w) \subseteq req[w].mine /\ req[w].mine \subseteq MailBuckets
      /\ \E b \in Held(w) : ~HasRead(w, b) /\ \A c \in Held(w) \ {b} : HasRead(w, c)
  BY TypeFacts DEF Good, MailGood, Mailing
<1>2. PICK b \in Held(w) : ~HasRead(w, b) /\ \A c \in Held(w) \ {b} : HasRead(w, c)
  BY <1>1
<1>3. Current(w) \in Held(w) \cap req[w].mine /\ ~HasRead(w, Current(w))
  BY <1>1, <1>2 DEF Current, HasRead
<1>4. holders[Current(w)] = {w}
  BY <1>3 DEF Held, SInv, TypeOK, OneHolder
<1> HIDE DEF Current
<1> QED BY <1>1, <1>2, <1>3, <1>4

-------------------------------------------------------------------------------
(* Steps that leave the table alone.                                       *)

LEMMA MailBudgetsKept ==
  ASSUME SInv, sent' = sent, \A b \in MailBuckets : row'[b] = row[b]
  PROVE  BudgetsExact'
BY DEF SInv, BudgetsExact

LEMMA CallCountsKept ==
  ASSUME SInv, allowed' = allowed, now' = now, \A b \in CallBuckets : row'[b] = row[b]
  PROVE  CallsCounted'
BY DEF SInv, CallsCounted, CallEnd

LEMMA QuietStep ==
  ASSUME SInv, UNCHANGED <<now, row, sent, allowed>>, OneHolder',
         holders' \in [Buckets -> SUBSET Workers],
         pc' \in [Workers -> Stages], req' \in [Workers -> Request],
         \A w \in Workers : Good(w)'
  PROVE  SInv'
<1>1. TypeOK' /\ now' <= MaxTime
  BY DEF SInv, TypeOK
<1>2. BudgetsExact' /\ CallsCounted'
  BY MailBudgetsKept, CallCountsKept
<1> QED BY <1>1, <1>2 DEF SInv

\* The end of a request, with or without an answer.
LEMMA EndKeepsGood ==
  ASSUME SInv, NEW w \in Workers, Release(w), Goto(w, "idle", NoRequest), now' = now,
         \A b \in Buckets \ Held(w) : row'[b] = row[b]
  PROVE  /\ pc' \in [Workers -> Stages] /\ req' \in [Workers -> Request]
         /\ holders' \in [Buckets -> SUBSET Workers] /\ OneHolder'
         /\ \A v \in Workers : Good(v)'
<1>1. /\ holders' \in [Buckets -> SUBSET Workers] /\ OneHolder'
      /\ Held(w)' = {} /\ \A v \in Workers \ {w} : Held(v)' = Held(v)
  BY ReleaseEffect
<1>2. pc'[w] = "idle" => Good(w)'
  BY <1>1 DEF Good, MailGood, CallGood, Timely, Mailing
<1> QED BY <1>1, <1>2, NoRequestFacts, MoveKeepsGood

LEMMA QuietEnd ==
  ASSUME SInv, NEW w \in Workers, Release(w), Goto(w, "idle", NoRequest),
         UNCHANGED <<now, row, sent, allowed>>
  PROVE  SInv'
BY EndKeepsGood, QuietStep

LEMMA BeginStep ==
  ASSUME SInv, NEW w \in Workers, NEW m \in Mails, Begin(w, m)
  PROVE  SInv'
<1> DEFINE r == [NoRequest EXCEPT !.mine = m, !.at = now]
<1>1. /\ pc[w] = "idle" /\ Goto(w, "locking", r)
      /\ UNCHANGED <<now, row, sent, allowed>> /\ holders' = holders
  BY DEF Begin
<1>2. r \in Request /\ r.rows = {} /\ r.mine = m /\ r.at = now /\ "locking" \in Stages
  <2>1. m \subseteq MailBuckets /\ now \in Nat
    BY RuleAssumption, TypeFacts
  <2> QED BY <2>1, NoRequestFacts DEF NoRequest, Request, Stages
<1> HIDE DEF r
<1>3. Held(w) = {} /\ \A v \in Workers : Held(v)' = Held(v)
  BY <1>1, TypeFacts DEF Good, Held
<1>4. pc'[w] = "locking" /\ req'[w] = r => Good(w)'
  BY <1>1, <1>2, <1>3, ClockRead DEF Good, MailGood, CallGood, Mailing, ReadsHold, InOrder
<1>5. /\ pc' \in [Workers -> Stages] /\ req' \in [Workers -> Request]
      /\ \A v \in Workers : Good(v)'
  BY <1>1, <1>2, <1>3, <1>4, MoveKeepsGood
<1>6. holders' \in [Buckets -> SUBSET Workers] /\ OneHolder'
  BY <1>1 DEF SInv, TypeOK, OneHolder
<1> QED BY <1>1, <1>5, <1>6, QuietStep

LEMMA UpsertStep ==
  ASSUME SInv, NEW w \in Workers, Upsert(w)
  PROVE  SInv'
<1>1. PICK b : b = Turn(w)
  OBVIOUS
<1>2. /\ pc[w] = "locking" /\ Unlocked(w) # {} /\ holders[b] \subseteq {w} /\ Lock(w, b)
      /\ Goto(w, "reading", req[w]) /\ UNCHANGED <<now, row, sent, allowed>>
  BY <1>1 DEF Upsert, UpsertLock
<1>3. b \in Unlocked(w) /\ b \in MailBuckets /\ \A c \in Unlocked(w) \ {b} : Rank[b] < Rank[c]
  BY <1>1, <1>2, TurnIsFirst
<1>4. b \in Buckets /\ holders[b] = {} /\ b \in req[w].mine
  BY <1>2, <1>3, BucketFacts DEF Unlocked, Held
<1>5. /\ holders' \in [Buckets -> SUBSET Workers] /\ OneHolder'
      /\ b \notin Held(w) /\ Held(w)' = Held(w) \cup {b}
      /\ \A v \in Workers \ {w} : Held(v)' = Held(v)
  BY <1>2, <1>4, LockEffect
<1>6. /\ Held(w) \subseteq req[w].mine /\ ReadsHold(w) /\ InOrder(w) /\ req[w].mine \in Mails
      /\ \A c \in Held(w) : HasRead(w, c)
  BY <1>2, TypeFacts DEF Good, MailGood, Mailing
<1>7. ASSUME pc'[w] = "reading", req'[w] = req[w]
      PROVE  Good(w)'
  <2>1. ReadsHold(w)'
    BY <1>2, <1>5, <1>6, <1>7 DEF ReadsHold, Attempts, OneMore
  <2>2. InOrder(w)'
    BY <1>3, <1>5, <1>6, <1>7 DEF InOrder, Unlocked
  <2>3. ~HasRead(w, b)' /\ \A c \in Held(w)' \ {b} : HasRead(w, c)'
    BY <1>5, <1>6, <1>7 DEF HasRead, ReadsHold
  <2>4. b \in Held(w)' /\ Held(w)' \subseteq req'[w].mine
    BY <1>4, <1>5, <1>6, <1>7
  <2> HIDE DEF ReadsHold, InOrder, HasRead
  <2>5. Timely(w)'
    BY <1>2, <1>7, ClockKept
  <2> QED BY <1>6, <1>7, <2>1, <2>2, <2>3, <2>4, <2>5 DEF Good, MailGood, CallGood, Mailing
<1>8. /\ pc' \in [Workers -> Stages] /\ req' \in [Workers -> Request]
      /\ \A v \in Workers : Good(v)'
  <2>1. "reading" \in Stages /\ req[w] \in Request
    BY TypeFacts DEF Stages
  <2> QED BY <1>2, <1>5, <1>7, <2>1, MoveKeepsGood
<1> QED BY <1>2, <1>5, <1>8, QuietStep

LEMMA OneMoreFacts ==
  ASSUME SInv, NEW b \in MailBuckets, NEW t \in Nat
  PROVE  /\ OneMore(b, t) \in Row /\ Attempts(b, t) \in Nat
         /\ Attempts(b, t) > 0 =>
              /\ row[b] # NoRow /\ Attempts(b, t) = row[b].attempts
              /\ OneMore(b, t).attempts = row[b].attempts + 1
              /\ OneMore(b, t).expires = row[b].expires
         /\ Attempts(b, t) = 0 =>
              /\ OneMore(b, t).attempts = 1 /\ OneMore(b, t).expires = t + Seconds[b]
              /\ row[b] # NoRow /\ row[b].expires > t => row[b].attempts = 0
<1>1. b \in Buckets /\ Seconds[b] \in Nat
  BY BucketFacts
<1>2. row[b] # NoRow => row[b] \in Row /\ row[b].attempts \in Nat /\ row[b].expires \in Nat
  BY <1>1, RowFacts
<1>3. Attempts(b, t) \in Nat
  BY <1>2 DEF Attempts
<1>4. CASE Attempts(b, t) > 0
  <2>1. row[b] # NoRow /\ Attempts(b, t) = row[b].attempts
    BY <1>4 DEF Attempts
  <2>2. OneMore(b, t) = [row[b] EXCEPT !.attempts = @ + 1]
    BY <1>4 DEF OneMore
  <2> QED BY <1>2, <1>3, <1>4, <2>1, <2>2 DEF Row
<1>5. CASE Attempts(b, t) = 0
  <2>1. OneMore(b, t) = [attempts |-> 1, expires |-> t + Seconds[b]]
    BY <1>5 DEF OneMore
  <2>2. row[b] # NoRow /\ row[b].expires > t => row[b].attempts = 0
    BY <1>5 DEF Attempts
  <2> QED BY <1>1, <1>3, <1>5, <2>1, <2>2 DEF Row
<1> QED BY <1>3, <1>4, <1>5

LEMMA ReadRowStep ==
  ASSUME SInv, NEW w \in Workers, ReadRow(w)
  PROVE  SInv'
<1>1. PICK b : b = Current(w)
  OBVIOUS
<1> DEFINE e == [bucket |-> b, row |-> OneMore(b, req[w].at)]
           r == [req[w] EXCEPT !.rows = @ \cup {e}]
<1>2. /\ pc[w] = "reading" /\ Attempts(b, req[w].at) < Limit[b]
      /\ Goto(w, "locking", r) /\ UNCHANGED <<now, row, sent, allowed>> /\ holders' = holders
  BY <1>1 DEF ReadRow
<1>3. /\ b \in Held(w) /\ b \in MailBuckets /\ \A c \in Held(w) \ {b} : HasRead(w, c)
  BY <1>1, <1>2, CurrentIsUnread
<1>4. e \in [bucket : MailBuckets, row : Row] /\ e.bucket = b /\ e.row = OneMore(b, req[w].at)
  BY <1>3, TypeFacts, OneMoreFacts
<1>5. /\ r \in Request /\ "locking" \in Stages /\ r.rows = req[w].rows \cup {e}
      /\ r.mine = req[w].mine /\ r.at = req[w].at
  <2> HIDE DEF e
  <2> QED BY <1>4, TypeFacts DEF Request, Stages
<1> HIDE DEF e, r
<1>6. \A v \in Workers : Held(v)' = Held(v)
  BY <1>2 DEF Held
<1>7. Held(w) \subseteq req[w].mine /\ ReadsHold(w) /\ InOrder(w) /\ req[w].mine \in Mails
  BY <1>2, TypeFacts DEF Good, MailGood, Mailing
<1>8. ASSUME pc'[w] = "locking", req'[w] = r
      PROVE  Good(w)'
  <2>1. ReadsHold(w)'
    BY <1>2, <1>3, <1>4, <1>5, <1>6, <1>7, <1>8 DEF ReadsHold, Attempts, OneMore
  <2>2. InOrder(w)'
    BY <1>5, <1>6, <1>7, <1>8 DEF InOrder, Unlocked
  <2>3. \A c \in Held(w)' : HasRead(w, c)'
    BY <1>3, <1>4, <1>5, <1>6, <1>8 DEF HasRead
  <2>4. Held(w)' \subseteq req'[w].mine
    BY <1>5, <1>6, <1>7, <1>8
  <2> HIDE DEF ReadsHold, InOrder, HasRead
  <2>5. Timely(w)'
    BY <1>2, <1>5, <1>8, ClockKept
  <2> QED BY <1>5, <1>7, <1>8, <2>1, <2>2, <2>3, <2>4, <2>5 DEF Good, MailGood, CallGood, Mailing
<1>9. /\ pc' \in [Workers -> Stages] /\ req' \in [Workers -> Request]
      /\ \A v \in Workers : Good(v)'
  BY <1>2, <1>5, <1>6, <1>8, MoveKeepsGood
<1>10. holders' \in [Buckets -> SUBSET Workers] /\ OneHolder'
  BY <1>2 DEF SInv, TypeOK, OneHolder
<1> QED BY <1>2, <1>9, <1>10, QuietStep

LEMMA RetryStep ==
  ASSUME SInv, NEW w \in Workers, Retry(w)
  PROVE  SInv'
<1> DEFINE r == [req[w] EXCEPT !.at = now, !.rows = {}, !.retry = @ + 1]
<1>1. /\ pc[w] \in {"locking", "reading"} /\ req[w].retry < Retries - 1
      /\ Release(w) /\ Goto(w, "locking", r) /\ UNCHANGED <<now, row, sent, allowed>>
  BY DEF Retry, MayRetry
<1>2. /\ r \in Request /\ r.rows = {} /\ r.mine = req[w].mine /\ r.at = now
      /\ req[w].mine \in Mails /\ "locking" \in Stages
  <2>1. req[w].retry + 1 \in 0 .. Retries - 1
    BY <1>1, TypeFacts, BoundFacts
  <2>2. req[w].mine \in Mails
    BY <1>1, TypeFacts DEF Good, MailGood, Mailing
  <2> QED BY <2>1, <2>2, TypeFacts DEF Request, Stages
<1> HIDE DEF r
<1>3. /\ holders' \in [Buckets -> SUBSET Workers] /\ OneHolder'
      /\ Held(w)' = {} /\ \A v \in Workers \ {w} : Held(v)' = Held(v)
  BY <1>1, ReleaseEffect
<1>4. pc'[w] = "locking" /\ req'[w] = r => Good(w)'
  BY <1>1, <1>2, <1>3, ClockRead DEF Good, MailGood, CallGood, Mailing, ReadsHold, InOrder
<1>5. /\ pc' \in [Workers -> Stages] /\ req' \in [Workers -> Request]
      /\ \A v \in Workers : Good(v)'
  BY <1>1, <1>2, <1>3, <1>4, MoveKeepsGood
<1> QED BY <1>1, <1>3, <1>5, QuietStep

-------------------------------------------------------------------------------
(* Mail: a refusal and a reservation.                                      *)

LEMMA RefuseStep ==
  ASSUME SInv, NEW w \in Workers, Refuse(w)
  PROVE  SInv'
<1>1. /\ pc[w] = "reading" /\ row' = Inserted(w) /\ Release(w)
      /\ Goto(w, "idle", NoRequest) /\ now' = now /\ sent' = sent /\ allowed' = allowed
  BY DEF Refuse, RefusalRows
<1>2. Held(w) \subseteq MailBuckets /\ req[w].at \in Nat
  BY <1>1, TypeFacts DEF Good, MailGood, Mailing
<1> DEFINE fresh(b) == [attempts |-> 0, expires |-> req[w].at + Seconds[b]]
<1>3. \A b \in MailBuckets : fresh(b) \in Row /\ fresh(b).attempts = 0 /\ fresh(b) # NoRow
  BY <1>2, BucketFacts, NullAssumption DEF Row
<1>4. /\ DOMAIN row' = Buckets /\ row' = [b \in Buckets |-> row'[b]]
      /\ \A b \in Buckets :
           row'[b] = IF b \in Held(w) /\ row[b] = NoRow THEN fresh(b) ELSE row[b]
  BY <1>1 DEF Inserted
<1> HIDE DEF fresh
<1>5. row' \in [Buckets -> Row \cup {NoRow}]
  <2>1. \A b \in Buckets : row'[b] \in Row \cup {NoRow}
    BY <1>2, <1>3, <1>4 DEF SInv, TypeOK
  <2> QED BY <1>4, <2>1
<1>6. BudgetsExact'
  <2>1. ASSUME NEW b \in MailBuckets
        PROVE  sent[b] <= Limit[b] /\ sent[b] = IF row'[b] = NoRow THEN 0 ELSE row'[b].attempts
    <3>1. sent[b] <= Limit[b] /\ sent[b] = IF row[b] = NoRow THEN 0 ELSE row[b].attempts
      BY DEF SInv, BudgetsExact
    <3> QED BY <1>3, <1>4, <3>1, BucketFacts
  <2> QED BY <1>1, <2>1 DEF BudgetsExact
<1>7. CallsCounted'
  <2>1. \A b \in CallBuckets : row'[b] = row[b]
    BY <1>2, <1>4, BucketFacts
  <2> QED BY <1>1, <2>1, CallCountsKept
<1>8. /\ pc' \in [Workers -> Stages] /\ req' \in [Workers -> Request]
      /\ holders' \in [Buckets -> SUBSET Workers] /\ OneHolder'
      /\ \A v \in Workers : Good(v)'
  BY <1>1, <1>4, EndKeepsGood
<1> QED BY <1>1, <1>5, <1>6, <1>7, <1>8 DEF SInv, TypeOK

\* The entry of bucket b in what request w writes.
Entry(w, b) == (CHOOSE x \in req[w].rows : x.bucket = b).row

LEMMA EntryIsOneMore ==
  ASSUME SInv, NEW w \in Workers, pc[w] = "locking", Unlocked(w) = {}, NEW b \in req[w].mine
  PROVE  /\ b \in Held(w) /\ b \in MailBuckets /\ Entry(w, b) = OneMore(b, req[w].at)
         /\ Attempts(b, req[w].at) < Limit[b]
<1>1. /\ Held(w) \subseteq req[w].mine /\ req[w].mine \subseteq MailBuckets /\ ReadsHold(w)
      /\ \A c \in Held(w) : HasRead(w, c)
  BY TypeFacts DEF Good, MailGood, Mailing
<1>2. b \in Held(w) /\ b \in MailBuckets
  BY <1>1 DEF Unlocked
<1>3. PICK x \in req[w].rows : x.bucket = b /\ Entry(w, b) = x.row
  BY <1>1, <1>2 DEF HasRead, Entry
<1>4. /\ Attempts(x.bucket, req[w].at) < Limit[x.bucket]
      /\ x.row = OneMore(x.bucket, req[w].at)
  BY <1>1 DEF ReadsHold
<1> QED BY <1>2, <1>3, <1>4

LEMMA ReserveStep ==
  ASSUME SInv, NEW w \in Workers, Reserve(w)
  PROVE  SInv'
<1> DEFINE m == req[w].mine
           t == req[w].at
<1>1. /\ pc[w] = "locking" /\ Unlocked(w) = {} /\ Release(w)
      /\ Goto(w, "idle", NoRequest) /\ now' = now /\ allowed' = allowed
  BY DEF Reserve
<1>2. /\ m \subseteq MailBuckets /\ m \subseteq Held(w) /\ t \in Nat
      /\ \A b \in m : Entry(w, b) = OneMore(b, t) /\ Attempts(b, t) < Limit[b]
  BY <1>1, TypeFacts, EntryIsOneMore
<1>3. /\ row' = [b \in Buckets |-> IF b \in m THEN Entry(w, b) ELSE row[b]]
      /\ sent' = [b \in MailBuckets |->
                    IF b \notin m THEN sent[b]
                    ELSE IF row[b] # NoRow /\ row[b].expires = Entry(w, b).expires
                         THEN sent[b] + 1
                         ELSE 1]
  BY DEF Reserve, Entry
<1> HIDE DEF m, t
<1>4. /\ \A b \in Buckets : row'[b] = IF b \in m THEN OneMore(b, t) ELSE row[b]
      /\ \A b \in MailBuckets :
           sent'[b] = IF b \notin m THEN sent[b]
                      ELSE IF row[b] # NoRow /\ row[b].expires = OneMore(b, t).expires
                           THEN sent[b] + 1
                           ELSE 1
  BY <1>2, <1>3, BucketFacts
<1>5. \A b \in MailBuckets : sent[b] \in Nat
  BY DEF SInv, TypeOK
<1>6. row' \in [Buckets -> Row \cup {NoRow}]
  <2>1. ASSUME NEW b \in Buckets
        PROVE  row'[b] \in Row \cup {NoRow}
    <3>1. CASE b \in m
      <4>1. row'[b] = OneMore(b, t) /\ b \in MailBuckets
        BY <1>2, <1>4, <3>1
      <4> QED BY <1>2, <4>1, OneMoreFacts
    <3>2. CASE b \notin m
      <4>1. row'[b] = row[b]
        BY <1>4, <3>2
      <4> QED BY <4>1 DEF SInv, TypeOK
    <3> QED BY <3>1, <3>2
  <2> QED BY <1>3, <2>1
<1>7. sent' \in [MailBuckets -> Nat]
  <2>1. \A b \in MailBuckets : sent'[b] \in Nat
    BY <1>4, <1>5
  <2> QED BY <1>3, <2>1
<1>8. BudgetsExact'
  <2>1. ASSUME NEW b \in MailBuckets
        PROVE  sent'[b] <= Limit[b] /\ sent'[b] = IF row'[b] = NoRow THEN 0 ELSE row'[b].attempts
    <3>1. /\ sent[b] <= Limit[b] /\ sent[b] = IF row[b] = NoRow THEN 0 ELSE row[b].attempts
          /\ b \in Buckets /\ Limit[b] \in Nat /\ Limit[b] >= 1
          /\ Seconds[b] \in Nat /\ Seconds[b] >= 1
      BY BucketFacts DEF SInv, BudgetsExact
    <3>2. CASE b \notin m
      BY <1>4, <3>1, <3>2
    <3>3. CASE b \in m
      <4>1. OneMore(b, t) \in Row /\ OneMore(b, t) # NoRow /\ row'[b] = OneMore(b, t)
        BY <1>2, <1>4, <3>1, <3>3, OneMoreFacts, NullAssumption
      <4>2. Attempts(b, t) \in Nat /\ Attempts(b, t) < Limit[b]
        BY <1>2, <3>3, OneMoreFacts
      <4>3. CASE Attempts(b, t) > 0
        <5>1. /\ row[b] # NoRow /\ Attempts(b, t) = row[b].attempts
              /\ OneMore(b, t).attempts = row[b].attempts + 1
              /\ OneMore(b, t).expires = row[b].expires
          BY <1>2, <4>3, OneMoreFacts
        <5>2. sent'[b] = sent[b] + 1
          BY <1>4, <3>3, <5>1
        <5> QED BY <3>1, <4>1, <4>2, <5>1, <5>2
      <4>4. CASE Attempts(b, t) = 0
        <5>1. /\ OneMore(b, t).attempts = 1 /\ OneMore(b, t).expires = t + Seconds[b]
              /\ row[b] # NoRow /\ row[b].expires > t => row[b].attempts = 0
          BY <1>2, <4>4, OneMoreFacts
        <5>2. CASE row[b] # NoRow /\ row[b].expires = t + Seconds[b]
          <6>1. row[b].attempts = 0
            BY <1>2, <3>1, <5>1, <5>2
          <6> QED BY <1>4, <3>1, <3>3, <4>1, <5>1, <5>2, <6>1
        <5>3. CASE ~(row[b] # NoRow /\ row[b].expires = t + Seconds[b])
          BY <1>4, <3>1, <3>3, <4>1, <5>1, <5>3
        <5> QED BY <5>2, <5>3
      <4> QED BY <4>2, <4>3, <4>4
    <3> QED BY <3>2, <3>3
  <2> QED BY <2>1 DEF BudgetsExact
<1>9. CallsCounted'
  <2>1. \A b \in CallBuckets : row'[b] = row[b]
    BY <1>2, <1>4, BucketFacts
  <2> QED BY <1>1, <2>1, CallCountsKept
<1>10. /\ pc' \in [Workers -> Stages] /\ req' \in [Workers -> Request]
       /\ holders' \in [Buckets -> SUBSET Workers] /\ OneHolder'
       /\ \A v \in Workers : Good(v)'
  BY <1>1, <1>2, <1>4, EndKeepsGood
<1> QED BY <1>1, <1>6, <1>7, <1>8, <1>9, <1>10 DEF SInv, TypeOK

-------------------------------------------------------------------------------
(* Calls.                                                                  *)

LEMMA CallStep ==
  ASSUME SInv, NEW w \in Workers, NEW k \in Keys, Call(w, k)
  PROVE  SInv'
<1> DEFINE b == <<k, now \div CallSeconds>>
           r == [NoRequest EXCEPT !.at = now, !.call = b]
<1>1. /\ pc[w] = "idle" /\ Goto(w, "calling", r)
      /\ UNCHANGED <<now, row, sent, allowed>> /\ holders' = holders
  BY DEF Call
<1>2. now \in Nat /\ now <= MaxTime /\ MaxTime \in Nat
  BY BoundFacts DEF SInv, TypeOK
<1>3. b \in CallBuckets /\ b[2] = now \div CallSeconds
  <2>1. /\ now \div CallSeconds \in Nat /\ MaxTime \div CallSeconds \in Nat
        /\ now \div CallSeconds <= MaxTime \div CallSeconds
    BY <1>2, BoundFacts, WindowsGrow
  <2> QED BY <2>1 DEF CallBuckets
<1> HIDE DEF b
<1>4. /\ r \in Request /\ r.at = now /\ r.call = b /\ "calling" \in Stages
  BY <1>2, <1>3, NoRequestFacts DEF NoRequest, Request, Stages
<1> HIDE DEF r
<1>5. Held(w) = {} /\ \A v \in Workers : Held(v)' = Held(v)
  BY <1>1, TypeFacts DEF Good, Held
<1>6. pc'[w] = "calling" /\ req'[w] = r => Good(w)'
  BY <1>1, <1>2, <1>3, <1>4, <1>5, BoundFacts DEF Good, MailGood, CallGood, Timely, Mailing
<1>7. /\ pc' \in [Workers -> Stages] /\ req' \in [Workers -> Request]
      /\ \A v \in Workers : Good(v)'
  BY <1>1, <1>4, <1>5, <1>6, MoveKeepsGood
<1>8. holders' \in [Buckets -> SUBSET Workers] /\ OneHolder'
  BY <1>1 DEF SInv, TypeOK, OneHolder
<1> QED BY <1>1, <1>7, <1>8, QuietStep

LEMMA CountStep ==
  ASSUME SInv, NEW w \in Workers, Count(w)
  PROVE  SInv'
<1> DEFINE b == req[w].call
<1>1. /\ pc[w] = "calling" /\ holders[b] = {} /\ Lock(w, b)
      /\ Goto(w, "sweeping", req[w]) /\ UNCHANGED <<now, row, sent, allowed>>
  BY DEF Count
<1>2. /\ b \in CallBuckets /\ b \in Buckets /\ CallGood(w) /\ Held(w) = {}
      /\ req[w] \in Request /\ "sweeping" \in Stages
  BY <1>1, TypeFacts, BucketFacts DEF Good, CallGood, Stages
<1>3. /\ holders' \in [Buckets -> SUBSET Workers] /\ OneHolder'
      /\ Held(w)' = {b} /\ \A v \in Workers \ {w} : Held(v)' = Held(v)
  <2> HIDE DEF b
  <2> QED BY <1>1, <1>2, LockEffect
<1>4. pc'[w] = "sweeping" /\ req'[w] = req[w] => Good(w)'
  BY <1>1, <1>2, <1>3, ClockKept DEF Good, MailGood, CallGood, Mailing, Swept
<1>5. /\ pc' \in [Workers -> Stages] /\ req' \in [Workers -> Request]
      /\ \A v \in Workers : Good(v)'
  BY <1>1, <1>2, <1>3, <1>4, MoveKeepsGood
<1> QED BY <1>1, <1>3, <1>5, QuietStep

LEMMA SweepStep ==
  ASSUME SInv, NEW w \in Workers, NEW b \in Buckets, Sweep(w, b)
  PROVE  SInv'
<1>1. /\ pc[w] = "sweeping" /\ b \in Expired(w) /\ holders[b] = {} /\ Lock(w, b)
      /\ UNCHANGED <<now, row, sent, allowed>> /\ pc' = pc /\ req' = req
  BY DEF Sweep, Oldest
<1>2. /\ holders' \in [Buckets -> SUBSET Workers] /\ OneHolder'
      /\ Held(w)' = Held(w) \cup {b} /\ \A v \in Workers \ {w} : Held(v)' = Held(v)
  BY <1>1, LockEffect
<1>3. row[b] # NoRow /\ row[b].expires < req[w].at /\ Good(w)
  BY <1>1, TypeFacts DEF Expired
<1>4. Good(w)'
  BY <1>1, <1>2, <1>3 DEF Good, MailGood, CallGood, Timely, Mailing, Swept
<1>5. \A v \in Workers : Good(v)'
  <2>1. ASSUME NEW v \in Workers \ {w}
        PROVE  Good(v)'
    BY <1>1, <1>2, GoodDepends
  <2> QED BY <1>4, <2>1
<1>6. pc' \in [Workers -> Stages] /\ req' \in [Workers -> Request]
  BY <1>1 DEF SInv, TypeOK
<1> QED BY <1>1, <1>2, <1>5, <1>6, QuietStep

LEMMA AnswerStep ==
  ASSUME SInv, NEW w \in Workers, Answer(w)
  PROVE  SInv'
<1> DEFINE b == req[w].call
           t == req[w].at
           new == [attempts |-> Counted(b),
                   expires |-> IF row[b] = NoRow THEN CallExpiry(t) ELSE row[b].expires]
<1>1. /\ pc[w] = "sweeping" /\ Release(w) /\ Goto(w, "idle", NoRequest) /\ now' = now
      /\ row' = [c \in Buckets |-> IF c = b THEN new ELSE IF c \in Swept(w) THEN NoRow ELSE row[c]]
      /\ allowed' = [allowed EXCEPT ![b] = IF Counted(b) <= CallLimit THEN @ + 1 ELSE @]
      /\ sent' = [c \in MailBuckets |-> IF c \in Swept(w) THEN 0 ELSE sent[c]]
  BY DEF Answer
<1>2. /\ b \in CallBuckets /\ b \in Buckets /\ t \in Nat /\ t \div CallSeconds = b[2]
      /\ t <= now /\ now <= t + RequestTTL /\ now \in Nat /\ b \in Held(w)
      /\ \A c \in Swept(w) : row[c] # NoRow /\ row[c].expires < t
      /\ Swept(w) \subseteq Held(w) /\ b \notin Swept(w)
  BY <1>1, TypeFacts, BucketFacts DEF Good, CallGood, Timely, Swept
<1>3. /\ Counted(b) \in Nat /\ Counted(b) >= 1
      /\ Counted(b) = (IF row[b] = NoRow THEN 0 ELSE row[b].attempts) + 1
  BY <1>2, RowFacts DEF Counted
<1>4. new \in Row /\ new.attempts = Counted(b)
      /\ new.expires = IF row[b] = NoRow THEN CallExpiry(t) ELSE row[b].expires
  BY <1>2, <1>3, RowFacts, BoundFacts DEF Row, CallExpiry
<1>5. new # NoRow
  BY <1>4, NullAssumption
<1> HIDE DEF b, t, new
<1>6. \A c \in Buckets : row'[c] = IF c = b THEN new ELSE IF c \in Swept(w) THEN NoRow ELSE row[c]
  BY <1>1
<1>7. row' \in [Buckets -> Row \cup {NoRow}]
  <2>1. \A c \in Buckets : row'[c] \in Row \cup {NoRow}
    BY <1>4, <1>6 DEF SInv, TypeOK
  <2> QED BY <1>1, <2>1
<1>8. /\ sent' \in [MailBuckets -> Nat] /\ allowed' \in [CallBuckets -> Nat]
  <2>1. sent \in [MailBuckets -> Nat] /\ allowed \in [CallBuckets -> Nat]
    BY DEF SInv, TypeOK
  <2>2. PICK n \in Nat : allowed' = [allowed EXCEPT ![b] = n]
    <3>1. allowed[b] \in Nat /\ allowed[b] + 1 \in Nat
      BY <1>2, <2>1
    <3>2. CASE Counted(b) <= CallLimit
      <4>1. allowed' = [allowed EXCEPT ![b] = allowed[b] + 1]
        BY <1>1, <3>2
      <4> QED BY <3>1, <4>1
    <3>3. CASE ~(Counted(b) <= CallLimit)
      <4>1. allowed' = [allowed EXCEPT ![b] = allowed[b]]
        BY <1>1, <3>3
      <4> QED BY <3>1, <4>1
    <3> QED BY <3>2, <3>3
  <2> QED BY <1>1, <2>1, <2>2
<1>9. BudgetsExact'
  <2>1. ASSUME NEW c \in MailBuckets
        PROVE  sent'[c] <= Limit[c] /\ sent'[c] = IF row'[c] = NoRow THEN 0 ELSE row'[c].attempts
    <3>1. /\ sent[c] <= Limit[c] /\ sent[c] = IF row[c] = NoRow THEN 0 ELSE row[c].attempts
          /\ c \in Buckets /\ c # b /\ Limit[c] \in Nat
      BY <1>2, BucketFacts DEF SInv, BudgetsExact
    <3>2. sent'[c] = (IF c \in Swept(w) THEN 0 ELSE sent[c])
      BY <1>1
    <3> QED BY <1>6, <3>1, <3>2
  <2> QED BY <2>1 DEF BudgetsExact
<1>10. CallsCounted'
  <2>1. ASSUME NEW c \in CallBuckets
        PROVE  /\ allowed'[c] <= CallLimit
               /\ row'[c] # NoRow => CallEnd(c) <= row'[c].expires
               /\ now < CallEnd(c) =>
                    allowed'[c] <= (IF row'[c] = NoRow THEN 0 ELSE row'[c].attempts)
    <3>1. /\ allowed[c] <= CallLimit
          /\ row[c] # NoRow => CallEnd(c) <= row[c].expires
          /\ now < CallEnd(c) => allowed[c] <= (IF row[c] = NoRow THEN 0 ELSE row[c].attempts)
      BY DEF SInv, CallsCounted
    <3>2. c \in Buckets /\ allowed[c] \in Nat /\ CallEnd(c) \in Nat
      BY BucketFacts, CallEndIsInt DEF SInv, TypeOK
    <3>3. allowed'[c] = IF c = b /\ Counted(b) <= CallLimit THEN allowed[c] + 1 ELSE allowed[c]
      BY <1>1, <1>2 DEF SInv, TypeOK
    <3>4. CASE c = b
      <4>1. now < CallEnd(b) /\ CallEnd(b) <= CallExpiry(t)
        BY <1>2, CallEnds
      <4>2. allowed[c] + 1 <= Counted(b)
        <5>1. allowed[c] <= (IF row[c] = NoRow THEN 0 ELSE row[c].attempts)
          BY <3>1, <3>4, <4>1
        <5>2. Counted(b) = (IF row[c] = NoRow THEN 0 ELSE row[c].attempts) + 1
          BY <1>3, <3>4
        <5>3. (IF row[c] = NoRow THEN 0 ELSE row[c].attempts) \in Nat
          BY <3>2, RowFacts
        <5> QED BY <3>2, <5>1, <5>2, <5>3
      <4>3. row'[c] = new /\ CallEnd(c) <= new.expires
        BY <1>4, <1>6, <3>1, <3>2, <3>4, <4>1
      <4>4. row'[c] # NoRow /\ row'[c].attempts = Counted(b)
        BY <1>4, <1>5, <4>3
      <4>5. CASE Counted(b) <= CallLimit
        <5>1. allowed'[c] = allowed[c] + 1
          BY <3>3, <3>4, <4>5
        <5> QED BY <1>3, <3>2, <4>2, <4>3, <4>4, <4>5, <5>1, BoundFacts
      <4>6. CASE ~(Counted(b) <= CallLimit)
        <5>1. allowed'[c] = allowed[c]
          BY <3>3, <4>6
        <5> QED BY <1>3, <3>1, <3>2, <4>2, <4>3, <4>4, <5>1
      <4> QED BY <4>5, <4>6
    <3>5. CASE c # b /\ c \in Swept(w)
      <4>1. row[c] # NoRow /\ row[c].expires < t /\ row[c].expires \in Nat
        BY <1>2, <3>2, <3>5, RowFacts
      <4>2. ~(now < CallEnd(c)) /\ row'[c] = NoRow
        BY <1>2, <1>6, <3>1, <3>2, <3>5, <4>1
      <4> QED BY <3>1, <3>3, <3>5, <4>2
    <3>6. CASE c # b /\ c \notin Swept(w)
      BY <1>6, <3>1, <3>2, <3>3, <3>6
    <3> QED BY <3>4, <3>5, <3>6
  <2> QED BY <1>1, <2>1 DEF CallsCounted, CallEnd
<1>11. /\ pc' \in [Workers -> Stages] /\ req' \in [Workers -> Request]
       /\ holders' \in [Buckets -> SUBSET Workers] /\ OneHolder'
       /\ \A v \in Workers : Good(v)'
  BY <1>1, <1>2, <1>6, EndKeepsGood
<1> QED BY <1>1, <1>7, <1>8, <1>9, <1>10, <1>11 DEF SInv, TypeOK

-------------------------------------------------------------------------------
(* The invariant.                                                          *)

LEMMA InitHolds ==
  ASSUME Init
  PROVE  SInv
<1>1. TypeOK
  BY NoRequestFacts DEF Init, TypeOK
<1>2. OneHolder /\ \A w \in Workers : Good(w)
  BY DEF Init, OneHolder, Good, MailGood, CallGood, Timely, Mailing, Held
<1>3. BudgetsExact
  <2>1. ASSUME NEW b \in MailBuckets
        PROVE  sent[b] = 0 /\ row[b] = NoRow /\ 0 <= Limit[b]
    BY BucketFacts DEF Init
  <2> QED BY <2>1 DEF BudgetsExact
<1>4. CallsCounted
  <2>1. ASSUME NEW b \in CallBuckets
        PROVE  allowed[b] = 0 /\ row[b] = NoRow /\ 0 <= CallLimit
    BY BucketFacts, BoundFacts DEF Init
  <2> QED BY <2>1 DEF CallsCounted
<1>5. now <= MaxTime
  BY BoundFacts DEF Init
<1> QED BY <1>1, <1>2, <1>3, <1>4, <1>5 DEF SInv

LEMMA TickStep ==
  ASSUME SInv, Tick
  PROVE  SInv'
<1>1. /\ now < MaxTime /\ now' = now + 1
      /\ \A w \in Workers : pc[w] = "idle" \/ now < req[w].at + RequestTTL
      /\ UNCHANGED <<row, holders, pc, req, sent, allowed>>
  BY DEF Tick
<1>2. now \in Nat /\ MaxTime \in Nat /\ RequestTTL \in Nat
  BY BoundFacts DEF SInv, TypeOK
<1>3. TypeOK' /\ now' <= MaxTime
  BY <1>1, <1>2 DEF SInv, TypeOK
<1>4. OneHolder' /\ BudgetsExact'
  BY <1>1 DEF SInv, OneHolder, BudgetsExact
<1>5. ASSUME NEW w \in Workers
      PROVE  Good(w)'
  <2>1. Good(w) /\ req[w].at \in Nat
    BY TypeFacts
  <2>2. MailGood(w)'
    <3>1. ReadsHold(w) => ReadsHold(w)'
      BY <1>1 DEF ReadsHold, Attempts, OneMore, Held
    <3>2. InOrder(w) => InOrder(w)'
      BY <1>1 DEF InOrder, Unlocked, Held
    <3>3. \A b : HasRead(w, b)' <=> HasRead(w, b)
      BY <1>1 DEF HasRead
    <3>4. Held(w)' = Held(w)
      BY <1>1 DEF Held
    <3> HIDE DEF ReadsHold, InOrder, HasRead, Held
    <3> QED BY <1>1, <2>1, <3>1, <3>2, <3>3, <3>4 DEF Good, MailGood, Mailing
  <2>3. CallGood(w)'
    BY <1>1, <2>1 DEF Good, CallGood, Swept, Held
  <2>4. Timely(w)'
    BY <1>1, <1>2, <2>1 DEF Good, Timely
  <2> QED BY <1>1, <2>1, <2>2, <2>3, <2>4 DEF Good, Held
<1>6. CallsCounted'
  <2>1. ASSUME NEW b \in CallBuckets, now + 1 < CallEnd(b)
        PROVE  now < CallEnd(b)
    BY <1>2, <2>1, CallEndIsInt
  <2> QED BY <1>1, <2>1 DEF SInv, CallsCounted, CallEnd
<1> QED BY <1>3, <1>4, <1>5, <1>6 DEF SInv

LEMMA StutterStep ==
  ASSUME SInv, UNCHANGED vars
  PROVE  SInv'
<1>1. /\ now' = now /\ row' = row /\ holders' = holders /\ pc' = pc /\ req' = req
      /\ sent' = sent /\ allowed' = allowed
  BY DEF vars
<1>2. \A w \in Workers : Good(w)'
  <2>1. ASSUME NEW w \in Workers
        PROVE  Good(w)'
    <3>1. Held(w)' = Held(w)
      BY <1>1 DEF Held
    <3> QED BY <1>1, <3>1, GoodDepends
  <2> QED BY <2>1
<1>3. OneHolder' /\ holders' \in [Buckets -> SUBSET Workers]
      /\ pc' \in [Workers -> Stages] /\ req' \in [Workers -> Request]
  BY <1>1 DEF SInv, TypeOK, OneHolder
<1> QED BY <1>1, <1>2, <1>3, QuietStep

LEMMA StepHolds ==
  ASSUME SInv, [Next]_vars
  PROVE  SInv'
<1>1. CASE Tick
  BY <1>1, TickStep
<1>2. ASSUME NEW w \in Workers, Arrive(w)
      PROVE  SInv'
  BY <1>2, BeginStep, CallStep DEF Arrive
<1>3. ASSUME NEW w \in Workers, Step(w)
      PROVE  SInv'
  <2>1. CASE Upsert(w) \/ ReadRow(w) \/ Refuse(w) \/ Reserve(w)
    BY <2>1, UpsertStep, ReadRowStep, RefuseStep, ReserveStep
  <2>2. CASE Count(w) \/ (\E b \in Buckets : Sweep(w, b)) \/ Answer(w)
    BY <2>2, CountStep, SweepStep, AnswerStep
  <2>3. CASE Retry(w)
    BY <2>3, RetryStep
  <2>4. CASE GiveUp(w)
    BY <2>4, QuietEnd DEF GiveUp
  <2> QED BY <1>3, <2>1, <2>2, <2>3, <2>4 DEF Step
<1>4. ASSUME NEW w \in Workers, Abandon(w)
      PROVE  SInv'
  BY <1>4, QuietEnd DEF Abandon
<1>5. CASE UNCHANGED vars
  BY <1>5, StutterStep
<1> QED BY <1>1, <1>2, <1>3, <1>4, <1>5 DEF Next

LEMMA Inductive == Spec => []SInv
BY InitHolds, StepHolds, PTL DEF Spec

-------------------------------------------------------------------------------
(* The properties.                                                         *)

\* A mailing request that waits turns to a bucket it has not locked, and all
\* it has locked come before that one.
LEMMA WaitingForTurn ==
  ASSUME SInv, NEW w \in Workers, Mailing(w), NEW v \in Workers, WaitsFor(w, v)
  PROVE  /\ Turn(w) \in MailBuckets /\ Turn(w) \in Held(v)
         /\ \A b \in Held(w) : Rank[b] < Rank[Turn(w)]
<1>1. PICK b \in Wanted(w) : v \in holders[b]
  BY DEF WaitsFor
<1>2. pc[w] # "reading"
  <2>1. ASSUME pc[w] = "reading"
        PROVE  FALSE
    <3>1. Wanted(w) = {Current(w)} /\ holders[Current(w)] = {w}
      BY <2>1, CurrentIsUnread DEF Wanted
    <3> QED BY <1>1, <3>1 DEF WaitsFor
  <2> QED BY <2>1
<1>3. pc[w] = "locking" /\ Unlocked(w) # {} /\ Wanted(w) = {Turn(w)}
  BY <1>1, <1>2 DEF Mailing, Wanted
<1>4. Turn(w) \in Unlocked(w) /\ Turn(w) \in MailBuckets
  BY <1>3, TurnIsFirst
<1>5. InOrder(w)
  BY TypeFacts DEF Good, MailGood
<1>6. Turn(w) \in Held(v)
  BY <1>1, <1>3, <1>4, BucketFacts DEF Held
<1> HIDE DEF Turn
<1> QED BY <1>4, <1>5, <1>6 DEF InOrder

\* In a circle of requests the one that waits for the bucket of greatest rank
\* waits for nobody in it: who holds that bucket waits for a greater one.
LEMMA NoCircle ==
  ASSUME SInv, NEW S \in SUBSET {w \in Workers : Mailing(w)}, S # {}
  PROVE  \E w \in S : \A v \in S : ~WaitsFor(w, v)
<1> SUFFICES ASSUME \A w \in S : \E v \in S : WaitsFor(w, v)
             PROVE  FALSE
  OBVIOUS
<1>1. \A w \in S : w \in Workers /\ Mailing(w)
  OBVIOUS
<1>2. IsFiniteSet(S)
  BY WorkerAssumption, FS_Subset
<1> DEFINE f == [w \in S |-> Rank[Turn(w)]]
<1>3. f \in [S -> Nat]
  BY <1>1, WaitingForTurn, BucketFacts
<1>4. PICK w \in S : \A v \in S : f[v] <= f[w]
  <2> HIDE DEF f
  <2> QED BY <1>2, <1>3, GreatestRank
<1>5. PICK v \in S : WaitsFor(w, v)
  OBVIOUS
<1>6. PICK u \in S : WaitsFor(v, u)
  OBVIOUS
<1>7. /\ Turn(w) \in Held(v) /\ Rank[Turn(w)] < Rank[Turn(v)]
      /\ Rank[Turn(w)] \in Nat /\ Rank[Turn(v)] \in Nat
  BY <1>1, <1>5, <1>6, WaitingForTurn, BucketFacts
<1>8. Rank[Turn(v)] <= Rank[Turn(w)]
  BY <1>4
<1> QED BY <1>7, <1>8

(* Every reachable state is well typed.                                    *)
THEOREM TypeCorrect == Spec => []TypeOK
<1>1. SInv => TypeOK
  BY DEF SInv
<1> QED BY <1>1, Inductive, PTL

(* allow_account_email: every budget row counts the mails that were let    *)
(* through in its window, exactly, and never more than the limit, with any *)
(* number of requests, retries and sweeps in between.                      *)
THEOREM BudgetsAreExact == Spec => []BudgetsExact
<1>1. SInv => BudgetsExact
  BY DEF SInv
<1> QED BY <1>1, Inductive, PTL

(* allow_request: no window of the clock lets more calls through than its  *)
(* limit, however late a call commits, as no sweep deletes a counter that  *)
(* may still be needed.                                                    *)
THEOREM CallsStayWithin == Spec => []CallsWithinLimit
<1>1. SInv => CallsWithinLimit
  BY DEF SInv, CallsCounted, CallsWithinLimit
<1> QED BY <1>1, Inductive, PTL

\* Requests that call wait for sweeps only: nobody else holds a call's row.
LEMMA CallsWaitForSweeps ==
  ASSUME SInv, NEW w \in Workers, pc[w] = "calling", NEW v \in Workers, WaitsFor(w, v)
  PROVE  pc[v] = "sweeping"
<1>1. req[w].call \in CallBuckets /\ Wanted(w) = {req[w].call}
  BY TypeFacts DEF Good, CallGood, Wanted
<1>2. req[w].call \in Held(v)
  BY <1>1, BucketFacts DEF WaitsFor, Held
<1>3. ~Mailing(v)
  <2>1. ASSUME Mailing(v)
        PROVE  Held(v) \subseteq MailBuckets
    BY <2>1, TypeFacts DEF Good, MailGood
  <2> QED BY <1>1, <1>2, <2>1, BucketFacts
<1>4. pc[v] \notin {"idle", "calling"}
  BY <1>2, TypeFacts DEF Good
<1> QED BY <1>3, <1>4, TypeFacts DEF Mailing, Stages

(* Any number of requests, for mail and for calls: every circle of waiting *)
(* ones has a sweep of allow_request in it, because mails lock by rank and *)
(* a call holds nothing while it waits for its counter.                    *)
THEOREM OnlySweepsDeadlock == Spec => []DeadlocksNeedASweep
<1>1. SInv => DeadlocksNeedASweep
  <2> SUFFICES ASSUME SInv, NEW S \in SUBSET {w \in Workers : pc[w] # "sweeping"}, S # {},
                      \A w \in S : \E v \in S : WaitsFor(w, v)
               PROVE  FALSE
    BY DEF DeadlocksNeedASweep
  <2>1. ASSUME NEW w \in S
        PROVE  w \in Workers /\ Mailing(w)
    <3>1. PICK v \in S : WaitsFor(w, v)
      OBVIOUS
    <3>2. pc[w] # "calling"
      BY <3>1, CallsWaitForSweeps
    <3>3. pc[w] # "idle"
      BY <3>1 DEF WaitsFor, Wanted
    <3> QED BY <3>2, <3>3, TypeFacts DEF Stages, Mailing
  <2>2. S \in SUBSET {w \in Workers : Mailing(w)}
    BY <2>1
  <2> QED BY <2>2, NoCircle
<1> QED BY <1>1, Inductive, PTL

-------------------------------------------------------------------------------
(* The reservation is one step of Budgets.                                 *)

windows == [b \in MailBuckets |-> Window(b)]

LEMMA WindowsStay ==
  ASSUME \A b \in MailBuckets : Window(b)' = Window(b)
  PROVE  windows' = windows
<1> HIDE DEF Window
<1> QED BY DEF windows

\* The windows look only at the rows of mail.
LEMMA SameRows ==
  ASSUME \A b \in MailBuckets : row'[b] = row[b]
  PROVE  windows' = windows
<1>1. \A b \in MailBuckets : Window(b)' = Window(b)
  BY DEF Window
<1> QED BY <1>1, WindowsStay

LEMMA ReserveIsMail ==
  ASSUME SInv, NEW w \in Workers, Reserve(w)
  PROVE  \E m \in Mails, t \in 0 .. now : B!Mail(m, t)
<1> DEFINE m == req[w].mine
           t == req[w].at
<1>1. pc[w] = "locking" /\ Unlocked(w) = {} /\ now' = now
  BY DEF Reserve
<1>2. /\ m \in Mails /\ m \subseteq MailBuckets /\ t \in Nat /\ now \in Nat
      /\ t <= now /\ now <= t + RequestTTL
      /\ \A b \in m : Entry(w, b) = OneMore(b, t) /\ Attempts(b, t) < Limit[b]
  BY <1>1, TypeFacts, EntryIsOneMore DEF Good, MailGood, Timely, Mailing
<1>3. row' = [b \in Buckets |-> IF b \in m THEN Entry(w, b) ELSE row[b]]
  BY DEF Reserve, Entry
<1> HIDE DEF m, t
<1>4. \A b \in MailBuckets : row'[b] = IF b \in m THEN OneMore(b, t) ELSE row[b]
  BY <1>2, <1>3, BucketFacts
<1>5. ASSUME NEW b \in m
      PROVE  /\ B!HasRoom(b, t)
             /\ windows'[b] = B!WithOneMore(b, t)
  <2>1. /\ b \in MailBuckets /\ b \in Buckets /\ Attempts(b, t) < Limit[b]
        /\ Attempts(b, t) \in Nat /\ OneMore(b, t) \in Row /\ row'[b] = OneMore(b, t)
    BY <1>2, <1>4, OneMoreFacts, BucketFacts
  <2>2. windows[b] = Window(b) /\ windows'[b] = Window(b)'
    BY <2>1 DEF windows
  <2>3. OneMore(b, t) # NoRow /\ OneMore(b, t).attempts # 0
    BY <1>2, <2>1, OneMoreFacts, RowFacts, NullAssumption
  <2>4. Window(b)' = OneMore(b, t)
    <3> HIDE DEF OneMore
    <3> QED BY <2>1, <2>3 DEF Window
  <2>5. B!Open(b, t) <=> Attempts(b, t) > 0
    <3>1. row[b] # NoRow => row[b].attempts \in Nat
      BY <2>1, RowFacts
    <3> QED BY <2>1, <3>1 DEF B!Open, Window, Attempts
  <2>6. B!Open(b, t) => Window(b) = row[b] /\ row[b].attempts = Attempts(b, t)
    BY <2>1 DEF B!Open, Window, Attempts
  <2>7. B!HasRoom(b, t)
    BY <2>1, <2>6 DEF B!HasRoom
  <2>8. OneMore(b, t) = B!WithOneMore(b, t)
    <3> HIDE DEF Attempts
    <3> QED BY <2>1, <2>5, <2>6 DEF OneMore, B!WithOneMore
  <2> QED BY <2>2, <2>4, <2>7, <2>8
<1>6. ASSUME NEW b \in MailBuckets \ m
      PROVE  windows'[b] = windows[b]
  <2>1. Window(b)' = Window(b)
    BY <1>4 DEF Window
  <2> HIDE DEF Window
  <2> QED BY <2>1 DEF windows
<1>7. windows' = [b \in MailBuckets |-> IF b \in m THEN B!WithOneMore(b, t) ELSE windows[b]]
  <2>1. windows' = [b \in MailBuckets |-> windows'[b]]
    BY DEF windows
  <2> HIDE DEF windows
  <2> QED BY <1>2, <1>5, <1>6, <2>1
<1>8. B!Mail(m, t)
  BY <1>1, <1>2, <1>5, <1>7 DEF B!Mail, windows
<1> QED BY <1>2, <1>8

LEMMA AnswerIsForget ==
  ASSUME SInv, NEW w \in Workers, Answer(w)
  PROVE  \E S \in SUBSET MailBuckets : B!Forget(S)
<1> DEFINE S == {b \in MailBuckets : b \in Swept(w) /\ windows[b] # NoRow}
<1>1. /\ pc[w] = "sweeping" /\ now' = now
      /\ \A b \in Buckets \ {req[w].call} : row'[b] = IF b \in Swept(w) THEN NoRow ELSE row[b]
  BY DEF Answer
<1>2. /\ req[w].call \in CallBuckets /\ req[w].at <= now /\ req[w].at \in Nat /\ now \in Nat
      /\ \A b \in Swept(w) : row[b] # NoRow /\ row[b].expires < req[w].at
  BY <1>1, TypeFacts DEF Good, CallGood, Timely
<1>3. ASSUME NEW b \in MailBuckets
      PROVE  /\ b \in S => windows[b] # NoRow /\ windows[b].expires < now
             /\ windows'[b] = IF b \in S THEN NoRow ELSE windows[b]
  <2>1. b \in Buckets \ {req[w].call} /\ windows[b] = Window(b) /\ windows'[b] = Window(b)'
    BY <1>2, BucketFacts DEF windows
  <2>2. row'[b] = IF b \in Swept(w) THEN NoRow ELSE row[b]
    BY <1>1, <2>1
  <2>3. CASE b \in Swept(w)
    <3>1. row[b] # NoRow /\ row[b].expires < now
      BY <1>2, <2>1, <2>3, RowFacts
    <3>2. windows'[b] = NoRow
      BY <2>1, <2>2, <2>3 DEF Window
    <3>3. windows[b] = NoRow \/ windows[b] = row[b]
      BY <2>1 DEF Window
    <3> HIDE DEF windows
    <3> QED BY <2>3, <3>1, <3>2, <3>3
  <2>4. CASE b \notin Swept(w)
    <3>1. Window(b)' = Window(b)
      BY <2>2, <2>4 DEF Window
    <3> HIDE DEF windows, Window
    <3> QED BY <2>1, <2>4, <3>1
  <2> QED BY <2>3, <2>4
<1>4. windows' = [b \in MailBuckets |-> IF b \in S THEN NoRow ELSE windows[b]]
  <2>1. windows' = [b \in MailBuckets |-> windows'[b]]
    BY DEF windows
  <2> HIDE DEF windows, S
  <2> QED BY <1>3, <2>1
<1>5. S \subseteq MailBuckets /\ \A b \in S : windows[b] # NoRow /\ windows[b].expires < now
  BY <1>3
<1> HIDE DEF S
<1>6. B!Forget(S)
  BY <1>1, <1>4, <1>5 DEF B!Forget, windows
<1> QED BY <1>5, <1>6

\* A refused mail leaves rows that count nothing.
LEMMA RefuseIsStutter ==
  ASSUME SInv, NEW w \in Workers, Refuse(w)
  PROVE  now' = now /\ windows' = windows
<1>1. now' = now /\ row' = Inserted(w)
  BY DEF Refuse, RefusalRows
<1>2. ASSUME NEW b \in MailBuckets
      PROVE  Window(b)' = Window(b)
  <2>1. b \in Buckets
    BY BucketFacts
  <2>2. CASE b \in Held(w) /\ row[b] = NoRow
    <3>1. row'[b].attempts = 0
      BY <1>1, <2>1, <2>2 DEF Inserted
    <3> QED BY <2>2, <3>1 DEF Window
  <2>3. CASE ~(b \in Held(w) /\ row[b] = NoRow)
    <3>1. row'[b] = row[b]
      BY <1>1, <2>1, <2>3 DEF Inserted
    <3> QED BY <3>1 DEF Window
  <2> QED BY <2>2, <2>3
<1> QED BY <1>1, <1>2, WindowsStay

(* allow_account_email implements Budgets: although it locks, reads and    *)
(* writes its rows one by one among other requests, sweeps, errors and     *)
(* retries, a mail is counted in all of its budgets in one step in which   *)
(* all of them have room, or in none.                                      *)
THEOREM ReservationsAreAtomic == Spec => ReservedAtOnce
<1>1. Init => B!Init
  <2> SUFFICES ASSUME Init
               PROVE  B!Init
    OBVIOUS
  <2>1. \A b \in MailBuckets : Window(b) = NoRow
    BY BucketFacts DEF Init, Window
  <2> HIDE DEF Window
  <2> QED BY <2>1 DEF Init, B!Init
<1>2. ASSUME SInv, [Next]_vars
      PROVE  B!Next \/ UNCHANGED <<now, windows>>
  <2>1. CASE \E w \in Workers : Reserve(w)
    BY <1>2, <2>1, ReserveIsMail DEF B!Next
  <2>2. CASE \E w \in Workers : Answer(w)
    BY <1>2, <2>2, AnswerIsForget DEF B!Next
  <2>3. CASE \E w \in Workers : Refuse(w)
    BY <1>2, <2>3, RefuseIsStutter
  <2>4. CASE Tick
    <3>1. windows' = windows /\ now' = now + 1
      BY <2>4, SameRows DEF Tick
    <3> QED BY <3>1 DEF B!Next, B!Tick, windows
  <2>5. CASE UNCHANGED <<now, row>>
    BY <2>5, SameRows
  <2>6. \A w \in Workers : Arrive(w) \/ Abandon(w) => UNCHANGED <<now, row>>
    BY DEF Arrive, Begin, Call, Abandon
  <2>7. \A w \in Workers : Step(w) =>
          UNCHANGED <<now, row>> \/ Reserve(w) \/ Answer(w) \/ Refuse(w)
    BY DEF Step, Upsert, ReadRow, Count, Sweep, Retry, GiveUp
  <2>8. UNCHANGED vars => UNCHANGED <<now, row>>
    BY DEF vars
  <2> QED BY <1>2, <2>1, <2>2, <2>3, <2>4, <2>5, <2>6, <2>7, <2>8 DEF Next
<1>3. SInv /\ [Next]_vars => [B!Next]_<<now, windows>>
  BY <1>2
<1> QED BY Inductive, <1>1, <1>3, PTL DEF Spec, ReservedAtOnce, B!Spec, windows

-------------------------------------------------------------------------------
(* Why requests end: the part of EveryRequestEnds that is not liveness.    *)

\* A sweep deletes at most SweepLimit rows.
Bounded(w) ==
  pc[w] = "sweeping" => IsFiniteSet(Swept(w)) /\ Cardinality(Swept(w)) <= SweepLimit

\* More than the locks and readings of one attempt.
Effort(w) == 2 * Cardinality(req[w].mine) + 2

\* A bound on the steps request w may still take.
Left(w) ==
  IF Mailing(w)
  THEN (Retries - req[w].retry) * Effort(w) - 2 * Cardinality(Held(w))
         + (IF pc[w] = "reading" THEN 1 ELSE 0)
  ELSE IF pc[w] = "calling" THEN SweepLimit + 2
  ELSE IF pc[w] = "sweeping" THEN SweepLimit + 1 - Cardinality(Swept(w))
  ELSE 0

BInv == SInv /\ \A w \in Workers : Bounded(w)

\* Something happens to request w.
Moves(w) == Arrive(w) \/ Step(w) \/ Abandon(w)

\* A request is used up by its own steps, and by those only.
RunsOut(w) ==
  /\ Left(w) \in Nat
  /\ Step(w) => Left(w)' < Left(w)
  /\ (Tick \/ \E v \in Workers \ {w} : Moves(v)) => Left(w)' = Left(w)

LEMMA Times ==
  ASSUME NEW k \in Nat \ {0}, NEW n \in Nat
  PROVE  k * n \in Nat /\ n <= k * n /\ (k - 1) * n = k * n - n
<1>1. k * n \in Nat /\ (k - 1) * n = k * n - n
  OBVIOUS
<1>2. k - 1 \in Nat /\ (k - 1) * n >= 0
  OBVIOUS
<1> QED BY <1>1, <1>2

\* The bound is not used up before the request ends.
LEMMA LeftFacts ==
  ASSUME BInv, NEW w \in Workers
  PROVE  Left(w) \in Nat /\ (pc[w] # "idle" => Left(w) > 0)
<1>1. SInv /\ Bounded(w) /\ pc[w] \in Stages /\ SweepLimit \in Nat
  BY TypeFacts, BoundAssumption DEF BInv
<1>2. CASE Mailing(w)
  <2> DEFINE h == Cardinality(Held(w))
             n == Cardinality(req[w].mine)
             k == Retries - req[w].retry
  <2>1. h \in Nat /\ n \in Nat /\ h <= n
    <3>1. IsFiniteSet(req[w].mine) /\ Held(w) \subseteq req[w].mine
      BY <1>1, <1>2, TypeFacts, RuleAssumption DEF Good, MailGood
    <3> QED BY <3>1, FS_Subset, FS_CardinalityType
  <2>2. k \in Nat \ {0}
    BY <1>1, TypeFacts, BoundFacts
  <2>3. Effort(w) = 2 * n + 2
    BY DEF Effort
  <2>4. Left(w) = k * Effort(w) - 2 * h + (IF pc[w] = "reading" THEN 1 ELSE 0)
    BY <1>2 DEF Left
  <2> HIDE DEF h, n, k
  <2>5. Effort(w) \in Nat /\ k * Effort(w) \in Nat /\ Effort(w) <= k * Effort(w)
    BY <2>1, <2>2, <2>3, Times
  <2> QED BY <2>1, <2>3, <2>4, <2>5
<1>3. CASE pc[w] = "sweeping"
  <2>1. Cardinality(Swept(w)) \in Nat /\ Cardinality(Swept(w)) <= SweepLimit
    BY <1>1, <1>3, FS_CardinalityType DEF Bounded
  <2> QED BY <1>1, <1>3, <2>1 DEF Left, Mailing
<1>4. CASE pc[w] \in {"idle", "calling"}
  BY <1>1, <1>4 DEF Left, Mailing
<1> QED BY <1>1, <1>2, <1>3, <1>4 DEF Stages, Mailing

LEMMA LeftDepends ==
  ASSUME NEW v \in Workers, pc'[v] = pc[v], req'[v] = req[v], Held(v)' = Held(v)
  PROVE  Left(v)' = Left(v) /\ (Bounded(v) => Bounded(v)')
<1>1. Swept(v)' = Swept(v) /\ Effort(v)' = Effort(v) /\ (Mailing(v)' <=> Mailing(v))
  BY DEF Swept, Effort, Mailing
<1> HIDE DEF Swept, Effort, Mailing, Held
<1> QED BY <1>1 DEF Left, Bounded

\* The end of a request uses up what is left.
LEMMA EndUsesAll ==
  ASSUME BInv, NEW w \in Workers, pc[w] # "idle", Goto(w, "idle", NoRequest)
  PROVE  Bounded(w)' /\ Left(w)' < Left(w)
<1>1. pc'[w] = "idle"
  BY DEF Goto, BInv, SInv, TypeOK
<1>2. Bounded(w)' /\ Left(w)' = 0
  BY <1>1 DEF Bounded, Left, Mailing
<1> QED BY <1>2, LeftFacts

LEMMA UpsertUses ==
  ASSUME BInv, NEW w \in Workers, Upsert(w)
  PROVE  Bounded(w)' /\ Left(w)' < Left(w)
<1>1. PICK b : b = Turn(w)
  OBVIOUS
<1>2. /\ SInv /\ pc[w] = "locking" /\ Unlocked(w) # {} /\ holders[b] \subseteq {w} /\ Lock(w, b)
      /\ Goto(w, "reading", req[w])
  BY <1>1 DEF BInv, Upsert, UpsertLock
<1>3. b \in Unlocked(w) /\ b \in MailBuckets
  BY <1>1, <1>2, TurnIsFirst
<1>4. b \in Buckets /\ holders[b] = {}
  BY <1>2, <1>3, BucketFacts DEF Unlocked, Held
<1>5. b \notin Held(w) /\ Held(w)' = Held(w) \cup {b}
  BY <1>2, <1>4, LockEffect
<1>6. pc'[w] = "reading" /\ req'[w] = req[w]
  BY <1>2 DEF Goto, SInv, TypeOK
<1>7. IsFiniteSet(req[w].mine) /\ Held(w) \subseteq req[w].mine
  BY <1>2, TypeFacts, RuleAssumption DEF BInv, Good, MailGood, Mailing
<1>8. Cardinality(Held(w)) \in Nat /\ Cardinality(Held(w)') = Cardinality(Held(w)) + 1
  BY <1>5, <1>7, FS_Subset, FS_CardinalityType, FS_AddElement
<1>9. Left(w) \in Nat
  BY LeftFacts
<1> DEFINE x == (Retries - req[w].retry) * Effort(w)
<1>10. Left(w) = x - 2 * Cardinality(Held(w)) + 0 /\ Left(w)' = x - 2 * Cardinality(Held(w)') + 1
  BY <1>2, <1>6 DEF Left, Effort, Mailing
<1>11. x \in Int
  <2>1. Retries - req[w].retry \in Int /\ Effort(w) \in Int
    BY <1>2, <1>7, TypeFacts, BoundFacts, FS_CardinalityType DEF Effort
  <2> QED BY <2>1
<1> HIDE DEF x
<1>12. Left(w)' < Left(w)
  BY <1>8, <1>10, <1>11
<1> QED BY <1>6, <1>7, <1>12 DEF Bounded, Mailing

LEMMA ReadRowUses ==
  ASSUME BInv, NEW w \in Workers, ReadRow(w)
  PROVE  Bounded(w)' /\ Left(w)' < Left(w)
<1>1. PICK e : /\ pc[w] = "reading" /\ holders' = holders
               /\ Goto(w, "locking", [req[w] EXCEPT !.rows = @ \cup {e}])
  BY DEF ReadRow
<1>2. SInv /\ req[w] \in Request
  BY TypeFacts DEF BInv
<1>3. pc'[w] = "locking" /\ req'[w].mine = req[w].mine /\ req'[w].retry = req[w].retry
  BY <1>1, <1>2 DEF Goto, SInv, TypeOK, Request
<1>4. Held(w)' = Held(w)
  BY <1>1 DEF Held
<1>5. IsFiniteSet(req[w].mine) /\ Held(w) \subseteq req[w].mine
  BY <1>1, <1>2, TypeFacts, RuleAssumption DEF BInv, Good, MailGood, Mailing
<1>6. Cardinality(Held(w)) \in Nat
  BY <1>5, FS_Subset, FS_CardinalityType
<1> DEFINE x == (Retries - req[w].retry) * Effort(w)
<1>7. Left(w) = x - 2 * Cardinality(Held(w)) + 1 /\ Left(w)' = x - 2 * Cardinality(Held(w)) + 0
  BY <1>1, <1>3, <1>4 DEF Left, Effort, Mailing
<1>8. x \in Int
  <2>1. Retries - req[w].retry \in Int /\ Effort(w) \in Int
    BY <1>2, <1>5, TypeFacts, BoundFacts, FS_CardinalityType DEF Effort
  <2> QED BY <2>1
<1> HIDE DEF x
<1>9. Left(w)' < Left(w)
  BY <1>6, <1>7, <1>8
<1> QED BY <1>3, <1>5, <1>9 DEF Bounded, Mailing

LEMMA RetryUses ==
  ASSUME BInv, NEW w \in Workers, Retry(w)
  PROVE  Bounded(w)' /\ Left(w)' < Left(w)
<1>1. /\ Mailing(w) /\ req[w].retry < Retries - 1 /\ Release(w)
      /\ Goto(w, "locking", [req[w] EXCEPT !.at = now, !.rows = {}, !.retry = @ + 1])
  BY DEF Retry, MayRetry, Mailing
<1>2. SInv /\ req[w] \in Request
  BY TypeFacts DEF BInv
<1>3. pc'[w] = "locking" /\ req'[w].mine = req[w].mine /\ req'[w].retry = req[w].retry + 1
  BY <1>1, <1>2 DEF Goto, SInv, TypeOK, Request
<1>4. Held(w)' = {}
  BY <1>1, <1>2, ReleaseEffect
<1>5. IsFiniteSet(req[w].mine) /\ Held(w) \subseteq req[w].mine
  BY <1>1, <1>2, TypeFacts, RuleAssumption DEF BInv, Good, MailGood
<1> DEFINE h == Cardinality(Held(w))
           n == Cardinality(req[w].mine)
           k == Retries - req[w].retry
<1>6. h \in Nat /\ n \in Nat /\ h <= n
  BY <1>5, FS_Subset, FS_CardinalityType
<1>7. k \in Nat \ {0} /\ Retries - (req[w].retry + 1) = k - 1
  BY <1>2, TypeFacts, BoundFacts
<1>8. Effort(w) = 2 * n + 2
  BY DEF Effort
<1>9. Left(w) = k * Effort(w) - 2 * h + (IF pc[w] = "reading" THEN 1 ELSE 0)
  BY <1>1 DEF Left
<1>10. Left(w)' = (k - 1) * Effort(w)
  <2>1. Effort(w)' = Effort(w) /\ Mailing(w)' /\ Cardinality(Held(w)') = 0
    BY <1>3, <1>4, FS_EmptySet DEF Effort, Mailing
  <2>2. Left(w)' = (Retries - req'[w].retry) * Effort(w)' - 2 * Cardinality(Held(w)') + 0
    BY <1>3, <2>1 DEF Left
  <2>3. (k - 1) * Effort(w) \in Int
    <3> HIDE DEF k, n
    <3> QED BY <1>6, <1>7, <1>8
  <2> HIDE DEF k, n
  <2> QED BY <1>3, <1>7, <2>1, <2>2, <2>3
<1> HIDE DEF h, n, k
<1>11. /\ Effort(w) \in Nat /\ k * Effort(w) \in Nat
       /\ (k - 1) * Effort(w) = k * Effort(w) - Effort(w)
  BY <1>6, <1>7, <1>8, Times
<1>12. Left(w)' < Left(w)
  BY <1>6, <1>8, <1>9, <1>10, <1>11
<1> QED BY <1>3, <1>5, <1>12 DEF Bounded, Mailing

LEMMA CountUses ==
  ASSUME BInv, NEW w \in Workers, Count(w)
  PROVE  Bounded(w)' /\ Left(w)' < Left(w)
<1> DEFINE b == req[w].call
<1>1. /\ SInv /\ pc[w] = "calling" /\ holders[b] = {} /\ Lock(w, b)
      /\ Goto(w, "sweeping", req[w])
  BY DEF BInv, Count
<1>2. b \in Buckets /\ Held(w) = {}
  BY <1>1, TypeFacts, BucketFacts DEF Good, CallGood
<1>3. pc'[w] = "sweeping" /\ req'[w] = req[w]
  BY <1>1 DEF Goto, SInv, TypeOK
<1>4. Held(w)' = {b}
  <2> HIDE DEF b
  <2> QED BY <1>1, <1>2, LockEffect
<1>5. Swept(w)' = {}
  BY <1>3, <1>4 DEF Swept
<1>6. IsFiniteSet(Swept(w)') /\ Cardinality(Swept(w)') = 0
  BY <1>5, FS_EmptySet
<1>7. Left(w) = SweepLimit + 2 /\ Left(w)' = SweepLimit + 1 - Cardinality(Swept(w)')
  BY <1>1, <1>3 DEF Left, Mailing
<1> QED BY <1>3, <1>6, <1>7, BoundAssumption DEF Bounded, Mailing

LEMMA SweepUses ==
  ASSUME BInv, NEW w \in Workers, NEW b \in Buckets, Sweep(w, b)
  PROVE  Bounded(w)' /\ Left(w)' < Left(w)
<1>1. /\ SInv /\ pc[w] = "sweeping" /\ Cardinality(Swept(w)) < SweepLimit
      /\ holders[b] = {} /\ Lock(w, b) /\ pc' = pc /\ req' = req
  BY DEF BInv, Sweep
<1>2. b \notin Held(w) /\ Held(w)' = Held(w) \cup {b}
  BY <1>1, LockEffect
<1>3. req[w].call \in Held(w) /\ b # req[w].call
  BY <1>1, <1>2, TypeFacts DEF Good, CallGood
<1>4. Swept(w)' = Swept(w) \cup {b} /\ b \notin Swept(w)
  BY <1>1, <1>2, <1>3 DEF Swept
<1>5. IsFiniteSet(Swept(w)) /\ Cardinality(Swept(w)) \in Nat
  BY <1>1, FS_CardinalityType DEF BInv, Bounded
<1>6. IsFiniteSet(Swept(w)') /\ Cardinality(Swept(w)') = Cardinality(Swept(w)) + 1
  BY <1>4, <1>5, FS_AddElement
<1>7. /\ Left(w) = SweepLimit + 1 - Cardinality(Swept(w))
      /\ Left(w)' = SweepLimit + 1 - Cardinality(Swept(w)')
  BY <1>1 DEF Left, Mailing
<1>8. SweepLimit \in Nat
  BY BoundAssumption
<1>9. Left(w)' < Left(w)
  BY <1>1, <1>5, <1>6, <1>7, <1>8
<1>10. Cardinality(Swept(w)') <= SweepLimit
  BY <1>1, <1>5, <1>6, <1>8
<1> QED BY <1>1, <1>6, <1>9, <1>10 DEF Bounded, Mailing

LEMMA StepUses ==
  ASSUME BInv, NEW w \in Workers, Step(w)
  PROVE  Bounded(w)' /\ Left(w)' < Left(w)
<1>1. CASE Upsert(w) \/ ReadRow(w) \/ Retry(w)
  BY <1>1, UpsertUses, ReadRowUses, RetryUses
<1>2. CASE Count(w) \/ \E b \in Buckets : Sweep(w, b)
  BY <1>2, CountUses, SweepUses
<1>3. CASE Refuse(w) \/ Reserve(w) \/ Answer(w)
  <2>1. pc[w] # "idle" /\ Goto(w, "idle", NoRequest)
    BY <1>3 DEF Refuse, Reserve, Answer
  <2> QED BY <2>1, EndUsesAll
<1>4. CASE GiveUp(w)
  <2>1. pc[w] # "idle"
    BY <1>4 DEF GiveUp, Waiting, WaitsFor, Wanted
  <2>2. Goto(w, "idle", NoRequest)
    BY <1>4 DEF GiveUp
  <2> QED BY <2>1, <2>2, EndUsesAll
<1> QED BY <1>1, <1>2, <1>3, <1>4 DEF Step

LEMMA ArriveIsBounded ==
  ASSUME BInv, NEW w \in Workers, Arrive(w)
  PROVE  Bounded(w)'
<1>1. pc'[w] \in {"locking", "calling"}
  BY DEF Arrive, Begin, Call, Goto, BInv, SInv, TypeOK
<1> QED BY <1>1 DEF Bounded

\* What is one request's is touched by no other.
LEMMA OthersUntouched ==
  ASSUME SInv, NEW w \in Workers, NEW v \in Workers \ {w}, Moves(w)
  PROVE  pc'[v] = pc[v] /\ req'[v] = req[v] /\ Held(v)' = Held(v)
<1>1. \/ \E s, r : Goto(w, s, r)
      \/ pc' = pc /\ req' = req
  BY DEF Moves, Arrive, Step, Begin, Call, Upsert, ReadRow, Refuse, Reserve, Count, Sweep,
         Answer, Retry, GiveUp, Abandon
<1>2. holders' = holders \/ Release(w) \/ \E b : Lock(w, b)
  BY DEF Moves, Arrive, Step, Begin, Call, Upsert, ReadRow, Refuse, Reserve, Count, Sweep,
         Answer, Retry, GiveUp, Abandon
<1>3. pc'[v] = pc[v] /\ req'[v] = req[v]
  BY <1>1 DEF Goto, SInv, TypeOK
<1>4. holders \in [Buckets -> SUBSET Workers]
  BY DEF SInv, TypeOK
<1>5. Held(v)' = Held(v)
  <2>1. CASE holders' = holders
    BY <2>1 DEF Held
  <2>2. CASE Release(w)
    BY <2>2, ReleaseEffect
  <2>3. ASSUME NEW b, Lock(w, b)
        PROVE  Held(v)' = Held(v)
    BY <1>4, <2>3 DEF Lock, Held
  <2> QED BY <1>2, <2>1, <2>2, <2>3
<1> QED BY <1>3, <1>5

LEMMA MovesKeepBounds ==
  ASSUME BInv, NEW w \in Workers, Moves(w)
  PROVE  \A v \in Workers : Bounded(v)'
<1>1. Bounded(w)'
  <2>1. CASE Abandon(w)
    BY <2>1, EndUsesAll DEF Abandon
  <2> QED BY <2>1, ArriveIsBounded, StepUses DEF Moves
<1>2. ASSUME NEW v \in Workers \ {w}
      PROVE  Bounded(v)'
  BY OthersUntouched, LeftDepends DEF BInv
<1> QED BY <1>1, <1>2

LEMMA BoundsHold == Spec => []BInv
<1>1. Init => BInv
  BY InitHolds DEF Init, BInv, Bounded, Mailing
<1>2. ASSUME BInv, [Next]_vars
      PROVE  BInv'
  <2>1. SInv'
    BY <1>2, StepHolds DEF BInv
  <2>2. CASE \E w \in Workers : Moves(w)
    BY <1>2, <2>1, <2>2, MovesKeepBounds DEF BInv
  <2>3. CASE Tick \/ UNCHANGED vars
    <3>1. \A v \in Workers : pc'[v] = pc[v] /\ req'[v] = req[v] /\ Held(v)' = Held(v)
      BY <2>3 DEF Tick, vars, Held
    <3> QED BY <1>2, <2>1, <3>1, LeftDepends DEF BInv
  <2> QED BY <1>2, <2>2, <2>3 DEF Next, Moves
<1> QED BY <1>1, <1>2, PTL DEF Spec

(* Both functions of store.py: a request takes no more steps than are left *)
(* to it when it begins, since each of them uses some and nobody else's    *)
(* step, nor time, gives any back.  Retries and sweeps are counted, and a  *)
(* mail locks each of its rows once per attempt.  With the fairness of     *)
(* FairSpec and an end to every wait this is why requests end.             *)
THEOREM RequestsRunOut == Spec => [][\A w \in Workers : RunsOut(w)]_vars
<1>1. ASSUME BInv, [Next]_vars, NEW w \in Workers
      PROVE  RunsOut(w)
  <2>1. Left(w) \in Nat
    BY <1>1, LeftFacts
  <2>2. Step(w) => Left(w)' < Left(w)
    BY <1>1, StepUses
  <2>3. ASSUME NEW v \in Workers \ {w}, Moves(v)
        PROVE  Left(w)' = Left(w)
    BY <1>1, <2>3, OthersUntouched, LeftDepends DEF BInv
  <2>4. Tick => Left(w)' = Left(w)
    <3>1. Tick => pc'[w] = pc[w] /\ req'[w] = req[w] /\ Held(w)' = Held(w)
      BY DEF Tick, Held
    <3> QED BY <3>1, LeftDepends
  <2> QED BY <2>1, <2>2, <2>3, <2>4 DEF RunsOut
<1>2. BInv /\ [Next]_vars => \A w \in Workers : RunsOut(w)
  BY <1>1
<1> QED BY <1>2, BoundsHold, PTL DEF Spec
===============================================================================
