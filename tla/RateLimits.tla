----------------------------- MODULE RateLimits -----------------------------
(***************************************************************************)
(* The table WebsiteRateLimit (store.py): the budgets of account mail,     *)
(* which allow_account_email reserves all together, and the call counters  *)
(* of allow_request, which also sweeps the table.                          *)
(*                                                                         *)
(* Both hold row locks over several statements, so every lock is a step.   *)
(* A wait ends when the lock is granted, or with an error of MySQL: 1213   *)
(* for the victim of a deadlock, 1205 for one that waited too long.        *)
(***************************************************************************)
EXTENDS Naturals, FiniteSets

CONSTANTS
  MailBuckets,        \* rows of account mail, by scope, identity and window
  SiteBuckets,        \* those of the whole site
  Limit, Seconds,     \* Limit[b], Seconds[b]: what the rules say of bucket b
  Mails,              \* the sets of buckets a mail may count in (nine of them)
  Rank,               \* Rank[b]: place of bucket b in the order of locking
  Keys,               \* what callers of allow_request count
  CallSeconds, CallLimit,  \* their window and limit
  SweepLimit,         \* 100 rows
  Retries,            \* 3
  Workers,            \* request threads
  RequestTTL,         \* longest a request goes without reading the clock
  MaxTime, MaxCalls,  \* bounds of the model
  None, NoRow         \* "not known in this request", "no such row"

\* allow_request counts per key and window of the clock.
CallBuckets == Keys \X (0 .. MaxTime \div CallSeconds)

Buckets == MailBuckets \cup CallBuckets

Row == [attempts : Nat, expires : Nat]

Stages == {"idle", "locking", "reading", "calling", "sweeping"}

\* rows: what the transaction will write, one entry per bucket it has read.
Request ==
  [mine : SUBSET MailBuckets, at : Nat, retry : 0 .. Retries - 1,
   rows : SUBSET [bucket : MailBuckets, row : Row], call : CallBuckets \cup {None}]

NoRequest == [mine |-> {}, at |-> 0, retry |-> 0, rows |-> {}, call |-> None]

ASSUME RuleAssumption ==
  /\ Limit \in [MailBuckets -> Nat \ {0}]
  /\ Seconds \in [MailBuckets -> Nat \ {0}]
  /\ SiteBuckets \subseteq MailBuckets
  /\ \A m \in Mails : SiteBuckets \subseteq m /\ m \subseteq MailBuckets /\ IsFiniteSet(m)
  /\ MailBuckets \cap CallBuckets = {}

ASSUME BoundAssumption ==
  /\ {CallSeconds, CallLimit, SweepLimit, Retries} \subseteq Nat \ {0}
  /\ {RequestTTL, MaxTime, MaxCalls} \subseteq Nat
  /\ RequestTTL <= CallSeconds

ASSUME NullAssumption == None \notin CallBuckets /\ NoRow \notin Row

\* gunicorn runs a fixed number of threads.
ASSUME WorkerAssumption == IsFiniteSet(Workers)

\* Site rows first, then by key: one order for all requests.
ASSUME RankAssumption ==
  /\ Rank \in [MailBuckets -> Nat]
  /\ \A b, c \in MailBuckets : Rank[b] = Rank[c] => b = c
  /\ \A b \in SiteBuckets, c \in MailBuckets \ SiteBuckets : Rank[b] < Rank[c]

VARIABLES
  now,      \* the clock all instances share
  row,      \* WebsiteRateLimit, as committed
  holders,  \* holders[b]: requests that hold a lock on row b
  pc, req,  \* where each request is, and what it remembers
  sent,     \* mails let through in the window a mail bucket is in
  allowed   \* calls let through in the window of a call bucket

vars == <<now, row, holders, pc, req, sent, allowed>>

TypeOK ==
  /\ now \in Nat
  /\ row \in [Buckets -> Row \cup {NoRow}]
  /\ holders \in [Buckets -> SUBSET Workers]
  /\ pc \in [Workers -> Stages]
  /\ req \in [Workers -> Request]
  /\ sent \in [MailBuckets -> Nat]
  /\ allowed \in [CallBuckets -> Nat]

Init ==
  /\ now = 0
  /\ row = [b \in Buckets |-> NoRow]
  /\ holders = [b \in Buckets |-> {}]
  /\ pc = [w \in Workers |-> "idle"]
  /\ req = [w \in Workers |-> NoRequest]
  /\ sent = [b \in MailBuckets |-> 0]
  /\ allowed = [b \in CallBuckets |-> 0]

Goto(w, s, r) ==
  /\ pc' = [pc EXCEPT ![w] = s]
  /\ req' = [req EXCEPT ![w] = r]

Held(w) == {b \in Buckets : w \in holders[b]}

Lock(w, b) == holders' = [holders EXCEPT ![b] = @ \cup {w}]

\* Commit and rollback release every lock of the connection.
Release(w) == holders' = [b \in Buckets |-> holders[b] \ {w}]

-------------------------------------------------------------------------------
(* allow_account_email.                                                    *)

Unlocked(w) == req[w].mine \ Held(w)

\* The bucket request w turns to next.
Turn(w) == CHOOSE b \in Unlocked(w) : \A c \in Unlocked(w) : Rank[b] <= Rank[c]

Begin(w, m) ==
  /\ pc[w] = "idle"
  /\ Goto(w, "locking", [NoRequest EXCEPT !.mine = m, !.at = now])
  /\ UNCHANGED <<now, row, holders, sent, allowed>>

\* Mutant of UpsertLock: INSERT IGNORE takes a shared lock first.
UpsertLockShared(w, b) == w \in Workers /\ b \in Buckets

\* The no-op upsert takes an exclusive lock at once.
UpsertLock(w, b) == holders[b] \subseteq {w}

Upsert(w) ==
  /\ pc[w] = "locking"
  /\ Unlocked(w) # {}
  /\ UpsertLock(w, Turn(w))
  /\ Lock(w, Turn(w))
  /\ Goto(w, "reading", req[w])
  /\ UNCHANGED <<now, row, sent, allowed>>

\* The bucket whose row is locked and not yet read.
Current(w) ==
  CHOOSE b \in Held(w) \cap req[w].mine : \A x \in req[w].rows : x.bucket # b

\* Attempts in the window the row is in at time t.
Attempts(b, t) == IF row[b] # NoRow /\ row[b].expires > t THEN row[b].attempts ELSE 0

\* Mutant of OneMore: every mail prolongs the window.
OneMoreProlonged(b, t) == [attempts |-> Attempts(b, t) + 1, expires |-> t + Seconds[b]]

\* The row with one more mail; the first mail of a window sets its end.
OneMore(b, t) ==
  IF Attempts(b, t) > 0
  THEN [row[b] EXCEPT !.attempts = @ + 1]
  ELSE [attempts |-> 1, expires |-> t + Seconds[b]]

\* SELECT ... FOR UPDATE.
ReadLock(w, b) == holders[b] = {w}

\* The budget is not exhausted: go on to the next one.
ReadRow(w) ==
  LET b == Current(w) IN
  /\ pc[w] = "reading"
  /\ ReadLock(w, b)
  /\ Attempts(b, req[w].at) < Limit[b]
  /\ Goto(w, "locking", [req[w] EXCEPT
                           !.rows = @ \cup {[bucket |-> b, row |-> OneMore(b, req[w].at)]}])
  /\ UNCHANGED <<now, row, holders, sent, allowed>>

\* What a refused request has inserted so far: rows without an attempt.
Inserted(w) ==
  [b \in Buckets |->
     IF b \in Held(w) /\ row[b] = NoRow
     THEN [attempts |-> 0, expires |-> req[w].at + Seconds[b]] ELSE row[b]]

\* Mutant of RefusalRows: the budgets tested so far are spent.
RefusalRowsSpent(w) ==
  [b \in Buckets |->
     IF \E x \in req[w].rows : x.bucket = b
     THEN (CHOOSE x \in req[w].rows : x.bucket = b).row ELSE row[b]]

\* The rows a refused request commits.
RefusalRows(w) == Inserted(w)

\* A budget is exhausted: return its scope, and commit.
Refuse(w) ==
  LET b == Current(w) IN
  /\ pc[w] = "reading"
  /\ ReadLock(w, b)
  /\ Attempts(b, req[w].at) >= Limit[b]
  /\ row' = RefusalRows(w)
  /\ Release(w)
  /\ Goto(w, "idle", NoRequest)
  /\ UNCHANGED <<now, sent, allowed>>

\* All budgets have room: count the mail in all of them, and commit.
Reserve(w) ==
  LET new == [b \in req[w].mine |-> (CHOOSE x \in req[w].rows : x.bucket = b).row] IN
  /\ pc[w] = "locking"
  /\ Unlocked(w) = {}
  /\ row' = [b \in Buckets |-> IF b \in req[w].mine THEN new[b] ELSE row[b]]
  /\ sent' = [b \in MailBuckets |->
                IF b \notin req[w].mine THEN sent[b]
                ELSE IF row[b] # NoRow /\ row[b].expires = new[b].expires THEN sent[b] + 1
                ELSE 1]
  /\ Release(w)
  /\ Goto(w, "idle", NoRequest)
  /\ UNCHANGED <<now, allowed>>

-------------------------------------------------------------------------------
(* allow_request.                                                          *)

\* The count the next call in bucket b makes.
Counted(b) == IF row[b] = NoRow THEN 1 ELSE row[b].attempts + 1

\* The clock is read, and with it the bucket is chosen.
Call(w, k) ==
  LET b == <<k, now \div CallSeconds>> IN
  /\ pc[w] = "idle"
  /\ Counted(b) <= MaxCalls
  /\ Goto(w, "calling", [NoRequest EXCEPT !.at = now, !.call = b])
  /\ UNCHANGED <<now, row, holders, sent, allowed>>

\* Mutant of CallExpiry: the row is kept for one window only.
CallExpiryOne(t) == t + CallSeconds

CallExpiry(t) == t + 2 * CallSeconds

\* INSERT ... ON DUPLICATE KEY UPDATE Attempts=Attempts+1, kept until commit.
Count(w) ==
  /\ pc[w] = "calling"
  /\ holders[req[w].call] = {}
  /\ Lock(w, req[w].call)
  /\ Goto(w, "sweeping", req[w])
  /\ UNCHANGED <<now, row, sent, allowed>>

\* The expired rows a sweep has not reached.
Expired(w) ==
  {b \in Buckets \ Held(w) : row[b] # NoRow /\ row[b].expires < req[w].at}

Swept(w) == Held(w) \ {req[w].call}

\* The expiry index is scanned from its oldest entry.
Oldest(w) == {b \in Expired(w) : \A c \in Expired(w) : row[b].expires <= row[c].expires}

\* DELETE ... WHERE ExpiresAt < at LIMIT: each row is locked as it is reached.
Sweep(w, b) ==
  /\ pc[w] = "sweeping"
  /\ Cardinality(Swept(w)) < SweepLimit
  /\ b \in Oldest(w)
  /\ holders[b] = {}
  /\ Lock(w, b)
  /\ UNCHANGED <<now, row, pc, req, sent, allowed>>

\* Commit; the caller is told whether the count is within the limit.
Answer(w) ==
  LET b == req[w].call IN
  /\ pc[w] = "sweeping"
  /\ Expired(w) = {} \/ Cardinality(Swept(w)) = SweepLimit
  /\ row' = [c \in Buckets |->
               IF c = b THEN [attempts |-> Counted(b),
                              expires |-> IF row[b] = NoRow THEN CallExpiry(req[w].at)
                                          ELSE row[b].expires]
               ELSE IF c \in Swept(w) THEN NoRow ELSE row[c]]
  /\ allowed' = [allowed EXCEPT ![b] = IF Counted(b) <= CallLimit THEN @ + 1 ELSE @]
  /\ sent' = [c \in MailBuckets |-> IF c \in Swept(w) THEN 0 ELSE sent[c]]
  /\ Release(w)
  /\ Goto(w, "idle", NoRequest)
  /\ UNCHANGED now

-------------------------------------------------------------------------------
(* Waiting, errors and time.                                               *)

\* The rows request w may be waiting for.
Wanted(w) ==
  IF pc[w] = "locking" /\ Unlocked(w) # {} THEN {Turn(w)}
  ELSE IF pc[w] = "reading" THEN {Current(w)}
  ELSE IF pc[w] = "calling" THEN {req[w].call}
  ELSE IF pc[w] = "sweeping" THEN Oldest(w)
  ELSE {}

WaitsFor(w, v) == v # w /\ \E b \in Wanted(w) : v \in holders[b]

Waiting(w) == \E v \in Workers : WaitsFor(w, v)

MayRetry(w) == req[w].retry < Retries - 1

\* Mutant of Retry: the attempts are not counted.
RetryUncounted(w) ==
  /\ pc[w] \in {"locking", "reading"}
  /\ Waiting(w)
  /\ Release(w)
  /\ Goto(w, "locking", [req[w] EXCEPT !.at = now, !.rows = {}])
  /\ UNCHANGED <<now, row, sent, allowed>>

\* Errors 1205 and 1213: roll back, sleep, and read the clock again.
Retry(w) ==
  /\ pc[w] \in {"locking", "reading"}
  /\ Waiting(w)
  /\ MayRetry(w)
  /\ Release(w)
  /\ Goto(w, "locking", [req[w] EXCEPT !.at = now, !.rows = {}, !.retry = @ + 1])
  /\ UNCHANGED <<now, row, sent, allowed>>

\* The last attempt fails, or allow_request meets such an error: the request
\* is answered with 503.
GiveUp(w) ==
  /\ Waiting(w)
  /\ pc[w] \in {"calling", "sweeping"} \/ ~MayRetry(w)
  /\ Release(w)
  /\ Goto(w, "idle", NoRequest)
  /\ UNCHANGED <<now, row, sent, allowed>>

\* Any other database error, or a crash, at any moment.
Abandon(w) ==
  /\ pc[w] # "idle"
  /\ Release(w)
  /\ Goto(w, "idle", NoRequest)
  /\ UNCHANGED <<now, row, sent, allowed>>

Tick ==
  /\ now < MaxTime
  /\ \A w \in Workers : pc[w] = "idle" \/ now < req[w].at + RequestTTL
  /\ now' = now + 1
  /\ UNCHANGED <<row, holders, pc, req, sent, allowed>>

Step(w) ==
  \/ Upsert(w) \/ ReadRow(w) \/ Refuse(w) \/ Reserve(w)
  \/ Count(w) \/ (\E b \in Buckets : Sweep(w, b)) \/ Answer(w)
  \/ Retry(w) \/ GiveUp(w)

Arrive(w) ==
  \/ \E m \in Mails : Begin(w, m)
  \/ \E k \in Keys : Call(w, k)

Next == Tick \/ \E w \in Workers : Arrive(w) \/ Step(w) \/ Abandon(w)

Spec == Init /\ [][Next]_vars

\* A thread that has something to do does it: gunicorn's threads are preempted
\* by the operating system, and every database call ends by itself.
FairSpec == Spec /\ \A w \in Workers : WF_vars(Step(w))

-------------------------------------------------------------------------------
(* What must hold.                                                         *)

(* A mail budget is exact: the row counts the mails that were let through  *)
(* in its window, no more (a refusal or rollback costs nothing in any of   *)
(* the nine budgets) and no fewer (two requests never take the same        *)
(* place), and never more than the limit.                                  *)
BudgetsExact ==
  \A b \in MailBuckets :
    /\ sent[b] <= Limit[b]
    /\ sent[b] = IF row[b] = NoRow THEN 0 ELSE row[b].attempts

\* What a row says once a mail has been counted in it.
Window(b) == IF row[b] = NoRow \/ row[b].attempts = 0 THEN NoRow ELSE row[b]

B == INSTANCE Budgets WITH window <- [b \in MailBuckets |-> Window(b)], None <- NoRow

(* The reservation of nine rows, locked, read and written one by one, is   *)
(* one step of Budgets: whatever other requests do meanwhile, all nine     *)
(* have room at the moment it commits, and a request that is refused,      *)
(* fails or retries has counted in none.                                   *)
ReservedAtOnce == B!Spec

(* However late a call commits and whatever is swept meanwhile, no window  *)
(* of the clock lets more calls through than its limit.                    *)
CallsWithinLimit == \A b \in CallBuckets : allowed[b] <= CallLimit

(* Requests never wait for each other in a circle, although each mail      *)
(* locks nine rows and reads each row only after it has locked it; unless  *)
(* a sweep is among them, which locks rows in an order of its own.         *)
DeadlocksNeedASweep ==
  \A S \in SUBSET {w \in Workers : pc[w] # "sweeping"} :
    S # {} => \E w \in S : \A v \in S : ~WaitsFor(w, v)

(* Every request is answered: waits end, and retries are counted.          *)
EveryRequestEnds == \A w \in Workers : pc[w] # "idle" ~> pc[w] = "idle"
=============================================================================
