------------------------------- MODULE Budgets -------------------------------
(***************************************************************************)
(* What the budgets of account mail promise: a mail is counted in all of   *)
(* its budgets in one instant, if all have room then, or in none.  A       *)
(* window opens with its first mail, keeps its end, and is forgotten only  *)
(* when it is over.  No row, lock, request or retry is in sight.           *)
(* RateLimits implements it.                                               *)
(***************************************************************************)
EXTENDS Naturals

CONSTANTS MailBuckets, Mails, Limit, Seconds, RequestTTL, None

VARIABLES
  now,
  window   \* window[b]: the mails counted in bucket b, and its end

Init ==
  /\ now = 0
  /\ window = [b \in MailBuckets |-> None]

Open(b, t) == window[b] # None /\ window[b].expires > t

HasRoom(b, t) == Open(b, t) => window[b].attempts < Limit[b]

WithOneMore(b, t) ==
  IF Open(b, t) THEN [window[b] EXCEPT !.attempts = @ + 1]
  ELSE [attempts |-> 1, expires |-> t + Seconds[b]]

\* A mail is let through, by a clock that was read at t.
Mail(m, t) ==
  /\ now <= t + RequestTTL
  /\ \A b \in m : HasRoom(b, t)
  /\ window' = [b \in MailBuckets |-> IF b \in m THEN WithOneMore(b, t) ELSE window[b]]
  /\ UNCHANGED now

\* Windows that are over are forgotten.
Forget(S) ==
  /\ \A b \in S : window[b] # None /\ window[b].expires < now
  /\ window' = [b \in MailBuckets |-> IF b \in S THEN None ELSE window[b]]
  /\ UNCHANGED now

Tick == now' = now + 1 /\ UNCHANGED window

Next ==
  \/ \E m \in Mails, t \in 0 .. now : Mail(m, t)
  \/ \E S \in SUBSET MailBuckets : Forget(S)
  \/ Tick

Spec == Init /\ [][Next]_<<now, window>>
===============================================================================
