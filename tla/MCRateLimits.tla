---------------------------- MODULE MCRateLimits ----------------------------
(* Small instances of RateLimits.                                          *)
EXTENDS RateLimits

CONSTANTS site, anna, w1, w2, login

TwoBuckets == {site, anna}
SiteOnly == {site}
OneKey == {login}
TwoWorkers == {w1, w2}

\* A site budget of two mails next to tighter ones of the recipient.
Limits == [b \in TwoBuckets |-> IF b = site THEN 2 ELSE 1]
Windows == [b \in TwoBuckets |-> IF b = site THEN 2 ELSE 1]
ToAnna == {{site, anna}}
SomeRank == [b \in TwoBuckets |-> IF b = site THEN 0 ELSE 1]
=============================================================================
