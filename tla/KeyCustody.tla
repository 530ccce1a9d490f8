------------------------------ MODULE KeyCustody ------------------------------
(***************************************************************************)
(* What the archive key service promises a Mail client: the first request  *)
(* under an id settles which archive and which key that id means, for good *)
(* and for its owner alone; whatever is handed out afterwards, however     *)
(* often and by whichever route, is that.  ArchiveKeys implements it.      *)
(***************************************************************************)
CONSTANTS Owners, Requests, Archives, Keys, None

VARIABLES
  custody,   \* custody[p]: archive and key of p, an owner and a request id
  handed     \* what has been handed out; request is None for a recovery

Pairs == Owners \X Requests

Init ==
  /\ custody = [p \in Pairs |-> None]
  /\ handed = {}

\* A request id is settled, with an archive id of its own.
Register(p, a, k) ==
  /\ custody[p] = None
  /\ \A q \in Pairs : custody[q] # None => custody[q].archive # a
  /\ custody' = [custody EXCEPT ![p] = [archive |-> a, key |-> k]]
  /\ UNCHANGED handed

HandOut(p, r) ==
  /\ custody[p] # None
  /\ handed' = handed \cup
       {[owner |-> p[1], request |-> r, archive |-> custody[p].archive, key |-> custody[p].key]}
  /\ UNCHANGED custody

Next ==
  \E p \in Pairs :
    \/ \E a \in Archives, k \in Keys : Register(p, a, k)
    \/ \E r \in {p[2], None} : HandOut(p, r)

Spec == Init /\ [][Next]_<<custody, handed>>
===============================================================================
