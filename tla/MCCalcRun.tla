----------------------------- MODULE MCCalcRun -----------------------------
(* Instances of CalcRun for TLC.                                           *)
EXTENDS CalcRun, TLC

CONSTANTS u1, u2, u3, q1, q2, k1, k2, i1, i2

MCSymmetry == Permutations(Users) \cup Permutations(Requests) \cup Permutations(Workers)

(* One run filled by two workers is explored in two parts, chosen at the    *)
(* start: several people with one busy worker, among whom instruments are   *)
(* also computed one by one; or one person with two busy workers, while the *)
(* second instrument comes and goes.                                       *)
VARIABLE part

\* Everybody who has acted on a run or is about to.
Seen ==
    UNION {IF Exists(r) THEN {run[r].creator, run[r].requester, run[r].sealer} \cup trail[r]
           ELSE {} : r \in Runs}
    \cup {req[q].user : q \in {x \in Requests : req[x].kind \notin {"idle", "compute"}}}

People  == Cardinality({k \in Workers : worker[k] # Idle}) <= 1 /\ active = Book
Filling == /\ Cardinality(Seen \ {NoUser}) <= 1
           /\ \A q \in Requests : req[q].kind # "compute"

PartsInit == Init /\ part \in {"people", "workers"}
PartsNext ==
    /\ Next
    /\ part' = part
    /\ \/ part = "people" /\ People'
       \/ part = "workers" /\ Filling'
PartsSpec == PartsInit /\ [][PartsNext]_<<vars, part>>

\* The specification as it is, for the smaller instances.
WholeSpec == Init /\ part = "whole" /\ [][Next /\ part' = part]_<<vars, part>>
=============================================================================
