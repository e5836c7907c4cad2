--------------------------- MODULE ApprovalPromise ---------------------------
(***************************************************************************)
(* What the approval workflow promises of one record, with no rows,        *)
(* versions, requests or transactions: a record made by one user is open   *)
(* until enough OTHER users have endorsed it, or until it is discarded;    *)
(* then nothing about it changes any more.                                 *)
(***************************************************************************)
EXTENDS Naturals, FiniteSets

CONSTANTS Users, Entities

VARIABLES
    maker,      \* who made each record
    needed,     \* how many independent endorsements each record needs
    endorsers,  \* who has endorsed it
    stage       \* "open", "approved" or "discarded"

vars == <<maker, needed, endorsers, stage>>

Init ==
    /\ maker \in [Entities -> Users]
    /\ needed \in [Entities -> {2, 3}]
    /\ endorsers = [e \in Entities |-> {}]
    /\ stage = [e \in Entities |-> "open"]

\* A user other than the maker endorses the record, which is approved if that
\* is enough.
Endorse(e, u) ==
    /\ stage[e] = "open"
    /\ u # maker[e]
    /\ endorsers' = [endorsers EXCEPT ![e] = @ \cup {u}]
    /\ \/ stage' = stage
       \/ /\ Cardinality(endorsers[e] \cup {u}) >= needed[e]
          /\ stage' = [stage EXCEPT ![e] = "approved"]
    /\ UNCHANGED <<maker, needed>>

Discard(e) ==
    /\ stage[e] = "open"
    /\ stage' = [stage EXCEPT ![e] = "discarded"]
    /\ UNCHANGED <<maker, needed, endorsers>>

Next == \E e \in Entities : Discard(e) \/ \E u \in Users : Endorse(e, u)

Spec == Init /\ [][Next]_vars
=============================================================================
