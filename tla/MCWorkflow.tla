----------------------------- MODULE MCWorkflow -----------------------------
(* Instance of Workflow for TLC.                                           *)
EXTENDS Workflow, TLC

CONSTANTS u1, u2, u3, u4, e1, q1, q2

MCUsers    == {u1, u2, u3, u4}
MCRequests == {q1, q2}

\* The kinds of configuration the migrations seed, up to permissions.
MCConfigs ==
    {[eyes |-> 4, distinctApprover2 |-> FALSE, stepUp |-> {"APPROVE"}],
     [eyes |-> 6, distinctApprover2 |-> TRUE,  stepUp |-> {"APPROVE", "APPROVE2"}]}

MCSymmetry == Permutations(MCUsers) \cup Permutations(MCRequests)
=============================================================================
