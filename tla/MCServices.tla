----------------------------- MODULE MCServices -----------------------------
(* The services every package uses, each alone in a third of the behaviours.*)
EXTENDS Listings, Idempotency, AuditChain
(* Ids do not follow creation; b and c share a group, a date and a second;  *)
(* e takes b's key again.                                                   *)
a == [id |-> 3, kode |-> 1, grup |-> 1, tanggal |-> 5, dibuat |-> 11]
b == [id |-> 1, kode |-> 2, grup |-> 2, tanggal |-> 4, dibuat |-> 20]
c == [id |-> 4, kode |-> 4, grup |-> 2, tanggal |-> 4, dibuat |-> 23]
d == [id |-> 2, kode |-> 3, grup |-> 3, tanggal |-> 2, dibuat |-> 35]
e == [id |-> 5, kode |-> 2, grup |-> 3, tanggal |-> 3, dibuat |-> 36]
MCRows == {a, b, c, d, e}
MCFirst == {a, b, c}
MCFilters == {MCRows, {a, b, d, e}}
MCSorts == {<<>>, <<Desc("tanggal")>>}
MCKinds == DOMAIN MasterNext \cup DOMAIN HistoryNext \cup DOMAIN MeasurementNext

(* Three microseconds, one of them also with digits below. *)
MCReadings == {<<1, 0>>, <<2, 0>>, <<3, 0>>, <<2, 5>>}

VARIABLE part
serviceVars == <<listVars, idemVars, auditVars, part>>
Listing == part = "lists" /\ ListNext /\ UNCHANGED <<idemVars, auditVars, part>>
Retrying == part = "retries" /\ IdemNext /\ UNCHANGED <<listVars, auditVars, part>>
Auditing == part = "audit" /\ AuditNext /\ UNCHANGED <<listVars, idemVars, part>>
Paging == part = "lists" /\ NextPage /\ UNCHANGED <<idemVars, auditVars, part>>
MCInit == ListInit /\ IdemInit /\ AuditInit /\ part \in {"lists", "retries", "audit"}
MCNext == Listing \/ Retrying \/ Auditing
MCSpec == MCInit /\ [][MCNext]_serviceVars /\ WF_serviceVars(Paging)
=============================================================================
