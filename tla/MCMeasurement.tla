---------------------------- MODULE MCMeasurement ----------------------------
(* The measurement packages.  They share tables only as inputs, so each     *)
(* behaviour is about one of them: EIR requests, a drift run beside one of  *)
(* them, months of stage evaluations and cures, the requests on a stage     *)
(* override, or LPS exclusions.                                             *)
EXTENDS Eir, Staging, Lps

CONSTANTS mk, rv, ap, cf1, cf2, r1, r2, bond, saham, s1
EirUsers == {mk, rv, ap}
MCSolve == [c \in {cf1, cf2} |-> IF c = cf1 THEN r1 ELSE r2]
MCLength == [c \in {cf1, cf2} |-> IF c = cf1 THEN 1 ELSE 2]
MCKlas == [i \in {bond, saham} |-> IF i = bond THEN "AC" ELSE "FVTPL"]
MCFlag == [i \in {bond, saham} |-> TRUE]
MCPoci == [i \in {bond, saham} |-> FALSE]
MCPerms == [u \in EirUsers |->
   CASE u = mk -> {"eir.compute", "eir.amend.propose", "eir.amendment.detect", "eir.amendment.cancel",
                   "eir.amendment.update_cashflows", "eir.drift_report.generate"}
     [] u = rv -> {"eir.amend.review"}
     [] u = ap -> {"eir.amend.review", "eir.amend.approve"}]

MCOrigin == [i \in {bond} |-> 8]

CONSTANTS risk, alco
MCNasabah == <<"n1", "n1", "n2">>
MCBank == <<"b1", "b1", "b1">>
MCNominal == <<3, 500, 4>>
MCMataUang == <<"IDR", "USD", "USD">>
MCKurs == {[mataUang |-> "USD", tanggal |-> 0, sumber |-> "BI_JISDOR", rate |-> 2],
           [mataUang |-> "USD", tanggal |-> 1, sumber |-> "MANUAL", rate |-> 1]}
MCCoverage == {[dari |-> 0, sampai |-> 1, amount |-> 8], [dari |-> 1, sampai |-> 1, amount |-> 6]}
MCPeriode == {<<0, 0>>, <<1, 1>>}
MCIzin == [u \in {risk, alco} |->
    IF u = alco THEN {"lps_aggregator.override.approve", "lps_aggregator.override.reject"}
    ELSE {"lps_aggregator.override", "lps_aggregator.override.reject", "lps_aggregator.override.approve"}]

VARIABLE part
MCNext ==
    /\ part' = part
    /\ \/ /\ UNCHANGED <<stagingVars, lpsVars>>
          /\ \/ part = "requests" /\ \E s \in Sessions : RequestNext(s)
             \/ part = "drift" /\ (RequestNext(s1) \/ \E w \in Workers : JobNext(w))
       \/ /\ UNCHANGED <<eirVars, lpsVars>>
          /\ \/ \E r \in inFlight : CommitNext(r)
             \/ part = "stages" /\ StageNext
             \/ part = "overrides" /\ today < 2 /\ (OverrideNext \/ NextDay)
             \/ part = "overrides" /\ stageHistory = {} /\ EvaluateHandler
       \/ part = "lps" /\ LpsNext /\ UNCHANGED <<eirVars, stagingVars>>
MCInit(parts) == EirInit /\ StagingInit /\ LpsInit /\ part \in parts
mcVars == <<eirVars, stagingVars, lpsVars, part>>
MCSpec == MCInit({"requests", "drift", "stages", "overrides", "lps"}) /\ [][MCNext]_mcVars
StagesSpec == MCInit({"stages"}) /\ [][MCNext]_mcVars
LpsOnlySpec == MCInit({"lps"}) /\ [][MCNext]_mcVars
=============================================================================
