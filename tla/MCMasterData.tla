---------------------------- MODULE MCMasterData ----------------------------
(***************************************************************************)
(* MasterData with two rows, of one kind or of two that refer to each      *)
(* other, two requests in flight and one edit of each version of a row.    *)
(***************************************************************************)
EXTENDS MasterData, TLC

B(key, ref, from, to, val) ==
    [key |-> key, ref |-> ref, from |-> from, to |-> to, val |-> val]

MCIds == {1, 2}
MCAssignments ==
    {<<"bobot_skenario", "bobot_skenario">>,
     <<"pd_pefindo", "pd_pefindo">>,
     <<"lgd_basel", "lgd_basel">>,
     <<"lps_coverage", "lps_coverage">>,
     <<"impact_pd", "impact_pd">>,
     <<"impact_mev_pd", "impact_mev_pd">>,
     <<"rating_history", "counterparty">>,
     <<"instrumen", "counterparty">>,
     <<"instrumen", "portofolio">>,
     <<"instrumen", "mata_uang">>,
     <<"kurs", "mata_uang">>,
     <<"kurs", "periode_buku">>,
     <<"periode_buku", "periode_buku">>,
     <<"chart_of_accounts", "chart_of_accounts">>,
     <<"mapping_jurnal", "chart_of_accounts">>}

\* Bodies for creation; the row referred to is row 2.
MCBodies ==
    [k \in Kinds |->
       CASE k = "bobot_skenario"    -> {B(1, 0, 1, Open, 1), B(2, 0, 1, Open, 1)}
         [] k = "pd_pefindo"        -> {B(1, 0, 1, 2, 1), B(1, 0, 2, Open, 1), B(1, 0, 1, 2, 2)}
         [] k = "lgd_basel"         -> {B(1, 0, 1, 2, 1), B(1, 0, 2, 3, 1)}
         [] k = "lps_coverage"      -> {B(1, 0, 1, 2, 1), B(1, 0, 3, Open, 1)}
         [] k = "impact_pd"         -> {B(1, 0, 1, 1, 1), B(1, 0, 1, 1, 3)}
         [] k = "impact_mev_pd"     -> {B(1, 0, 1, 1, 1), B(1, 0, 1, 1, 0)}
         [] k = "rating_history"    -> {B(1, 2, 2, Open, 1)}
         [] k = "counterparty"      -> {B(1, 0, 1, 1, 0)}
         [] k = "portofolio"        -> {B(1, 0, 1, 1, 1)}
         [] k = "mata_uang"         -> {B(1, 0, 1, 1, 1)}
         [] k = "instrumen"         -> {B(1, 2, 1, 1, 1)}
         [] k = "kurs"              -> {B(1, 2, 1, 3, 2), B(1, 2, 3, 3, 2)}
         [] k = "periode_buku"      -> {B(1, 0, 1, 1, 1), B(2, 0, 2, 2, 1)}
         [] k = "chart_of_accounts" -> {B(1, 0, 1, 1, 1), B(2, 1, 1, 1, 1)}
         [] k = "mapping_jurnal"    -> {B(1, 2, 1, 1, 1), B(1, 2, 1, 1, 2)}]

MCPatches ==
    [k \in Kinds |->
       CASE k = "bobot_skenario"    -> {B(0, 0, 0, 0, 2)}
         [] k = "pd_pefindo"        -> {B(0, 0, 0, Open, 0)}
         [] k = "lgd_basel"         -> {B(0, 0, 0, Open, 0)}
         [] k = "lps_coverage"      -> {B(0, 0, 2, 0, 0), B(0, 0, 0, 1, 0)}
         [] k = "impact_pd"         -> {B(0, 0, 0, 0, 2)}
         [] k = "impact_mev_pd"     -> {B(0, 0, 0, 0, 2)}
         [] k = "rating_history"    -> {B(0, 0, 0, 0, 2)}
         [] k = "counterparty"      -> {B(0, 0, 2, 0, 0)}
         [] k = "portofolio"        -> {B(0, 0, 0, 0, 2)}
         [] k = "mata_uang"         -> {B(0, 0, 0, 0, 2)}
         [] k = "instrumen"         -> {B(0, 0, 0, 0, 2), B(0, 2, 0, 0, 0)}
         [] k = "kurs"              -> {B(0, 0, 2, 0, 0), B(0, 0, 0, 0, 1)}
         [] k = "periode_buku"      -> {B(0, 0, 2, 0, 0)}
         [] k = "chart_of_accounts" -> {B(0, 1, 0, 0, 0), B(0, 0, 0, 0, 2)}
         [] k = "mapping_jurnal"    -> {B(2, 0, 0, 0, 0), B(0, 0, 0, 0, 2)}]

\* For each kind with a column that is validated, also a value that is not.
MCAllBodies ==
    [k \in Kinds |-> MCBodies[k] \cup {[b EXCEPT !.val = Malformed] : b \in
        IF k \in {"counterparty", "instrumen", "mapping_jurnal", "periode_buku"} THEN {} ELSE MCBodies[k]}]
MCAllPatches ==
    [k \in Kinds |-> MCPatches[k] \cup
        IF k \in {"rating_history", "counterparty", "instrumen", "mapping_jurnal", "periode_buku"}
        THEN {} ELSE {B(0, 0, 0, 0, Malformed)}]

\* The rows the migrations insert: currencies (also one that was approved by
\* hand), accounts and periods.
Row(st, b) == [st |-> st, ver |-> 1, del |-> FALSE, body |-> b]
MCFirstRows ==
    [k \in Kinds |->
       CASE k = "mata_uang"    -> {Absent, Row("APPROVED", B(1, 0, 1, 1, 1)), Row("DRAFT", B(9, 0, 1, 1, 1))}
         [] k = "counterparty" -> {Absent, Row("APPROVED", B(1, 0, 1, 1, 0))}
         [] k = "portofolio"   -> {Absent, Row("APPROVED", B(1, 0, 1, 1, 1))}
         [] OTHER -> {Absent}]

MCSymmetry == Permutations(Clients)

\* Only the curves, and only the mappings, for the runs that look for one
\* property of theirs.
MCCurves   == {<<"pd_pefindo", "pd_pefindo">>}
MCMappings == {<<"mapping_jurnal", "chart_of_accounts">>}

\* Three scenario weights for two scenarios, for the run that seeds default
\* weights beside one that was created, possibly of weight 0.
MCThreeIds == {1, 2, 3}
MCWeights  == {<<"bobot_skenario", "bobot_skenario", "bobot_skenario">>}
MCWeightBodies ==
    [MCBodies EXCEPT !["bobot_skenario"] = @ \cup {B(1, 0, 1, Open, 0)}]

=============================================================================
