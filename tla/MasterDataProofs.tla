-------------------------- MODULE MasterDataProofs --------------------------
(***************************************************************************)
(* What the rows of the master data keep for any number of rows, clients,  *)
(* bodies and patches.                                                     *)
(*                                                                         *)
(* The argument: a row's status never changes without its version, so an   *)
(* edit admitted while the row could be edited does not match it any more  *)
(* once it was submitted or approved.  Keys enter the table only past a    *)
(* constraint.  A request that nothing overtook still finds, at its        *)
(* commit, what it found before.  The second half is about references,     *)
(* ratings, weights and validity, along the promise each request in flight *)
(* was admitted with.                                                      *)
(***************************************************************************)
EXTENDS MasterData, TLAPS, FiniteSetTheorems, Sums

-----------------------------------------------------------------------------
(* The requests in flight.                                                  *)
EditOK(r) ==
    /\ r.ver <= row[r.id].ver /\ Exists(r.id)
    /\ (kind[r.id] # "mapping_jurnal" /\ r.ver = row[r.id].ver) =>
           row[r.id].st \notin FrozenStatuses(kind[r.id])
MoveOK(r) ==
    /\ Exists(r.id)
    /\ (r.quiet /\ kind[r.id] = "pd_pefindo" /\ r.to = "APPROVED" /\ Live(r.id)) =>
           PdOverlaps(row[r.id].body, Ids \ {r.id}) = {}

CreateOK(r) == kind[r.id] = "rating_history" => r.body.from # NotGiven
RequestOK(r) ==
    /\ r.op = "create" => CreateOK(r)
    /\ r.op = "update" => EditOK(r)
    /\ r.op = "move" => MoveOK(r)
RequestsOK == \A c \in Clients : RequestOK(req[c])

RatingsOK ==
    \A i \in Rows("rating_history") :
        row[i].body.from # NotGiven /\ row[i].body.ref \in Rows("counterparty")

CurvesApart ==
    ~raced => \A i, j \in Approved("pd_pefindo") :
                  (i # j /\ row[i].body.key = row[j].body.key) => ~Meet(row[i].body, row[j].body)

IInv == TypeOK /\ RequestsOK /\ RatingsOK /\ CurvesApart /\ NaturalKeysUnique

-----------------------------------------------------------------------------
(* The UPDATEs of every kind.                                               *)
Written(b, p, columns) == [f \in DOMAIN b |-> IF f \in columns THEN Merge(b, p)[f] ELSE b[f]]

LEMMA WrittenBody ==
    ASSUME NEW b \in BodyType, NEW p \in BodyType, NEW columns
    PROVE  /\ Written(b, p, columns) \in BodyType
           /\ Written(b, p, columns).key =
                 IF "key" \in columns /\ p.key # NotGiven THEN p.key ELSE b.key
           /\ "ref" \notin columns => Written(b, p, columns).ref = b.ref
           /\ "from" \notin columns => Written(b, p, columns).from = b.from
<1>1. DOMAIN b = {"key", "ref", "from", "to", "val"}
  BY DEF BodyType
<1>2. Written(b, p, columns) =
        [f \in {"key", "ref", "from", "to", "val"} |->
            IF f \in columns THEN IF p[f] = NotGiven THEN b[f] ELSE p[f] ELSE b[f]]
  BY <1>1 DEF Written, Merge
<1> QED BY <1>2 DEF BodyType

LEMMA EmptyBody == NoBody \in BodyType /\ Absent \in RowType
BY DEF NoBody, Absent, BodyType, RowType, Statuses

LEMMA RowColumns ==
    ASSUME NEW r \in RowType
    PROVE  /\ r.ver \in Nat /\ r.ver + 1 \in Nat /\ r.body \in BodyType /\ r.st \in Statuses
           /\ r.del \in BOOLEAN /\ DOMAIN r = {"st", "ver", "del", "body"}
BY DEF RowType

(* Rows with some columns replaced.                                         *)
LEMMA RowReplaced ==
    ASSUME NEW r \in RowType
    PROVE  /\ \A v \in Nat : [r EXCEPT !.ver = v] \in RowType
           /\ \A v \in Nat, b \in BodyType : [r EXCEPT !.body = b, !.ver = v] \in RowType
           /\ \A v \in Nat, s \in Statuses : [r EXCEPT !.st = s, !.ver = v] \in RowType
           /\ \A v \in Nat : [r EXCEPT !.del = TRUE, !.ver = v] \in RowType
           /\ [r EXCEPT !.del = TRUE] \in RowType
<1>1. \A v \in Nat : [r EXCEPT !.ver = v] \in RowType
  BY DEF RowType
<1>2. \A v \in Nat, b \in BodyType : [r EXCEPT !.body = b, !.ver = v] \in RowType
  BY DEF RowType
<1>3. \A v \in Nat, s \in Statuses : [r EXCEPT !.st = s, !.ver = v] \in RowType
  BY DEF RowType
<1>4. \A v \in Nat : [r EXCEPT !.del = TRUE, !.ver = v] \in RowType
  BY DEF RowType
<1>5. [r EXCEPT !.del = TRUE] \in RowType
  BY DEF RowType
<1> QED BY <1>1, <1>2, <1>3, <1>4, <1>5

LEMMA PatchedRow ==
    ASSUME NEW i \in Ids, row[i] \in RowType, NEW p \in BodyType, NEW columns
    PROVE  LET s == Patched(i, p, columns) IN
           /\ s \in RowType /\ s.st = row[i].st /\ s.del = row[i].del
           /\ s.ver = row[i].ver + 1 /\ s.body = Written(row[i].body, p, columns)
<1>1. Patched(i, p, columns) =
        [row[i] EXCEPT !.body = Written(row[i].body, p, columns), !.ver = row[i].ver + 1]
  BY DEF Patched, Written
<1> DEFINE r == row[i]
           w == Written(r.body, p, columns)
<1>2. /\ r.ver + 1 \in Nat /\ r.body \in BodyType /\ DOMAIN r = {"st", "ver", "del", "body"}
      /\ r.st \in Statuses
  BY RowColumns
<1>3. w \in BodyType
  BY <1>2, WrittenBody
<1>4. Patched(i, p, columns) = [r EXCEPT !.body = w, !.ver = r.ver + 1]
  BY <1>1
<1> HIDE DEF w
<1>5. [r EXCEPT !.body = w, !.ver = r.ver + 1] \in RowType
  BY <1>2, <1>3, RowReplaced
<1>6. /\ [r EXCEPT !.body = w, !.ver = r.ver + 1].st = r.st
      /\ [r EXCEPT !.body = w, !.ver = r.ver + 1].del = r.del
      /\ [r EXCEPT !.body = w, !.ver = r.ver + 1].ver = r.ver + 1
      /\ [r EXCEPT !.body = w, !.ver = r.ver + 1].body = w
  BY <1>2
<1> QED BY <1>4, <1>5, <1>6 DEF w

(* An UPDATE leaves the status alone and moves the version on, but for a    *)
(* mapping; its key is that of the row, or for a mapping the one given.     *)
StoredOK(i, p, s) ==
    /\ s \in RowType /\ s.st = row[i].st /\ s.del = row[i].del /\ s.ver >= row[i].ver
    /\ (kind[i] \in Keyed /\ kind[i] # "mapping_jurnal") => s.body.key = row[i].body.key
    /\ kind[i] = "kurs" => s.body.ref = row[i].body.ref
    /\ kind[i] = "mapping_jurnal" =>
          s.body.key = IF GivesHeader(p) THEN p.key ELSE row[i].body.key
    /\ kind[i] = "rating_history" => /\ s.body.from = row[i].body.from
                                     /\ s.body.ref = row[i].body.ref

LEMMA StoredRow ==
    ASSUME kind \in [Ids -> Kinds], NEW i \in Ids, row[i] \in RowType, NEW p \in BodyType
    PROVE  StoredOK(i, p, Stored(i, p))
<1> DEFINE P(columns) == Patched(i, p, columns)
           b == row[i].body
<1>1. ASSUME NEW columns
      PROVE  /\ P(columns) \in RowType /\ P(columns).st = row[i].st /\ P(columns).del = row[i].del
             /\ P(columns).ver = row[i].ver + 1 /\ row[i].ver \in Nat
             /\ P(columns).body.key = IF "key" \in columns /\ p.key # NotGiven THEN p.key ELSE b.key
             /\ "ref" \notin columns => P(columns).body.ref = b.ref
             /\ "from" \notin columns => P(columns).body.from = b.from
  BY PatchedRow, WrittenBody DEF RowType
<1>2. ASSUME NEW columns, kind[i] # "mapping_jurnal", Stored(i, p) = P(columns),
             "key" \in columns => kind[i] \notin Keyed,
             kind[i] = "kurs" => "ref" \notin columns,
             kind[i] = "rating_history" => "ref" \notin columns /\ "from" \notin columns
      PROVE  StoredOK(i, p, Stored(i, p))
  <2> HIDE DEF P, b
  <2> QED BY <1>1, <1>2 DEF StoredOK, b
<1>3. CASE kind[i] = "mapping_jurnal"
  <2>1. Stored(i, p) = IF GivesHeader(p) THEN P({"key", "ref", "val"})
                       ELSE [P({"key", "ref", "val"}) EXCEPT !.ver = row[i].ver]
    BY <1>3 DEF Stored, MappingStore
  <2>2. /\ P({"key", "ref", "val"}) \in RowType /\ P({"key", "ref", "val"}).st = row[i].st
        /\ P({"key", "ref", "val"}).del = row[i].del
        /\ P({"key", "ref", "val"}).ver = row[i].ver + 1 /\ row[i].ver \in Nat
        /\ P({"key", "ref", "val"}).body.key = IF p.key # NotGiven THEN p.key ELSE b.key
    BY <1>1
  <2> HIDE DEF P, b
  <2>3. Stored(i, p) \in RowType /\ Stored(i, p).st = row[i].st /\ Stored(i, p).del = row[i].del
        /\ Stored(i, p).ver \in {row[i].ver, row[i].ver + 1}
        /\ Stored(i, p).body.key = IF p.key # NotGiven THEN p.key ELSE b.key
    BY <2>1, <2>2 DEF RowType
  <2> QED BY <1>3, <2>2, <2>3 DEF StoredOK, GivesHeader, b
<1> DEFINE k == kind[i]
<1>4. CASE k \in {"bobot_skenario", "pd_pefindo", "lgd_basel", "lps_coverage"}
  <2>1. k \notin Keyed /\ k # "mapping_jurnal"
    BY <1>4 DEF Keyed
  <2>2. \E columns : Stored(i, p) = P(columns)
    BY <1>4 DEF Stored, BobotStore, PdStore, LgdStore, LpsStore
  <2> HIDE DEF P
  <2> QED BY <1>2, <1>4, <2>1, <2>2
<1>5. CASE k \in {"impact_pd", "impact_mev_pd", "rating_history"}
  <2>1. Stored(i, p) = P({"val"})
    BY <1>5 DEF Stored, ImpactPdStore, ImpactMevStore, RatingStore
  <2> HIDE DEF P
  <2> QED BY <1>2, <1>5, <2>1
<1>6. CASE k \in {"counterparty", "periode_buku", "kurs"}
  <2>1. \E columns \in {{"from"}, {"from", "to"}, {"from", "to", "val"}} : Stored(i, p) = P(columns)
    BY <1>6 DEF Stored, CounterpartyStore, PeriodeStore, KursStore
  <2>2. PICK columns \in {{"from"}, {"from", "to"}, {"from", "to", "val"}} : Stored(i, p) = P(columns)
    BY <2>1
  <2>3. "key" \notin columns /\ "ref" \notin columns
    OBVIOUS
  <2> HIDE DEF P
  <2> QED BY <1>2, <1>6, <2>2, <2>3
<1>7. CASE k \in {"portofolio", "mata_uang", "instrumen", "chart_of_accounts"}
  <2>1. \E columns \in {{"val"}, {"ref", "val"}} : Stored(i, p) = P(columns)
    BY <1>7 DEF Stored, PortofolioStore, MataUangStore, InstrumenStore, CoaStore
  <2>2. PICK columns \in {{"val"}, {"ref", "val"}} : Stored(i, p) = P(columns)
    BY <2>1
  <2>3. "key" \notin columns
    OBVIOUS
  <2> HIDE DEF P
  <2> QED BY <1>2, <1>7, <2>2, <2>3
<1>8. k \in Kinds
  OBVIOUS
<1> HIDE DEF P
<1> QED BY <1>3, <1>4, <1>5, <1>6, <1>7, <1>8 DEF Kinds

(* A delete and a transition leave the body alone, and no transition leaves *)
(* the version alone.                                                       *)
LEMMA ErasedOK ==
    ASSUME kind \in [Ids -> Kinds], NEW i \in Ids, row[i] \in RowType
    PROVE  LET s == ErasedRow(i) IN
           s \in RowType /\ s.st = row[i].st /\ s.del /\ s.ver >= row[i].ver /\ s.body = row[i].body
<1>1. ErasedRow(i) \in {Erased(i), ErasedBumped(i)}
  BY DEF ErasedRow, Kinds, BobotErase, PdErase, LgdErase, LpsErase, ImpactPdErase, ImpactMevErase,
         RatingErase, CounterpartyErase, PortofolioErase, MataUangErase, KursErase, PeriodeErase,
         InstrumenErase, CoaErase, MappingErase
<1> DEFINE r == row[i]
<1>3. /\ r.ver + 1 \in Nat /\ r.ver \in Nat /\ DOMAIN r = {"st", "ver", "del", "body"} /\ r.st \in Statuses
      /\ r.body \in BodyType
  BY RowColumns
<1>4. [r EXCEPT !.del = TRUE] \in RowType /\ [r EXCEPT !.del = TRUE, !.ver = r.ver + 1] \in RowType
  BY <1>3, RowReplaced
<1>2. /\ Erased(i) \in RowType /\ Erased(i).st = row[i].st /\ Erased(i).del
      /\ Erased(i).ver = row[i].ver /\ Erased(i).body = row[i].body
      /\ ErasedBumped(i) \in RowType /\ ErasedBumped(i).st = row[i].st /\ ErasedBumped(i).del
      /\ ErasedBumped(i).ver = row[i].ver + 1 /\ ErasedBumped(i).body = row[i].body
      /\ row[i].ver \in Nat
  BY <1>3, <1>4 DEF Erased, ErasedBumped
<1> QED BY <1>1, <1>2

LEMMA StatusOK ==
    ASSUME kind \in [Ids -> Kinds], NEW i \in Ids, row[i] \in RowType, NEW to \in Statuses
    PROVE  LET s == StatusRow(i, to) IN
           /\ s \in RowType /\ s.del = row[i].del /\ s.body = row[i].body
           /\ s = row[i] \/ (s.st = to /\ s.ver = row[i].ver + 1)
<1>1. StatusRow(i, to) \in {row[i], Moved(i, to)}
  BY DEF StatusRow, Unhooked, Kinds, BobotStatus, PdStatus, LpsStatus, ImpactPdStatus, ImpactMevStatus,
         RatingStatus, CounterpartyStatus, PortofolioStatus, KursStatus, InstrumenStatus, CoaStatus,
         MappingStatus
<1> DEFINE r == row[i]
<1>3. /\ r.ver + 1 \in Nat /\ DOMAIN r = {"st", "ver", "del", "body"} /\ r.body \in BodyType
  BY RowColumns
<1>4. [r EXCEPT !.st = to, !.ver = r.ver + 1] \in RowType
  BY <1>3, RowReplaced
<1>2. /\ Moved(i, to) \in RowType /\ Moved(i, to).st = to /\ Moved(i, to).del = row[i].del
      /\ Moved(i, to).ver = row[i].ver + 1 /\ Moved(i, to).body = row[i].body
  BY <1>3, <1>4 DEF Moved
<1> QED BY <1>1, <1>2

(* No service edits a row whose content is frozen.                          *)
LEMMA UpdateUnfrozen ==
    ASSUME kind \in [Ids -> Kinds], NEW i \in Ids, NEW p, UpdateAllowed(i, p),
           kind[i] # "mapping_jurnal"
    PROVE  row[i].st \notin FrozenStatuses(kind[i])
<1>1. /\ row[i].st # "APPROVED"
      /\ kind[i] \in {"lps_coverage", "impact_pd", "impact_mev_pd"} => IsEditable(i)
  BY DEF UpdateAllowed, Kinds, BobotUpdate, PdUpdate, LgdUpdate, LpsUpdate, ImpactPdUpdate,
         ImpactMevUpdate, RatingUpdate, CounterpartyUpdate, PortofolioUpdate, MataUangUpdate,
         KursUpdate, PeriodeUpdate, InstrumenUpdate, CoaUpdate, IsEditable
<1> QED BY <1>1 DEF FrozenStatuses, IsEditable

-----------------------------------------------------------------------------
(* What any commit keeps of the rows and of the other requests.             *)
Evolves(r, s) ==
    r.st # "ABSENT" => /\ s.st # "ABSENT" /\ s.ver >= r.ver
                       /\ s.st # r.st => s.ver > r.ver

Overtaken ==
    /\ req' = [d \in Clients |-> req'[d]]
    /\ \A d \in Clients : \/ req'[d] = Idle
                          \/ req[d] # Idle /\ req'[d] = [req[d] EXCEPT !.quiet = FALSE]

LEMMA Kinded == kind \in Assignments => kind \in [Ids -> Kinds]
BY MasterBodiesAssumption

LEMMA Unquiet ==
    ASSUME NEW q \in RequestType, q # Idle
    PROVE  LET u == [q EXCEPT !.quiet = FALSE] IN
           /\ u \in RequestType /\ u.op = q.op /\ u.quiet = FALSE
           /\ q.op # "seed" => u.id = q.id
           /\ q.op = "update" => u.ver = q.ver
           /\ q.op = "create" => u.body = q.body
<1> DEFINE u == [q EXCEPT !.quiet = FALSE]
<1>1. CASE q \in [op: {"create"}, id: Ids, body: BodyType, quiet: BOOLEAN]
  BY <1>1 DEF RequestType
<1>2. CASE q \in [op: {"update"}, id: Ids, body: BodyType, ver: Nat, quiet: BOOLEAN]
  BY <1>2 DEF RequestType
<1>3. CASE q \in [op: {"delete"}, id: Ids, quiet: BOOLEAN]
  BY <1>3 DEF RequestType
<1>4. CASE q \in [op: {"move"}, id: Ids, to: Statuses, second: BOOLEAN,
                  body: BodyType, prior: BOOLEAN, quiet: BOOLEAN]
  BY <1>4 DEF RequestType
<1>5. CASE q \in [op: {"seed"}, from: Dates, quiet: BOOLEAN]
  BY <1>5 DEF RequestType
<1> QED BY <1>1, <1>2, <1>3, <1>4, <1>5 DEF RequestType

(* What a request's type says of its parts.                                 *)
LEMMA RequestParts ==
    ASSUME NEW q \in RequestType
    PROVE  /\ q.op \in {"idle", "create", "update", "delete", "move", "seed"}
           /\ q.op = "idle" => q = Idle
           /\ q # Idle => q.op # "idle" /\ q.quiet \in BOOLEAN
           /\ q.op \in {"create", "update", "delete", "move"} => q.id \in Ids
           /\ q.op \in {"create", "update", "move"} => q.body \in BodyType
           /\ q.op = "update" => q.ver \in Nat
           /\ q.op = "move" => q.to \in Statuses
BY DEF RequestType, Idle

LEMMA ChangeKeeps ==
    ASSUME IInv, UNCHANGED kind, raced' \in BOOLEAN, crowded' \in BOOLEAN, Overtaken,
           row' \in [Ids -> RowType], wf' \in [Ids -> Statuses],
           \A i \in Ids : Evolves(row[i], row'[i])
    PROVE  TypeOK' /\ RequestsOK'
<1>1. ASSUME NEW d \in Clients
      PROVE  req'[d] \in RequestType /\ RequestOK(req[d])'
  <2>1. req[d] \in RequestType /\ RequestOK(req[d])
    BY DEF IInv, TypeOK, RequestsOK
  <2>2. CASE req'[d] = Idle
    BY <2>2 DEF RequestType, Idle, RequestOK
  <2>3. CASE req[d] # Idle /\ req'[d] = [req[d] EXCEPT !.quiet = FALSE]
    <3> DEFINE q == req[d]
               u == [req[d] EXCEPT !.quiet = FALSE]
    <3>1. /\ u \in RequestType /\ u.op = q.op /\ u.quiet = FALSE
          /\ q.op # "seed" => u.id = q.id
          /\ q.op = "update" => u.ver = q.ver
          /\ q.op = "create" => u.body = q.body
      BY <2>1, <2>3, Unquiet
    <3>2. PICK v : v = u
      OBVIOUS
    <3>3. req'[d] = v
      BY <2>3, <3>2
    <3> HIDE DEF u
    <3>4. q.op = "create" => CreateOK(v)'
      BY <2>1, <3>1, <3>2 DEF RequestOK, CreateOK
    <3>5. ASSUME q.op = "update" PROVE EditOK(v)'
      <4>1. v.id \in Ids /\ v.ver \in Nat /\ EditOK(v) /\ EditOK(q)
        BY <2>1, <3>1, <3>2, <3>5, RequestParts DEF RequestOK, EditOK, Exists
      <4>2. row[v.id] \in RowType /\ row'[v.id] \in RowType /\ Evolves(row[v.id], row'[v.id])
        BY <4>1 DEF IInv, TypeOK
      <4>3. row[v.id].ver \in Nat /\ row'[v.id].ver \in Nat
        BY <4>2, RowColumns
      <4> QED BY <4>1, <4>2, <4>3 DEF EditOK, Exists, Evolves, FrozenStatuses
    <3>6. ASSUME q.op = "move" PROVE MoveOK(v)'
      <4>1. v.id \in Ids /\ MoveOK(q) /\ v.id = q.id /\ v.quiet = FALSE
        BY <2>1, <3>1, <3>2, <3>6, RequestParts DEF RequestOK
      <4>2. Evolves(row[v.id], row'[v.id])
        BY <4>1
      <4> QED BY <4>1, <4>2 DEF MoveOK, Exists, Evolves
    <3> QED BY <2>3, <3>1, <3>2, <3>3, <3>4, <3>5, <3>6 DEF RequestOK
  <2> QED BY <2>2, <2>3 DEF Overtaken
<1>2. TypeOK'
  BY <1>1 DEF IInv, TypeOK, Overtaken
<1> QED BY <1>1, <1>2 DEF RequestsOK

(* Rows but those in N keep their keys, and those in N have keys of their   *)
(* own.                                                                     *)
LEMMA KeysKept ==
    ASSUME IInv, UNCHANGED kind, NEW N,
           \A i \in Ids \ N : Live(i)' =>
               Live(i) /\ KeyOf(kind[i], row'[i].body) = KeyOf(kind[i], row[i].body),
           \A x \in N : \A j \in Ids :
               (x # j /\ kind[x] = kind[j] /\ kind[x] \in Keyed /\ Live(x)' /\ Live(j)') =>
                   KeyOf(kind[x], row'[x].body) # KeyOf(kind[x], row'[j].body)
    PROVE  NaturalKeysUnique'
<1> SUFFICES ASSUME NEW k \in Keyed, NEW i \in Ids, NEW j \in Ids, i # j,
                    kind[i] = k, kind[j] = k, Live(i)', Live(j)',
                    KeyOf(k, row'[i].body) = KeyOf(k, row'[j].body)
             PROVE  FALSE
  BY DEF NaturalKeysUnique, LiveRows, KeyOf
<1>1. CASE i \in N
  BY <1>1
<1>2. CASE j \in N
  BY <1>2
<1>3. CASE i \notin N /\ j \notin N
  BY <1>3 DEF IInv, NaturalKeysUnique, LiveRows
<1> QED BY <1>1, <1>2, <1>3

LEMMA RatingsKept ==
    ASSUME IInv, UNCHANGED kind,
           \A i \in Ids : Exists(i) => Exists(i)',
           \A i \in Ids : (kind[i] = "rating_history" /\ Exists(i)') =>
               \/ Exists(i) /\ row'[i].body.from = row[i].body.from /\ row'[i].body.ref = row[i].body.ref
               \/ row'[i].body.from # NotGiven /\ row'[i].body.ref \in Rows("counterparty")
    PROVE  RatingsOK'
BY DEF IInv, RatingsOK, Rows

LEMMA CurvesKept ==
    ASSUME IInv, UNCHANGED kind, raced => raced',
           \A i \in Ids : (kind[i] = "pd_pefindo" /\ Live(i)' /\ row'[i].st = "APPROVED") =>
               Live(i) /\ row[i].st = "APPROVED" /\ row'[i].body = row[i].body
    PROVE  CurvesApart'
<1> SUFFICES ASSUME ~raced', NEW i \in Approved("pd_pefindo")', NEW j \in Approved("pd_pefindo")',
                    i # j, row'[i].body.key = row'[j].body.key
             PROVE  ~Meet(row'[i].body, row'[j].body)
  BY DEF CurvesApart, Meet
<1>1. /\ i \in Approved("pd_pefindo") /\ j \in Approved("pd_pefindo")
      /\ row'[i].body = row[i].body /\ row'[j].body = row[j].body
  BY DEF Approved, LiveRows
<1> QED BY <1>1 DEF IInv, CurvesApart

Frozen ==
    \A i \in Ids :
        kind[i] # "mapping_jurnal" /\ row[i].st \in FrozenStatuses(kind[i]) =>
            FrozenPart(kind[i], row'[i].body) = FrozenPart(kind[i], row[i].body)
Keeps == IInv' /\ Frozen

LEMMA CommitMarks ==
    ASSUME IInv, NEW c \in Clients, req[c] # Idle, Commit(c)
    PROVE  Overtaken /\ raced' \in BOOLEAN /\ (raced => raced') /\ UNCHANGED kind
           /\ (~raced' => req[c].quiet)
<1>1. req[c].quiet \in BOOLEAN /\ raced \in BOOLEAN
  BY RequestParts DEF IInv, TypeOK
<1>2. raced' = (raced \/ ~req[c].quiet)
  BY DEF Commit
<1>3. raced' \in BOOLEAN /\ (raced => raced') /\ (~raced' => req[c].quiet)
  BY <1>1, <1>2
<1>4. UNCHANGED kind /\ req' = [d \in Clients |-> IF d = c THEN Idle ELSE IF req[d] = Idle THEN Idle
                                                  ELSE [req[d] EXCEPT !.quiet = FALSE]]
  BY DEF Commit
<1>5. Overtaken
  BY <1>4 DEF Overtaken
<1> QED BY <1>3, <1>4, <1>5

-----------------------------------------------------------------------------
(* Requests that begin or go no further.                                    *)
LEMMA RequestsChange ==
    ASSUME IInv, NEW c \in Clients, NEW r \in RequestType, RequestOK(r),
           req' = [req EXCEPT ![c] = r], UNCHANGED <<kind, row, wf, raced, crowded>>
    PROVE  Keeps
<1>1. TypeOK'
  BY DEF IInv, TypeOK
<1>2. \A d \in Clients : RequestOK(req'[d])
  BY DEF IInv, TypeOK, RequestsOK
<1>3. \A q : RequestOK(q) => RequestOK(q)'
  BY DEF RequestOK, CreateOK, EditOK, MoveOK, Exists, Live, PdOverlaps, Approved, LiveRows
<1>4. RequestsOK'
  BY <1>2, <1>3 DEF RequestsOK
<1>5. RatingsOK' /\ CurvesApart' /\ NaturalKeysUnique'
  BY DEF IInv, RatingsOK, CurvesApart, NaturalKeysUnique, Rows, Approved, LiveRows, Live, Exists
<1>6. Frozen
  BY DEF Frozen
<1> QED BY <1>1, <1>4, <1>5, <1>6 DEF IInv, Keeps

LEMMA BeginCreateStep == ASSUME IInv, NEW c \in Clients, BeginCreate(c) PROVE Keeps
<1>0. PICK i \in Ids : \E b \in Bodies[kind[i]] :
         Begin(c, [op |-> "create", id |-> i, body |-> b, quiet |-> TRUE])
  BY DEF BeginCreate
<1>1. PICK b \in Bodies[kind[i]] :
         Begin(c, [op |-> "create", id |-> i, body |-> b, quiet |-> TRUE])
  BY <1>0
<1> DEFINE r == [op |-> "create", id |-> i, body |-> b, quiet |-> TRUE]
<1>2. kind[i] \in Kinds /\ b \in BodyType
  BY Kinded, MasterBodiesAssumption DEF IInv, TypeOK
<1>3. r \in RequestType /\ r.op = "create" /\ r.id = i /\ r.body = b
  BY <1>2 DEF RequestType
<1>4. kind[i] = "rating_history" => b.from # NotGiven
  BY MasterBodiesAssumption
<1>5. req' = [req EXCEPT ![c] = r] /\ UNCHANGED <<kind, row, wf, raced, crowded>>
  BY <1>1 DEF Begin
<1> HIDE DEF r
<1> QED BY <1>3, <1>4, <1>5, RequestsChange DEF RequestOK, CreateOK

LEMMA BeginUpdateStep == ASSUME IInv, NEW c \in Clients, BeginUpdate(c) PROVE Keeps
<1>0. PICK i \in Ids : \E p \in Patches[kind[i]] :
         /\ Live(i) /\ UpdateAllowed(i, p)
         /\ Begin(c, [op |-> "update", id |-> i, body |-> p, ver |-> row[i].ver, quiet |-> TRUE])
  BY DEF BeginUpdate
<1>1. PICK p \in Patches[kind[i]] :
         /\ Live(i) /\ UpdateAllowed(i, p)
         /\ Begin(c, [op |-> "update", id |-> i, body |-> p, ver |-> row[i].ver, quiet |-> TRUE])
  BY <1>0
<1> DEFINE r == [op |-> "update", id |-> i, body |-> p, ver |-> row[i].ver, quiet |-> TRUE]
<1>2. kind[i] \in Kinds /\ p \in BodyType /\ kind \in [Ids -> Kinds]
  BY Kinded, MasterBodiesAssumption DEF IInv, TypeOK
<1>3. row[i].ver \in Nat
  BY RowColumns DEF IInv, TypeOK
<1>4. r \in RequestType /\ r.op = "update" /\ r.id = i /\ r.ver = row[i].ver
  BY <1>2, <1>3 DEF RequestType
<1>5. kind[i] # "mapping_jurnal" => row[i].st \notin FrozenStatuses(kind[i])
  BY <1>1, <1>2, UpdateUnfrozen
<1>6. req' = [req EXCEPT ![c] = r] /\ UNCHANGED <<kind, row, wf, raced, crowded>>
  BY <1>1 DEF Begin
<1> HIDE DEF r
<1>7. RequestOK(r)
  BY <1>1, <1>3, <1>4, <1>5 DEF RequestOK, EditOK, Live
<1> QED BY <1>4, <1>6, <1>7, RequestsChange

LEMMA BeginDeleteStep == ASSUME IInv, NEW c \in Clients, BeginDelete(c) PROVE Keeps
<1>1. PICK i \in Ids : Begin(c, [op |-> "delete", id |-> i, quiet |-> TRUE])
  BY DEF BeginDelete
<1> DEFINE r == [op |-> "delete", id |-> i, quiet |-> TRUE]
<1>2. r \in RequestType /\ r.op = "delete"
  BY DEF RequestType
<1>3. req' = [req EXCEPT ![c] = r] /\ UNCHANGED <<kind, row, wf, raced, crowded>>
  BY <1>1 DEF Begin
<1> HIDE DEF r
<1> QED BY <1>2, <1>3, RequestsChange DEF RequestOK

LEMMA BeginMoveStep == ASSUME IInv, NEW c \in Clients, BeginMove(c) PROVE Keeps
<1>1. PICK i \in Ids, s \in Steps :
        /\ Exists(i) /\ PriorAllows(i, s[2])
        /\ Begin(c, [op |-> "move", id |-> i, to |-> s[2], second |-> SixEyes(kind[i]),
                     body |-> row[i].body, prior |-> PriorRead(i), quiet |-> TRUE])
  BY DEF BeginMove
<1> DEFINE r == [op |-> "move", id |-> i, to |-> s[2], second |-> SixEyes(kind[i]),
                 body |-> row[i].body, prior |-> PriorRead(i), quiet |-> TRUE]
<1>2. s[2] \in Statuses
  BY DEF Steps, Statuses
<1>3. SixEyes(kind[i]) \in BOOLEAN /\ row[i].body \in BodyType
  BY RowColumns DEF SixEyes, IInv, TypeOK
<1>4. PriorRead(i) \in BOOLEAN
  BY DEF PriorRead, RatingPrior, Live
<1>5. r \in RequestType /\ r.op = "move" /\ r.id = i /\ r.to = s[2]
  BY <1>2, <1>3, <1>4 DEF RequestType
<1>6. req' = [req EXCEPT ![c] = r] /\ UNCHANGED <<kind, row, wf, raced, crowded>>
  BY <1>1 DEF Begin
<1> HIDE DEF r
<1>7. RequestOK(r)
  BY <1>1, <1>5 DEF RequestOK, MoveOK, PriorAllows, PdPrior
<1> QED BY <1>5, <1>6, <1>7, RequestsChange

LEMMA BeginSeedStep == ASSUME IInv, NEW c \in Clients, BeginSeed(c) PROVE Keeps
<1>1. PICK from \in Dates : Begin(c, [op |-> "seed", from |-> from, quiet |-> TRUE])
  BY DEF BeginSeed
<1> DEFINE r == [op |-> "seed", from |-> from, quiet |-> TRUE]
<1>2. r \in RequestType /\ r.op = "seed"
  BY DEF RequestType
<1>3. req' = [req EXCEPT ![c] = r] /\ UNCHANGED <<kind, row, wf, raced, crowded>>
  BY <1>1 DEF Begin
<1> HIDE DEF r
<1> QED BY <1>2, <1>3, RequestsChange DEF RequestOK

LEMMA FailStep == ASSUME IInv, NEW c \in Clients, Fail(c) PROVE Keeps
<1>1. Idle \in RequestType /\ RequestOK(Idle)
  BY DEF RequestType, RequestOK, Idle
<1> QED BY <1>1, RequestsChange DEF Fail

-----------------------------------------------------------------------------
(* Commits of one row.                                                      *)
LEMMA OneRow ==
    ASSUME IInv, Overtaken, UNCHANGED kind, raced' \in BOOLEAN, crowded' \in BOOLEAN, raced => raced',
           NEW i \in Ids, NEW s \in RowType, row' = [row EXCEPT ![i] = s],
           wf' \in [Ids -> Statuses], Evolves(row[i], s),
           s.st # "ABSENT" /\ ~s.del /\ kind[i] \in Keyed =>
               \/ Live(i) /\ KeyOf(kind[i], s.body) = KeyOf(kind[i], row[i].body)
               \/ \A j \in LiveRows(kind[i]) \ {i} : KeyOf(kind[i], row[j].body) # KeyOf(kind[i], s.body),
           (kind[i] = "rating_history" /\ s.st # "ABSENT") =>
               \/ Exists(i) /\ s.body.from = row[i].body.from /\ s.body.ref = row[i].body.ref
               \/ s.body.from # NotGiven /\ s.body.ref \in Rows("counterparty"),
           (kind[i] # "mapping_jurnal" /\ row[i].st \in FrozenStatuses(kind[i])) => s.body = row[i].body,
           CurvesApart'
    PROVE  Keeps
<1>1. \A j \in Ids : row'[j] = IF j = i THEN s ELSE row[j]
  BY DEF IInv, TypeOK
<1>2. row' \in [Ids -> RowType]
  BY DEF IInv, TypeOK
<1>3. \A j \in Ids : Evolves(row[j], row'[j])
  <2> SUFFICES ASSUME NEW j \in Ids, j # i PROVE Evolves(row[j], row[j])
    BY <1>1
  <2>1. row[j].ver \in Nat
    BY RowColumns DEF IInv, TypeOK
  <2> QED BY <2>1 DEF Evolves
<1>4. TypeOK' /\ RequestsOK'
  BY <1>2, <1>3, ChangeKeeps
<1>5. NaturalKeysUnique'
  <2>1. CASE s.st # "ABSENT" /\ ~s.del /\ kind[i] \in Keyed
             /\ \A j \in LiveRows(kind[i]) \ {i} : KeyOf(kind[i], row[j].body) # KeyOf(kind[i], s.body)
    <3>1. \A j \in Ids \ {i} : Live(j)' =>
            Live(j) /\ KeyOf(kind[j], row'[j].body) = KeyOf(kind[j], row[j].body)
      BY <1>1 DEF Live, Exists
    <3>2. ASSUME NEW j \in Ids, i # j, kind[i] = kind[j], Live(j)'
          PROVE  KeyOf(kind[i], row'[i].body) # KeyOf(kind[i], row'[j].body)
      <4>1. j \in LiveRows(kind[i]) \ {i}
        BY <3>1, <3>2 DEF LiveRows
      <4>2. KeyOf(kind[i], row[j].body) # KeyOf(kind[i], s.body)
        BY <2>1, <4>1
      <4> QED BY <1>1, <3>2, <4>2
    <3>3. \A x \in {i} : \A j \in Ids :
            (x # j /\ kind[x] = kind[j] /\ kind[x] \in Keyed /\ Live(x)' /\ Live(j)') =>
                KeyOf(kind[x], row'[x].body) # KeyOf(kind[x], row'[j].body)
      BY <3>2
    <3> QED BY <3>1, <3>3, KeysKept
  <2>2. CASE s.st # "ABSENT" /\ ~s.del /\ kind[i] \in Keyed /\ Live(i)
             /\ KeyOf(kind[i], s.body) = KeyOf(kind[i], row[i].body)
    <3>0. PICK N : N = {}
      OBVIOUS
    <3>1. \A j \in Ids \ N : Live(j)' =>
            Live(j) /\ KeyOf(kind[j], row'[j].body) = KeyOf(kind[j], row[j].body)
      BY <1>1, <2>2 DEF Live, Exists
    <3>2. \A x \in N : \A j \in Ids :
            (x # j /\ kind[x] = kind[j] /\ kind[x] \in Keyed /\ Live(x)' /\ Live(j)') =>
                KeyOf(kind[x], row'[x].body) # KeyOf(kind[x], row'[j].body)
      BY <3>0
    <3> QED BY <3>1, <3>2, KeysKept
  <2>3. CASE s.st = "ABSENT" \/ s.del \/ kind[i] \notin Keyed
    <3>1. \A j \in Ids \ {i} : Live(j)' =>
            Live(j) /\ KeyOf(kind[j], row'[j].body) = KeyOf(kind[j], row[j].body)
      BY <1>1 DEF Live, Exists
    <3>2. ~Live(i)' \/ kind[i] \notin Keyed
      BY <1>1, <2>3 DEF Live, Exists
    <3>3. \A x \in {i} : \A j \in Ids :
            (x # j /\ kind[x] = kind[j] /\ kind[x] \in Keyed /\ Live(x)' /\ Live(j)') =>
                KeyOf(kind[x], row'[x].body) # KeyOf(kind[x], row'[j].body)
      BY <3>2
    <3> QED BY <3>1, <3>3, KeysKept
  <2> QED BY <2>1, <2>2, <2>3
<1>6. RatingsOK'
  <2>1. \A j \in Ids : Exists(j) => Exists(j)'
    BY <1>1 DEF Exists, Evolves
  <2>2. \A j \in Ids : (kind[j] = "rating_history" /\ Exists(j)') =>
               \/ Exists(j) /\ row'[j].body.from = row[j].body.from /\ row'[j].body.ref = row[j].body.ref
               \/ row'[j].body.from # NotGiven /\ row'[j].body.ref \in Rows("counterparty")
    BY <1>1 DEF Exists
  <2> QED BY <2>1, <2>2, RatingsKept
<1>7. Frozen
  BY <1>1 DEF Frozen
<1> QED BY <1>4, <1>5, <1>6, <1>7 DEF Keeps, IInv

LEMMA NewRow ==
    ASSUME NEW b \in BodyType
    PROVE  /\ Inserted(b) \in RowType /\ Inserted(b).st = "DRAFT" /\ Inserted(b).ver = 1
           /\ ~Inserted(b).del /\ Inserted(b).body = b
BY DEF Inserted, RowType, Statuses

(* The constraints keep every key from a second live row.                   *)
LEMMA InsertKeys ==
    ASSUME NEW k \in Keyed, NEW b, InsertAllowed(k, b), NEW j \in LiveRows(k)
    PROVE  KeyOf(k, row[j].body) # KeyOf(k, b)
<1>1. j \in Rows(k) /\ Live(j)
  BY DEF LiveRows, Rows, Live
<1>2. CASE k = "kurs"
  BY <1>1, <1>2 DEF InsertAllowed, KursInsert, KeyOf
<1>3. CASE k # "kurs"
  <2>1. row[j].body.key # b.key
    BY <1>1, <1>3 DEF InsertAllowed, Keyed, Kinds, KeyUnused, LiveKeyUnused, ImpactPdInsert,
       ImpactMevInsert,
       RatingInsert, CounterpartyInsert, PortofolioInsert, MataUangInsert, PeriodeInsert,
       InstrumenInsert, CoaInsert, MappingInsert
  <2> QED BY <1>3, <2>1 DEF KeyOf
<1> QED BY <1>2, <1>3

LEMMA CommitCreateStep == ASSUME IInv, NEW c \in Clients, CommitCreate(c) PROVE Keeps
<1> DEFINE r == req[c]
           i == r.id
           s == Inserted(r.body)
<1>1. /\ r.op = "create" /\ ~Exists(i) /\ InsertAllowed(kind[i], r.body)
      /\ row' = [row EXCEPT ![i] = s] /\ wf' = [wf EXCEPT ![i] = "DRAFT"] /\ Commit(c)
  BY DEF CommitCreate
<1>2. r \in RequestType /\ RequestOK(r)
  BY DEF IInv, TypeOK, RequestsOK
<1>3. i \in Ids /\ r.body \in BodyType /\ r # Idle
  BY <1>1, <1>2, RequestParts DEF Idle
<1>4. Overtaken /\ raced' \in BOOLEAN /\ (raced => raced') /\ UNCHANGED kind
  BY <1>1, <1>3, CommitMarks
<1>flag. crowded' \in BOOLEAN
  BY DEF CommitCreate, IInv, TypeOK
<1>5. s \in RowType /\ s.st = "DRAFT" /\ ~s.del /\ s.body = r.body
  BY <1>3, NewRow
<1>6. kind[i] = "rating_history" =>
         s.body.from # NotGiven /\ s.body.ref \in Rows("counterparty")
  BY <1>1, <1>2, <1>5 DEF RequestOK, CreateOK, InsertAllowed, RatingInsert
<1>7. kind[i] \in Keyed => \A j \in LiveRows(kind[i]) \ {i} : KeyOf(kind[i], row[j].body) # KeyOf(kind[i], s.body)
  BY <1>1, <1>5, InsertKeys
<1>8. row[i].st = "ABSENT"
  BY <1>1 DEF Exists
<1>9. wf' \in [Ids -> Statuses] /\ row \in [Ids -> RowType]
  BY <1>1 DEF IInv, TypeOK, Statuses
<1> HIDE DEF s, r, i
<1>10. CurvesApart'
  <2>1. \A j \in Ids : (kind[j] = "pd_pefindo" /\ Live(j)' /\ row'[j].st = "APPROVED") =>
               Live(j) /\ row[j].st = "APPROVED" /\ row'[j].body = row[j].body
    BY <1>1, <1>3, <1>5, <1>9 DEF Live, Exists
  <2> QED BY <1>4, <2>1, CurvesKept
<1>11. Evolves(row[i], s) /\ row[i].st \notin FrozenStatuses(kind[i])
  BY <1>8 DEF Evolves, FrozenStatuses
<1> QED BY <1>flag, <1>1, <1>3, <1>4, <1>5, <1>6, <1>7, <1>9, <1>10, <1>11, OneRow

LEMMA CommitUpdateStep == ASSUME IInv, NEW c \in Clients, CommitUpdate(c) PROVE Keeps
<1> DEFINE r == req[c]
           i == r.id
           s == Stored(i, r.body)
<1>1. /\ r.op = "update" /\ Matches(i, r.body, r.ver)
      /\ row' = [row EXCEPT ![i] = s] /\ UNCHANGED wf /\ Commit(c)
  BY DEF CommitUpdate
<1>2. r \in RequestType /\ RequestOK(r)
  BY DEF IInv, TypeOK, RequestsOK
<1>3. i \in Ids /\ r.body \in BodyType /\ r # Idle
  BY <1>1, <1>2, RequestParts DEF Idle
<1>4. Overtaken /\ raced' \in BOOLEAN /\ (raced => raced') /\ UNCHANGED kind
  BY <1>1, <1>3, CommitMarks
<1>flag. crowded' \in BOOLEAN
  BY DEF CommitUpdate, IInv, TypeOK
<1>5. row \in [Ids -> RowType] /\ wf' \in [Ids -> Statuses] /\ kind \in [Ids -> Kinds]
  BY <1>1, Kinded DEF IInv, TypeOK
<1>6. StoredOK(i, r.body, s)
  BY <1>3, <1>5, StoredRow
<1>7. Live(i) /\ (kind[i] # "mapping_jurnal" => row[i].st \notin FrozenStatuses(kind[i]))
  BY <1>1, <1>2 DEF Matches, MappingMatches, RequestOK, EditOK
<1> DEFINE p == r.body
<1>8. kind[i] = "mapping_jurnal" /\ GivesHeader(p) =>
          \A j \in Rows("mapping_jurnal") \ {i} : row[j].body.key # p.key
  BY <1>1 DEF Matches, MappingMatches
<1>9. p \in BodyType
  BY <1>3
<1> HIDE DEF s, r, i, p
<1>10. CurvesApart'
  <2>1. kind[i] = "pd_pefindo" => row[i].st # "APPROVED" /\ s.st = row[i].st
    BY <1>6, <1>7 DEF StoredOK, FrozenStatuses
  <2>2. \A j \in Ids : (kind[j] = "pd_pefindo" /\ Live(j)' /\ row'[j].st = "APPROVED") =>
               Live(j) /\ row[j].st = "APPROVED" /\ row'[j].body = row[j].body
    BY <1>1, <1>3, <1>5, <2>1 DEF Live, Exists
  <2> QED BY <1>4, <2>2, CurvesKept
<1>11. Evolves(row[i], s) /\ s \in RowType
  BY <1>6 DEF Evolves, StoredOK
<1>12. kind[i] \in Keyed =>
          \/ KeyOf(kind[i], s.body) = KeyOf(kind[i], row[i].body)
          \/ \A j \in LiveRows(kind[i]) \ {i} : KeyOf(kind[i], row[j].body) # KeyOf(kind[i], s.body)
  <2>1. CASE kind[i] # "mapping_jurnal"
    BY <1>6, <2>1 DEF StoredOK, KeyOf
  <2>2. CASE kind[i] = "mapping_jurnal" /\ ~GivesHeader(p)
    BY <1>6, <2>2 DEF StoredOK, KeyOf, p
  <2>3. CASE kind[i] = "mapping_jurnal" /\ GivesHeader(p)
    <3>1. s.body.key = p.key
      BY <1>6, <2>3 DEF StoredOK, p
    <3>2. \A j \in LiveRows("mapping_jurnal") \ {i} : row[j].body.key # p.key
      BY <1>8, <2>3 DEF LiveRows, Live, Rows
    <3> QED BY <2>3, <3>1, <3>2 DEF KeyOf
  <2> QED BY <2>1, <2>2, <2>3
<1>13. kind[i] = "rating_history" =>
          Exists(i) /\ s.body.from = row[i].body.from /\ s.body.ref = row[i].body.ref
  BY <1>6, <1>7 DEF StoredOK, Live
<1> QED BY <1>flag, <1>1, <1>3, <1>4, <1>5, <1>7, <1>10, <1>11, <1>12, <1>13, OneRow

LEMMA CommitDeleteStep == ASSUME IInv, NEW c \in Clients, CommitDelete(c) PROVE Keeps
<1> DEFINE r == req[c]
           i == r.id
           s == IF Live(i) THEN ErasedRow(i) ELSE row[i]
<1>1. r.op = "delete" /\ row' = [row EXCEPT ![i] = s] /\ UNCHANGED wf /\ Commit(c)
  BY DEF CommitDelete
<1>2. r \in RequestType
  BY DEF IInv, TypeOK
<1>3. i \in Ids /\ r # Idle
  BY <1>1, <1>2, RequestParts DEF Idle
<1>4. Overtaken /\ raced' \in BOOLEAN /\ (raced => raced') /\ UNCHANGED kind
  BY <1>1, <1>3, CommitMarks
<1>flag. crowded' \in BOOLEAN
  BY DEF CommitDelete, IInv, TypeOK
<1>5. row \in [Ids -> RowType] /\ wf' \in [Ids -> Statuses] /\ kind \in [Ids -> Kinds]
  BY <1>1, Kinded DEF IInv, TypeOK
<1>6. /\ s \in RowType /\ s.st = row[i].st /\ s.ver >= row[i].ver /\ s.body = row[i].body
      /\ s.del \/ s = row[i]
  BY <1>3, <1>5, ErasedOK, RowColumns
<1> HIDE DEF s, r, i
<1>7. CurvesApart'
  <2>1. \A j \in Ids : (kind[j] = "pd_pefindo" /\ Live(j)' /\ row'[j].st = "APPROVED") =>
               Live(j) /\ row[j].st = "APPROVED" /\ row'[j].body = row[j].body
    BY <1>1, <1>3, <1>5, <1>6 DEF Live, Exists
  <2> QED BY <1>4, <2>1, CurvesKept
<1>8. Evolves(row[i], s)
  BY <1>6 DEF Evolves
<1>9. (s.st # "ABSENT" /\ ~s.del) => Live(i) /\ KeyOf(kind[i], s.body) = KeyOf(kind[i], row[i].body)
  BY <1>6 DEF Live, Exists
<1>10. s.st # "ABSENT" => Exists(i)
  BY <1>6 DEF Exists
<1> QED BY <1>flag, <1>1, <1>3, <1>4, <1>5, <1>6, <1>7, <1>8, <1>9, <1>10, OneRow

-----------------------------------------------------------------------------
(* Transitions.                                                             *)
LEMMA StatusMoveStep ==
    ASSUME IInv, NEW c \in Clients, CommitMove(c),
           ~(kind[req[c].id] = "rating_history" /\ req[c].to = "APPROVED")
    PROVE  Keeps
<1> DEFINE r == req[c]
           i == r.id
           s == StatusRow(i, r.to)
<1>1. /\ r.op = "move" /\ <<wf[i], r.to>> \in Steps
      /\ row' = [row EXCEPT ![i] = s] /\ wf' = [wf EXCEPT ![i] = r.to] /\ Commit(c)
  BY DEF CommitMove
<1>2. r \in RequestType /\ RequestOK(r)
  BY DEF IInv, TypeOK, RequestsOK
<1>3. i \in Ids /\ r.to \in Statuses /\ r # Idle /\ r.to # "ABSENT" /\ Exists(i)
  BY <1>1, <1>2, RequestParts DEF Idle, Steps, RequestOK, MoveOK
<1>4. Overtaken /\ raced' \in BOOLEAN /\ (raced => raced') /\ UNCHANGED kind /\ (~raced' => r.quiet)
  BY <1>1, <1>3, CommitMarks
<1>flag. crowded' \in BOOLEAN
  BY DEF CommitMove, IInv, TypeOK
<1>5. row \in [Ids -> RowType] /\ wf' \in [Ids -> Statuses] /\ kind \in [Ids -> Kinds]
  BY <1>1, <1>3, Kinded DEF IInv, TypeOK
<1>6. /\ s \in RowType /\ s.del = row[i].del /\ s.body = row[i].body
      /\ s = row[i] \/ (s.st = r.to /\ s.ver = row[i].ver + 1)
  BY <1>3, <1>5, StatusOK
<1>7. row[i].ver \in Nat /\ s.st # "ABSENT"
  BY <1>3, <1>5, <1>6, RowColumns DEF Exists
<1>8. (kind[i] = "pd_pefindo" /\ ~raced' /\ s.st = "APPROVED" /\ ~s.del) =>
          \/ i \in Approved("pd_pefindo")
          \/ PdOverlaps(row[i].body, Ids \ {i}) = {}
  BY <1>1, <1>2, <1>3, <1>4, <1>6 DEF RequestOK, MoveOK, Live, Exists, Approved, LiveRows
<1> HIDE DEF s, r, i
<1>9. \A j \in Ids : row'[j] = IF j = i THEN s ELSE row[j]
  BY <1>1, <1>5
<1>10. CurvesApart'
  <2> SUFFICES ASSUME ~raced', NEW j \in Approved("pd_pefindo")', NEW k \in Approved("pd_pefindo")',
                      j # k, row'[j].body.key = row'[k].body.key
               PROVE  ~Meet(row'[j].body, row'[k].body)
    BY DEF CurvesApart, Meet
  <2>1. /\ j \in Ids /\ k \in Ids /\ kind[j] = "pd_pefindo" /\ kind[k] = "pd_pefindo"
        /\ row'[j].body = row[j].body /\ row'[k].body = row[k].body
        /\ row'[j].st = "APPROVED" /\ ~row'[j].del /\ row'[k].st = "APPROVED" /\ ~row'[k].del
    BY <1>4, <1>6, <1>9 DEF Approved, LiveRows, Live
  <2>2. \A x \in {j, k} : x # i => x \in Approved("pd_pefindo")
    BY <1>9, <2>1 DEF Approved, LiveRows, Live, Exists
  <2>3. CASE j \in Approved("pd_pefindo") /\ k \in Approved("pd_pefindo")
    BY <1>4, <2>1, <2>3 DEF IInv, CurvesApart
  <2>4. CASE j = i /\ j \notin Approved("pd_pefindo")
    <3>1. PdOverlaps(row[j].body, Ids \ {j}) = {} /\ k \in Approved("pd_pefindo")
      BY <1>8, <1>9, <2>1, <2>2, <2>4
    <3> QED BY <2>1, <3>1 DEF PdOverlaps, Meet
  <2>5. CASE k = i /\ k \notin Approved("pd_pefindo")
    <3>1. PdOverlaps(row[k].body, Ids \ {k}) = {} /\ j \in Approved("pd_pefindo")
      BY <1>8, <1>9, <2>1, <2>2, <2>5
    <3> QED BY <2>1, <3>1 DEF PdOverlaps, Meet
  <2> QED BY <2>2, <2>3, <2>4, <2>5
<1>11. Evolves(row[i], s)
  BY <1>6, <1>7 DEF Evolves
<1>12. ~s.del => Live(i)
  BY <1>3, <1>6 DEF Live
<1> QED BY <1>flag, <1>1, <1>3, <1>4, <1>5, <1>6, <1>10, <1>11, <1>12, OneRow

(* The approval of a rating: its flags, the end of the one it replaces, the *)
(* rating cached on the counterparty.                                       *)
LEMMA RatingRows ==
    ASSUME IInv, NEW i \in Rows("rating_history"), NEW prior \in BOOLEAN, NEW j \in Ids
    PROVE  LET s == RatingApproved(i, prior)[j] IN
           /\ s \in RowType /\ Evolves(row[j], s) /\ s.del = row[j].del
           /\ s.st # "ABSENT" => Exists(j)
           /\ s.body.key = row[j].body.key /\ s.body.ref = row[j].body.ref
           /\ s.body.from = row[j].body.from
           /\ kind[j] \notin {"rating_history", "counterparty"} => s = row[j]
           /\ FrozenPart(kind[j], s.body) = FrozenPart(kind[j], row[j].body)
<1> DEFINE b == row[i].body
           f == [row EXCEPT ![i] = RatingFlags(RatingStatus(i, "APPROVED"))]
           g == f[j]
           closes == /\ prior
                     /\ kind[j] = "rating_history" /\ g.body.ref = b.ref
                     /\ g.body.to = Open /\ ~g.del /\ g.st = "APPROVED"
           s == RatingApproved(i, prior)[j]
<1>1. s = IF closes THEN RatingClosed(g, b.from)
          ELSE IF j = b.ref /\ ~g.del THEN [g EXCEPT !.body.val = b.val, !.ver = @ + 1] ELSE g
  BY DEF RatingApproved
<1>2. /\ i \in Ids /\ row \in [Ids -> RowType] /\ Exists(i) /\ kind[i] = "rating_history"
      /\ b.from # NotGiven /\ b.ref \in Rows("counterparty")
  BY DEF IInv, TypeOK, RatingsOK, Rows
<1>3. b \in BodyType /\ row[i].ver \in Nat /\ row[j].ver \in Nat /\ row[j].body \in BodyType
  BY <1>2, RowColumns
<1>4. b.from - 1 \in Nat /\ b.val \in Nat
  BY <1>2, <1>3 DEF BodyType, NotGiven
<1>5. /\ RatingFlags(RatingStatus(i, "APPROVED")) \in RowType
      /\ RatingFlags(RatingStatus(i, "APPROVED")).st = "APPROVED"
      /\ RatingFlags(RatingStatus(i, "APPROVED")).ver = row[i].ver + 2
      /\ RatingFlags(RatingStatus(i, "APPROVED")).del = row[i].del
      /\ RatingFlags(RatingStatus(i, "APPROVED")).body = row[i].body
  <2> DEFINE m == Moved(i, "APPROVED")
  <2>1. m = [row[i] EXCEPT !.st = "APPROVED", !.ver = row[i].ver + 1] /\ "APPROVED" \in Statuses
    BY DEF Moved, Statuses
  <2>2. /\ row[i].ver + 1 \in Nat /\ row[i].ver + 1 + 1 \in Nat /\ row[i].ver + 1 + 1 = row[i].ver + 2
    BY <1>3
  <2>3. m \in RowType
    <3>1. row[i] \in RowType
      BY <1>2
    <3>2. [row[i] EXCEPT !.st = "APPROVED", !.ver = row[i].ver + 1] \in RowType
      BY <2>1, <2>2, <3>1, RowReplaced
    <3> QED BY <2>1, <3>2
  <2>4. /\ m.st = "APPROVED" /\ m.ver = row[i].ver + 1 /\ m.del = row[i].del /\ m.body = row[i].body
    BY <1>2, <2>1, RowColumns
  <2> HIDE DEF m
  <2>5. RatingFlags(m) = [m EXCEPT !.ver = m.ver + 1] /\ m.ver + 1 \in Nat
    BY <2>2, <2>4 DEF RatingFlags
  <2>6. RatingFlags(m) \in RowType
    BY <2>3, <2>5, RowReplaced
  <2>7. /\ RatingFlags(m).st = "APPROVED" /\ RatingFlags(m).ver = row[i].ver + 2
        /\ RatingFlags(m).del = row[i].del /\ RatingFlags(m).body = row[i].body
    BY <2>2, <2>3, <2>4, <2>5, RowColumns
  <2> QED BY <2>6, <2>7 DEF RatingStatus, m
<1>6. /\ g \in RowType /\ g.body = row[j].body /\ g.del = row[j].del
      /\ g = row[j] \/ (j = i /\ g.st = "APPROVED" /\ g.ver = row[j].ver + 2)
  BY <1>2, <1>5
<1>7. g.ver \in Nat /\ g.ver + 1 \in Nat /\ DOMAIN g = {"st", "ver", "del", "body"} /\ g.body \in BodyType
      /\ g.del \in BOOLEAN /\ g.st \in Statuses
  BY <1>6, RowColumns
<1>8. Evolves(row[j], g) /\ (g.st # "ABSENT" => Exists(j))
  BY <1>2, <1>3, <1>6 DEF Evolves, Exists
<1> HIDE DEF f, g, s, b
<1>9. CASE closes
  <2> DEFINE e == [g.body EXCEPT !.to = b.from - 1]
  <2>1. s = [g EXCEPT !.body = e, !.ver = g.ver + 1]
    BY <1>1, <1>7, <1>9 DEF RatingClosed
  <2>2. e \in BodyType /\ e.key = g.body.key /\ e.ref = g.body.ref /\ e.from = g.body.from
    BY <1>4, <1>7 DEF BodyType
  <2>3. [e EXCEPT !.to = 0] = [g.body EXCEPT !.to = 0]
    BY <1>7 DEF BodyType
  <2> HIDE DEF e
  <2>4. s \in RowType
    BY <1>6, <1>7, <2>1, <2>2, RowReplaced
  <2>5. s.body = e /\ s.ver = g.ver + 1 /\ s.st = g.st /\ s.del = g.del
    BY <1>7, <2>1
  <2>6. Evolves(row[j], s)
    BY <1>3, <1>7, <1>8, <2>5 DEF Evolves
  <2>7. FrozenPart(kind[j], s.body) = FrozenPart(kind[j], row[j].body)
    BY <1>6, <1>9, <2>3, <2>5 DEF FrozenPart
  <2> QED BY <1>6, <1>8, <1>9, <2>2, <2>4, <2>5, <2>6, <2>7 DEF s
<1>10. CASE ~closes /\ j = b.ref /\ ~g.del
  <2> DEFINE e == [g.body EXCEPT !.val = b.val]
  <2>1. s = [g EXCEPT !.body = e, !.ver = g.ver + 1]
    BY <1>1, <1>7, <1>10
  <2>2. e \in BodyType /\ e.key = g.body.key /\ e.ref = g.body.ref /\ e.from = g.body.from
    BY <1>4, <1>7 DEF BodyType
  <2>3. [e EXCEPT !.val = 0] = [g.body EXCEPT !.val = 0]
    BY <1>7 DEF BodyType
  <2>4. kind[j] = "counterparty"
    BY <1>2, <1>10 DEF Rows
  <2> HIDE DEF e
  <2>5. s \in RowType
    BY <1>6, <1>7, <2>1, <2>2, RowReplaced
  <2>6. s.body = e /\ s.ver = g.ver + 1 /\ s.st = g.st /\ s.del = g.del
    BY <1>7, <2>1
  <2>7. Evolves(row[j], s)
    BY <1>3, <1>7, <1>8, <2>6 DEF Evolves
  <2>8. FrozenPart(kind[j], s.body) = FrozenPart(kind[j], row[j].body)
    BY <1>6, <2>3, <2>4, <2>6 DEF FrozenPart
  <2> QED BY <1>6, <1>8, <2>2, <2>4, <2>5, <2>6, <2>7, <2>8 DEF s
<1>11. CASE ~closes /\ ~(j = b.ref /\ ~g.del)
  <2>1. s = g
    BY <1>1, <1>11
  <2>2. kind[j] # "rating_history" => g = row[j]
    BY <1>2, <1>6
  <2> QED BY <1>6, <1>8, <2>1, <2>2 DEF s
<1> QED BY <1>9, <1>10, <1>11

LEMMA RatingColumn ==
    ASSUME NEW i, NEW p
    PROVE  RatingApproved(i, p) = [j \in Ids |-> RatingApproved(i, p)[j]]
<1> DEFINE b == row[i].body
           flagged == [row EXCEPT ![i] = RatingFlags(RatingStatus(i, "APPROVED"))]
           closes(j) == /\ p
                        /\ kind[j] = "rating_history" /\ flagged[j].body.ref = b.ref
                        /\ flagged[j].body.to = Open /\ ~flagged[j].del
                        /\ flagged[j].st = "APPROVED"
           entry(j) == IF closes(j) THEN RatingClosed(flagged[j], b.from)
                       ELSE IF j = b.ref /\ ~flagged[j].del
                            THEN [flagged[j] EXCEPT !.body.val = b.val, !.ver = @ + 1]
                       ELSE flagged[j]
<1>1. RatingApproved(i, p) = [j \in Ids |-> entry(j)]
  BY DEF RatingApproved
<1> HIDE DEF entry
<1>2. \A j \in Ids : RatingApproved(i, p)[j] = entry(j)
  BY <1>1
<1>3. [j \in Ids |-> entry(j)] = [j \in Ids |-> RatingApproved(i, p)[j]]
  BY <1>2
<1> QED BY <1>1, <1>3

LEMMA RatingMoveStep ==
    ASSUME IInv, NEW c \in Clients, CommitMove(c),
           kind[req[c].id] = "rating_history", req[c].to = "APPROVED"
    PROVE  Keeps
<1> DEFINE r == req[c]
           i == r.id
<1>1. /\ r.op = "move" /\ row' = RatingApproved(i, r.prior) /\ wf' = [wf EXCEPT ![i] = r.to] /\ Commit(c)
  BY DEF CommitMove
<1>2. r \in RequestType /\ RequestOK(r)
  BY DEF IInv, TypeOK, RequestsOK
<1>3. i \in Ids /\ r.to \in Statuses /\ r # Idle /\ Exists(i) /\ r.prior \in BOOLEAN
  BY <1>1, <1>2, RequestParts DEF Idle, RequestOK, MoveOK, RequestType
<1>4. Overtaken /\ raced' \in BOOLEAN /\ (raced => raced') /\ UNCHANGED kind
  BY <1>1, <1>3, CommitMarks
<1>flag. crowded' \in BOOLEAN
  BY DEF CommitMove, IInv, TypeOK
<1>5. i \in Rows("rating_history")
  BY <1>3 DEF Rows
<1> DEFINE p == r.prior
<1>6. ASSUME NEW j \in Ids
      PROVE  /\ row'[j] \in RowType /\ Evolves(row[j], row'[j]) /\ row'[j].del = row[j].del
             /\ row'[j].st # "ABSENT" => Exists(j)
             /\ row'[j].body.key = row[j].body.key /\ row'[j].body.ref = row[j].body.ref
             /\ row'[j].body.from = row[j].body.from
             /\ kind[j] \notin {"rating_history", "counterparty"} => row'[j] = row[j]
             /\ FrozenPart(kind[j], row'[j].body) = FrozenPart(kind[j], row[j].body)
  <2>1. row'[j] = RatingApproved(i, p)[j] /\ p \in BOOLEAN
    BY <1>1, <1>3
  <2> HIDE DEF p, i
  <2> QED BY <1>5, <2>1, RatingRows
<1>7. wf' \in [Ids -> Statuses]
  BY <1>1, <1>3 DEF IInv, TypeOK
<1>8. row' = [j \in Ids |-> row'[j]]
  <2>1. row' = RatingApproved(i, p)
    BY <1>1
  <2> HIDE DEF r, i, p
  <2> QED BY <2>1, RatingColumn
<1> HIDE DEF r, i, p
<1>9. row' \in [Ids -> RowType]
  BY <1>6, <1>8
<1>10. TypeOK' /\ RequestsOK'
  BY <1>flag, <1>4, <1>6, <1>7, <1>9, ChangeKeeps
<1>11. NaturalKeysUnique'
  <2>0. PICK N : N = {}
    OBVIOUS
  <2>1. \A j \in Ids \ N : Live(j)' =>
            Live(j) /\ KeyOf(kind[j], row'[j].body) = KeyOf(kind[j], row[j].body)
    BY <1>6 DEF Live, Exists, KeyOf
  <2>2. \A x \in N : \A j \in Ids :
            (x # j /\ kind[x] = kind[j] /\ kind[x] \in Keyed /\ Live(x)' /\ Live(j)') =>
                KeyOf(kind[x], row'[x].body) # KeyOf(kind[x], row'[j].body)
    BY <2>0
  <2> QED BY <1>4, <2>1, <2>2, KeysKept
<1>12. RatingsOK'
  <2>1. \A j \in Ids : Exists(j) => Exists(j)'
    BY <1>6 DEF Exists, Evolves
  <2>2. \A j \in Ids : (kind[j] = "rating_history" /\ Exists(j)') =>
           Exists(j) /\ row'[j].body.from = row[j].body.from /\ row'[j].body.ref = row[j].body.ref
    BY <1>6 DEF Exists
  <2> QED BY <1>4, <2>1, <2>2, RatingsKept
<1>13. CurvesApart'
  <2>1. \A j \in Ids : kind[j] = "pd_pefindo" => row'[j] = row[j]
    BY <1>6
  <2>2. \A j \in Ids : (kind[j] = "pd_pefindo" /\ Live(j)' /\ row'[j].st = "APPROVED") =>
           Live(j) /\ row[j].st = "APPROVED" /\ row'[j].body = row[j].body
    BY <2>1 DEF Live, Exists
  <2> QED BY <1>4, <2>2, CurvesKept
<1>14. Frozen
  BY <1>6 DEF Frozen
<1> QED BY <1>10, <1>11, <1>12, <1>13, <1>14 DEF Keeps, IInv

-----------------------------------------------------------------------------
(* Drafts inserted several at a time, of kind k.                            *)
LEMMA ManyDrafts ==
    ASSUME IInv, Overtaken, UNCHANGED kind, raced' \in BOOLEAN, crowded' \in BOOLEAN, raced => raced',
           row' = [i \in Ids |-> row'[i]], wf' \in [Ids -> Statuses], NEW k, k # "rating_history",
           \A i \in Ids : \/ row'[i] = row[i]
                          \/ /\ kind[i] = k /\ ~Exists(i)
                             /\ \E b \in BodyType : row'[i] = Inserted(b),
           k \in Keyed => \A i, j \in Ids :
               (i # j /\ row'[i] # row[i] /\ kind[j] = k /\ Live(j)') =>
                   KeyOf(k, row'[i].body) # KeyOf(k, row'[j].body)
    PROVE  Keeps
<1> DEFINE N == {i \in Ids : row'[i] # row[i]}
<1>1. ASSUME NEW i \in N
      PROVE  /\ i \in Ids /\ kind[i] = k /\ ~Exists(i) /\ row'[i] \in RowType
             /\ row'[i].st = "DRAFT" /\ ~row'[i].del
  <2>1. PICK b \in BodyType : row'[i] = Inserted(b)
    OBVIOUS
  <2>2. Inserted(b) \in RowType /\ Inserted(b).st = "DRAFT" /\ ~Inserted(b).del
    BY NewRow
  <2> QED BY <2>1, <2>2
<1>2. \A i \in Ids : i \notin N => row'[i] = row[i]
  OBVIOUS
<1>3. row \in [Ids -> RowType]
  BY DEF IInv, TypeOK
<1> HIDE DEF N
<1>4. row' \in [Ids -> RowType]
  BY <1>1, <1>2, <1>3
<1>5. ASSUME NEW i \in Ids PROVE Evolves(row[i], row'[i])
  <2>1. row[i].ver \in Nat
    BY <1>3, RowColumns
  <2> QED BY <1>1, <1>2, <2>1 DEF Evolves, Exists
<1>6. TypeOK' /\ RequestsOK'
  BY <1>4, <1>5, ChangeKeeps
<1>7. NaturalKeysUnique'
  <2>1. \A j \in Ids \ N : Live(j)' =>
            Live(j) /\ KeyOf(kind[j], row'[j].body) = KeyOf(kind[j], row[j].body)
    BY <1>2 DEF Live, Exists
  <2>2. ASSUME NEW x \in N, NEW j \in Ids, x # j, kind[x] = kind[j], kind[x] \in Keyed, Live(j)'
        PROVE  KeyOf(kind[x], row'[x].body) # KeyOf(kind[x], row'[j].body)
    <3>1. x \in Ids /\ kind[x] = k /\ row'[x] # row[x]
      BY <1>1 DEF N
    <3> QED BY <2>2, <3>1
  <2>3. \A x \in N : \A j \in Ids :
            (x # j /\ kind[x] = kind[j] /\ kind[x] \in Keyed /\ Live(x)' /\ Live(j)') =>
                KeyOf(kind[x], row'[x].body) # KeyOf(kind[x], row'[j].body)
    BY <2>2
  <2> QED BY <2>1, <2>3, KeysKept
<1>8. RatingsOK'
  <2>1. \A j \in Ids : Exists(j) => Exists(j)'
    BY <1>1, <1>2 DEF Exists
  <2>2. \A j \in Ids : (kind[j] = "rating_history" /\ Exists(j)') =>
           Exists(j) /\ row'[j].body.from = row[j].body.from /\ row'[j].body.ref = row[j].body.ref
    BY <1>1, <1>2 DEF Exists
  <2> QED BY <2>1, <2>2, RatingsKept
<1>9. CurvesApart'
  <2>1. \A j \in Ids : (kind[j] = "pd_pefindo" /\ Live(j)' /\ row'[j].st = "APPROVED") =>
           Live(j) /\ row[j].st = "APPROVED" /\ row'[j].body = row[j].body
    BY <1>1, <1>2 DEF Live, Exists
  <2> QED BY <2>1, CurvesKept
<1>10. Frozen
  <2> SUFFICES ASSUME NEW i \in Ids, i \in N PROVE row[i].st \notin FrozenStatuses(kind[i])
    BY <1>2 DEF Frozen
  <2> QED BY <1>1 DEF Exists, FrozenStatuses
<1> QED BY <1>6, <1>7, <1>8, <1>9, <1>10 DEF Keeps, IInv

LEMMA InsertedAll ==
    ASSUME IInv, NEW S, NEW k, NEW f \in Injections(S, FreeIds(k)), NEW body \in [S -> BodyType],
           InsertAll(f, body)
    PROVE  /\ row' = [i \in Ids |-> row'[i]] /\ wf' \in [Ids -> Statuses]
           /\ \A i \in Ids : \/ row'[i] = row[i] /\ wf'[i] = wf[i]
                             \/ \E x \in S : /\ f[x] = i /\ kind[i] = k /\ ~Exists(i)
                                             /\ row'[i] = Inserted(body[x]) /\ wf'[i] = "DRAFT"
<1>1. f \in [S -> FreeIds(k)]
  BY DEF Injections
<1>2. wf' \in [Ids -> Statuses]
  BY DEF InsertAll, IInv, TypeOK, Statuses
<1>3. /\ row' = [j \in Ids |-> IF \E x \in DOMAIN f : f[x] = j
                              THEN Inserted(body[CHOOSE x \in DOMAIN f : f[x] = j]) ELSE row[j]]
      /\ wf' = [j \in Ids |-> IF \E x \in DOMAIN f : f[x] = j THEN "DRAFT" ELSE wf[j]]
  BY DEF InsertAll
<1>4. ASSUME NEW i \in Ids, ~ \E x \in S : f[x] = i
      PROVE  row'[i] = row[i] /\ wf'[i] = wf[i]
  BY <1>1, <1>3, <1>4
<1>5. ASSUME NEW i \in Ids, \E x \in S : f[x] = i
      PROVE  \E x \in S : /\ f[x] = i /\ kind[i] = k /\ ~Exists(i)
                          /\ row'[i] = Inserted(body[x]) /\ wf'[i] = "DRAFT"
  <2>1. PICK x \in S : x = CHOOSE y \in DOMAIN f : f[y] = i
    BY <1>1, <1>5
  <2>2. f[x] = i /\ row'[i] = Inserted(body[x]) /\ wf'[i] = "DRAFT"
    BY <1>1, <1>3, <1>5, <2>1
  <2> QED BY <1>1, <2>2 DEF FreeIds
<1>6. row' = [i \in Ids |-> row'[i]]
  BY DEF InsertAll
<1> QED BY <1>2, <1>4, <1>5, <1>6

LEMMA CommitSeedStep == ASSUME IInv, NEW c \in Clients, CommitSeed(c) PROVE Keeps
<1> DEFINE r == req[c]
           body == [s \in Skenarios |-> [NoBody EXCEPT !.key = s, !.from = r.from, !.to = Open, !.val = 1]]
<1>1. r.op = "seed" /\ Commit(c)
  BY DEF CommitSeed
<1>2. PICK f \in Injections(Skenarios, FreeIds("bobot_skenario")) : InsertAll(f, body)
  BY DEF CommitSeed
<1>3. r \in RequestType
  BY DEF IInv, TypeOK
<1>4. r # Idle /\ r.from \in Nat
  BY <1>1, <1>3 DEF Idle, RequestType, Dates
<1>5. body \in [Skenarios -> BodyType]
  BY <1>4, SkenariosAssumption, EmptyBody DEF BodyType, Open
<1>6. Overtaken /\ raced' \in BOOLEAN /\ (raced => raced') /\ UNCHANGED kind
  BY <1>1, <1>4, CommitMarks
<1>flag. crowded' \in BOOLEAN
  BY DEF CommitSeed, IInv, TypeOK
<1> HIDE DEF body
<1>7. /\ row' = [i \in Ids |-> row'[i]] /\ wf' \in [Ids -> Statuses]
      /\ \A i \in Ids : \/ row'[i] = row[i]
                        \/ \E x \in Skenarios : /\ f[x] = i /\ kind[i] = "bobot_skenario" /\ ~Exists(i)
                                                /\ row'[i] = Inserted(body[x])
  BY <1>2, <1>5, InsertedAll
<1>8. \A i \in Ids : \/ row'[i] = row[i]
                     \/ /\ kind[i] = "bobot_skenario" /\ ~Exists(i)
                        /\ \E b \in BodyType : row'[i] = Inserted(b)
  BY <1>5, <1>7
<1>9. "bobot_skenario" \notin Keyed
  BY DEF Keyed
<1> QED BY <1>flag, <1>6, <1>7, <1>8, <1>9, ManyDrafts

(* The two jobs overtake the requests in flight without being one.          *)
LEMMA JobMarks ==
    ASSUME req' = [d \in Clients |-> IF req[d] = Idle THEN Idle ELSE [req[d] EXCEPT !.quiet = FALSE]]
    PROVE  Overtaken
BY DEF Overtaken

LEMMA CommitGenerateStep == ASSUME IInv, NEW c \in Clients, CommitGenerate(c) PROVE Keeps
<1> DEFINE new == PeriodeMissing
           body == [b \in new |-> b]
           k == "periode_buku"
<1>1. PICK f \in Injections(new, FreeIds(k)) : InsertAll(f, body)
  BY DEF CommitGenerate
<1>2. Overtaken /\ UNCHANGED <<kind, raced>> /\ raced' \in BOOLEAN /\ crowded' \in BOOLEAN
  BY JobMarks DEF CommitGenerate, IInv, TypeOK
<1>3. new \subseteq Bodies[k] /\ new \subseteq BodyType
  BY MasterBodiesAssumption DEF PeriodeMissing, Kinds
<1>4. body \in [new -> BodyType]
  BY <1>3
<1>5. /\ \A b \in new : \A j \in Rows(k) : row[j].body.key # b.key
      /\ \A b, d \in new : b.key = d.key => b = d
  BY <1>3, MasterBodiesAssumption DEF PeriodeMissing, KeyUnused
<1>6. \A b \in new : body[b] = b
  OBVIOUS
<1> HIDE DEF body, new
<1>7. /\ row' = [i \in Ids |-> row'[i]] /\ wf' \in [Ids -> Statuses]
      /\ \A i \in Ids : \/ row'[i] = row[i]
                        \/ \E x \in new : /\ f[x] = i /\ kind[i] = k /\ ~Exists(i)
                                          /\ row'[i] = Inserted(x)
  BY <1>1, <1>4, <1>6, InsertedAll
<1>8. \A i \in Ids : \/ row'[i] = row[i]
                     \/ /\ kind[i] = k /\ ~Exists(i)
                        /\ \E b \in BodyType : row'[i] = Inserted(b)
  BY <1>3, <1>7
<1>9. ASSUME NEW i \in Ids, NEW j \in Ids, i # j, row'[i] # row[i], kind[j] = k, Live(j)'
      PROVE  KeyOf(k, row'[i].body) # KeyOf(k, row'[j].body)
  <2>1. PICK x \in new : f[x] = i /\ row'[i] = Inserted(x)
    BY <1>7, <1>9
  <2>2. row'[i].body = x
    BY <1>3, <2>1, NewRow
  <2>3. CASE row'[j] = row[j]
    <3>1. j \in Rows(k)
      BY <1>9, <2>3 DEF Live, Exists, Rows
    <3> QED BY <1>5, <2>2, <2>3, <3>1 DEF KeyOf
  <2>4. CASE row'[j] # row[j]
    <3>1. PICK y \in new : f[y] = j /\ row'[j] = Inserted(y)
      BY <1>7, <2>4
    <3>2. row'[j].body = y
      BY <1>3, <3>1, NewRow
    <3>3. x # y
      BY <1>9, <2>1, <3>1
    <3> QED BY <1>5, <2>2, <3>2, <3>3 DEF KeyOf
  <2> QED BY <2>3, <2>4
<1> QED BY <1>2, <1>7, <1>8, <1>9, ManyDrafts

LEMMA CommitUploadStep == ASSUME IInv, NEW c \in Clients, CommitUpload(c) PROVE Keeps
<1>1. PICK i \in FreeIds("pd_pefindo"), b \in PdUploaded(Bodies["pd_pefindo"]) :
          row' = [row EXCEPT ![i] = Inserted(b)] /\ wf' = [wf EXCEPT ![i] = "DRAFT"]
  BY DEF CommitUpload
<1>2. Overtaken /\ UNCHANGED <<kind, raced>> /\ raced' \in BOOLEAN /\ crowded' \in BOOLEAN
  BY JobMarks DEF CommitUpload, IInv, TypeOK
<1>3. b \in BodyType
  BY MasterBodiesAssumption DEF PdUploaded, Kinds
<1>4. row \in [Ids -> RowType] /\ wf' \in [Ids -> Statuses]
  BY <1>1 DEF IInv, TypeOK, Statuses
<1>5. row' = [j \in Ids |-> row'[j]]
  BY <1>1, <1>4
<1>6. \A j \in Ids : \/ row'[j] = row[j]
                     \/ /\ kind[j] = "pd_pefindo" /\ ~Exists(j)
                        /\ \E d \in BodyType : row'[j] = Inserted(d)
  BY <1>1, <1>3, <1>4 DEF FreeIds
<1>7. "pd_pefindo" \notin Keyed
  BY DEF Keyed
<1> QED BY <1>2, <1>4, <1>5, <1>6, <1>7, ManyDrafts

-----------------------------------------------------------------------------
(* The rows of the migrations, and every step.                              *)
THEOREM Initially == Init => IInv
<1> SUFFICES ASSUME Init PROVE IInv
  OBVIOUS
<1>1. kind \in [Ids -> Kinds]
  BY Kinded DEF Init
<1>2. \A i \in Ids : row[i] \in RowType
  BY <1>1, MasterBodiesAssumption DEF Init
<1>3. TypeOK
  BY <1>2, RowColumns DEF Init, TypeOK, RequestType
<1>4. RequestsOK
  BY DEF Init, RequestsOK, RequestOK, Idle
<1>5. RatingsOK
  BY DEF Init, SeedConsistent, RatingsOK
<1>6. NaturalKeysUnique
  BY DEF Init, SeedConsistent, NaturalKeysUnique, LiveRows, Live
<1>7. CurvesApart
  <2>1. \A i, j \in Approved("pd_pefindo") : i # j => row[i].body.key # row[j].body.key
    BY DEF Init, SeedConsistent, Approved, LiveRows, Live, KeyOf
  <2> QED BY <2>1 DEF CurvesApart
<1> QED BY <1>3, <1>4, <1>5, <1>6, <1>7 DEF IInv

LEMMA IdleStep == ASSUME IInv, UNCHANGED vars PROVE Keeps
<1>1. UNCHANGED <<kind, row, wf, req, raced, crowded>>
  BY DEF vars
<1>2. IInv'
  BY <1>1 DEF IInv, TypeOK, RequestsOK, RequestOK, CreateOK, EditOK, MoveOK, RatingsOK, CurvesApart,
     NaturalKeysUnique, PdOverlaps, Rows, Approved, LiveRows, Live, Exists
<1> QED BY <1>1, <1>2 DEF Keeps, Frozen

\* Every step keeps the invariant, moves rows on and freezes what is frozen.
THEOREM Inductive == IInv /\ [Next]_vars => Keeps
<1> SUFFICES ASSUME IInv, [Next]_vars PROVE Keeps
  OBVIOUS
<1>1. ASSUME NEW c \in Clients, CommitMove(c) PROVE Keeps
  BY <1>1, StatusMoveStep, RatingMoveStep
<1>2. CASE Next
  BY <1>1, <1>2, BeginCreateStep, CommitCreateStep, BeginUpdateStep, CommitUpdateStep, BeginDeleteStep,
     CommitDeleteStep, BeginMoveStep, BeginSeedStep, CommitSeedStep, CommitGenerateStep,
     CommitUploadStep, FailStep DEF Next
<1> QED BY <1>2, IdleStep

\* The tables stay consistent under any interleaving of requests.
THEOREM Invariance == Spec => []IInv
<1>1. IInv /\ [Next]_vars => IInv'
  BY Inductive DEF Keeps
<1> QED BY <1>1, Initially, PTL DEF Spec

(* Every table holds what its columns allow.                                *)
THEOREM TypeCorrect == Spec => []TypeOK
<1>1. IInv => TypeOK
  BY DEF IInv
<1> QED BY <1>1, Invariance, PTL

(* What was approved stays as approved, and what may be edited as a draft   *)
(* only is approved as submitted, however late an edit commits (the         *)
(* row_version in the WHERE clause of every Repository.Update).             *)
THEOREM ContentFrozen == Spec => BodyFrozen
<1>1. IInv /\ [Next]_vars =>
        [\A i \in Ids :
          kind[i] # "mapping_jurnal" /\ row[i].st \in FrozenStatuses(kind[i]) =>
              FrozenPart(kind[i], row'[i].body) = FrozenPart(kind[i], row[i].body)]_vars
  BY Inductive DEF Keeps, Frozen
<1> QED BY <1>1, Invariance, PTL DEF Spec, BodyFrozen

(* A natural key has one live row under any interleaving (the UNIQUE        *)
(* constraints and indexes of the migrations).                              *)
THEOREM KeysUnique == Spec => []NaturalKeysUnique
<1>1. IInv => NaturalKeysUnique
  BY DEF IInv
<1> QED BY <1>1, Invariance, PTL

(* As long as no two requests overlapped, a rating has one curve for a day: *)
(* the approval looks at the approved curves again                          *)
(* (pdpefindo/workflow_hook.go).                                            *)
THEOREM OneCurve == Spec => []PdSingleCurve
<1>1. ASSUME IInv, ~raced, NEW i \in Dates, NEW day \in Dates
      PROVE  Cardinality({j \in PdInForce(i, day) : Live(j)}) <= 1
  <2> DEFINE S == {j \in PdInForce(i, day) : Live(j)}
  <2>1. ASSUME NEW j \in S, NEW l \in S, j # l PROVE FALSE
    <3>1. /\ j \in Approved("pd_pefindo") /\ l \in Approved("pd_pefindo")
          /\ row[j].body.key = row[l].body.key
          /\ row[j].body.from <= day /\ day <= row[j].body.to
          /\ row[l].body.from <= day /\ day <= row[l].body.to
      BY DEF PdInForce, Rows, Approved, LiveRows
    <3>2. row[j] \in RowType /\ row[l] \in RowType
      BY <1>1, <3>1 DEF IInv, TypeOK, Approved, LiveRows
    <3>3. row[j].body \in BodyType /\ row[l].body \in BodyType
      BY <3>2, RowColumns
    <3>4. /\ row[j].body.from \in Nat /\ row[j].body.to \in Nat
          /\ row[l].body.from \in Nat /\ row[l].body.to \in Nat /\ day \in Nat
      BY <3>3 DEF BodyType, Dates
    <3>5. Meet(row[j].body, row[l].body)
      BY <3>1, <3>4 DEF Meet
    <3> QED BY <1>1, <2>1, <3>1, <3>5 DEF IInv, CurvesApart
  <2>2. S = {} \/ \E j : S = {j}
    BY <2>1
  <2> HIDE DEF S
  <2>3. Cardinality(S) <= 1
    <3>1. CASE S = {}
      BY <3>1, FS_EmptySet
    <3>2. CASE \E j : S = {j}
      <4>1. PICK j : S = {j}
        BY <3>2
      <4>2. Cardinality({j}) = 1
        BY FS_Singleton
      <4> QED BY <4>1, <4>2
    <3> QED BY <2>2, <3>1, <3>2
  <2> QED BY <2>3 DEF S
<1>2. IInv => PdSingleCurve
  BY <1>1 DEF PdSingleCurve
<1> QED BY <1>2, Invariance, PTL

-----------------------------------------------------------------------------
(* References, ratings, weights and validity.  A request nothing overtook   *)
(* finds at its commit what its checks found (quiet); what it was admitted  *)
(* with, and the version that it must match, hold under any interleaving.   *)

\* The columns the UPDATE of a kind writes.
Columns(k) ==
    CASE k \in {"bobot_skenario", "lgd_basel"} -> {"key", "from", "to", "val"}
      [] k \in {"pd_pefindo", "lps_coverage", "kurs"} -> {"from", "to", "val"}
      [] k \in {"impact_pd", "impact_mev_pd", "rating_history", "portofolio", "mata_uang"} -> {"val"}
      [] k = "counterparty" -> {"from"}
      [] k = "periode_buku" -> {"from", "to"}
      [] k \in {"instrumen", "chart_of_accounts"} -> {"ref", "val"}
      [] k = "mapping_jurnal" -> {"key", "ref", "val"}

CreatePromise(r) ==
    LET k == kind[r.id] IN
    /\ Valid(k, r.body)
    /\ k = "rating_history" => r.body.to = Open
    /\ k = "bobot_skenario" => r.body.key \in Skenarios
    /\ (r.quiet /\ k = "bobot_skenario") => BobotDuplicates(r.body, Ids \ {r.id}) = {}
    /\ (r.quiet /\ Targets(k) # {} /\ r.body.ref # 0) => Resolves(k, r.body.ref)
UpdatePromise(r) ==
    LET k == kind[r.id] IN
    /\ IF k = "mapping_jurnal" THEN r.body.key # Malformed
       ELSE r.ver = row[r.id].ver => Valid(k, Written(row[r.id].body, r.body, Columns(k)))
    /\ k = "bobot_skenario" => r.body.key \in Skenarios \cup {NotGiven}
    /\ (r.quiet /\ k = "bobot_skenario") =>
           BobotDuplicates(Merge(row[r.id].body, r.body), Ids \ {r.id}) = {}
    /\ (r.quiet /\ k \in {"instrumen", "chart_of_accounts"} /\ r.body.ref # 0) => Resolves(k, r.body.ref)
DeletePromise(r) == (~raced /\ r.quiet) => \A j \in Ids : r.id \notin Referenced(j)
MovePromise(r) ==
    /\ kind[r.id] = "rating_history" => ~r.prior
    /\ kind[r.id] = "bobot_skenario" => r.second /\ (r.quiet => r.body = row[r.id].body)
Promise(r) ==
    /\ r.op = "create" => CreatePromise(r)
    /\ r.op = "update" => UpdatePromise(r)
    /\ r.op = "delete" => DeletePromise(r)
    /\ r.op = "move" => MovePromise(r)
Promises == \A c \in Clients : Promise(req[c])

\* The status of a row is that of its workflow instance if a hook sees to it.
InStep == \A i \in Ids : kind[i] \in Unhooked \/ wf[i] = row[i].st
\* A counterparty has one rating at most, which has not ended.
OneRating ==
    \A i \in Rows("rating_history") :
        /\ row[i].body.to = Open
        /\ \A j \in Rows("rating_history") : row[j].body.ref = row[i].body.ref => i = j
RowsValid ==
    /\ \A i \in Ids : Exists(i) => Valid(kind[i], row[i].body)
    /\ \A i \in Rows("bobot_skenario") : row[i].body.key \in Skenarios
WeightsApart ==
    ~raced /\ ~crowded =>
        \A i \in LiveRows("bobot_skenario") : BobotDuplicates(row[i].body, Ids \ {i}) = {}

JInv == /\ Promises /\ InStep /\ OneRating /\ RatingCacheFresh /\ RowsValid
        /\ WeightsApart /\ WeightsAddUp /\ ReferencesResolve

(* The columns of a patched row.                                            *)
LEMMA WrittenColumns ==
    ASSUME NEW b \in BodyType, NEW p \in BodyType, NEW columns
    PROVE  LET w == Written(b, p, columns) m == Merge(b, p) IN
           /\ w \in BodyType
           /\ w.key = IF "key" \in columns THEN m.key ELSE b.key
           /\ w.ref = IF "ref" \in columns THEN m.ref ELSE b.ref
           /\ w.from = IF "from" \in columns THEN m.from ELSE b.from
           /\ w.to = IF "to" \in columns THEN m.to ELSE b.to
           /\ w.val = IF "val" \in columns THEN m.val ELSE b.val
           /\ m.key = IF p.key = NotGiven THEN b.key ELSE p.key
           /\ m.ref = IF p.ref = NotGiven THEN b.ref ELSE p.ref
           /\ m.from = IF p.from = NotGiven THEN b.from ELSE p.from
           /\ m.to = IF p.to = NotGiven THEN b.to ELSE p.to
           /\ m.val = IF p.val = NotGiven THEN b.val ELSE p.val
<1> DEFINE F == {"key", "ref", "from", "to", "val"}
<1>1. DOMAIN b = F
  BY DEF BodyType
<1>2. Merge(b, p) = [f \in F |-> IF p[f] = NotGiven THEN b[f] ELSE p[f]]
  BY <1>1 DEF Merge
<1>3. Written(b, p, columns) = [f \in F |-> IF f \in columns THEN Merge(b, p)[f] ELSE b[f]]
  BY <1>1 DEF Written
<1>4. Written(b, p, columns) \in BodyType
  BY WrittenBody
<1> QED BY <1>2, <1>3, <1>4 DEF BodyType

LEMMA StoredColumns ==
    ASSUME kind \in [Ids -> Kinds], NEW i \in Ids, row[i] \in RowType, NEW p \in BodyType
    PROVE  Stored(i, p).body = Written(row[i].body, p, Columns(kind[i]))
<1> DEFINE k == kind[i]
           w == Written(row[i].body, p, Columns(k))
<1>1. Patched(i, p, Columns(k)) \in RowType /\ Patched(i, p, Columns(k)).body = w
  BY PatchedRow
<1>2. k \in Kinds
  OBVIOUS
<1>3. CASE k = "mapping_jurnal"
  <2>1. Columns(k) = {"key", "ref", "val"}
    BY <1>3 DEF Columns
  <2>2. Stored(i, p) = IF GivesHeader(p) THEN Patched(i, p, Columns(k))
                       ELSE [Patched(i, p, Columns(k)) EXCEPT !.ver = row[i].ver]
    BY <1>3, <2>1 DEF Stored, MappingStore
  <2> QED BY <1>1, <2>2 DEF RowType
<1>4. CASE k # "mapping_jurnal"
  <2>1. Stored(i, p) = Patched(i, p, Columns(k))
    <3>1. CASE k \in {"bobot_skenario", "lgd_basel"}
      BY <3>1 DEF Stored, Columns, BobotStore, LgdStore
    <3>2. CASE k \in {"pd_pefindo", "lps_coverage", "kurs"}
      BY <3>2 DEF Stored, Columns, PdStore, LpsStore, KursStore
    <3>3. CASE k \in {"impact_pd", "impact_mev_pd", "rating_history"}
      BY <3>3 DEF Stored, Columns, ImpactPdStore, ImpactMevStore, RatingStore
    <3>4. CASE k \in {"portofolio", "mata_uang"}
      BY <3>4 DEF Stored, Columns, PortofolioStore, MataUangStore
    <3>5. CASE k \in {"counterparty", "periode_buku"}
      BY <3>5 DEF Stored, Columns, CounterpartyStore, PeriodeStore
    <3>6. CASE k \in {"instrumen", "chart_of_accounts"}
      BY <3>6 DEF Stored, Columns, InstrumenStore, CoaStore
    <3> QED BY <1>2, <1>4, <3>1, <3>2, <3>3, <3>4, <3>5, <3>6 DEF Kinds
  <2> QED BY <1>1, <2>1
<1> QED BY <1>3, <1>4

(* Validity, column by column.                                              *)
LEMMA ValidParts ==
    ASSUME NEW k \in Kinds, NEW b \in BodyType
    PROVE  Valid(k, b) <=> /\ "key" \in Validated(k) => b.key # Malformed
                           /\ "from" \in Validated(k) => b.from # Malformed
                           /\ "to" \in Validated(k) => b.to # Malformed
                           /\ "val" \in Validated(k) => b.val # Malformed
                           /\ Related(k, b)
<1>1. Validated(k) \subseteq {"key", "from", "to", "val"}
  BY DEF Validated, Kinds
<1>2. WellFormed(b, Validated(k)) <=> /\ "key" \in Validated(k) => b["key"] # Malformed
                                      /\ "from" \in Validated(k) => b["from"] # Malformed
                                      /\ "to" \in Validated(k) => b["to"] # Malformed
                                      /\ "val" \in Validated(k) => b["val"] # Malformed
  BY <1>1 DEF WellFormed
<1>3. b.key = b["key"] /\ b.from = b["from"] /\ b.to = b["to"] /\ b.val = b["val"]
  BY DEF BodyType
<1> QED BY <1>2, <1>3 DEF Valid

LEMMA WellFormedParts ==
    ASSUME NEW b \in BodyType, NEW C
    PROVE  WellFormed(b, C) => /\ "key" \in C => b.key # Malformed
                               /\ "from" \in C => b.from # Malformed
                               /\ "to" \in C => b.to # Malformed
                               /\ "val" \in C => b.val # Malformed
BY DEF WellFormed, BodyType

(* What is created is valid, and so is a valid row with an admitted patch.  *)
LEMMA CreatedValid ==
    ASSUME NEW k \in Kinds, NEW b \in BodyType, CreateAllowed(k, b)
    PROVE  Valid(k, b)
<1>1. CASE k = "bobot_skenario"
  <2>1. BobotCreate(b)
    BY <1>1 DEF CreateAllowed
  <2> QED BY <1>1, <2>1, ValidParts, WellFormedParts DEF BobotCreate, BobotValid, Validated, Related
<1>2. CASE k = "pd_pefindo"
  <2>1. PdCreate(b)
    BY <1>2 DEF CreateAllowed
  <2> QED BY <1>2, <2>1, ValidParts, WellFormedParts DEF PdCreate, PdValid, PdMonotonic, Validated,
             Related
<1>3. CASE k = "lgd_basel"
  <2>1. LgdCreate(b)
    BY <1>3 DEF CreateAllowed
  <2> QED BY <1>3, <2>1, ValidParts, WellFormedParts DEF LgdCreate, LgdValid, Validated, Related
<1>4. CASE k = "lps_coverage"
  <2>1. LpsCreate(b)
    BY <1>4 DEF CreateAllowed
  <2> QED BY <1>4, <2>1, ValidParts, WellFormedParts DEF LpsCreate, LpsValid, Validated, Related
<1>5. CASE k = "impact_pd"
  <2>1. ImpactPdCreate(b)
    BY <1>5 DEF CreateAllowed
  <2> QED BY <1>5, <2>1, ValidParts, WellFormedParts DEF ImpactPdCreate, ImpactPdValid,
             ImpactPdInRange, Malformed, Validated, Related
<1>6. CASE k = "impact_mev_pd"
  <2>1. ImpactMevCreate(b)
    BY <1>6 DEF CreateAllowed
  <2> QED BY <1>6, <2>1, ValidParts, WellFormedParts DEF ImpactMevCreate, ImpactMevValid,
             ImpactMevPositive, Validated, Related
<1>7. CASE k = "rating_history"
  <2>1. RatingCreate(b)
    BY <1>7 DEF CreateAllowed
  <2> QED BY <1>7, <2>1, ValidParts, WellFormedParts DEF RatingCreate, RatingValid, Validated, Related
<1>8. CASE k = "counterparty"
  <2>1. CounterpartyCreate(b)
    BY <1>8 DEF CreateAllowed
  <2> QED BY <1>8, <2>1, ValidParts, WellFormedParts DEF CounterpartyCreate, CounterpartyValid,
             Validated, Related
<1>9. CASE k = "portofolio"
  <2>1. PortofolioCreate(b)
    BY <1>9 DEF CreateAllowed
  <2> QED BY <1>9, <2>1, ValidParts, WellFormedParts DEF PortofolioCreate, PortofolioValid, Validated,
             Related
<1>10. CASE k = "mata_uang"
  <2>1. MataUangCreate(b)
    BY <1>10 DEF CreateAllowed
  <2> QED BY <1>10, <2>1, ValidParts, WellFormedParts DEF MataUangCreate, MataUangValid, Validated,
             Related
<1>11. CASE k = "kurs"
  <2>1. KursCreate(b)
    BY <1>11 DEF CreateAllowed
  <2> QED BY <1>11, <2>1, ValidParts, WellFormedParts DEF KursCreate, KursValid, KursRatesOrdered,
             Validated, Related
<1>12. CASE k = "periode_buku"
  <2>1. PeriodeCreate(b)
    BY <1>12 DEF CreateAllowed
  <2> QED BY <1>12, <2>1, ValidParts, WellFormedParts DEF PeriodeCreate, PeriodeValid, Validated,
             Related
<1>13. CASE k = "instrumen"
  <2>1. InstrumenCreate(b)
    BY <1>13 DEF CreateAllowed
  <2> QED BY <1>13, <2>1, ValidParts, WellFormedParts DEF InstrumenCreate, InstrumenValid, Validated,
             Related
<1>14. CASE k = "chart_of_accounts"
  <2>1. CoaCreate(b)
    BY <1>14 DEF CreateAllowed
  <2> QED BY <1>14, <2>1, ValidParts, WellFormedParts DEF CoaCreate, CoaValid, Validated, Related
<1>15. CASE k = "mapping_jurnal"
  <2>1. MappingCreate(b)
    BY <1>15 DEF CreateAllowed
  <2> QED BY <1>15, <2>1, ValidParts, WellFormedParts DEF MappingCreate, MappingValid, Validated,
             Related
<1> QED BY <1>1, <1>2, <1>3, <1>4, <1>5, <1>6, <1>7, <1>8, <1>9, <1>10, <1>11, <1>12, <1>13, <1>14,
           <1>15 DEF Kinds

LEMMA MergedStays ==
    ASSUME kind \in [Ids -> Kinds], NEW i \in Ids, row[i] \in RowType, NEW p \in BodyType,
           UpdateAllowed(i, p), Valid(kind[i], row[i].body), kind[i] # "mapping_jurnal"
    PROVE  Valid(kind[i], Written(row[i].body, p, Columns(kind[i])))
<1> DEFINE k == kind[i]
           b == row[i].body
           m == Merge(b, p)
           w == Written(b, p, Columns(k))
<1>1. b \in BodyType /\ k \in Kinds /\ w \in BodyType
  BY RowColumns, WrittenColumns
<1>2. /\ w.key = IF "key" \in Columns(k) THEN m.key ELSE b.key
      /\ w.from = IF "from" \in Columns(k) THEN m.from ELSE b.from
      /\ w.to = IF "to" \in Columns(k) THEN m.to ELSE b.to
      /\ w.val = IF "val" \in Columns(k) THEN m.val ELSE b.val
      /\ m.key = IF p.key = NotGiven THEN b.key ELSE p.key
      /\ m.from = IF p.from = NotGiven THEN b.from ELSE p.from
      /\ m.to = IF p.to = NotGiven THEN b.to ELSE p.to
      /\ m.val = IF p.val = NotGiven THEN b.val ELSE p.val
  BY <1>1, WrittenColumns
<1>3. UpdateAllowed(i, p) /\ Valid(k, b) /\ p \in BodyType
  OBVIOUS
<1>4. CASE k = "bobot_skenario"
  <2>1. BobotUpdate(i, p)
    BY <1>4 DEF UpdateAllowed
  <2> HIDE DEF w, m
  <2>2. Valid(k, w)
    BY <1>4, <1>1, <1>2, <1>3, <2>1, ValidParts, WellFormedParts DEF BobotUpdate, BobotPatchValid,
       Validated, Related, Columns, m, b
  <2> QED BY <2>2 DEF w
<1>5. CASE k = "pd_pefindo"
  <2>1. PdUpdate(i, p)
    BY <1>5 DEF UpdateAllowed
  <2> HIDE DEF w, m
  <2>2. Valid(k, w)
    BY <1>5, <1>1, <1>2, <1>3, <2>1, ValidParts, WellFormedParts DEF PdUpdate, PdPatchValid,
       PdMonotonic, Validated, Related, Columns, m, b
  <2> QED BY <2>2 DEF w
<1>6. CASE k = "lgd_basel"
  <2>1. LgdUpdate(i, p)
    BY <1>6 DEF UpdateAllowed
  <2> HIDE DEF w, m
  <2>2. Valid(k, w)
    BY <1>6, <1>1, <1>2, <1>3, <2>1, ValidParts, WellFormedParts DEF LgdUpdate, LgdPatchValid,
       Validated, Related, Columns, m, b
  <2> QED BY <2>2 DEF w
<1>7. CASE k = "lps_coverage"
  <2>1. LpsUpdate(i, p)
    BY <1>7 DEF UpdateAllowed
  <2> HIDE DEF w, m
  <2>2. Valid(k, w)
    BY <1>7, <1>1, <1>2, <1>3, <2>1, ValidParts, WellFormedParts DEF LpsUpdate, LpsPatchValid,
       Validated, Related, Columns, m, b
  <2> QED BY <2>2 DEF w
<1>8. CASE k = "impact_pd"
  <2>1. ImpactPdUpdate(i, p)
    BY <1>8 DEF UpdateAllowed
  <2> HIDE DEF w, m
  <2>2. Valid(k, w)
    BY <1>8, <1>1, <1>2, <1>3, <2>1, ValidParts, WellFormedParts DEF ImpactPdUpdate,
       ImpactPdPatchValid, ImpactPdInRange, Malformed, Validated, Related, Columns, m, b
  <2> QED BY <2>2 DEF w
<1>9. CASE k = "impact_mev_pd"
  <2>1. ImpactMevUpdate(i, p)
    BY <1>9 DEF UpdateAllowed
  <2> HIDE DEF w, m
  <2>2. Valid(k, w)
    BY <1>9, <1>1, <1>2, <1>3, <2>1, ValidParts, WellFormedParts DEF ImpactMevUpdate,
       ImpactMevPatchValid, ImpactMevPositive, Validated, Related, Columns, m, b
  <2> QED BY <2>2 DEF w
<1>10. CASE k = "rating_history"
  <2>1. RatingUpdate(i, p)
    BY <1>10 DEF UpdateAllowed
  <2> HIDE DEF w, m
  <2>2. Valid(k, w)
    BY <1>10, <1>1, <1>2, <1>3, <2>1, ValidParts, WellFormedParts DEF RatingUpdate, Validated,
       Related, Columns, m, b
  <2> QED BY <2>2 DEF w
<1>11. CASE k = "counterparty"
  <2>1. CounterpartyUpdate(i, p)
    BY <1>11 DEF UpdateAllowed
  <2> HIDE DEF w, m
  <2>2. Valid(k, w)
    BY <1>11, <1>1, <1>2, <1>3, <2>1, ValidParts, WellFormedParts DEF CounterpartyUpdate,
       CounterpartyPatchValid, Validated, Related, Columns, m, b
  <2> QED BY <2>2 DEF w
<1>12. CASE k = "portofolio"
  <2>1. PortofolioUpdate(i, p)
    BY <1>12 DEF UpdateAllowed
  <2> HIDE DEF w, m
  <2>2. Valid(k, w)
    BY <1>12, <1>1, <1>2, <1>3, <2>1, ValidParts, WellFormedParts DEF PortofolioUpdate,
       PortofolioPatchValid, Validated, Related, Columns, m, b
  <2> QED BY <2>2 DEF w
<1>13. CASE k = "mata_uang"
  <2>1. MataUangUpdate(i, p)
    BY <1>13 DEF UpdateAllowed
  <2> HIDE DEF w, m
  <2>2. Valid(k, w)
    BY <1>13, <1>1, <1>2, <1>3, <2>1, ValidParts, WellFormedParts DEF MataUangUpdate,
       MataUangPatchValid, Validated, Related, Columns, m, b
  <2> QED BY <2>2 DEF w
<1>14. CASE k = "kurs"
  <2>1. KursUpdate(i, p)
    BY <1>14 DEF UpdateAllowed
  <2> HIDE DEF w, m
  <2>2. Valid(k, w)
    BY <1>14, <1>1, <1>2, <1>3, <2>1, ValidParts, WellFormedParts DEF KursUpdate, KursPatchValid,
       KursRatesOrdered, Validated, Related, Columns, m, b
  <2> QED BY <2>2 DEF w
<1>15. CASE k = "periode_buku"
  <2>1. PeriodeUpdate(i, p)
    BY <1>15 DEF UpdateAllowed
  <2> HIDE DEF w, m
  <2>2. Valid(k, w)
    BY <1>15, <1>1, <1>2, <1>3, <2>1, ValidParts, WellFormedParts DEF PeriodeUpdate,
       PeriodePatchValid, Validated, Related, Columns, m, b
  <2> QED BY <2>2 DEF w
<1>16. CASE k = "instrumen"
  <2>1. InstrumenUpdate(i, p)
    BY <1>16 DEF UpdateAllowed
  <2> HIDE DEF w, m
  <2>2. Valid(k, w)
    BY <1>16, <1>1, <1>2, <1>3, <2>1, ValidParts, WellFormedParts DEF InstrumenUpdate, Validated,
       Related, Columns, m, b
  <2> QED BY <2>2 DEF w
<1>17. CASE k = "chart_of_accounts"
  <2>1. CoaUpdate(i, p)
    BY <1>17 DEF UpdateAllowed
  <2> HIDE DEF w, m
  <2>2. Valid(k, w)
    BY <1>17, <1>1, <1>2, <1>3, <2>1, ValidParts, WellFormedParts DEF CoaUpdate, CoaPatchValid,
       Validated, Related, Columns, m, b
  <2> QED BY <2>2 DEF w
<1> QED BY <1>1, <1>4, <1>5, <1>6, <1>7, <1>8, <1>9, <1>10, <1>11, <1>12, <1>13, <1>14, <1>15, <1>16,
           <1>17 DEF Kinds

-----------------------------------------------------------------------------
(* What a commit must do to the rows to keep each part.                     *)
LEMMA Unquieter ==
    ASSUME NEW q \in RequestType, q # Idle
    PROVE  LET u == [q EXCEPT !.quiet = FALSE] IN
           /\ u.op = q.op /\ u.quiet = FALSE
           /\ q.op # "seed" => u.id = q.id
           /\ q.op = "update" => u.ver = q.ver
           /\ q.op \in {"create", "update"} => u.body = q.body
           /\ q.op = "move" => u.prior = q.prior /\ u.second = q.second
<1>1. CASE q \in [op: {"create"}, id: Ids, body: BodyType, quiet: BOOLEAN]
  BY <1>1
<1>2. CASE q \in [op: {"update"}, id: Ids, body: BodyType, ver: Nat, quiet: BOOLEAN]
  BY <1>2
<1>3. CASE q \in [op: {"delete"}, id: Ids, quiet: BOOLEAN]
  BY <1>3
<1>4. CASE q \in [op: {"move"}, id: Ids, to: Statuses, second: BOOLEAN,
                  body: BodyType, prior: BOOLEAN, quiet: BOOLEAN]
  BY <1>4
<1>5. CASE q \in [op: {"seed"}, from: Dates, quiet: BOOLEAN]
  BY <1>5
<1> QED BY <1>1, <1>2, <1>3, <1>4, <1>5 DEF RequestType

\* A version stands for the content of a row, but for a mapping's details.
VersionTells ==
    \A i \in Ids : (Exists(i) /\ kind[i] # "mapping_jurnal") =>
        row'[i].ver >= row[i].ver /\ (row'[i].ver = row[i].ver => row'[i].body = row[i].body)

LEMMA PromisesKept ==
    ASSUME IInv, Promises, Overtaken, UNCHANGED kind, row' \in [Ids -> RowType], VersionTells
    PROVE  Promises'
<1> SUFFICES ASSUME NEW d \in Clients PROVE Promise(req[d])'
  BY DEF Promises
<1>1. req[d] \in RequestType /\ RequestOK(req[d]) /\ Promise(req[d])
  BY DEF IInv, TypeOK, RequestsOK, Promises
<1>2. CASE req'[d] = Idle
  BY <1>2 DEF Promise, Idle
<1>3. CASE req[d] # Idle /\ req'[d] = [req[d] EXCEPT !.quiet = FALSE]
  <2> DEFINE q == req[d]
             u == [req[d] EXCEPT !.quiet = FALSE]
  <2>1. /\ u.op = q.op /\ u.quiet = FALSE
        /\ q.op # "seed" => u.id = q.id
        /\ q.op = "update" => u.ver = q.ver
        /\ q.op \in {"create", "update"} => u.body = q.body
        /\ q.op = "move" => u.prior = q.prior /\ u.second = q.second
    BY <1>1, <1>3, Unquieter
  <2>2. PICK v : v = u
    OBVIOUS
  <2>3. req'[d] = v
    BY <1>3, <2>2
  <2> HIDE DEF u
  <2>4. q.op = "create" => CreatePromise(v)'
    BY <1>1, <2>1, <2>2 DEF Promise, CreatePromise, Valid, WellFormed, Validated, Related, PdMonotonic,
       KursRatesOrdered
  <2>5. ASSUME q.op = "update" PROVE UpdatePromise(v)'
    <3>1. /\ v.id \in Ids /\ v.id = q.id /\ v.ver = q.ver /\ v.ver \in Nat /\ v.body = q.body
          /\ v.quiet = FALSE
      BY <1>1, <2>1, <2>2, <2>5, RequestParts
    <3>2. EditOK(q) /\ UpdatePromise(q)
      BY <1>1, <2>5 DEF RequestOK, Promise
    <3>3. row[v.id] \in RowType /\ row'[v.id] \in RowType
      BY <3>1 DEF IInv, TypeOK
    <3>4. row[v.id].ver \in Nat /\ row'[v.id].ver \in Nat
      BY <3>3, RowColumns
    <3>5. (kind[v.id] # "mapping_jurnal" /\ v.ver = row'[v.id].ver) =>
              v.ver = row[v.id].ver /\ row'[v.id].body = row[v.id].body
      BY <3>1, <3>2, <3>4 DEF EditOK, VersionTells
    <3>6. (kind[v.id] # "mapping_jurnal" /\ v.ver = row'[v.id].ver) =>
              Valid(kind[v.id], Written(row'[v.id].body, v.body, Columns(kind[v.id])))
      BY <3>1, <3>2, <3>5 DEF UpdatePromise
    <3>7. kind[v.id] = "mapping_jurnal" => v.body.key # Malformed
      BY <3>1, <3>2 DEF UpdatePromise
    <3>8. kind[v.id] = "bobot_skenario" => v.body.key \in Skenarios \cup {NotGiven}
      BY <3>1, <3>2 DEF UpdatePromise
    <3> QED BY <3>1, <3>6, <3>7, <3>8 DEF UpdatePromise, Valid, WellFormed, Validated, Related,
               PdMonotonic,
               KursRatesOrdered
  <2>6. q.op = "delete" => DeletePromise(v)'
    BY <2>1, <2>2 DEF DeletePromise
  <2>7. q.op = "move" => MovePromise(v)'
    BY <1>1, <2>1, <2>2 DEF Promise, MovePromise
  <2> QED BY <2>1, <2>2, <2>3, <2>4, <2>5, <2>6, <2>7 DEF Promise
<1> QED BY <1>2, <1>3 DEF Overtaken

LEMMA InStepKept ==
    ASSUME InStep, UNCHANGED kind,
           \A i \in Ids : \/ kind[i] \in Unhooked \/ wf'[i] = row'[i].st
                          \/ wf'[i] = wf[i] /\ row'[i].st = row[i].st
    PROVE  InStep'
BY DEF InStep

LEMMA OneRatingKept ==
    ASSUME OneRating, UNCHANGED kind,
           \A i \in Ids : (kind[i] = "rating_history" /\ Exists(i)') =>
               \/ Exists(i) /\ row'[i].body.to = row[i].body.to /\ row'[i].body.ref = row[i].body.ref
               \/ /\ row'[i].body.to = Open
                  /\ \A j \in Ids : (kind[j] = "rating_history" /\ Exists(j)' /\ j # i) =>
                         row'[j].body.ref # row'[i].body.ref
    PROVE  OneRating'
BY DEF OneRating, Rows

LEMMA CacheKept ==
    ASSUME IInv, RatingCacheFresh, UNCHANGED kind,
           \A i \in Ids : (kind[i] = "rating_history" /\ Live(i)' /\ row'[i].st = "APPROVED") =>
               /\ Live(i) /\ row[i].st = "APPROVED"
               /\ row'[i].body.ref = row[i].body.ref /\ row'[i].body.val = row[i].body.val,
           \A i \in Rows("counterparty") : Live(i)' =>
               Live(i) /\ row'[i].body.val = row[i].body.val
    PROVE  RatingCacheFresh'
<1> SUFFICES ASSUME NEW i \in Approved("rating_history")', Live(row[i].body.ref)'
             PROVE  (row[row[i].body.ref].body.val = row[i].body.val)'
  BY DEF RatingCacheFresh
<1>1. /\ i \in Approved("rating_history") /\ i \in Rows("rating_history")
      /\ row'[i].body.ref = row[i].body.ref /\ row'[i].body.val = row[i].body.val
  BY DEF Approved, LiveRows, Live, Rows
<1>2. row[i].body.ref \in Rows("counterparty")
  BY <1>1 DEF IInv, RatingsOK
<1> QED BY <1>1, <1>2 DEF RatingCacheFresh

LEMMA ValidKept ==
    ASSUME RowsValid, UNCHANGED kind,
           \A i \in Ids : Exists(i)' =>
               \/ Exists(i) /\ row'[i].body = row[i].body
               \/ /\ Valid(kind[i], row'[i].body)
                  /\ kind[i] = "bobot_skenario" => row'[i].body.key \in Skenarios
    PROVE  RowsValid'
<1>1. \A k, b : Valid(k, b)' <=> Valid(k, b)
  BY DEF Valid, WellFormed, Validated, Related, PdMonotonic, KursRatesOrdered
<1> QED BY <1>1 DEF RowsValid, Rows

LEMMA ApartKept ==
    ASSUME WeightsApart, UNCHANGED kind, raced => raced', crowded => crowded',
           raced \in BOOLEAN, crowded \in BOOLEAN,
           \A i \in Ids : (kind[i] = "bobot_skenario" /\ Live(i)') =>
               \/ /\ Live(i) /\ row'[i].body.key = row[i].body.key
                  /\ row'[i].body.from = row[i].body.from /\ row'[i].body.to = row[i].body.to
               \/ raced' \/ crowded'
               \/ \A j \in Ids : (kind[j] = "bobot_skenario" /\ Live(j)' /\ j # i) =>
                      ~ /\ row'[j].body.key = row'[i].body.key
                        /\ row'[j].body.from = row'[i].body.from /\ row'[j].body.to = row'[i].body.to
    PROVE  WeightsApart'
<1> SUFFICES ASSUME ~raced', ~crowded', NEW i \in LiveRows("bobot_skenario")',
                    NEW j \in LiveRows("bobot_skenario")', j # i,
                    row'[j].body.key = row'[i].body.key,
                    row'[j].body.from = row'[i].body.from, row'[j].body.to = row'[i].body.to
             PROVE  FALSE
  BY DEF WeightsApart, BobotDuplicates
<1>1. /\ i \in Ids /\ j \in Ids /\ kind[i] = "bobot_skenario" /\ kind[j] = "bobot_skenario"
      /\ Live(i)' /\ Live(j)'
  BY DEF LiveRows
<1>2. /\ Live(i) /\ row'[i].body.key = row[i].body.key
      /\ row'[i].body.from = row[i].body.from /\ row'[i].body.to = row[i].body.to
  BY <1>1
<1>3. /\ Live(j) /\ row'[j].body.key = row[j].body.key
      /\ row'[j].body.from = row[j].body.from /\ row'[j].body.to = row[j].body.to
  BY <1>1
<1>4. j \in BobotDuplicates(row[i].body, Ids \ {i})
  BY <1>1, <1>2, <1>3 DEF BobotDuplicates, LiveRows
<1> QED BY <1>1, <1>2, <1>4 DEF WeightsApart, LiveRows

LEMMA RefsKept ==
    ASSUME IInv, ReferencesResolve, UNCHANGED kind, raced => raced', raced \in BOOLEAN,
           row' \in [Ids -> RowType],
           ~raced' => \A i \in Ids : \A j \in Referenced(i)' :
               /\ j \in Referenced(i) \/ Resolves(kind[i], j)
               /\ Live(j) => /\ Live(j)'
                             /\ row[j].st = "APPROVED" => row'[j].st = "APPROVED"
    PROVE  ReferencesResolve'
<1> SUFFICES ASSUME ~raced', NEW i \in Ids, NEW j \in Referenced(i)'
             PROVE  Resolves(kind[i], j)'
  BY DEF ReferencesResolve, Resolves, Targets
<1>1. /\ j \in Referenced(i) \/ Resolves(kind[i], j)
      /\ Live(j) => Live(j)' /\ (row[j].st = "APPROVED" => row'[j].st = "APPROVED")
  OBVIOUS
<1>2. Resolves(kind[i], j)
  BY <1>1 DEF ReferencesResolve
<1>3. kind[j] \in Targets(kind[i]) /\ Live(j)' /\ (kind[j] = "periode_buku" \/ row'[j].st = "APPROVED")
  BY <1>1, <1>2 DEF Resolves
<1> QED BY <1>3 DEF Resolves

(* The sum of the weights.                                                  *)
LEMMA RowWeights ==
    ASSUME row \in [Ids -> RowType], NEW S \in SUBSET Ids
    PROVE  IsFiniteSet(S) /\ \A x \in S : [j \in S |-> row[j].body.val][x] \in Int
<1>1. IsFiniteSet(S)
  BY IdsAssumption, FS_Subset
<1>2. \A x \in S : row[x].body \in BodyType
  BY RowColumns
<1>3. \A x \in S : row[x].body.val \in Int
  BY <1>2 DEF BodyType
<1> QED BY <1>1, <1>3

LEMMA WeightSame ==
    ASSUME row \in [Ids -> RowType], NEW S \in SUBSET Ids,
           \A x \in S : row'[x].body = row[x].body
    PROVE  Weight(S)' = Weight(S)
<1> DEFINE f == [x \in S |-> row[x].body.val]
           g == [x \in S |-> row'[x].body.val]
<1>1. IsFiniteSet(S)
  BY RowWeights
<1>2. \A x \in S : g[x] = f[x]
  OBVIOUS
<1>3. Weight(S) = SumFunctionOnSet(f, S) /\ Weight(S)' = SumFunctionOnSet(g, S)
  BY DEF Weight
<1> HIDE DEF f, g
<1>4. SumFunctionOnSet(g, S) = SumFunctionOnSet(f, S)
  BY <1>1, <1>2, SumSame
<1> QED BY <1>3, <1>4

LEMMA WeightStep ==
    ASSUME row \in [Ids -> RowType], NEW S \in SUBSET Ids, NEW i \in S
    PROVE  Weight(S) = row[i].body.val + Weight(S \ {i})
<1> DEFINE f == [x \in S |-> row[x].body.val]
           T == S \ {i}
           g == [x \in T |-> row[x].body.val]
<1>1. IsFiniteSet(S) /\ IsFiniteSet(T) /\ \A x \in S : f[x] \in Int
  BY RowWeights
<1>2. \A x \in T : f[x] = g[x]
  OBVIOUS
<1>3. Weight(S) = SumFunctionOnSet(f, S) /\ Weight(T) = SumFunctionOnSet(g, T) /\ f[i] = row[i].body.val
  BY DEF Weight
<1> HIDE DEF f, g
<1>4. SumFunctionOnSet(f, S) = f[i] + SumFunctionOnSet(f, S \ {i})
  BY <1>1, SumStep
<1>5. SumFunctionOnSet(f, T) = SumFunctionOnSet(g, T)
  BY <1>1, <1>2, SumSame
<1> QED BY <1>3, <1>4, <1>5

(* Rows that leave the approved ones of a full period leave it for good:    *)
(* each scenario had one row.                                               *)
LEMMA SumKept ==
    ASSUME IInv, RowsValid, WeightsApart, WeightsAddUp, UNCHANGED kind, ~raced, ~crowded,
           NEW x \in Approved("bobot_skenario")',
           \A i \in ApprovedOf(row[x].body)' :
               i \in Approved("bobot_skenario") /\ row'[i].body = row[i].body,
           ({row[j].body.key : j \in ApprovedOf(row[x].body)} = Skenarios)'
    PROVE  Weight(ApprovedOf(row[x].body))' = SumTarget
<1> DEFINE S == ApprovedOf(row[x].body)
           b == row[x].body
<1>1. PICK T : T = S'
  OBVIOUS
<1>2. x \in T
  BY <1>1 DEF ApprovedOf
<1>3. /\ x \in Approved("bobot_skenario") /\ row'[x].body = b
      /\ \A i \in T : i \in Approved("bobot_skenario") /\ row'[i].body = row[i].body
  BY <1>1, <1>2
<1>4. T \subseteq S
  BY <1>1, <1>3 DEF ApprovedOf
<1>5. {row[j].body.key : j \in T} = Skenarios
  BY <1>1, <1>3
<1>6. ASSUME NEW j \in S PROVE j \in T
  <2>1. /\ j \in LiveRows("bobot_skenario") /\ j \in Rows("bobot_skenario")
        /\ row[j].body.from = b.from /\ row[j].body.to = b.to
    BY DEF ApprovedOf, Approved, LiveRows, Live, Rows
  <2>2. row[j].body.key \in Skenarios
    BY <2>1 DEF RowsValid
  <2>3. PICK t \in T : row[t].body.key = row[j].body.key
    BY <1>5, <2>2
  <2>4. /\ t \in LiveRows("bobot_skenario") /\ row[t].body.from = b.from /\ row[t].body.to = b.to
    BY <1>4 DEF ApprovedOf, Approved
  <2>5. t # j => t \in BobotDuplicates(row[j].body, Ids \ {j})
    BY <2>1, <2>3, <2>4 DEF BobotDuplicates, LiveRows
  <2>6. t = j
    BY <2>1, <2>5 DEF WeightsApart
  <2> QED BY <2>6
<1>7. S = T
  BY <1>4, <1>6
<1>8. Weight(S) = SumTarget
  BY <1>3, <1>5, <1>7 DEF WeightsAddUp, AddUp
<1>9. T \in SUBSET Ids /\ row \in [Ids -> RowType]
  BY <1>3 DEF Approved, LiveRows, IInv, TypeOK
<1>10. Weight(T)' = Weight(T)
  BY <1>3, <1>9, WeightSame
<1> QED BY <1>1, <1>7, <1>8, <1>10

-----------------------------------------------------------------------------
(* Requests that begin or go no further.                                    *)
LEMMA PromiseStands ==
    ASSUME UNCHANGED <<kind, row, raced>>, NEW q, Promise(q)
    PROVE  Promise(q)'
<1>1. \A k, b : Valid(k, b)' <=> Valid(k, b)
  BY DEF Valid, WellFormed, Validated, Related, PdMonotonic, KursRatesOrdered
<1>2. \A i, p, C : Written(row[i].body, p, C)' = Written(row[i].body, p, C)
  BY DEF Written, Merge
<1>3. \A k, j : Resolves(k, j)' <=> Resolves(k, j)
  BY DEF Resolves, Live, Exists
<1>4. \A b, S : BobotDuplicates(b, S)' = BobotDuplicates(b, S)
  BY DEF BobotDuplicates, LiveRows, Live, Exists
<1>5. \A j : Referenced(j)' = Referenced(j)
  BY DEF Referenced, Live, Exists
<1>6. q.op = "create" => CreatePromise(q)'
  BY <1>1, <1>3, <1>4 DEF Promise, CreatePromise
<1>7. q.op = "update" => UpdatePromise(q)'
  BY <1>1, <1>2, <1>3, <1>4 DEF Promise, UpdatePromise
<1>8. q.op = "delete" => DeletePromise(q)'
  BY <1>5 DEF Promise, DeletePromise
<1>9. q.op = "move" => MovePromise(q)'
  BY DEF Promise, MovePromise
<1> QED BY <1>6, <1>7, <1>8, <1>9 DEF Promise

LEMMA RowsStand ==
    ASSUME JInv, UNCHANGED <<kind, row, wf, raced, crowded>>
    PROVE  /\ InStep' /\ OneRating' /\ RatingCacheFresh' /\ RowsValid'
           /\ WeightsApart' /\ WeightsAddUp' /\ ReferencesResolve'
<1>1. InStep' /\ OneRating' /\ RatingCacheFresh'
  BY DEF JInv, InStep, OneRating, RatingCacheFresh, Rows, Approved, LiveRows, Live, Exists
<1>2. RowsValid'
  BY DEF JInv, RowsValid, Rows, Exists, Valid, WellFormed, Validated, Related, PdMonotonic,
     KursRatesOrdered
<1>3. WeightsApart' /\ WeightsAddUp'
  BY DEF JInv, WeightsApart, WeightsAddUp, AddUp, ApprovedOf, Weight, BobotDuplicates, Approved,
     LiveRows,
     Live, Exists
<1>4. ReferencesResolve'
  BY DEF JInv, ReferencesResolve, Referenced, Resolves, Live, Exists
<1> QED BY <1>1, <1>2, <1>3, <1>4

LEMMA PromiseMade ==
    ASSUME IInv, JInv, NEW c \in Clients, NEW r \in RequestType, Promise(r),
           req' = [req EXCEPT ![c] = r], UNCHANGED <<kind, row, wf, raced, crowded>>
    PROVE  JInv'
<1>1. \A d \in Clients : Promise(req'[d])
  BY DEF IInv, TypeOK, JInv, Promises
<1>2. \A q : Promise(q) => Promise(q)'
  BY PromiseStands
<1>3. Promises'
  BY <1>1, <1>2 DEF Promises
<1> QED BY <1>3, RowsStand DEF JInv

(* What the service of a kind refers to is checked to be in force.          *)
LEMMA CreatedResolves ==
    ASSUME kind \in [Ids -> Kinds], NEW k \in Kinds, NEW b \in BodyType, CreateAllowed(k, b),
           Targets(k) # {}, b.ref # 0
    PROVE  Resolves(k, b.ref)
<1>1. k \in {"instrumen", "kurs", "chart_of_accounts"}
  BY DEF Targets
<1>2. CASE k = "instrumen"
  <2>1. InstrumenCreate(b)
    BY <1>2 DEF CreateAllowed
  <2> QED BY <1>2, <2>1 DEF InstrumenCreate, CheckCounterpartyApproved, CheckPortofolioApproved,
             CheckMataUangApproved, Approved, LiveRows, Resolves, Targets
<1>3. CASE k = "kurs"
  <2>1. KursCreate(b)
    BY <1>3 DEF CreateAllowed
  <2> QED BY <1>3, <2>1 DEF KursCreate, KursValid, KursCurrencyApproved, KursPeriodActive, Approved,
             LiveRows,
             Resolves, Targets
<1>4. CASE k = "chart_of_accounts"
  <2>1. CoaCreate(b)
    BY <1>4 DEF CreateAllowed
  <2> QED BY <1>4, <2>1 DEF CoaCreate, CoaParentApproved, Approved, LiveRows, Resolves, Targets
<1> QED BY <1>1, <1>2, <1>3, <1>4

LEMMA BeginCreatePromise == ASSUME IInv, JInv, NEW c \in Clients, BeginCreate(c) PROVE JInv'
<1>0. PICK i \in Ids : \E b \in Bodies[kind[i]] :
         /\ ~Exists(i) /\ CreateAllowed(kind[i], b)
         /\ Begin(c, [op |-> "create", id |-> i, body |-> b, quiet |-> TRUE])
  BY DEF BeginCreate
<1>1. PICK b \in Bodies[kind[i]] :
         /\ ~Exists(i) /\ CreateAllowed(kind[i], b)
         /\ Begin(c, [op |-> "create", id |-> i, body |-> b, quiet |-> TRUE])
  BY <1>0
<1> DEFINE r == [op |-> "create", id |-> i, body |-> b, quiet |-> TRUE]
           k == kind[i]
<1>2. k \in Kinds /\ b \in BodyType /\ kind \in [Ids -> Kinds]
  BY Kinded, MasterBodiesAssumption DEF IInv, TypeOK
<1>3. r \in RequestType /\ r.op = "create" /\ r.id = i /\ r.body = b /\ r.quiet = TRUE
  BY <1>2 DEF RequestType
<1>4. req' = [req EXCEPT ![c] = r] /\ UNCHANGED <<kind, row, wf, raced, crowded>>
  BY <1>1 DEF Begin
<1>5. CreateAllowed(k, b)
  BY <1>1
<1> HIDE DEF r
<1>6. Valid(k, b)
  BY <1>2, <1>5, CreatedValid
<1>7. k = "rating_history" => b.to = Open
  BY <1>5 DEF CreateAllowed, RatingCreate
<1>8. k = "bobot_skenario" => b.key \in Skenarios /\ BobotDuplicates(b, Ids \ {i}) = {}
  <2>1. k = "bobot_skenario" => BobotCreate(b)
    BY <1>5 DEF CreateAllowed
  <2> QED BY <2>1 DEF BobotCreate, BobotValid, BobotDuplicates
<1>9. (Targets(k) # {} /\ b.ref # 0) => Resolves(k, b.ref)
  BY <1>2, <1>5, CreatedResolves
<1>10. Promise(r)
  BY <1>3, <1>6, <1>7, <1>8, <1>9 DEF Promise, CreatePromise
<1> QED BY <1>3, <1>4, <1>10, PromiseMade

LEMMA BeginUpdatePromise == ASSUME IInv, JInv, NEW c \in Clients, BeginUpdate(c) PROVE JInv'
<1>0. PICK i \in Ids : \E p \in Patches[kind[i]] :
         /\ Live(i) /\ UpdateAllowed(i, p)
         /\ Begin(c, [op |-> "update", id |-> i, body |-> p, ver |-> row[i].ver, quiet |-> TRUE])
  BY DEF BeginUpdate
<1>1. PICK p \in Patches[kind[i]] :
         /\ Live(i) /\ UpdateAllowed(i, p)
         /\ Begin(c, [op |-> "update", id |-> i, body |-> p, ver |-> row[i].ver, quiet |-> TRUE])
  BY <1>0
<1> DEFINE r == [op |-> "update", id |-> i, body |-> p, ver |-> row[i].ver, quiet |-> TRUE]
           k == kind[i]
<1>2. k \in Kinds /\ p \in BodyType /\ kind \in [Ids -> Kinds] /\ row[i] \in RowType
  BY Kinded, MasterBodiesAssumption DEF IInv, TypeOK
<1>3. row[i].ver \in Nat
  BY <1>2, RowColumns
<1>4. r \in RequestType /\ r.op = "update" /\ r.id = i /\ r.ver = row[i].ver /\ r.body = p /\ r.quiet = TRUE
  BY <1>2, <1>3 DEF RequestType
<1>5. req' = [req EXCEPT ![c] = r] /\ UNCHANGED <<kind, row, wf, raced, crowded>>
  BY <1>1 DEF Begin
<1>6. UpdateAllowed(i, p) /\ Valid(k, row[i].body)
  BY <1>1 DEF JInv, RowsValid, Live
<1> HIDE DEF r
<1>7. k # "mapping_jurnal" => Valid(k, Written(row[i].body, p, Columns(k)))
  BY <1>2, <1>6, MergedStays
<1>8. k = "mapping_jurnal" => p.key # Malformed
  <2>1. k = "mapping_jurnal" => MappingUpdate(i, p)
    BY <1>6 DEF UpdateAllowed
  <2> QED BY <1>2, <2>1, WellFormedParts DEF MappingUpdate, MappingPatchValid
<1>9. k = "bobot_skenario" =>
         p.key \in Skenarios \cup {NotGiven} /\ BobotDuplicates(Merge(row[i].body, p), Ids \ {i}) = {}
  <2>1. k = "bobot_skenario" => BobotUpdate(i, p)
    BY <1>6 DEF UpdateAllowed
  <2> QED BY <2>1 DEF BobotUpdate, BobotPatchValid
<1>10. (k \in {"instrumen", "chart_of_accounts"} /\ p.ref # 0) => Resolves(k, p.ref)
  <2>1. /\ k = "instrumen" => InstrumenUpdate(i, p)
        /\ k = "chart_of_accounts" => CoaUpdate(i, p)
    BY <1>6 DEF UpdateAllowed
  <2> QED BY <2>1 DEF InstrumenUpdate, CoaUpdate, CheckMataUangApproved, CoaParentApproved, NotGiven,
             Approved, LiveRows, Resolves, Targets
<1>11. Promise(r)
  BY <1>4, <1>7, <1>8, <1>9, <1>10 DEF Promise, UpdatePromise
<1> QED BY <1>4, <1>5, <1>11, PromiseMade

(* What may be deleted is referred to by nothing.                           *)
LEMMA Unreferenced ==
    ASSUME ReferencesResolve, ~raced, NEW i \in Ids, DeleteAllowed(i), NEW j \in Ids, i \in Referenced(j)
    PROVE  FALSE
<1>1. /\ Targets(kind[j]) # {} /\ Live(j) /\ row[j].body.ref = i
  BY DEF Referenced
<1>2. Resolves(kind[j], i)
  BY DEF ReferencesResolve
<1>3. kind[j] \in {"instrumen", "kurs", "chart_of_accounts"} /\ kind[i] \in Targets(kind[j])
  BY <1>1, <1>2 DEF Targets, Resolves
<1>4. j \in Referring(kind[j], i) /\ (kind[j] = "kurs" => j \in Rows("kurs"))
  BY <1>1 DEF Referring, LiveRows, Rows, Live
<1>5. CASE kind[j] = "instrumen"
  <2>1. kind[i] \in {"counterparty", "portofolio", "mata_uang"}
    BY <1>3, <1>5 DEF Targets
  <2>2. /\ kind[i] = "counterparty" => CounterpartyDelete(i)
        /\ kind[i] = "portofolio" => PortofolioDelete(i)
        /\ kind[i] = "mata_uang" => MataUangDelete(i)
    BY DEF DeleteAllowed
  <2> QED BY <1>4, <1>5, <2>1, <2>2 DEF CounterpartyDelete, CounterpartyReferences, PortofolioDelete,
             PortofolioReferences, MataUangDelete, MataUangReferences
<1>6. CASE kind[j] = "kurs"
  <2>1. kind[i] \in {"mata_uang", "periode_buku"}
    BY <1>3, <1>6 DEF Targets
  <2>2. /\ kind[i] = "periode_buku" => PeriodeDelete(i)
        /\ kind[i] = "mata_uang" => MataUangDelete(i)
    BY DEF DeleteAllowed
  <2> QED BY <1>1, <1>4, <1>6, <2>1, <2>2 DEF PeriodeDelete, PeriodeReferences, MataUangDelete,
             MataUangReferences
<1>7. CASE kind[j] = "chart_of_accounts"
  <2>1. kind[i] = "chart_of_accounts"
    BY <1>3, <1>7 DEF Targets
  <2>2. CoaDelete(i)
    BY <2>1 DEF DeleteAllowed
  <2> QED BY <1>4, <1>7, <2>2 DEF CoaDelete, CoaChildren
<1> QED BY <1>3, <1>5, <1>6, <1>7

LEMMA BeginDeletePromise == ASSUME IInv, JInv, NEW c \in Clients, BeginDelete(c) PROVE JInv'
<1>1. PICK i \in Ids : DeleteAllowed(i) /\ Begin(c, [op |-> "delete", id |-> i, quiet |-> TRUE])
  BY DEF BeginDelete
<1> DEFINE r == [op |-> "delete", id |-> i, quiet |-> TRUE]
<1>2. r \in RequestType /\ r.op = "delete" /\ r.id = i
  BY DEF RequestType
<1>3. req' = [req EXCEPT ![c] = r] /\ UNCHANGED <<kind, row, wf, raced, crowded>>
  BY <1>1 DEF Begin
<1> HIDE DEF r
<1>4. ReferencesResolve
  BY DEF JInv
<1>5. ~raced => \A j \in Ids : i \notin Referenced(j)
  BY <1>1, <1>4, Unreferenced
<1>6. Promise(r)
  BY <1>2, <1>5 DEF Promise, DeletePromise
<1> QED BY <1>2, <1>3, <1>6, PromiseMade

LEMMA BeginMovePromise == ASSUME IInv, JInv, NEW c \in Clients, BeginMove(c) PROVE JInv'
<1>1. PICK i \in Ids, s \in Steps :
        /\ Exists(i) /\ wf[i] = s[1]
        /\ Begin(c, [op |-> "move", id |-> i, to |-> s[2], second |-> SixEyes(kind[i]),
                     body |-> row[i].body, prior |-> PriorRead(i), quiet |-> TRUE])
  BY DEF BeginMove
<1> DEFINE r == [op |-> "move", id |-> i, to |-> s[2], second |-> SixEyes(kind[i]),
                 body |-> row[i].body, prior |-> PriorRead(i), quiet |-> TRUE]
<1>2. s[2] \in Statuses
  BY DEF Steps, Statuses
<1>3. SixEyes(kind[i]) \in BOOLEAN /\ row[i].body \in BodyType
  BY RowColumns DEF SixEyes, IInv, TypeOK
<1>4. PriorRead(i) \in BOOLEAN
  BY DEF PriorRead, RatingPrior, Live
<1>5. /\ r \in RequestType /\ r.op = "move" /\ r.id = i /\ r.second = SixEyes(kind[i])
      /\ r.body = row[i].body /\ r.prior = PriorRead(i)
  BY <1>2, <1>3, <1>4 DEF RequestType
<1>6. req' = [req EXCEPT ![c] = r] /\ UNCHANGED <<kind, row, wf, raced, crowded>>
  BY <1>1 DEF Begin
<1> HIDE DEF r
<1>7. kind[i] = "rating_history" => ~r.prior
  <2> SUFFICES ASSUME kind[i] = "rating_history", RatingPrior(i) PROVE FALSE
    BY <1>5 DEF PriorRead
  <2>1. PICK j \in Approved("rating_history") : row[j].body.ref = row[i].body.ref
    BY DEF RatingPrior
  <2>2. i \in Rows("rating_history") /\ j \in Rows("rating_history") /\ row[j].st = "APPROVED"
    BY <1>1, <2>1 DEF Approved, LiveRows, Live, Rows
  <2>3. i = j
    BY <2>1, <2>2 DEF JInv, OneRating
  <2>4. wf[i] = "APPROVED"
    BY <2>2, <2>3 DEF JInv, InStep, Unhooked
  <2>5. s[1] # "APPROVED" /\ wf[i] = s[1]
    BY <1>1 DEF Steps
  <2> QED BY <2>4, <2>5
<1>8. kind[i] = "bobot_skenario" => r.second
  BY <1>5 DEF SixEyes
<1>9. Promise(r)
  BY <1>5, <1>7, <1>8 DEF Promise, MovePromise
<1> QED BY <1>5, <1>6, <1>9, PromiseMade

LEMMA BeginSeedPromise == ASSUME IInv, JInv, NEW c \in Clients, BeginSeed(c) PROVE JInv'
<1>1. PICK from \in Dates : Begin(c, [op |-> "seed", from |-> from, quiet |-> TRUE])
  BY DEF BeginSeed
<1> DEFINE r == [op |-> "seed", from |-> from, quiet |-> TRUE]
<1>2. r \in RequestType /\ r.op = "seed"
  BY DEF RequestType
<1>3. req' = [req EXCEPT ![c] = r] /\ UNCHANGED <<kind, row, wf, raced, crowded>>
  BY <1>1 DEF Begin
<1> HIDE DEF r
<1>4. Promise(r)
  BY <1>2 DEF Promise
<1> QED BY <1>2, <1>3, <1>4, PromiseMade

LEMMA FailPromise == ASSUME IInv, JInv, NEW c \in Clients, Fail(c) PROVE JInv'
<1>1. Idle \in RequestType /\ Promise(Idle)
  BY DEF RequestType, Promise, Idle
<1> QED BY <1>1, PromiseMade DEF Fail

-----------------------------------------------------------------------------
(* Commits of one row.                                                      *)
Alive(s) == s.st # "ABSENT" /\ ~s.del

\* A row may become s, its workflow instance w.
MayBecome(i, s, w) ==
    /\ (Exists(i) /\ kind[i] # "mapping_jurnal") =>
          s.ver >= row[i].ver /\ (s.ver = row[i].ver => s.body = row[i].body)
    /\ kind[i] \notin Unhooked => w = s.st \/ (w = wf[i] /\ s.st = row[i].st)
    /\ (kind[i] = "rating_history" /\ s.st # "ABSENT") =>
          \/ Exists(i) /\ s.body.to = row[i].body.to /\ s.body.ref = row[i].body.ref
          \/ /\ s.body.to = Open
             /\ \A j \in Rows("rating_history") \ {i} : row[j].body.ref # s.body.ref
    /\ (kind[i] = "rating_history" /\ Alive(s) /\ s.st = "APPROVED") =>
          Live(i) /\ row[i].st = "APPROVED" /\ s.body = row[i].body
    /\ (kind[i] = "counterparty" /\ Exists(i) /\ Alive(s)) =>
          Live(i) /\ s.body.val = row[i].body.val
    /\ s.st # "ABSENT" =>
          \/ Exists(i) /\ s.body = row[i].body
          \/ Valid(kind[i], s.body) /\ (kind[i] = "bobot_skenario" => s.body.key \in Skenarios)
    /\ (kind[i] = "bobot_skenario" /\ Alive(s)) =>
          \/ Live(i) /\ s.body = row[i].body
          \/ raced' \/ crowded' \/ BobotDuplicates(s.body, Ids \ {i}) = {}
    /\ (~raced' /\ Alive(s) /\ Targets(kind[i]) # {} /\ s.body.ref # 0) =>
          (Live(i) /\ s.body.ref = row[i].body.ref) \/ Resolves(kind[i], s.body.ref)
    /\ (~raced' /\ Live(i)) =>
          /\ Alive(s) \/ \A j \in Ids : i \notin Referenced(j)
          /\ row[i].st = "APPROVED" => s.st = "APPROVED"

LEMMA OneRowPromises ==
    ASSUME IInv, JInv, Overtaken, UNCHANGED kind, raced => raced', crowded => crowded',
           raced' \in BOOLEAN, crowded' \in BOOLEAN,
           NEW i \in Ids, NEW s \in RowType, row' = [row EXCEPT ![i] = s],
           NEW w, wf' = [wf EXCEPT ![i] = w],
           MayBecome(i, s, w), WeightsAddUp'
    PROVE  JInv'
<1> USE DEF MayBecome
<1>1. \A j \in Ids : row'[j] = IF j = i THEN s ELSE row[j]
  BY DEF IInv, TypeOK
<1>2. /\ row' \in [Ids -> RowType] /\ row \in [Ids -> RowType]
      /\ raced \in BOOLEAN /\ crowded \in BOOLEAN
  BY DEF IInv, TypeOK
<1>3. \A j \in Ids : wf'[j] = IF j = i THEN w ELSE wf[j]
  BY DEF IInv, TypeOK
<1>4. \A j \in Ids : /\ Live(j)' <=> IF j = i THEN Alive(s) ELSE Live(j)
                     /\ Exists(j)' <=> IF j = i THEN s.st # "ABSENT" ELSE Exists(j)
  BY <1>1 DEF Live, Exists, Alive
<1>5. Promises'
  <2>1. VersionTells
    <3> SUFFICES ASSUME NEW j \in Ids, j # i PROVE row[j].ver >= row[j].ver
      BY <1>1 DEF VersionTells
    <3>1. row[j].ver \in Nat
      BY <1>2, RowColumns
    <3> QED BY <3>1
  <2> QED BY <1>2, <2>1, PromisesKept DEF JInv
<1>6. InStep'
  <2>1. \A j \in Ids : \/ kind[j] \in Unhooked \/ wf'[j] = row'[j].st
                       \/ wf'[j] = wf[j] /\ row'[j].st = row[j].st
    BY <1>1, <1>3
  <2> QED BY <2>1, InStepKept DEF JInv
<1>7. OneRating'
  <2>0. \A j \in Rows("rating_history") : row[j].body.to = Open
    BY DEF JInv, OneRating
  <2>1. ASSUME NEW j \in Ids, kind[j] = "rating_history", Exists(j)'
        PROVE \/ Exists(j) /\ row'[j].body.to = row[j].body.to /\ row'[j].body.ref = row[j].body.ref
              \/ /\ row'[j].body.to = Open
                 /\ \A x \in Ids : (kind[x] = "rating_history" /\ Exists(x)' /\ x # j) =>
                        row'[x].body.ref # row'[j].body.ref
    <3>1. CASE j # i
      BY <1>1, <1>4, <2>1, <3>1
    <3>2. CASE j = i
      BY <1>1, <1>4, <2>1, <3>2 DEF Rows
    <3> QED BY <3>1, <3>2
  <2> QED BY <2>1, OneRatingKept DEF JInv
<1>8. RatingCacheFresh'
  <2>1. \A j \in Ids : (kind[j] = "rating_history" /\ Live(j)' /\ row'[j].st = "APPROVED") =>
               /\ Live(j) /\ row[j].st = "APPROVED"
               /\ row'[j].body.ref = row[j].body.ref /\ row'[j].body.val = row[j].body.val
    BY <1>1, <1>4
  <2>2. \A j \in Rows("counterparty") : Live(j)' => Live(j) /\ row'[j].body.val = row[j].body.val
    BY <1>1, <1>4 DEF Rows
  <2> QED BY <2>1, <2>2, CacheKept DEF JInv
<1>9. RowsValid'
  <2>1. \A j \in Ids : Exists(j)' =>
               \/ Exists(j) /\ row'[j].body = row[j].body
               \/ /\ Valid(kind[j], row'[j].body)
                  /\ kind[j] = "bobot_skenario" => row'[j].body.key \in Skenarios
    BY <1>1, <1>4
  <2> QED BY <2>1, ValidKept DEF JInv
<1>10. WeightsApart'
  <2>1. ASSUME NEW j \in Ids, kind[j] = "bobot_skenario", Live(j)'
        PROVE  \/ /\ Live(j) /\ row'[j].body.key = row[j].body.key
                  /\ row'[j].body.from = row[j].body.from /\ row'[j].body.to = row[j].body.to
               \/ raced' \/ crowded'
               \/ \A x \in Ids : (kind[x] = "bobot_skenario" /\ Live(x)' /\ x # j) =>
                      ~ /\ row'[x].body.key = row'[j].body.key
                        /\ row'[x].body.from = row'[j].body.from /\ row'[x].body.to = row'[j].body.to
    <3>1. CASE j # i
      BY <1>1, <1>4, <2>1, <3>1
    <3>2. CASE j = i
      <4>1. CASE BobotDuplicates(s.body, Ids \ {i}) = {}
        BY <1>1, <1>4, <3>2, <4>1 DEF BobotDuplicates, LiveRows
      <4> QED BY <1>1, <1>4, <2>1, <3>2, <4>1
    <3> QED BY <3>1, <3>2
  <2> QED BY <1>2, <2>1, ApartKept DEF JInv
<1>11. ReferencesResolve'
  <2>1. ASSUME ~raced', NEW k \in Ids, NEW j \in Referenced(k)'
        PROVE  /\ j \in Referenced(k) \/ Resolves(kind[k], j)
               /\ Live(j) => /\ Live(j)'
                             /\ row[j].st = "APPROVED" => row'[j].st = "APPROVED"
    <3>1. Targets(kind[k]) # {} /\ Live(k)' /\ j = row'[k].body.ref /\ j # 0
      BY <2>1 DEF Referenced, Targets
    <3>2. row'[k].body \in BodyType
      BY <1>2, RowColumns
    <3>3. j \in Ids
      BY <3>1, <3>2 DEF BodyType
    <3>4. j \in Referenced(k) \/ Resolves(kind[k], j)
      <4>1. CASE k # i
        BY <1>1, <1>4, <3>1, <4>1 DEF Referenced
      <4>2. CASE k = i
        BY <1>1, <1>4, <2>1, <3>1, <4>2 DEF Referenced
      <4> QED BY <4>1, <4>2
    <3>5. CASE j # i
      BY <1>1, <1>4, <3>3, <3>4, <3>5
    <3>6. CASE j = i /\ Alive(s)
      BY <1>1, <1>4, <2>1, <3>4, <3>6
    <3>7. CASE j = i /\ ~Alive(s)
      <4>1. k # i
        BY <1>4, <3>1, <3>7
      <4>2. j \in Referenced(k)
        BY <1>1, <1>4, <3>1, <4>1 DEF Referenced
      <4> QED BY <2>1, <3>4, <3>7, <4>2
    <3> QED BY <3>5, <3>6, <3>7
  <2> QED BY <1>2, <2>1, RefsKept DEF JInv
<1> QED BY <1>5, <1>6, <1>7, <1>8, <1>9, <1>10, <1>11 DEF JInv

(* Weights add up as long as none is approved.                              *)
LEMMA AddUpKept ==
    ASSUME IInv, JInv, UNCHANGED kind, raced => raced', crowded => crowded',
           \A i \in Ids : (kind[i] = "bobot_skenario" /\ Live(i)' /\ row'[i].st = "APPROVED") =>
               Live(i) /\ row[i].st = "APPROVED" /\ row'[i].body = row[i].body
    PROVE  WeightsAddUp'
<1>1. \A i \in Approved("bobot_skenario")' :
          i \in Approved("bobot_skenario") /\ row'[i].body = row[i].body
  BY DEF Approved, LiveRows
<1> SUFFICES ASSUME ~raced', ~crowded', NEW x \in Approved("bobot_skenario")',
                    ({row[j].body.key : j \in ApprovedOf(row[x].body)} = Skenarios)'
             PROVE  Weight(ApprovedOf(row[x].body))' = SumTarget
  BY DEF WeightsAddUp, AddUp
<1>2. \A i \in ApprovedOf(row[x].body)' : i \in Approved("bobot_skenario")'
  BY DEF ApprovedOf
<1>3. ~raced /\ ~crowded
  OBVIOUS
<1> QED BY <1>1, <1>2, <1>3, SumKept DEF JInv

LEMMA CommitCreatePromise == ASSUME IInv, JInv, NEW c \in Clients, CommitCreate(c) PROVE JInv'
<1> DEFINE r == req[c]
           i == r.id
           b == r.body
           s == Inserted(r.body)
<1>1. /\ r.op = "create" /\ ~Exists(i) /\ InsertAllowed(kind[i], b)
      /\ row' = [row EXCEPT ![i] = s] /\ wf' = [wf EXCEPT ![i] = "DRAFT"] /\ Commit(c)
      /\ crowded' = crowded
  BY DEF CommitCreate
<1>2. r \in RequestType /\ RequestOK(r) /\ Promise(r)
  BY DEF IInv, TypeOK, RequestsOK, JInv, Promises
<1>3. i \in Ids /\ b \in BodyType /\ r # Idle
  BY <1>1, <1>2, RequestParts DEF Idle
<1>4. Overtaken /\ raced' \in BOOLEAN /\ (raced => raced') /\ UNCHANGED kind /\ (~raced' => r.quiet)
  BY <1>1, <1>3, CommitMarks
<1>5. s \in RowType /\ s.st = "DRAFT" /\ ~s.del /\ s.body = b
  BY <1>3, NewRow
<1>6. CreatePromise(r)
  BY <1>1, <1>2 DEF Promise
<1>7. kind[i] = "rating_history" =>
         s.body.to = Open /\ \A j \in Rows("rating_history") \ {i} : row[j].body.ref # s.body.ref
  <2> SUFFICES ASSUME kind[i] = "rating_history"
               PROVE  s.body.to = Open /\ \A j \in Rows("rating_history") \ {i} : row[j].body.ref # s.body.ref
    OBVIOUS
  <2>1. RatingInsert(b)
    BY <1>1 DEF InsertAllowed
  <2>2. \A j \in Rows("rating_history") : row[j].body.to = Open
    BY DEF JInv, OneRating
  <2> QED BY <1>5, <1>6, <2>1, <2>2 DEF RatingInsert, CreatePromise
<1>8. Valid(kind[i], s.body) /\ (kind[i] = "bobot_skenario" => s.body.key \in Skenarios)
  BY <1>5, <1>6 DEF CreatePromise
<1>9. kind[i] = "bobot_skenario" => raced' \/ crowded' \/ BobotDuplicates(s.body, Ids \ {i}) = {}
  BY <1>4, <1>5, <1>6 DEF CreatePromise
<1>10. (~raced' /\ Targets(kind[i]) # {} /\ s.body.ref # 0) => Resolves(kind[i], s.body.ref)
  BY <1>4, <1>5, <1>6 DEF CreatePromise
<1>11. row \in [Ids -> RowType] /\ crowded' \in BOOLEAN /\ ~Live(i)
  BY <1>1 DEF IInv, TypeOK, Live
<1> HIDE DEF s, r, i, b
<1>12. WeightsAddUp'
  <2>1. \A j \in Ids : (kind[j] = "bobot_skenario" /\ Live(j)' /\ row'[j].st = "APPROVED") =>
               Live(j) /\ row[j].st = "APPROVED" /\ row'[j].body = row[j].body
    BY <1>1, <1>3, <1>5, <1>11 DEF Live, Exists
  <2> QED BY <1>1, <1>4, <2>1, AddUpKept
<1>13. MayBecome(i, s, "DRAFT")
  BY <1>1, <1>5, <1>7, <1>8, <1>9, <1>10, <1>11 DEF MayBecome
<1> QED BY <1>1, <1>3, <1>4, <1>5, <1>11, <1>12, <1>13, OneRowPromises

(* The row an UPDATE stores, when its request finds the version it read.    *)
LEMMA UpdateVersion ==
    ASSUME kind \in [Ids -> Kinds], NEW i \in Ids, row[i] \in RowType, NEW p \in BodyType,
           kind[i] # "mapping_jurnal"
    PROVE  Stored(i, p).ver = row[i].ver + 1
<1>1. \E columns : Stored(i, p) = Patched(i, p, columns)
  BY DEF Stored, Kinds, BobotStore, PdStore, LgdStore, LpsStore, ImpactPdStore, ImpactMevStore,
     RatingStore,
     CounterpartyStore, PortofolioStore, MataUangStore, KursStore, PeriodeStore, InstrumenStore,
     CoaStore
<1> QED BY <1>1, PatchedRow

LEMMA ValidMapping ==
    ASSUME NEW b \in BodyType
    PROVE  Valid("mapping_jurnal", b) <=> b.key # Malformed
<1>1. "mapping_jurnal" \in Kinds
  BY DEF Kinds
<1>2. Validated("mapping_jurnal") = {"key"} /\ Related("mapping_jurnal", b)
  BY DEF Validated, Related
<1> QED BY <1>1, <1>2, ValidParts

LEMMA CommitUpdatePromise == ASSUME IInv, JInv, NEW c \in Clients, CommitUpdate(c) PROVE JInv'
<1> DEFINE r == req[c]
           i == r.id
           p == r.body
           k == kind[i]
           s == Stored(i, p)
           b == row[i].body
           m == Merge(b, p)
           w == Written(b, p, Columns(k))
<1>1. /\ r.op = "update" /\ Matches(i, p, r.ver)
      /\ row' = [row EXCEPT ![i] = s] /\ UNCHANGED wf /\ Commit(c) /\ crowded' = crowded
  BY DEF CommitUpdate
<1>2. r \in RequestType /\ RequestOK(r) /\ Promise(r)
  BY DEF IInv, TypeOK, RequestsOK, JInv, Promises
<1>3. i \in Ids /\ p \in BodyType /\ r # Idle
  BY <1>1, <1>2, RequestParts DEF Idle
<1>4. Overtaken /\ raced' \in BOOLEAN /\ (raced => raced') /\ UNCHANGED kind /\ (~raced' => r.quiet)
  BY <1>1, <1>3, CommitMarks
<1>5. /\ row \in [Ids -> RowType] /\ row[i] \in RowType /\ kind \in [Ids -> Kinds] /\ k \in Kinds
      /\ crowded' \in BOOLEAN /\ wf \in [Ids -> Statuses]
  BY <1>1, <1>3, Kinded DEF IInv, TypeOK
<1>6. s \in RowType /\ s.st = row[i].st /\ s.del = row[i].del /\ s.ver >= row[i].ver
  BY <1>3, <1>5, StoredRow DEF StoredOK
<1>7. s.body = w
  BY <1>3, <1>5, StoredColumns
<1>8. row[i].ver \in Nat /\ (k # "mapping_jurnal" => s.ver = row[i].ver + 1)
  BY <1>3, <1>5, RowColumns, UpdateVersion
<1>9. Live(i) /\ (k # "mapping_jurnal" => r.ver = row[i].ver /\ row[i].st \notin FrozenStatuses(k))
  BY <1>1, <1>2 DEF Matches, MappingMatches, RequestOK, EditOK
<1>10. UpdatePromise(r) /\ Valid(k, row[i].body) /\ (k = "bobot_skenario" => row[i].body.key \in Skenarios)
  BY <1>1, <1>2, <1>3, <1>9 DEF Promise, JInv, RowsValid, Live, Rows
<1>11. /\ w \in BodyType /\ b \in BodyType
       /\ w.key = IF "key" \in Columns(k) THEN m.key ELSE b.key
       /\ w.ref = IF "ref" \in Columns(k) THEN m.ref ELSE b.ref
       /\ w.from = IF "from" \in Columns(k) THEN m.from ELSE b.from
       /\ w.to = IF "to" \in Columns(k) THEN m.to ELSE b.to
       /\ w.val = IF "val" \in Columns(k) THEN m.val ELSE b.val
       /\ m.key = IF p.key = NotGiven THEN b.key ELSE p.key
       /\ m.ref = IF p.ref = NotGiven THEN b.ref ELSE p.ref
  <2>1. b \in BodyType
    BY <1>5, RowColumns
  <2> HIDE DEF b, r, i, p, k
  <2> QED BY <1>3, <2>1, WrittenColumns
<1>12. Valid(k, w)
  <2>1. CASE k # "mapping_jurnal"
    BY <1>9, <1>10, <2>1 DEF UpdatePromise
  <2>2. CASE k = "mapping_jurnal"
    <3>1. p.key # Malformed /\ b.key # Malformed
      BY <1>5, <1>10, <1>11, <2>2, ValidParts DEF UpdatePromise, Validated
    <3>2. Valid(k, w) <=> w.key # Malformed
      BY <1>11, <2>2, ValidMapping
    <3>3. w.key \in {p.key, b.key}
      BY <1>11
    <3> QED BY <3>1, <3>2, <3>3
  <2> QED BY <2>1, <2>2
<1>13. k = "bobot_skenario" =>
          /\ w.key \in Skenarios
          /\ raced' \/ crowded' \/ BobotDuplicates(w, Ids \ {i}) = {}
  <2> SUFFICES ASSUME k = "bobot_skenario"
               PROVE  /\ w.key \in Skenarios
                      /\ raced' \/ BobotDuplicates(w, Ids \ {i}) = {}
    OBVIOUS
  <2>1. w.key = m.key /\ w.from = m.from /\ w.to = m.to
    BY <1>11 DEF Columns
  <2>2. p.key \in Skenarios \cup {NotGiven} /\ (r.quiet => BobotDuplicates(m, Ids \ {i}) = {})
    BY <1>10 DEF UpdatePromise
  <2> HIDE DEF w, m, r, i, p
  <2> QED BY <1>4, <1>10, <1>11, <2>1, <2>2 DEF BobotDuplicates
<1>14. (~raced' /\ Targets(k) # {} /\ w.ref # 0) => w.ref = b.ref \/ Resolves(k, w.ref)
  <2>1. CASE k \in {"instrumen", "chart_of_accounts"}
    <3>1. w.ref \in {p.ref, b.ref}
      BY <1>11
    <3>2. (r.quiet /\ p.ref # 0) => Resolves(k, p.ref)
      BY <1>10, <2>1 DEF UpdatePromise
    <3> QED BY <1>4, <3>1, <3>2
  <2>2. CASE k = "kurs"
    BY <1>11, <2>2 DEF Columns
  <2> QED BY <2>1, <2>2 DEF Targets
<1>15. k = "rating_history" => w.to = b.to /\ w.ref = b.ref
  BY <1>11 DEF Columns
<1>16. k = "counterparty" => w.val = b.val
  BY <1>11 DEF Columns
<1>17. k \in {"rating_history", "bobot_skenario"} => row[i].st # "APPROVED"
  BY <1>9 DEF FrozenStatuses
<1>18. PICK v : v = wf[i] /\ wf' = [wf EXCEPT ![i] = v]
  BY <1>1, <1>5
<1> HIDE DEF s, r, i, k, p, w, m, b
<1>19. WeightsAddUp'
  <2>1. \A j \in Ids : (kind[j] = "bobot_skenario" /\ Live(j)' /\ row'[j].st = "APPROVED") =>
               Live(j) /\ row[j].st = "APPROVED" /\ row'[j].body = row[j].body
    BY <1>1, <1>3, <1>5, <1>6, <1>17 DEF Live, Exists, k
  <2> QED BY <1>1, <1>4, <2>1, AddUpKept
<1>20. (Exists(i) /\ Alive(s) /\ s.ver # row[i].ver) \/ k = "mapping_jurnal"
  BY <1>6, <1>8, <1>9 DEF Live, Exists, Alive
<1>21. Exists(i) /\ Alive(s)
  BY <1>6, <1>9 DEF Live, Exists, Alive
<1> QED
  <2>1. (Exists(i) /\ kind[i] # "mapping_jurnal") =>
               s.ver >= row[i].ver /\ (s.ver = row[i].ver => s.body = row[i].body)
    BY <1>6, <1>20 DEF k
  <2>2. kind[i] \notin Unhooked => v = s.st \/ (v = wf[i] /\ s.st = row[i].st)
    BY <1>6, <1>18
  <2>3. (kind[i] = "rating_history" /\ s.st # "ABSENT") =>
               Exists(i) /\ s.body.to = row[i].body.to /\ s.body.ref = row[i].body.ref
    BY <1>7, <1>15, <1>21 DEF k, b
  <2>4. (kind[i] = "rating_history" /\ Alive(s) /\ s.st = "APPROVED") =>
               Live(i) /\ row[i].st = "APPROVED" /\ s.body = row[i].body
    BY <1>6, <1>17 DEF k
  <2>5. (kind[i] = "counterparty" /\ Exists(i) /\ Alive(s)) =>
               Live(i) /\ s.body.val = row[i].body.val
    BY <1>7, <1>9, <1>16 DEF k, b
  <2>6. Valid(kind[i], s.body) /\ (kind[i] = "bobot_skenario" => s.body.key \in Skenarios)
    BY <1>7, <1>12, <1>13 DEF k
  <2>7. (kind[i] = "bobot_skenario" /\ Alive(s)) =>
               raced' \/ crowded' \/ BobotDuplicates(s.body, Ids \ {i}) = {}
    BY <1>7, <1>13 DEF k
  <2>8. (~raced' /\ Alive(s) /\ Targets(kind[i]) # {} /\ s.body.ref # 0) =>
               (Live(i) /\ s.body.ref = row[i].body.ref) \/ Resolves(kind[i], s.body.ref)
    BY <1>7, <1>9, <1>14 DEF k, b
  <2>9. row[i].st = "APPROVED" => s.st = "APPROVED"
    BY <1>6
  <2>10. MayBecome(i, s, v)
    BY <1>21, <2>1, <2>2, <2>3, <2>4, <2>5, <2>6, <2>7, <2>8, <2>9 DEF MayBecome
  <2> QED BY <1>1, <1>3, <1>4, <1>5, <1>6, <1>18, <1>19, <2>10, OneRowPromises

LEMMA CommitDeletePromise == ASSUME IInv, JInv, NEW c \in Clients, CommitDelete(c) PROVE JInv'
<1> DEFINE r == req[c]
           i == r.id
           s == IF Live(i) THEN ErasedRow(i) ELSE row[i]
<1>1. r.op = "delete" /\ row' = [row EXCEPT ![i] = s] /\ UNCHANGED wf /\ Commit(c) /\ crowded' = crowded
  BY DEF CommitDelete
<1>2. r \in RequestType /\ Promise(r)
  BY DEF IInv, TypeOK, JInv, Promises
<1>3. i \in Ids /\ r # Idle
  BY <1>1, <1>2, RequestParts DEF Idle
<1>4. Overtaken /\ raced' \in BOOLEAN /\ (raced => raced') /\ UNCHANGED kind /\ (~raced' => r.quiet)
  BY <1>1, <1>3, CommitMarks
<1>5. /\ row \in [Ids -> RowType] /\ wf \in [Ids -> Statuses] /\ kind \in [Ids -> Kinds] /\ crowded' \in BOOLEAN
      /\ raced \in BOOLEAN
  BY <1>1, <1>3, Kinded DEF IInv, TypeOK
<1>6. /\ s \in RowType /\ s.st = row[i].st /\ s.ver >= row[i].ver /\ s.body = row[i].body
      /\ s.del \/ (s = row[i] /\ ~Live(i))
  BY <1>3, <1>5, ErasedOK, RowColumns
<1>7. ~raced' => \A j \in Ids : i \notin Referenced(j)
  BY <1>1, <1>2, <1>4, <1>5 DEF Promise, DeletePromise
<1>8. PICK v : v = wf[i] /\ wf' = [wf EXCEPT ![i] = v]
  BY <1>1, <1>5
<1>9. ~Alive(s) /\ (s.st # "ABSENT" => Exists(i))
  BY <1>6 DEF Alive, Live, Exists
<1> HIDE DEF s, r, i
<1>10. WeightsAddUp'
  <2>1. \A j \in Ids : (kind[j] = "bobot_skenario" /\ Live(j)' /\ row'[j].st = "APPROVED") =>
               Live(j) /\ row[j].st = "APPROVED" /\ row'[j].body = row[j].body
    BY <1>1, <1>3, <1>5, <1>9 DEF Live, Exists, Alive
  <2> QED BY <1>1, <1>4, <2>1, AddUpKept
<1> QED
  <2>1. v = s.st \/ (v = wf[i] /\ s.st = row[i].st)
    BY <1>6, <1>8
  <2>2. s.st # "ABSENT" => Exists(i) /\ s.body.to = row[i].body.to /\ s.body.ref = row[i].body.ref
    BY <1>6, <1>9
  <2>3. s.st # "ABSENT" => Exists(i) /\ s.body = row[i].body
    BY <1>6, <1>9
  <2>4. s.ver >= row[i].ver /\ (s.ver = row[i].ver => s.body = row[i].body)
    BY <1>6
  <2>5. /\ (~raced' /\ Live(i)) => \A j \in Ids : i \notin Referenced(j)
        /\ row[i].st = "APPROVED" => s.st = "APPROVED"
    BY <1>6, <1>7
  <2>6. /\ Overtaken /\ UNCHANGED kind /\ (raced => raced') /\ (crowded => crowded') /\ raced' \in BOOLEAN
        /\ crowded' \in BOOLEAN /\ i \in Ids /\ s \in RowType /\ row' = [row EXCEPT ![i] = s]
        /\ wf' = [wf EXCEPT ![i] = v]
    BY <1>1, <1>3, <1>4, <1>5, <1>6, <1>8
  <2>7. MayBecome(i, s, v)
    BY <1>9, <2>1, <2>2, <2>3, <2>4, <2>5 DEF MayBecome
  <2> QED BY <1>10, <2>6, <2>7, OneRowPromises

-----------------------------------------------------------------------------
(* Transitions.                                                             *)
LEMMA HookedStatus ==
    ASSUME kind \in [Ids -> Kinds], NEW i \in Ids, row[i] \in RowType, NEW to \in Statuses
    PROVE  IF kind[i] \in Unhooked THEN StatusRow(i, to) = row[i] ELSE StatusRow(i, to).st = to
<1>1. IF kind[i] \in Unhooked THEN StatusRow(i, to) = row[i] ELSE StatusRow(i, to) = Moved(i, to)
  BY DEF StatusRow, Unhooked, Kinds, BobotStatus, PdStatus, LpsStatus, ImpactPdStatus, ImpactMevStatus,
         RatingStatus, CounterpartyStatus, PortofolioStatus, KursStatus, InstrumenStatus, CoaStatus,
         MappingStatus
<1>2. Moved(i, to).st = to
  BY RowColumns DEF Moved
<1> QED BY <1>1, <1>2

(* The approval that completes a period: the hook's siblings, drafts        *)
(* included, are then just the other approved rows.                         *)
LEMMA ApprovalAddsUp ==
    ASSUME IInv, JInv, UNCHANGED kind, ~raced, ~crowded,
           NEW i \in LiveRows("bobot_skenario"), NEW s \in RowType, row' = [row EXCEPT ![i] = s],
           s.body = row[i].body, s.st = "APPROVED", ~s.del,
           BobotSum(row[i].body, i) + row[i].body.val = SumTarget,
           NEW x \in Approved("bobot_skenario")',
           ({row[j].body.key : j \in ApprovedOf(row[x].body)} = Skenarios)'
    PROVE  Weight(ApprovedOf(row[x].body))' = SumTarget
<1>1. row \in [Ids -> RowType] /\ i \in Ids /\ kind[i] = "bobot_skenario" /\ Live(i)
  BY DEF IInv, TypeOK, LiveRows
<1>2. \A j \in Ids : row'[j] = IF j = i THEN s ELSE row[j]
  BY <1>1
<1>3. \A j \in Ids : row'[j].body = row[j].body /\ (Live(j)' <=> Live(j))
  BY <1>1, <1>2 DEF Live, Exists
<1>4. \A j \in Ids \ {i} : j \in Approved("bobot_skenario")' <=> j \in Approved("bobot_skenario")
  BY <1>2, <1>3 DEF Approved, LiveRows
<1>5. PICK T : T = ApprovedOf(row[x].body)'
  OBVIOUS
<1>6. x \in Ids /\ row'[x].body = row[x].body
  BY <1>3 DEF Approved, LiveRows
<1>7. \A j : j \in T <=> /\ j \in Approved("bobot_skenario")'
                         /\ row[j].body.from = row[x].body.from /\ row[j].body.to = row[x].body.to
  <2>1. \A j \in Approved("bobot_skenario")' : row'[j].body = row[j].body
    BY <1>3 DEF Approved, LiveRows
  <2> QED BY <1>5, <1>6, <2>1 DEF ApprovedOf
<1>8. T \in SUBSET Ids
  BY <1>7 DEF Approved, LiveRows
<1>9. {row[j].body.key : j \in T} = Skenarios
  BY <1>3, <1>5, <1>8
<1>10. CASE i \notin T
  <2>1. \A j \in ApprovedOf(row[x].body)' : j \in Approved("bobot_skenario") /\ row'[j].body = row[j].body
    BY <1>3, <1>4, <1>5, <1>7, <1>8, <1>10
  <2> QED BY <2>1, SumKept DEF JInv
<1>11. CASE i \in T
  <2> DEFINE S == Siblings(row[i].body, i)
  <2>1. row[i].body.from = row[x].body.from /\ row[i].body.to = row[x].body.to
    BY <1>7, <1>11
  <2>2. ASSUME NEW j \in T \ {i} PROVE j \in S
    <3>1. j \in Approved("bobot_skenario") /\ row[j].body.from = row[x].body.from /\ row[j].body.to = row[x].body.to
      BY <1>4, <1>7, <1>8
    <3> QED BY <2>1, <2>2, <3>1 DEF Siblings, Approved
  <2>3. ASSUME NEW j \in S PROVE j \in T \ {i}
    <3>1. /\ j \in LiveRows("bobot_skenario") /\ j # i /\ j \in Rows("bobot_skenario")
          /\ row[j].body.from = row[x].body.from /\ row[j].body.to = row[x].body.to
      BY <2>1 DEF Siblings, LiveRows, Live, Rows
    <3>2. row[j].body.key \in Skenarios
      BY <3>1 DEF JInv, RowsValid
    <3>3. PICK t \in T : row[t].body.key = row[j].body.key
      BY <1>9, <3>2
    <3>4. t \in LiveRows("bobot_skenario") /\ row[t].body.from = row[j].body.from /\ row[t].body.to = row[j].body.to
      BY <1>3, <1>7, <1>8, <3>1 DEF Approved, LiveRows
    <3>5. t # j => t \in BobotDuplicates(row[j].body, Ids \ {j})
      BY <3>1, <3>3, <3>4 DEF BobotDuplicates, LiveRows
    <3>6. t = j
      BY <3>1, <3>5 DEF JInv, WeightsApart
    <3> QED BY <3>1, <3>6
  <2>4. S = T \ {i}
    BY <2>2, <2>3
  <2>5. Weight(T) = row[i].body.val + Weight(S)
    BY <1>1, <1>8, <1>11, <2>4, WeightStep
  <2>6. Weight(T)' = Weight(T)
    BY <1>1, <1>3, <1>8, WeightSame
  <2>7. BobotSum(row[i].body, i) = Weight(S)
    BY DEF BobotSum
  <2>8. Weight(S) \in Int /\ row[i].body.val \in Int
    <3>1. S \in SUBSET Ids /\ row[i].body \in BodyType
      BY <1>1, RowColumns DEF Siblings, LiveRows
    <3>2. IsFiniteSet(S) /\ \A j \in S : [k \in S |-> row[k].body.val][j] \in Int
      BY <1>1, <3>1, RowWeights
    <3>3. Weight(S) = SumFunctionOnSet([k \in S |-> row[k].body.val], S)
      BY DEF Weight
    <3> DEFINE f == [k \in S |-> row[k].body.val]
    <3> HIDE DEF f, S
    <3>4. SumFunctionOnSet(f, S) \in Int
      BY <3>2, SumTyped DEF f
    <3> QED BY <3>1, <3>3, <3>4 DEF f, BodyType
  <2> HIDE DEF S
  <2>9. Weight(T) = SumTarget
    BY <2>5, <2>7, <2>8
  <2> QED BY <1>5, <2>6, <2>9
<1> QED BY <1>10, <1>11

LEMMA StatusMovePromise ==
    ASSUME IInv, JInv, NEW c \in Clients, CommitMove(c),
           ~(kind[req[c].id] = "rating_history" /\ req[c].to = "APPROVED")
    PROVE  JInv'
<1> DEFINE r == req[c]
           i == r.id
           s == StatusRow(i, r.to)
<1>1. /\ r.op = "move" /\ <<wf[i], r.to>> \in Steps /\ HookPasses(i, r)
      /\ row' = [row EXCEPT ![i] = s] /\ wf' = [wf EXCEPT ![i] = r.to] /\ Commit(c) /\ crowded' = crowded
  BY DEF CommitMove
<1>2. r \in RequestType /\ RequestOK(r) /\ Promise(r)
  BY DEF IInv, TypeOK, RequestsOK, JInv, Promises
<1>3. i \in Ids /\ r.to \in Statuses /\ r # Idle /\ r.to # "ABSENT" /\ Exists(i)
  BY <1>1, <1>2, RequestParts DEF Idle, Steps, RequestOK, MoveOK
<1>4. Overtaken /\ raced' \in BOOLEAN /\ (raced => raced') /\ UNCHANGED kind /\ (~raced' => r.quiet)
  BY <1>1, <1>3, CommitMarks
<1>5. /\ row \in [Ids -> RowType] /\ wf' \in [Ids -> Statuses] /\ kind \in [Ids -> Kinds] /\ crowded' \in BOOLEAN
      /\ raced \in BOOLEAN
  BY <1>1, <1>3, Kinded DEF IInv, TypeOK
<1>6. /\ s \in RowType /\ s.del = row[i].del /\ s.body = row[i].body
      /\ s = row[i] \/ (s.st = r.to /\ s.ver = row[i].ver + 1)
  BY <1>3, <1>5, StatusOK
<1>7. IF kind[i] \in Unhooked THEN s = row[i] ELSE s.st = r.to
  BY <1>3, <1>5, HookedStatus
<1>8. row[i].ver \in Nat /\ s.st # "ABSENT"
  BY <1>3, <1>5, <1>6, RowColumns DEF Exists
<1>9. row[i].st = "APPROVED" => s.st = "APPROVED"
  <2>1. wf[i] # "APPROVED"
    BY <1>1 DEF Steps
  <2>2. kind[i] \in Unhooked \/ wf[i] = row[i].st
    BY <1>3 DEF JInv, InStep
  <2> QED BY <1>7, <2>1, <2>2
<1>10. Alive(s) <=> Live(i)
  BY <1>3, <1>6, <1>8 DEF Alive, Live
<1>11. (kind[i] = "rating_history" /\ s.st = "APPROVED") => row[i].st = "APPROVED"
  BY <1>6
<1>12. (kind[i] = "bobot_skenario" /\ s.st = "APPROVED" /\ Live(i) /\ ~raced') =>
           BobotSum(row[i].body, i) + row[i].body.val = SumTarget
  <2> SUFFICES ASSUME kind[i] = "bobot_skenario", s.st = "APPROVED", ~raced'
               PROVE  BobotSum(row[i].body, i) + row[i].body.val = SumTarget
    OBVIOUS
  <2>1. r.to = "APPROVED"
    BY <1>7 DEF Unhooked
  <2>2. BobotHook(i, r.body, r.to, r.second)
    BY <1>1 DEF HookPasses
  <2>3. r.second /\ r.body = row[i].body
    BY <1>1, <1>2, <1>4 DEF Promise, MovePromise
  <2> QED BY <2>1, <2>2, <2>3 DEF BobotHook
<1> DEFINE to == r.to
<1>13. wf' = [wf EXCEPT ![i] = to] /\ (kind[i] \notin Unhooked => to = s.st)
  BY <1>1, <1>7
<1> HIDE DEF s, r, i, to
<1>14. WeightsAddUp'
  <2>0. \A j \in Ids : row'[j] = IF j = i THEN s ELSE row[j]
    BY <1>1, <1>5
  <2>1. CASE kind[i] = "bobot_skenario" /\ s.st = "APPROVED" /\ Live(i)
    <3>1. i \in LiveRows("bobot_skenario") /\ ~s.del
      BY <1>3, <1>6, <2>1 DEF LiveRows, Live
    <3> SUFFICES ASSUME ~raced', ~crowded', NEW x \in Approved("bobot_skenario")',
                        ({row[j].body.key : j \in ApprovedOf(row[x].body)} = Skenarios)'
                 PROVE  Weight(ApprovedOf(row[x].body))' = SumTarget
      BY DEF WeightsAddUp, AddUp
    <3>2. ~raced /\ ~crowded
      BY <1>1, <1>4
    <3> QED BY <1>1, <1>4, <1>6, <1>12, <2>1, <3>1, <3>2, ApprovalAddsUp
  <2>2. CASE ~(kind[i] = "bobot_skenario" /\ s.st = "APPROVED" /\ Live(i))
    <3>1. \A j \in Ids : (kind[j] = "bobot_skenario" /\ Live(j)' /\ row'[j].st = "APPROVED") =>
               Live(j) /\ row[j].st = "APPROVED" /\ row'[j].body = row[j].body
      BY <1>3, <1>6, <2>0, <2>2 DEF Live, Exists
    <3> QED BY <1>1, <1>4, <3>1, AddUpKept
  <2> QED BY <2>1, <2>2
<1>15. s.ver >= row[i].ver
  BY <1>6, <1>8
<1>16. MayBecome(i, s, to)
  <2>1. kind[i] \notin Unhooked => to = s.st \/ (to = wf[i] /\ s.st = row[i].st)
    BY <1>13
  <2>2. s.body.to = row[i].body.to /\ s.body.ref = row[i].body.ref /\ s.body.val = row[i].body.val
    BY <1>6
  <2> QED BY <1>3, <1>6, <1>9, <1>10, <1>11, <1>15, <2>1, <2>2 DEF MayBecome
<1> QED BY <1>1, <1>3, <1>4, <1>5, <1>6, <1>13, <1>14, <1>16, OneRowPromises

(* The approval of a rating that replaces none.                             *)
LEMMA RatingEntries ==
    ASSUME IInv, NEW i \in Rows("rating_history"), NEW j \in Ids
    PROVE  LET s == RatingApproved(i, FALSE)[j] b == row[i].body IN
           /\ j = i => s.st = "APPROVED" /\ s.ver = row[i].ver + 2 /\ s.body = b /\ s.del = row[i].del
           /\ (j = b.ref /\ ~row[j].del) =>
                 /\ s.st = row[j].st /\ s.ver = row[j].ver + 1 /\ s.del = row[j].del
                 /\ s.body = [row[j].body EXCEPT !.val = b.val]
           /\ (j # i /\ ~(j = b.ref /\ ~row[j].del)) => s = row[j]
<1> DEFINE b == row[i].body
           m == RatingFlags(RatingStatus(i, "APPROVED"))
           f == [row EXCEPT ![i] = m]
           g == f[j]
           s == RatingApproved(i, FALSE)[j]
<1>1. s = IF j = b.ref /\ ~g.del THEN [g EXCEPT !.body.val = b.val, !.ver = @ + 1] ELSE g
  BY DEF RatingApproved
<1>2. /\ i \in Ids /\ row \in [Ids -> RowType] /\ kind[i] = "rating_history" /\ kind[b.ref] = "counterparty"
  BY DEF IInv, TypeOK, RatingsOK, Rows
<1>3. row[i] \in RowType /\ row[j] \in RowType
  BY <1>2
<1>4. m = [[row[i] EXCEPT !.st = "APPROVED", !.ver = @ + 1] EXCEPT !.ver = @ + 1]
  BY DEF RatingFlags, RatingStatus, Moved
<1>5. row[i].ver \in Nat /\ DOMAIN row[i] = {"st", "ver", "del", "body"}
  BY <1>3, RowColumns
<1>6. m.st = "APPROVED" /\ m.ver = row[i].ver + 2 /\ m.body = b /\ m.del = row[i].del
  <2> DEFINE a == [row[i] EXCEPT !.st = "APPROVED", !.ver = @ + 1]
  <2>1. /\ a.st = "APPROVED" /\ a.ver = row[i].ver + 1 /\ a.body = b /\ a.del = row[i].del
        /\ DOMAIN a = {"st", "ver", "del", "body"}
    BY <1>3, <1>5
  <2>2. m = [a EXCEPT !.ver = a.ver + 1]
    BY <1>4
  <2>3. row[i].ver + 1 + 1 = row[i].ver + 2
    BY <1>5
  <2> HIDE DEF m, a, b
  <2> QED BY <2>1, <2>2, <2>3
<1>7. g = IF j = i THEN m ELSE row[j]
  BY <1>2
<1>8. j = b.ref => j # i
  BY <1>2
<1> HIDE DEF m, f, g, s, b
<1>9. CASE j = b.ref /\ ~row[j].del
  <2>1. g = row[j] /\ DOMAIN g = {"st", "ver", "del", "body"}
    BY <1>3, <1>7, <1>8, <1>9, RowColumns
  <2>2. s = [g EXCEPT !.body.val = b.val, !.ver = @ + 1]
    BY <1>1, <1>9, <2>1
  <2>3. s.st = g.st /\ s.ver = g.ver + 1 /\ s.del = g.del /\ s.body = [g.body EXCEPT !.val = b.val]
    BY <2>1, <2>2
  <2> QED BY <1>8, <1>9, <2>1, <2>3 DEF s, b
<1>10. CASE ~(j = b.ref /\ ~row[j].del)
  <2>1. s = g
    BY <1>1, <1>6, <1>7, <1>8, <1>10
  <2> QED BY <1>6, <1>7, <1>10, <2>1 DEF s, b
<1> QED BY <1>9, <1>10

LEMMA CounterpartyValidity ==
    ASSUME NEW b \in BodyType, NEW v \in Nat, Valid("counterparty", b)
    PROVE  Valid("counterparty", [b EXCEPT !.val = v])
<1>1. "counterparty" \in Kinds /\ [b EXCEPT !.val = v] \in BodyType
  BY DEF Kinds, BodyType
<1>2. [b EXCEPT !.val = v].key = b.key /\ [b EXCEPT !.val = v].from = b.from
  BY DEF BodyType
<1>3. /\ Validated("counterparty") = {"key", "from"} /\ \A d : Related("counterparty", d)
  BY DEF Validated, Related
<1> QED BY <1>1, <1>2, <1>3, ValidParts

LEMMA RatingMovePromise ==
    ASSUME IInv, JInv, NEW c \in Clients, CommitMove(c),
           kind[req[c].id] = "rating_history", req[c].to = "APPROVED"
    PROVE  JInv'
<1> DEFINE r == req[c]
           i == r.id
           b == row[i].body
<1>1. /\ r.op = "move" /\ row' = RatingApproved(i, r.prior) /\ wf' = [wf EXCEPT ![i] = "APPROVED"] /\ Commit(c)
      /\ crowded' = crowded
  BY DEF CommitMove
<1>2. r \in RequestType /\ RequestOK(r) /\ Promise(r)
  BY DEF IInv, TypeOK, RequestsOK, JInv, Promises
<1>3. i \in Ids /\ r.to \in Statuses /\ r # Idle /\ Exists(i) /\ r.prior \in BOOLEAN
  BY <1>1, <1>2, RequestParts DEF Idle, RequestOK, MoveOK, RequestType
<1>4. Overtaken /\ raced' \in BOOLEAN /\ (raced => raced') /\ UNCHANGED kind
  BY <1>1, <1>3, CommitMarks
<1>5. /\ row \in [Ids -> RowType] /\ wf \in [Ids -> Statuses] /\ crowded' \in BOOLEAN
      /\ raced \in BOOLEAN /\ crowded \in BOOLEAN
  BY <1>1 DEF IInv, TypeOK
<1>6. i \in Rows("rating_history") /\ kind[i] = "rating_history"
  BY <1>3 DEF Rows
<1>7. row' = RatingApproved(i, FALSE)
  BY <1>1, <1>2, <1>3 DEF Promise, MovePromise
<1>8. b.ref \in Rows("counterparty") /\ b \in BodyType
  BY <1>5, <1>6, RowColumns DEF IInv, RatingsOK, Rows
<1>9. row' \in [Ids -> RowType] /\ \A j \in Ids : Evolves(row[j], row'[j])
  <2>1. row' = [j \in Ids |-> row'[j]]
    BY <1>7, RatingColumn
  <2>2. \A j \in Ids : row'[j] \in RowType /\ Evolves(row[j], row'[j])
    <3> HIDE DEF i
    <3> QED BY <1>6, <1>7, RatingRows
  <2> QED BY <2>1, <2>2
<1>10. ASSUME NEW j \in Ids
       PROVE  /\ j = i => /\ row'[j].st = "APPROVED" /\ row'[j].ver = row[i].ver + 2
                          /\ row'[j].body = b /\ row'[j].del = row[i].del
              /\ (j = b.ref /\ ~row[j].del) =>
                    /\ row'[j].st = row[j].st /\ row'[j].ver = row[j].ver + 1 /\ row'[j].del = row[j].del
                    /\ row'[j].body = [row[j].body EXCEPT !.val = b.val]
              /\ (j # i /\ ~(j = b.ref /\ ~row[j].del)) => row'[j] = row[j]
  <2> HIDE DEF i
  <2> QED BY <1>6, <1>7, RatingEntries
<1>11. ASSUME NEW j \in Ids
       PROVE  /\ row[j].ver \in Nat /\ row[j].body \in BodyType
              /\ kind[j] = "counterparty" \/ row'[j].body = row[j].body
              /\ row'[j].body.key = row[j].body.key /\ row'[j].body.ref = row[j].body.ref
              /\ row'[j].body.from = row[j].body.from /\ row'[j].body.to = row[j].body.to
              /\ Live(j)' <=> Live(j)
              /\ Exists(j)' <=> Exists(j)
              /\ j = i \/ row'[j].st = row[j].st
  <2>1. row[j].ver \in Nat /\ row[j].body \in BodyType
    BY <1>5, RowColumns
  <2>2. kind[b.ref] = "counterparty"
    BY <1>8 DEF Rows
  <2>3. CASE j = i
    BY <1>3, <1>10, <2>1, <2>3 DEF Live, Exists
  <2>4. CASE j # i /\ j = b.ref /\ ~row[j].del
    <3> DEFINE e == [row[j].body EXCEPT !.val = b.val]
    <3>1. e.key = row[j].body.key /\ e.ref = row[j].body.ref /\ e.from = row[j].body.from
          /\ e.to = row[j].body.to
      BY <2>1 DEF BodyType
    <3>2. row'[j].body = e
      BY <1>10, <2>4
    <3> HIDE DEF e, b, r, i
    <3> QED BY <1>10, <2>1, <2>2, <2>4, <3>1, <3>2 DEF Live, Exists
  <2>5. CASE j # i /\ ~(j = b.ref /\ ~row[j].del)
    <3>1. row'[j] = row[j]
      BY <1>10, <2>5
    <3> QED BY <2>1, <2>5, <3>1 DEF Live, Exists
  <2> QED BY <2>3, <2>4, <2>5
<1> HIDE DEF r, i, b
<1>12. Promises'
  <2>1. ASSUME NEW j \in Ids, Exists(j), kind[j] # "mapping_jurnal"
        PROVE  row'[j].ver >= row[j].ver /\ (row'[j].ver = row[j].ver => row'[j].body = row[j].body)
    <3>0. row[j].ver \in Nat
      BY <1>11
    <3>1. CASE j = i
      <4>1. row'[j].ver = row[j].ver + 2
        BY <1>10, <3>1
      <4> QED BY <3>0, <4>1
    <3>2. CASE j # i /\ j = b.ref /\ ~row[j].del
      <4>1. row'[j].ver = row[j].ver + 1
        BY <1>10, <3>2
      <4> QED BY <3>0, <4>1
    <3>3. CASE j # i /\ ~(j = b.ref /\ ~row[j].del)
      <4>1. row'[j] = row[j] /\ row[j].ver \in Nat
        BY <1>10, <1>11, <3>3
      <4> QED BY <4>1
    <3> QED BY <3>1, <3>2, <3>3
  <2> QED BY <1>4, <1>9, <2>1, PromisesKept DEF JInv, VersionTells
<1>13. InStep'
  <2>1. \A j \in Ids : \/ wf'[j] = row'[j].st
                       \/ wf'[j] = wf[j] /\ row'[j].st = row[j].st
    BY <1>1, <1>5, <1>10, <1>11
  <2> QED BY <1>4, <2>1, InStepKept DEF JInv
<1>14. OneRating'
  BY <1>4, <1>11, OneRatingKept DEF JInv
<1>15. RatingCacheFresh'
  <2> SUFFICES ASSUME NEW k \in Approved("rating_history")', Live(row[k].body.ref)'
               PROVE  (row[row[k].body.ref].body.val = row[k].body.val)'
    BY DEF RatingCacheFresh
  <2>1. k \in Ids /\ kind[k] = "rating_history" /\ Live(k) /\ k \in Rows("rating_history")
        /\ row'[k].body = row[k].body /\ row'[k].st = "APPROVED"
    BY <1>4, <1>11 DEF Approved, LiveRows, Live, Rows
  <2>2. row[k].body.ref \in Rows("counterparty")
    BY <2>1 DEF IInv, RatingsOK
  <2> DEFINE d == row[k].body.ref
  <2>3. d \in Ids /\ kind[d] = "counterparty" /\ Live(d) /\ d # i
    BY <1>6, <1>11, <2>1, <2>2 DEF Rows
  <2> HIDE DEF d
  <2>4. CASE k = i
    <3>1. d = b.ref /\ ~row[d].del
      BY <2>3, <2>4 DEF d, b, Live
    <3>2. row'[d].body = [row[d].body EXCEPT !.val = b.val] /\ row[d].body \in BodyType
      BY <1>10, <1>11, <2>3, <3>1
    <3>3. row'[d].body.val = b.val
      BY <3>2 DEF BodyType
    <3> QED BY <2>1, <2>4, <3>3 DEF d, b
  <2>5. CASE k # i
    <3>1. d # b.ref
      BY <1>6, <2>1, <2>5 DEF JInv, OneRating, d, b
    <3>2. row'[d] = row[d]
      BY <1>10, <2>3, <3>1
    <3>3. k \in Approved("rating_history")
      BY <1>11, <2>1, <2>5 DEF Approved, LiveRows
    <3> QED BY <2>1, <2>3, <3>2, <3>3 DEF JInv, RatingCacheFresh, d
  <2> QED BY <2>4, <2>5
<1>16. RowsValid'
  <2>1. ASSUME NEW j \in Ids, Exists(j)'
        PROVE  \/ Exists(j) /\ row'[j].body = row[j].body
               \/ /\ Valid(kind[j], row'[j].body)
                  /\ kind[j] = "bobot_skenario" => row'[j].body.key \in Skenarios
    <3>1. Exists(j)
      BY <1>11, <2>1
    <3>2. CASE j = b.ref /\ ~row[j].del
      <4>1. row'[j].body = [row[j].body EXCEPT !.val = b.val] /\ kind[j] = "counterparty" /\ b.val \in Nat
        BY <1>8, <1>10, <3>2 DEF Rows, BodyType
      <4>2. Valid("counterparty", row[j].body) /\ row[j].body \in BodyType
        BY <1>11, <3>1, <4>1 DEF JInv, RowsValid
      <4> QED BY <4>1, <4>2, CounterpartyValidity
    <3>3. CASE j = i
      BY <1>10, <3>1, <3>3 DEF b
    <3>4. CASE j # i /\ ~(j = b.ref /\ ~row[j].del)
      BY <1>10, <3>1, <3>4
    <3> QED BY <3>2, <3>3, <3>4
  <2> QED BY <1>4, <2>1, ValidKept DEF JInv
<1>17. WeightsApart'
  BY <1>1, <1>4, <1>5, <1>11, ApartKept DEF JInv
<1>18. WeightsAddUp'
  <2>1. \A j \in Ids : (kind[j] = "bobot_skenario" /\ Live(j)' /\ row'[j].st = "APPROVED") =>
               Live(j) /\ row[j].st = "APPROVED" /\ row'[j].body = row[j].body
    BY <1>6, <1>11
  <2> QED BY <1>1, <1>4, <2>1, AddUpKept
<1>19. ReferencesResolve'
  <2>1. ASSUME NEW k \in Ids, NEW j \in Referenced(k)'
        PROVE  /\ j \in Referenced(k)
               /\ Live(j) => /\ Live(j)'
                             /\ row[j].st = "APPROVED" => row'[j].st = "APPROVED"
    <3>1. j \in Referenced(k) /\ j = row[k].body.ref /\ j # 0
      BY <1>4, <1>11 DEF Referenced, Targets
    <3>2. j \in Ids
      BY <1>11, <3>1 DEF BodyType
    <3>3. row[j].st = "APPROVED" => row'[j].st = "APPROVED"
      BY <1>10, <1>11, <3>2
    <3> QED BY <1>11, <3>1, <3>2, <3>3
  <2> QED BY <1>4, <1>5, <1>9, <2>1, RefsKept DEF JInv
<1> QED BY <1>12, <1>13, <1>14, <1>15, <1>16, <1>17, <1>18, <1>19 DEF JInv

-----------------------------------------------------------------------------
(* Drafts inserted several at a time, of a kind that refers to nothing.     *)
Drafted(i, k) ==
    /\ kind[i] = k /\ ~Exists(i) /\ wf'[i] = "DRAFT"
    /\ \E b \in BodyType : /\ row'[i] = Inserted(b) /\ Valid(k, b)
                           /\ k = "bobot_skenario" => b.key \in Skenarios

LEMMA ManyDraftsPromises ==
    ASSUME IInv, JInv, Overtaken, UNCHANGED kind, raced => raced', crowded => crowded',
           row' = [i \in Ids |-> row'[i]], NEW k \in Kinds \ {"rating_history"}, Targets(k) = {},
           \A i \in Ids : (row'[i] = row[i] /\ wf'[i] = wf[i]) \/ Drafted(i, k),
           (k = "bobot_skenario" /\ ~raced' /\ ~crowded') => \A i, j \in Ids :
               (i # j /\ Drafted(i, k) /\ kind[j] = k /\ Live(j)') =>
                   ~ /\ row'[j].body.key = row'[i].body.key
                     /\ row'[j].body.from = row'[i].body.from /\ row'[j].body.to = row'[i].body.to
    PROVE  JInv'
<1>0. row \in [Ids -> RowType] /\ raced \in BOOLEAN /\ crowded \in BOOLEAN
  BY DEF IInv, TypeOK
<1>1. ASSUME NEW i \in Ids, Drafted(i, k)
      PROVE  /\ row'[i] \in RowType /\ row'[i].st = "DRAFT" /\ ~row'[i].del /\ wf'[i] = "DRAFT"
             /\ ~Exists(i) /\ ~Live(i) /\ kind[i] = k /\ Exists(i)' /\ Valid(k, row'[i].body)
             /\ k = "bobot_skenario" => row'[i].body.key \in Skenarios
  <2>1. PICK b \in BodyType : /\ row'[i] = Inserted(b) /\ Valid(k, b)
                              /\ k = "bobot_skenario" => b.key \in Skenarios
    BY <1>1 DEF Drafted
  <2>2. Inserted(b) \in RowType /\ Inserted(b).st = "DRAFT" /\ ~Inserted(b).del /\ Inserted(b).body = b
    BY NewRow
  <2> QED BY <1>1, <2>1, <2>2 DEF Drafted, Live, Exists
<1>2. \A i \in Ids : Drafted(i, k) \/ (row'[i] = row[i] /\ wf'[i] = wf[i])
  OBVIOUS
<1>3. row' \in [Ids -> RowType]
  <2>1. \A i \in Ids : row'[i] \in RowType
    BY <1>0, <1>1, <1>2
  <2> QED BY <2>1
<1>4. ASSUME NEW i \in Ids, ~Drafted(i, k)
      PROVE  /\ row'[i] = row[i] /\ wf'[i] = wf[i] /\ (Live(i)' <=> Live(i)) /\ (Exists(i)' <=> Exists(i))
  BY <1>2, <1>4 DEF Live, Exists
<1> HIDE DEF Drafted
<1>5. Promises'
  <2>1. VersionTells
    <3> SUFFICES ASSUME NEW i \in Ids, Exists(i) PROVE row'[i] = row[i] /\ row[i].ver >= row[i].ver
      BY DEF VersionTells
    <3>1. row[i].ver \in Nat
      BY <1>0, RowColumns
    <3> QED BY <1>1, <1>2, <3>1
  <2> QED BY <1>3, <2>1, PromisesKept DEF JInv
<1>6. InStep'
  <2>1. \A i \in Ids : wf'[i] = row'[i].st \/ (wf'[i] = wf[i] /\ row'[i].st = row[i].st)
    BY <1>1, <1>2
  <2> QED BY <2>1, InStepKept DEF JInv
<1>7. OneRating'
  <2>1. \A i \in Ids : (kind[i] = "rating_history" /\ Exists(i)') =>
               Exists(i) /\ row'[i].body.to = row[i].body.to /\ row'[i].body.ref = row[i].body.ref
    BY <1>1, <1>4
  <2> QED BY <2>1, OneRatingKept DEF JInv
<1>8. RatingCacheFresh'
  <2>1. \A i \in Ids : (kind[i] = "rating_history" /\ Live(i)' /\ row'[i].st = "APPROVED") =>
               /\ Live(i) /\ row[i].st = "APPROVED"
               /\ row'[i].body.ref = row[i].body.ref /\ row'[i].body.val = row[i].body.val
    BY <1>1, <1>4
  <2>2. \A i \in Rows("counterparty") : Live(i)' => Live(i) /\ row'[i].body.val = row[i].body.val
    BY <1>1, <1>4 DEF Rows
  <2> QED BY <2>1, <2>2, CacheKept DEF JInv
<1>9. RowsValid'
  <2>1. \A i \in Ids : Exists(i)' =>
               \/ Exists(i) /\ row'[i].body = row[i].body
               \/ /\ Valid(kind[i], row'[i].body)
                  /\ kind[i] = "bobot_skenario" => row'[i].body.key \in Skenarios
    BY <1>1, <1>4
  <2> QED BY <2>1, ValidKept DEF JInv
<1>10. WeightsApart'
  <2>1. ASSUME NEW i \in Ids, kind[i] = "bobot_skenario", Live(i)'
        PROVE  \/ /\ Live(i) /\ row'[i].body.key = row[i].body.key
                  /\ row'[i].body.from = row[i].body.from /\ row'[i].body.to = row[i].body.to
               \/ raced' \/ crowded'
               \/ \A j \in Ids : (kind[j] = "bobot_skenario" /\ Live(j)' /\ j # i) =>
                      ~ /\ row'[j].body.key = row'[i].body.key
                        /\ row'[j].body.from = row'[i].body.from /\ row'[j].body.to = row'[i].body.to
    <3>1. CASE Drafted(i, k)
      <4>1. k = "bobot_skenario"
        BY <1>1, <2>1, <3>1
      <4> QED BY <3>1, <4>1
    <3>2. CASE ~Drafted(i, k)
      BY <1>4, <2>1, <3>2
    <3> QED BY <3>1, <3>2
  <2> QED BY <1>0, <2>1, ApartKept DEF JInv
<1>11. WeightsAddUp'
  <2>1. \A i \in Ids : (kind[i] = "bobot_skenario" /\ Live(i)' /\ row'[i].st = "APPROVED") =>
               Live(i) /\ row[i].st = "APPROVED" /\ row'[i].body = row[i].body
    BY <1>1, <1>4
  <2> QED BY <2>1, AddUpKept
<1>12. ReferencesResolve'
  <2>1. ASSUME NEW i \in Ids, NEW j \in Referenced(i)'
        PROVE  /\ j \in Referenced(i)
               /\ Live(j) => /\ Live(j)'
                             /\ row[j].st = "APPROVED" => row'[j].st = "APPROVED"
    <3>1. Targets(kind[i]) # {} /\ Live(i)' /\ j = row'[i].body.ref /\ j # 0
      BY DEF Referenced, Targets
    <3>2. row'[i].body \in BodyType
      BY <1>3, RowColumns
    <3>3. ~Drafted(i, k)
      BY <1>1, <3>1
    <3>4. j \in Ids /\ j \in Referenced(i)
      BY <1>4, <3>1, <3>2, <3>3 DEF BodyType, Referenced
    <3>5. Live(j) => ~Drafted(j, k)
      BY <1>1, <3>4
    <3> QED BY <1>4, <3>4, <3>5
  <2> QED BY <1>0, <1>3, <2>1, RefsKept DEF JInv
<1> QED BY <1>5, <1>6, <1>7, <1>8, <1>9, <1>10, <1>11, <1>12 DEF JInv

\* The body of a default scenario has its columns.
LEMMA SeedBody ==
    ASSUME NEW s \in Nat, NEW day \in Nat
    PROVE  LET b == [NoBody EXCEPT !.key = s, !.from = day, !.to = Open, !.val = 1] IN
           b \in BodyType /\ b.key = s /\ b.from = day /\ b.to = Open /\ b.val = 1
<1>1. Open \in Nat
  BY DEF Open
<1>2. PICK b : b = [[key |-> 0, ref |-> 0, from |-> 0, to |-> 0, val |-> 0]
                       EXCEPT !.key = s, !.from = day, !.to = Open, !.val = 1]
  OBVIOUS
<1>3. b = [key |-> s, ref |-> 0, from |-> day, to |-> Open, val |-> 1]
  BY <1>2
<1>4. b \in BodyType /\ b.key = s /\ b.from = day /\ b.to = Open /\ b.val = 1
  BY <1>1, <1>3 DEF BodyType
<1> QED BY <1>2, <1>4 DEF NoBody

LEMMA CommitSeedPromise == ASSUME IInv, JInv, NEW c \in Clients, CommitSeed(c) PROVE JInv'
<1> DEFINE r == req[c]
           k == "bobot_skenario"
           body == [s \in Skenarios |-> [NoBody EXCEPT !.key = s, !.from = r.from, !.to = Open, !.val = 1]]
<1>1. r.op = "seed" /\ Commit(c) /\ crowded' = (crowded \/ CountByPeriod(r.from) # {})
  BY DEF CommitSeed
<1>2. PICK f \in Injections(Skenarios, FreeIds(k)) : InsertAll(f, body)
  BY DEF CommitSeed
<1>3. r \in RequestType
  BY DEF IInv, TypeOK
<1>4. r # Idle /\ r.from \in Dates
  BY <1>1, <1>3 DEF Idle, RequestType
<1>5. Overtaken /\ (raced => raced') /\ UNCHANGED kind
  BY <1>1, <1>4, CommitMarks
<1>6. ASSUME NEW s \in Skenarios
      PROVE  /\ body[s] \in BodyType /\ body[s].key = s /\ body[s].from = r.from /\ body[s].to = Open
             /\ Valid(k, body[s])
  <2>1. s \in Nat /\ r.from \in Nat /\ r.from # Malformed
    BY <1>4, SkenariosAssumption DEF Dates, Malformed
  <2>2. PICK day \in Nat : day = r.from
    BY <2>1
  <2>3. body[s] = [NoBody EXCEPT !.key = s, !.from = day, !.to = Open, !.val = 1]
    BY <2>2
  <2>4. LET b == [NoBody EXCEPT !.key = s, !.from = day, !.to = Open, !.val = 1] IN
        b \in BodyType /\ b.key = s /\ b.from = day /\ b.to = Open /\ b.val = 1
    BY <2>1, SeedBody
  <2> HIDE DEF body, r
  <2>5. /\ body[s] \in BodyType /\ body[s].key = s /\ body[s].from = r.from /\ body[s].to = Open
        /\ body[s].val = 1
    BY <2>2, <2>3, <2>4
  <2>6. Valid(k, body[s])
    BY <2>1, <2>5, ValidParts DEF Validated, Related, Kinds, Open, Malformed
  <2> QED BY <2>5, <2>6
<1>7. body \in [Skenarios -> BodyType]
  BY <1>6
<1> HIDE DEF body
<1>8. /\ row' = [i \in Ids |-> row'[i]]
      /\ \A i \in Ids : \/ row'[i] = row[i] /\ wf'[i] = wf[i]
                        \/ \E s \in Skenarios : /\ f[s] = i /\ kind[i] = k /\ ~Exists(i)
                                                /\ row'[i] = Inserted(body[s]) /\ wf'[i] = "DRAFT"
  BY <1>2, <1>7, InsertedAll
<1>9. \A i \in Ids : (row'[i] = row[i] /\ wf'[i] = wf[i]) \/ Drafted(i, k)
  BY <1>6, <1>8 DEF Drafted
<1>10. ASSUME ~crowded', NEW i \in Ids, NEW j \in Ids, i # j, Drafted(i, k), kind[j] = k, Live(j)',
              row'[j].body.key = row'[i].body.key,
              row'[j].body.from = row'[i].body.from, row'[j].body.to = row'[i].body.to
       PROVE  FALSE
  <2>0. ~Exists(i) /\ row'[i].st = "DRAFT"
    <3>1. PICK b \in BodyType : row'[i] = Inserted(b)
      BY <1>10 DEF Drafted
    <3> QED BY <1>10, <3>1, NewRow DEF Drafted
  <2>1. PICK s \in Skenarios : f[s] = i /\ row'[i] = Inserted(body[s])
    BY <1>8, <2>0 DEF Exists
  <2>2. row'[i].body = body[s]
    BY <1>6, <2>1, NewRow
  <2>3. CASE row'[j] = row[j]
    <3>1. j \in LiveRows(k)
      BY <1>10, <2>3 DEF LiveRows, Live, Exists
    <3>2. j \in CountByPeriod(r.from)
      BY <1>6, <1>10, <2>2, <2>3, <3>1 DEF CountByPeriod
    <3> QED BY <1>1, <1>10, <3>2
  <2>4. CASE row'[j] # row[j]
    <3>1. PICK t \in Skenarios : f[t] = j /\ row'[j] = Inserted(body[t])
      BY <1>8, <2>4
    <3>2. row'[j].body = body[t]
      BY <1>6, <3>1, NewRow
    <3>3. s # t
      BY <1>10, <2>1, <3>1
    <3> QED BY <1>6, <1>10, <2>2, <3>2, <3>3
  <2> QED BY <2>3, <2>4
<1>11. k \in Kinds \ {"rating_history"} /\ Targets(k) = {}
  BY DEF Kinds, Targets
<1>12. crowded => crowded'
  BY <1>1
<1> HIDE DEF k
<1> QED BY <1>5, <1>8, <1>9, <1>10, <1>11, <1>12, ManyDraftsPromises

LEMMA CommitGeneratePromise == ASSUME IInv, JInv, NEW c \in Clients, CommitGenerate(c) PROVE JInv'
<1> DEFINE new == PeriodeMissing
           body == [b \in new |-> b]
           k == "periode_buku"
<1>1. PICK f \in Injections(new, FreeIds(k)) : InsertAll(f, body)
  BY DEF CommitGenerate
<1>2. Overtaken /\ UNCHANGED <<kind, raced, crowded>>
  BY JobMarks DEF CommitGenerate
<1>3. ASSUME NEW b \in new PROVE b \in BodyType /\ Valid(k, b) /\ body[b] = b
  <2>1. b \in BodyType /\ PeriodeValid(b)
    BY MasterBodiesAssumption DEF PeriodeMissing, Kinds
  <2>2. CreateAllowed(k, b)
    BY <2>1 DEF CreateAllowed, PeriodeCreate
  <2>3. k \in Kinds
    BY DEF Kinds
  <2>4. Valid(k, b)
    BY <2>1, <2>2, <2>3, CreatedValid
  <2> QED BY <2>1, <2>4
<1>4. body \in [new -> BodyType]
  BY <1>3
<1> HIDE DEF body, new
<1>5. /\ row' = [i \in Ids |-> row'[i]]
      /\ \A i \in Ids : \/ row'[i] = row[i] /\ wf'[i] = wf[i]
                        \/ \E b \in new : /\ f[b] = i /\ kind[i] = k /\ ~Exists(i)
                                          /\ row'[i] = Inserted(body[b]) /\ wf'[i] = "DRAFT"
  BY <1>1, <1>4, InsertedAll
<1>6. \A i \in Ids : (row'[i] = row[i] /\ wf'[i] = wf[i]) \/ Drafted(i, k)
  BY <1>3, <1>5 DEF Drafted
<1>7. k \in Kinds \ {"rating_history"} /\ Targets(k) = {} /\ k # "bobot_skenario"
  BY DEF Kinds, Targets
<1> HIDE DEF k
<1> QED BY <1>2, <1>5, <1>6, <1>7, ManyDraftsPromises

LEMMA CommitUploadPromise == ASSUME IInv, JInv, NEW c \in Clients, CommitUpload(c) PROVE JInv'
<1> DEFINE k == "pd_pefindo"
<1>1. PICK i \in FreeIds(k), b \in PdUploaded(Bodies[k]) :
          row' = [row EXCEPT ![i] = Inserted(b)] /\ wf' = [wf EXCEPT ![i] = "DRAFT"]
  BY DEF CommitUpload
<1>2. Overtaken /\ UNCHANGED <<kind, raced, crowded>>
  BY JobMarks DEF CommitUpload
<1>3. k \in Kinds \ {"rating_history"} /\ Targets(k) = {} /\ k # "bobot_skenario"
  BY DEF Kinds, Targets
<1>4. b \in BodyType /\ Valid(k, b)
  <2>1. b \in BodyType
    BY MasterBodiesAssumption DEF PdUploaded, Kinds
  <2>2. PdMonotonic(b) /\ WellFormed(b, {"from", "to"})
    BY DEF PdUploaded
  <2>3. Validated(k) = {"from", "to", "val"} /\ (Related(k, b) <=> PdMonotonic(b))
    BY DEF Validated, Related
  <2> QED BY <1>3, <2>1, <2>2, <2>3, ValidParts, WellFormedParts DEF PdMonotonic, Malformed
<1>5. row \in [Ids -> RowType] /\ wf \in [Ids -> Statuses]
  BY DEF IInv, TypeOK
<1>6. row' = [j \in Ids |-> row'[j]]
  BY <1>1, <1>5
<1>7. \A j \in Ids : (row'[j] = row[j] /\ wf'[j] = wf[j]) \/ Drafted(j, k)
  BY <1>1, <1>3, <1>4, <1>5 DEF Drafted, FreeIds
<1> HIDE DEF k
<1> QED BY <1>2, <1>3, <1>6, <1>7, ManyDraftsPromises

-----------------------------------------------------------------------------
(* The rows of the migrations, every step, and what follows.                *)
LEMMA IdlePromise == ASSUME IInv, JInv, UNCHANGED vars PROVE JInv'
<1>1. UNCHANGED <<kind, row, wf, req, raced, crowded>>
  BY DEF vars
<1>2. \A q : Promise(q) => Promise(q)'
  BY <1>1, PromiseStands
<1>3. Promises'
  BY <1>1, <1>2 DEF JInv, Promises
<1> QED BY <1>1, <1>3, RowsStand DEF JInv

THEOREM PromisedInitially == Init => JInv
<1> SUFFICES ASSUME Init PROVE JInv
  OBVIOUS
<1>1. Promises
  BY DEF Init, Promises, Promise, Idle
<1>2. InStep
  BY DEF Init, InStep
<1>3. OneRating /\ RatingCacheFresh
  BY DEF Init, SeedConsistent, OneRating
<1>4. RowsValid
  BY DEF Init, SeedConsistent, RowsValid
<1>5. WeightsAddUp /\ ReferencesResolve
  BY DEF Init, SeedConsistent, WeightsAddUp, ReferencesResolve
<1>6. WeightsApart
  <2>1. ASSUME NEW i \in LiveRows("bobot_skenario"), NEW j \in BobotDuplicates(row[i].body, Ids \ {i})
        PROVE  FALSE
    <3>1. /\ i \in Ids /\ kind[i] = "bobot_skenario" /\ Exists(i)
          /\ j \in Ids /\ kind[j] = "bobot_skenario" /\ Exists(j)
          /\ i # j /\ row[j].body.key = row[i].body.key
      BY <2>1 DEF BobotDuplicates, LiveRows, Live
    <3> QED BY <3>1 DEF Init, SeedConsistent, KeyOf
  <2> QED BY <2>1 DEF WeightsApart
<1> QED BY <1>1, <1>2, <1>3, <1>4, <1>5, <1>6 DEF JInv

\* Every step keeps what was promised.
THEOREM PromisesInductive == IInv /\ JInv /\ [Next]_vars => JInv'
<1> SUFFICES ASSUME IInv, JInv, [Next]_vars PROVE JInv'
  OBVIOUS
<1>1. ASSUME NEW c \in Clients, CommitMove(c) PROVE JInv'
  BY <1>1, StatusMovePromise, RatingMovePromise
<1>2. CASE Next
  BY <1>1, <1>2, BeginCreatePromise, CommitCreatePromise, BeginUpdatePromise, CommitUpdatePromise,
     BeginDeletePromise, CommitDeletePromise, BeginMovePromise, BeginSeedPromise, CommitSeedPromise,
     CommitGeneratePromise, CommitUploadPromise, FailPromise DEF Next
<1> QED BY <1>2, IdlePromise

\* The promises hold under any interleaving of requests.
THEOREM PromisesKeptAlways == Spec => []JInv
<1>1. IInv /\ JInv /\ [Next]_vars => JInv'
  BY PromisesInductive
<1> QED BY <1>1, PromisedInitially, Invariance, PTL DEF Spec

(* As long as no two requests overlapped and no default weights were put    *)
(* beside others, the approved weights of a period add up once they are     *)
(* there for every scenario: the sum the hook takes may count drafts        *)
(* (bobotskenario/workflow_hook.go), but a draft of a scenario that has an  *)
(* approved weight in the period is refused as its duplicate.               *)
THEOREM WeightsSum == Spec => []WeightsAddUp
<1>1. JInv => WeightsAddUp
  BY DEF JInv
<1> QED BY <1>1, PromisesKeptAlways, PTL

(* As long as no two requests overlapped, what a row refers to is there, of *)
(* a kind it may refer to and APPROVED: services look it up before they     *)
(* insert or edit, and before they delete look for the rows that refer to   *)
(* it; nothing takes back an approval.                                      *)
THEOREM ReferencesKept == Spec => []ReferencesResolve
<1>1. JInv => ReferencesResolve
  BY DEF JInv
<1> QED BY <1>1, PromisesKeptAlways, PTL

(* Under any interleaving a stored row is valid: the merge that a service   *)
(* checked is the one its UPDATE stores, since the version it matches       *)
(* stands for the content that it read.                                     *)
THEOREM StoredValid == Spec => []MergedValid
<1>1. JInv => MergedValid
  BY DEF JInv, RowsValid, MergedValid, Live
<1> QED BY <1>1, PromisesKeptAlways, PTL

(* Under any interleaving a counterparty's cached rating is that of its     *)
(* approved rating (ratinghistory/workflow_hook.go): the index              *)
(* uq_rating_aktif leaves it one rating that has not ended.                 *)
THEOREM RatingsCached == Spec => []RatingCacheFresh
<1>1. JInv => RatingCacheFresh
  BY DEF JInv
<1> QED BY <1>1, PromisesKeptAlways, PTL

=============================================================================
