----------------------------- MODULE MasterRows -----------------------------
(***************************************************************************)
(* The state the master-data modules of BLIPS (internal/master) share, and *)
(* the parts of their requests that are the same in all of them.           *)
(*                                                                         *)
(* Every kind of row follows one pattern.  Service.Create, Update and      *)
(* SoftDelete judge the request on what is committed, OUTSIDE any          *)
(* transaction; then a READ COMMITTED transaction writes the row and its   *)
(* audit event.  The hook of a workflow transition also does part of its   *)
(* reading outside the transaction that it runs in.  So each request has   *)
(* two steps, Begin and Commit, and others may commit in between.  What    *)
(* the kinds differ in (the guards, the constraints, what counts as a      *)
(* reference) is in DatedKinds and ReferenceKinds.                         *)
(***************************************************************************)
EXTENDS Naturals, FiniteSets

CONSTANTS
    Ids,          \* primary keys; 0 is SQL NULL
    Clients,      \* requests that may be in flight at the same time
    Assignments,  \* which kind of row each id is (one is chosen at the start)
    Bodies,       \* the bodies POSTed, per kind
    Patches,      \* the bodies PATCHed, per kind: NotGiven where absent
    FirstRows,    \* the rows that may exist at the start, per kind
    MaxVersion    \* bound on row_version

Kinds == {"bobot_skenario", "pd_pefindo", "lgd_basel", "lps_coverage",
          "impact_pd", "impact_mev_pd", "rating_history", "counterparty",
          "portofolio", "mata_uang", "instrumen", "kurs", "periode_buku",
          "chart_of_accounts", "mapping_jurnal"}

\* workflow_status, the pending states in one; ABSENT stands for no row.
Statuses == {"ABSENT", "DRAFT", "PENDING", "APPROVED", "REJECTED"}

NotGiven == 0
Open == 9       \* an end date that is NULL: later than every date
Dates == 1..3

\* A value that does not parse, is out of range or is not in an enumeration.
Malformed == 99
WellFormed(b, columns) == \A f \in columns : b[f] # Malformed

\* What the columns hold that a guard or a property looks at.  key is the
\* natural key, ref the row referred to, from and to a validity period (of a
\* rate of exchange: the bid and the offer), val a weight, rate or balance.
BodyType == [key: Nat, ref: Ids \cup {0}, from: Nat, to: Nat, val: Nat]
NoBody == [key |-> 0, ref |-> 0, from |-> 0, to |-> 0, val |-> 0]

RowType == [st: Statuses, ver: Nat, del: BOOLEAN, body: BodyType]
Absent == [st |-> "ABSENT", ver |-> 0, del |-> FALSE, body |-> NoBody]

ASSUME IdsAssumption == Ids \subseteq Nat \ {0} /\ IsFiniteSet(Ids)
ASSUME MasterBodiesAssumption ==
    /\ Assignments \subseteq [Ids -> Kinds]
    /\ Bodies \in [Kinds -> SUBSET BodyType]
    /\ Patches \in [Kinds -> SUBSET BodyType]
    /\ FirstRows \in [Kinds -> SUBSET RowType]
    /\ \A b \in Bodies["rating_history"] : b.from # NotGiven
    \* The code of a period names its year and month.
    /\ \A b, c \in Bodies["periode_buku"] : b.key = c.key => b = c

VARIABLES
    kind,    \* the table each id belongs to
    row,     \* the rows, deleted ones included
    wf,      \* the state of the row's sys.workflow_instance
    req,     \* the request each client has in flight
    raced,   \* some request committed after another one that it overlapped
    crowded  \* default weights were added to a period that had some

vars == <<kind, row, wf, req, raced, crowded>>

Idle == [op |-> "idle"]
RequestType ==
    {Idle}
    \cup [op: {"create"}, id: Ids, body: BodyType, quiet: BOOLEAN]
    \cup [op: {"update"}, id: Ids, body: BodyType, ver: Nat, quiet: BOOLEAN]
    \cup [op: {"delete"}, id: Ids, quiet: BOOLEAN]
    \cup [op: {"move"}, id: Ids, to: Statuses, second: BOOLEAN,
          body: BodyType, prior: BOOLEAN, quiet: BOOLEAN]
    \cup [op: {"seed"}, from: Dates, quiet: BOOLEAN]

Exists(i) == row[i].st # "ABSENT"
Live(i)   == Exists(i) /\ ~row[i].del
Rows(k)     == {i \in Ids : kind[i] = k /\ Exists(i)}
LiveRows(k) == {i \in Ids : kind[i] = k /\ Live(i)}
Approved(k) == {i \in LiveRows(k) : row[i].st = "APPROVED"}

\* workflow_status DRAFT, REJECTED or RETURNED (which the engine never sets).
IsEditable(i) == row[i].st \in {"DRAFT", "REJECTED"}

\* A body after a PATCH: the columns given replace the stored ones.
Merge(b, p) == [f \in DOMAIN b |-> IF p[f] = NotGiven THEN b[f] ELSE p[f]]

\* The row after an UPDATE by Repository.Update, which writes these columns.
Patched(i, p, columns) ==
    [row[i] EXCEPT !.body = [f \in DOMAIN @ |-> IF f \in columns THEN Merge(@, p)[f] ELSE @[f]],
                   !.ver = @ + 1]
\* Mutant of Moved: a transition leaves the version of the row alone.
MovedSameVersion(i, to) == [row[i] EXCEPT !.st = to]
\* The row after a transition; after a SoftDelete that leaves its version
\* alone, and after one that increments it.
Moved(i, to) == [row[i] EXCEPT !.st = to, !.ver = @ + 1]
Erased(i)       == [row[i] EXCEPT !.del = TRUE]
ErasedBumped(i) == [row[i] EXCEPT !.del = TRUE, !.ver = @ + 1]

\* Mutant of Inserted: the status is left to a default the type lacks.
InsertedUnset(b) == [st |-> "", ver |-> 1, del |-> FALSE, body |-> b]
\* The new row of an INSERT.
Inserted(b) == [st |-> "DRAFT", ver |-> 1, del |-> FALSE, body |-> b]

\* Two periods share a day, both ends belonging to them.
Meet(b, c) == b.from <= c.to /\ c.from <= b.to
\* The same when the last day does not belong to a period.
MeetHalfOpen(b, c) == b.from < c.to /\ c.from < b.to

=============================================================================
