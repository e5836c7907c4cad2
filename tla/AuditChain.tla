----------------------------- MODULE AuditChain -----------------------------
(***************************************************************************)
(* The audit log's hash chains (audit/writer.go, audit/verify.go).         *)
(*                                                                         *)
(* Every mutation writes its event in its own transaction: the writer      *)
(* reads the hash of the entity's latest event, takes the time, and        *)
(* inserts the event with the hash of both.  Nothing locks the chain, the  *)
(* time comes from the clock of whichever server runs, and its digits      *)
(* below the microsecond are hashed but not stored.  A hash is the pair of *)
(* what was hashed, which is what a hash without collisions is.            *)
(***************************************************************************)
EXTENDS Integers, FiniteSets

CONSTANTS
    Entities,
    Writers,        \* transactions that may be open at one time
    Readings,       \* clock readings: microseconds, and the digits below
    MaxEvents       \* bound: events ever inserted

ASSUME AuditAssumption == Readings \subseteq Nat \X Nat /\ MaxEvents \in Nat

VARIABLES
    log,        \* aud.audit_log: the committed events
    tx,         \* writer -> its open transaction
    nextId

auditVars == <<log, tx, nextId>>

NoHash == <<>>
Nothing == "nothing"
Closed == [step |-> "closed", rows |-> {}, entity |-> Nothing, prev |-> NoHash, seen |-> {}]
Begun == [Closed EXCEPT !.step = "open"]

AuditInit == log = {} /\ tx = [w \in Writers |-> Closed] /\ nextId = 1

-----------------------------------------------------------------------------
OfEntity(rows, e) == {row \in rows : row.entity = e}
Latest(rows) == {row \in rows : \A other \in rows : other.time <= row.time}
Earliest(rows) == {row \in rows : \A other \in rows : other.time >= row.time}

(* fetchPreviousHash: the entity's latest event by time; events of the same *)
(* time come in any order.                                                  *)
PreviousHashesAny(rows, e) == IF rows = {} THEN {NoHash} ELSE {row.hash : row \in Latest(rows)}
PreviousHashes(rows, e) ==
    LET own == OfEntity(rows, e) IN
    IF own = {} THEN {NoHash} ELSE {row.hash : row \in Latest(own)}

Canonical(id, e, reading) == [event_id |-> id, entity |-> e, event_time |-> reading]
ComputeHashAlone(prev, canonical) == <<NoHash, canonical>>
ComputeHash(prev, canonical) == <<prev, canonical>>

BeginTx(w) ==
    /\ tx[w] = Closed
    /\ tx' = [tx EXCEPT ![w] = Begun] /\ UNCHANGED <<log, nextId>>

(* READ COMMITTED: committed events and the transaction's own.              *)
Sees(w) == log \cup tx[w].rows

FetchPrevious(w, e) ==
    /\ tx[w].step = "open"
    /\ \E prev \in PreviousHashes(Sees(w), e) :
       tx' = [tx EXCEPT ![w] = [step |-> "fetched", rows |-> tx[w].rows, entity |-> e, prev |-> prev,
                                seen |-> {row.id : row \in OfEntity(Sees(w), e)}]]
    /\ UNCHANGED <<log, nextId>>

EventRow(t, reading) ==
    [id |-> nextId, entity |-> t.entity, time |-> reading[1], prev |-> t.prev,
     hash |-> ComputeHash(t.prev, Canonical(nextId, t.entity, reading)), seen |-> t.seen]
InsertEvent(w, reading) ==
    /\ tx[w].step = "fetched" /\ nextId <= MaxEvents
    /\ tx' = [tx EXCEPT ![w] = [Begun EXCEPT !.rows = tx[w].rows \cup {EventRow(tx[w], reading)}]]
    /\ nextId' = nextId + 1 /\ UNCHANGED log

Commit(w) ==
    /\ tx[w].step = "open" /\ tx[w].rows # {}
    /\ log' = log \cup tx[w].rows /\ tx' = [tx EXCEPT ![w] = Closed] /\ UNCHANGED nextId

(* Any error of the mutation, and any database error of the two queries,    *)
(* ends the transaction: its events go with it.                             *)
Rollback(w) ==
    /\ tx[w] # Closed
    /\ tx' = [tx EXCEPT ![w] = Closed] /\ UNCHANGED <<log, nextId>>

AuditNext ==
    \E w \in Writers :
        \/ BeginTx(w) \/ Commit(w) \/ Rollback(w)
        \/ \E e \in Entities : FetchPrevious(w, e)
        \/ \E reading \in Readings : InsertEvent(w, reading)

AuditSpec == AuditInit /\ [][AuditNext]_auditVars

-----------------------------------------------------------------------------
(* VerifyHashChain: each entity's events in the order of their times (ties  *)
(* in any order), each hash recomputed from the one before.  The time read  *)
(* back has no digits below the microsecond.                                *)
Recomputed(row, prev) == ComputeHash(prev, Canonical(row.id, row.entity, <<row.time, 0>>))
BeforeIn(rows, row) == {x \in OfEntity(rows, row.entity) : x.time < row.time}

RowVerifiesStored(rows, row) == row.hash = Recomputed(row, row.prev)
RowVerifies(rows, row) ==
    \E prev \in PreviousHashes(BeforeIn(rows, row), row.entity) : row.hash = Recomputed(row, prev)

Ordered(rows) == \A x, y \in rows : (x.entity = y.entity /\ x.time = y.time) => x = y
VerifyHashChain(rows) == Ordered(rows) /\ \A row \in rows : RowVerifies(rows, row)

-----------------------------------------------------------------------------
(* Events have their types and their own identity, and each carries the     *)
(* hash it names as previous inside its own hash (writeEvent).              *)
AuditTypeOK ==
    /\ nextId \in 1 .. MaxEvents + 1
    /\ \A row \in log : row.id < nextId /\ row.hash[1] = row.prev
    /\ \A x, y \in log : x.id = y.id => x = y
    /\ \A w \in Writers : tx[w].step \in {"closed", "open", "fetched"}

(* The events of an entity were written one after the other: of any two,    *)
(* one saw the other, and has the later time.                               *)
Serial(e) ==
    \A x, y \in OfEntity(log, e) :
        x # y => \/ x.id \in y.seen /\ x.time < y.time
                 \/ y.id \in x.seen /\ y.time < x.time

(* Events written one after the other are one chain: each names the hash of *)
(* the entity's event just before it in time, and the first names none.     *)
(* Rolled back transactions, several events in a transaction and other      *)
(* entities' events in between break no link.  (That such a chain also      *)
(* verifies is not so: the digits of its times that are not stored are in   *)
(* its hashes.)                                                             *)
SerialChainLinked ==
    \A e \in Entities : Serial(e) =>
        \A y \in OfEntity(log, e) :
            LET before == BeforeIn(log, y) IN
            /\ before = {} => y.prev = NoHash
            /\ \A x \in Latest(before) : y.prev = x.hash

(* What the chain is for: from a log that verifies no event but an entity's *)
(* newest can be missing without the verification failing.                  *)
GapNoticed ==
    VerifyHashChain(log) =>
        \A row \in log : (\E later \in OfEntity(log, row.entity) : later.time > row.time) =>
            ~VerifyHashChain(log \ {row})
=============================================================================
