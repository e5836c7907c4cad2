--------------------------- MODULE CalcRunProofs ---------------------------
(***************************************************************************)
(* What holds of calculation runs for any number of runs, users,           *)
(* instruments, requests and workers.                                      *)
(*                                                                         *)
(* The argument: a row may change after it was judged and before it is     *)
(* updated, but lines, the snapshot and the trail only grow, so that a run *)
(* once found complete, and a seal request once recorded, stay so however  *)
(* late the transaction comes.  Keeping the sealer apart from the row's    *)
(* creator and requester is left to the CHECK constraint, which sees the   *)
(* row of the moment, and the finality of a seal to the trigger.           *)
(***************************************************************************)
EXTENDS CalcRun, TLAPS

-----------------------------------------------------------------------------
(* Rows, and what the UPDATEs of the repository do to one.                 *)

\* A row is its seven columns.
LEMMA RowColumns ==
    ASSUME NEW s \in Statuses, NEW p \in Periodes, NEW c \in Users,
           NEW a \in Users \cup {NoUser}, NEW b \in Users \cup {NoUser},
           NEW snapshot \in BOOLEAN, NEW errors \in BOOLEAN
    PROVE  [status |-> s, periode |-> p, creator |-> c, requester |-> a,
            sealer |-> b, snapshot |-> snapshot, errors |-> errors] \in RowType
BY DEF RowType

\* The seven columns of a row.
LEMMA RowFields ==
    ASSUME NEW w \in RowType
    PROVE  /\ w = [status |-> w.status, periode |-> w.periode, creator |-> w.creator,
                   requester |-> w.requester, sealer |-> w.sealer,
                   snapshot |-> w.snapshot, errors |-> w.errors]
           /\ w.status \in Statuses /\ w.periode \in Periodes /\ w.creator \in Users
           /\ w.requester \in Users \cup {NoUser} /\ w.sealer \in Users \cup {NoUser}
           /\ w.snapshot \in BOOLEAN /\ w.errors \in BOOLEAN
BY DEF RowType

\* Every UPDATE leaves a well-typed row.
LEMMA UpdateTypes ==
    ASSUME NEW w \in RowType, NEW u \in Users, NEW f \in BOOLEAN
    PROVE  /\ UpdateStartFields(w) \in RowType
           /\ UpdateProgress(w) \in RowType
           /\ UpdateCompletion(w, f) \in RowType
           /\ UpdateSealRequest(w, u) \in RowType
           /\ UpdateSealApprove(w, u) \in RowType
           /\ UpdateSealReject(w) \in RowType
           /\ UpdateCancel(w) \in RowType
<1>1. UpdateStartFields(w) \in RowType
  BY DEF UpdateStartFields, RowType, Statuses
<1>2. UpdateProgress(w) \in RowType
  BY DEF UpdateProgress, RowType, Statuses
<1>3. UpdateCompletion(w, f) \in RowType
  BY DEF UpdateCompletion, RowType, Statuses
<1>4. UpdateSealRequest(w, u) \in RowType
  BY DEF UpdateSealRequest, RowType, Statuses
<1>5. UpdateSealApprove(w, u) \in RowType
  BY DEF UpdateSealApprove, RowType, Statuses
<1>6. UpdateSealReject(w) \in RowType
  BY DEF UpdateSealReject, RowType, Statuses
<1>7. UpdateCancel(w) \in RowType
  BY DEF UpdateCancel, RowType, Statuses
<1> QED
  BY <1>1, <1>2, <1>3, <1>4, <1>5, <1>6, <1>7

-----------------------------------------------------------------------------
(* Types.                                                                  *)

\* The kind of a request tells its fields, and the kind of a task its slot.
LEMMA Kinds ==
    ASSUME TypeOK
    PROVE  /\ \A q \in Requests :
                /\ req[q].kind = "create"   => req[q] \in CreateType
                /\ req[q].kind \in Operations => req[q] \in OpType
                /\ req[q].kind = "compute"  => req[q] \in ComputeType
           /\ \A k \in Workers :
                worker[k] # Idle \/ worker[k].kind \in {"computing", "marking"}
                    => worker[k] \in TaskType
BY DEF TypeOK, RequestType, Idle, CreateType, OpType, ComputeType, Operations, TaskType

\* A write changes the one row it names, into what it is given.
LEMMA WriteRow ==
    ASSUME TypeOK, NEW r \in Runs, NEW new \in RowType, Write(r, new)
    PROVE  /\ run' \in [Runs -> {Absent} \cup RowType]
           /\ run'[r] = new
           /\ \A s \in Runs \ {r} : run'[s] = run[s]
           /\ SoDSealCheck(new) /\ ConsistencyCheck(new) /\ SealedGuard(run[r], new)
BY DEF TypeOK, Write

\* A well-typed row exists, and Absent is no row.
LEMMA RowExists ==
    ASSUME TypeOK, NEW r \in Runs
    PROVE  /\ Exists(r) <=> run[r] \in RowType
           /\ Absent \notin RowType
BY DEF TypeOK, Exists, Absent, RowType, Statuses

-----------------------------------------------------------------------------
(* Which steps change which variable.                                      *)

\* What the steps of a request leave alone.
LEMMA RequestFrames ==
    ASSUME NEW q \in Requests
    PROVE  /\ \A r \in Runs :
                /\ \A u \in Users, p \in Periodes :
                     LoadCreate(q, r, u, p) => UNCHANGED <<run, lines, spared, trail, active, queue, worker>>
                /\ \A op \in Operations, u \in Users :
                     LoadOp(q, op, r, u) => UNCHANGED <<run, lines, spared, trail, active, queue, worker>>
                /\ \A i \in Instruments :
                     LoadCompute(q, r, i) => UNCHANGED <<run, lines, spared, trail, active, queue, worker>>
           /\ CommitCreate(q) \/ CommitCancel(q) \/ CommitApproveSeal(q) \/ CommitRejectSeal(q)
                => Done(q) /\ UNCHANGED <<lines, spared, trail, active, queue, worker>>
           /\ CommitStart(q)       => Done(q) /\ UNCHANGED <<lines, spared, trail, active, worker>>
           /\ CommitRequestSeal(q) => Done(q) /\ UNCHANGED <<lines, spared, active, queue, worker>>
           /\ CommitCompute(q)     => Done(q) /\ UNCHANGED <<run, spared, trail, active, queue, worker>>
           /\ Fail(q)              => Done(q) /\ UNCHANGED <<run, lines, spared, trail, active, queue, worker>>
<1>1. \A r \in Runs :
        /\ \A u \in Users, p \in Periodes :
             LoadCreate(q, r, u, p) => UNCHANGED <<run, lines, spared, trail, active, queue, worker>>
        /\ \A op \in Operations, u \in Users :
             LoadOp(q, op, r, u) => UNCHANGED <<run, lines, spared, trail, active, queue, worker>>
        /\ \A i \in Instruments :
             LoadCompute(q, r, i) => UNCHANGED <<run, lines, spared, trail, active, queue, worker>>
  BY DEF LoadCreate, LoadOp, LoadCompute, Accept
<1>2. CommitCreate(q) \/ CommitCancel(q) \/ CommitApproveSeal(q) \/ CommitRejectSeal(q)
        => Done(q) /\ UNCHANGED <<lines, spared, trail, active, queue, worker>>
  BY DEF CommitCreate, CommitCancel, CommitApproveSeal, CommitRejectSeal
<1>3. CommitStart(q) => Done(q) /\ UNCHANGED <<lines, spared, trail, active, worker>>
  BY DEF CommitStart
<1>4. CommitRequestSeal(q) => Done(q) /\ UNCHANGED <<lines, spared, active, queue, worker>>
  BY DEF CommitRequestSeal
<1>5. CommitCompute(q) => Done(q) /\ UNCHANGED <<run, spared, trail, active, queue, worker>>
  BY DEF CommitCompute
<1>6. Fail(q) => Done(q) /\ UNCHANGED <<run, lines, spared, trail, active, queue, worker>>
  BY DEF Fail
<1> QED
  BY <1>1, <1>2, <1>3, <1>4, <1>5, <1>6

\* What the steps of a worker, of Asynq and of the instrument module leave alone.
LEMMA WorkerFrames ==
    ASSUME NEW k \in Workers
    PROVE  /\ \A r \in Runs : PickUp(k, r) => UNCHANGED <<run, lines, spared, trail, active, req>>
           /\ \A i \in Instruments :
                /\ BeginInstrument(k, i) \/ FailInstrument(k, i)
                     => UNCHANGED <<run, lines, spared, trail, active, req, queue>>
                /\ PersistInstrument(k, i) => UNCHANGED <<run, trail, active, req, queue>>
           /\ EndContext(k) \/ FinishBulk(k) => UNCHANGED <<run, lines, spared, trail, active, req, queue>>
           /\ ReportProgress(k) => UNCHANGED <<lines, spared, trail, active, req, queue, worker>>
           /\ MarkCompleted(k)  => UNCHANGED <<lines, spared, trail, active, req>>
           /\ Abandon(k)        => UNCHANGED <<run, lines, spared, trail, active, req>>
<1>1. \A r \in Runs : PickUp(k, r) => UNCHANGED <<run, lines, spared, trail, active, req>>
  BY DEF PickUp
<1>2. \A i \in Instruments :
        /\ BeginInstrument(k, i) \/ FailInstrument(k, i)
             => UNCHANGED <<run, lines, spared, trail, active, req, queue>>
        /\ PersistInstrument(k, i) => UNCHANGED <<run, trail, active, req, queue>>
  BY DEF BeginInstrument, FailInstrument, PersistInstrument
<1>3. EndContext(k) \/ FinishBulk(k) => UNCHANGED <<run, lines, spared, trail, active, req, queue>>
  BY DEF EndContext, FinishBulk
<1>4. ReportProgress(k) => UNCHANGED <<lines, spared, trail, active, req, queue, worker>>
  BY DEF ReportProgress
<1>5. MarkCompleted(k) => UNCHANGED <<lines, spared, trail, active, req>>
  BY DEF MarkCompleted
<1>6. Abandon(k) => UNCHANGED <<run, lines, spared, trail, active, req>>
  BY DEF Abandon
<1> QED
  BY <1>1, <1>2, <1>3, <1>4, <1>5, <1>6

\* The same for the steps that belong to neither.
LEMMA OtherFrames ==
    /\ \A r \in Runs : GiveUp(r) => UNCHANGED <<run, lines, spared, trail, active, req, worker>>
    /\ \A i \in Instruments :
         ActivateInstrument(i) \/ DeactivateInstrument(i)
             => UNCHANGED <<run, lines, spared, trail, req, queue, worker>>
BY DEF GiveUp, ActivateInstrument, DeactivateInstrument

\* A row changes only when a request or a worker commits an UPDATE or INSERT.
LEMMA RunSteps ==
    ASSUME Next
    PROVE  \/ UNCHANGED run
           \/ \E q \in Requests :
                \/ CommitCreate(q) \/ CommitStart(q) \/ CommitCancel(q)
                \/ CommitRequestSeal(q) \/ CommitApproveSeal(q) \/ CommitRejectSeal(q)
           \/ \E k \in Workers : ReportProgress(k) \/ MarkCompleted(k)
BY RequestFrames, WorkerFrames, OtherFrames DEF Next

\* Lines are inserted by single computations and by workers.
LEMMA LineSteps ==
    ASSUME Next
    PROVE  \/ UNCHANGED lines
           \/ \E q \in Requests : CommitCompute(q)
           \/ \E k \in Workers, i \in Instruments : PersistInstrument(k, i)
BY RequestFrames, WorkerFrames, OtherFrames DEF Next

\* Only a worker finds that an instrument needs no line.
LEMMA SparedSteps ==
    ASSUME Next
    PROVE  \/ UNCHANGED spared
           \/ \E k \in Workers, i \in Instruments : PersistInstrument(k, i)
BY RequestFrames, WorkerFrames, OtherFrames DEF Next

\* Only a seal request is recorded in the trail.
LEMMA TrailSteps ==
    ASSUME Next
    PROVE  UNCHANGED trail \/ \E q \in Requests : CommitRequestSeal(q)
BY RequestFrames, WorkerFrames, OtherFrames DEF Next

\* The instruments change only in their own module.
LEMMA ActiveSteps ==
    ASSUME Next
    PROVE  \/ UNCHANGED active
           \/ \E i \in Instruments : ActivateInstrument(i) \/ DeactivateInstrument(i)
BY RequestFrames, WorkerFrames, OtherFrames DEF Next

\* A request is accepted, or it ends, or requests stay as they are.
LEMMA RequestSteps ==
    ASSUME Next
    PROVE  \/ UNCHANGED req
           \/ \E q \in Requests : Done(q)
           \/ \E q \in Requests, r \in Runs :
                \/ \E u \in Users, p \in Periodes : LoadCreate(q, r, u, p)
                \/ \E op \in Operations, u \in Users : LoadOp(q, op, r, u)
                \/ \E i \in Instruments : LoadCompute(q, r, i)
BY RequestFrames, WorkerFrames, OtherFrames DEF Next

\* Tasks are enqueued by Start and by Asynq, and taken by workers.
LEMMA QueueSteps ==
    ASSUME Next
    PROVE  \/ UNCHANGED queue
           \/ \E q \in Requests : CommitStart(q)
           \/ \E r \in Runs : GiveUp(r) \/ \E k \in Workers : PickUp(k, r)
           \/ \E k \in Workers : MarkCompleted(k) \/ Abandon(k)
BY RequestFrames, WorkerFrames, OtherFrames DEF Next

\* What a worker has in hand changes only by its own steps.
LEMMA WorkerSteps ==
    ASSUME Next
    PROVE  \/ UNCHANGED worker
           \/ \E k \in Workers :
                \/ \E r \in Runs : PickUp(k, r)
                \/ \E i \in Instruments :
                     BeginInstrument(k, i) \/ PersistInstrument(k, i) \/ FailInstrument(k, i)
                \/ EndContext(k) \/ FinishBulk(k) \/ MarkCompleted(k) \/ Abandon(k)
BY RequestFrames, WorkerFrames, OtherFrames DEF Next

-----------------------------------------------------------------------------
(* The inductive invariant.                                                *)

\* What a run must have before its seal may be asked for.
Finished(r) == Exists(r) /\ Book \subseteq lines[r] \cup spared[r] /\ run[r].snapshot

\* Requests, tasks and workers concern runs that are there, and tasks those
\* that were started.
Started(r) == Exists(r) /\ run[r].snapshot
Referenced ==
    /\ \A q \in Requests : req[q].kind \in Operations => Exists(req[q].run)
    /\ \A r \in Runs : queue[r] > 0 => Started(r)
    /\ \A k \in Workers : worker[k] # Idle => Started(worker[k].run)

\* What was judged when a request was accepted, and is still true.
JudgedOp(q) ==
    /\ req[q].kind \in {"requestSeal", "approveSeal", "rejectSeal"} => Finished(req[q].run)
    /\ req[q].kind = "approveSeal" => trail[req[q].run] \ {req[q].user} # {}

\* An instrument of the book has its line, or needs none, or a worker without failures has
\* still to see to it.
Diligent(k) ==
    LET t == worker[k] IN
    t # Idle =>
        /\ ~t.failed /\ ~t.stopped =>
             Book \subseteq lines[t.run] \cup spared[t.run] \cup t.todo \cup t.busy
        /\ t.kind = "marking" => t.todo = {} /\ t.busy = {} /\ ~t.stopped

RowInv(r) ==
    Exists(r) =>
        /\ ConsistencyCheck(run[r])
        /\ run[r].status \in {"COMPLETED", "SEAL_REQUESTED", "SEALED"} => Finished(r)
        /\ run[r].status = "SEAL_REQUESTED" => run[r].requester \in trail[r]
        /\ IsSealed(r) => /\ run[r].sealer \notin {run[r].creator, run[r].requester}
                          /\ trail[r] \ {run[r].sealer} # {}

IInv ==
    /\ TypeOK
    /\ Book \subseteq active
    /\ Referenced
    /\ \A q \in Requests : JudgedOp(q)
    /\ \A k \in Workers : Diligent(k)
    /\ \A r \in Runs : RowInv(r)

-----------------------------------------------------------------------------
(* What a step may do to a row.                                            *)

\* The UPDATEs a step may commit on the row of r, and what it takes to commit one.
Updates(r) ==
    \/ run'[r] = UpdateStartFields(run[r])
    \/ run'[r] = UpdateCancel(run[r])
    \/ run'[r] = UpdateProgress(run[r])
    \/ \E q \in Requests :
         /\ req[q].run = r
         /\ \/ /\ req[q].kind = "requestSeal"
               /\ run'[r] = UpdateSealRequest(run[r], req[q].user)
               /\ req[q].user \in trail'[r]
            \/ req[q].kind = "approveSeal" /\ run'[r] = UpdateSealApprove(run[r], req[q].user)
            \/ req[q].kind = "rejectSeal" /\ run'[r] = UpdateSealReject(run[r])
    \/ \E k \in Workers :
         /\ worker[k].kind = "marking" /\ worker[k].run = r
         /\ run'[r] = UpdateCompletion(run[r], worker[k].failed)

Inserted(r) ==
    /\ ~Exists(r) /\ run'[r] \in RowType
    /\ run'[r].status = "DRAFT" /\ run'[r].sealer = NoUser

Updated(r) ==
    /\ Exists(r) /\ run'[r] \in RowType
    /\ SoDSealCheck(run'[r]) /\ ConsistencyCheck(run'[r]) /\ SealedGuard(run[r], run'[r])
    /\ Updates(r)

\* Every step leaves a row alone, inserts it, or commits one UPDATE the database
\* accepts; and rows stay well-typed.
LEMMA RowChange ==
    ASSUME TypeOK, Referenced, Next
    PROVE  /\ run' \in [Runs -> {Absent} \cup RowType]
           /\ \A r \in Runs : run'[r] = run[r] \/ Inserted(r) \/ Updated(r)
<1> DEFINE Goal == /\ run' \in [Runs -> {Absent} \cup RowType]
                   /\ \A r \in Runs : run'[r] = run[r] \/ Inserted(r) \/ Updated(r)
<1>0. ASSUME NEW r \in Runs, NEW new \in RowType, Exists(r), Write(r, new),
             run'[r] = new => Updates(r)
      PROVE  Goal
  BY <1>0, WriteRow DEF Updated
<1>1. CASE UNCHANGED run
  BY <1>1 DEF TypeOK
<1>2. ASSUME NEW q \in Requests, CommitCreate(q) PROVE Goal
  <2>1. req[q] \in CreateType
    BY <1>2, Kinds DEF CommitCreate
  <2>2. [status |-> "DRAFT", periode |-> req[q].periode, creator |-> req[q].user,
         requester |-> NoUser, sealer |-> NoUser, snapshot |-> FALSE, errors |-> FALSE]
           \in RowType
    BY <2>1, RowColumns DEF CreateType, Statuses
  <2> QED
    BY <1>2, <2>1, <2>2 DEF CommitCreate, Inserted, CreateType, TypeOK
<1>3. ASSUME NEW q \in Requests, CommitStart(q) PROVE Goal
  <2>1. req[q] \in OpType /\ Exists(req[q].run) /\ req[q].run \in Runs
    BY <1>3, Kinds DEF CommitStart, Referenced, Operations, OpType
  <2>2. UpdateStartFields(run[req[q].run]) \in RowType
    BY <2>1, RowExists, UpdateTypes DEF OpType
  <2>3. Write(req[q].run, UpdateStartFields(run[req[q].run]))
    BY <1>3 DEF CommitStart
  <2> QED
    BY <1>0, <2>1, <2>2, <2>3 DEF Updates
<1>4. ASSUME NEW q \in Requests, CommitCancel(q) PROVE Goal
  <2>1. req[q] \in OpType /\ Exists(req[q].run) /\ req[q].run \in Runs
    BY <1>4, Kinds DEF CommitCancel, Referenced, Operations, OpType
  <2>2. UpdateCancel(run[req[q].run]) \in RowType
    BY <2>1, RowExists, UpdateTypes DEF OpType
  <2>3. Write(req[q].run, UpdateCancel(run[req[q].run]))
    BY <1>4 DEF CommitCancel
  <2> QED
    BY <1>0, <2>1, <2>2, <2>3 DEF Updates
<1>5. ASSUME NEW q \in Requests, CommitRequestSeal(q) PROVE Goal
  <2>1. req[q] \in OpType /\ Exists(req[q].run) /\ req[q].run \in Runs /\ req[q].user \in Users
    BY <1>5, Kinds DEF CommitRequestSeal, Referenced, Operations, OpType
  <2>2. UpdateSealRequest(run[req[q].run], req[q].user) \in RowType
    BY <2>1, RowExists, UpdateTypes DEF OpType
  <2>3. Write(req[q].run, UpdateSealRequest(run[req[q].run], req[q].user))
    BY <1>5 DEF CommitRequestSeal
  <2>4. req[q].user \in trail'[req[q].run]
    BY <1>5, <2>1 DEF CommitRequestSeal, TypeOK
  <2> QED
    BY <1>0, <1>5, <2>1, <2>2, <2>3, <2>4 DEF Updates, CommitRequestSeal
<1>6. ASSUME NEW q \in Requests, CommitApproveSeal(q) PROVE Goal
  <2>1. req[q] \in OpType /\ Exists(req[q].run) /\ req[q].run \in Runs /\ req[q].user \in Users
    BY <1>6, Kinds DEF CommitApproveSeal, Referenced, Operations, OpType
  <2>2. UpdateSealApprove(run[req[q].run], req[q].user) \in RowType
    BY <2>1, RowExists, UpdateTypes DEF OpType
  <2>3. Write(req[q].run, UpdateSealApprove(run[req[q].run], req[q].user))
    BY <1>6 DEF CommitApproveSeal
  <2> QED
    BY <1>0, <1>6, <2>1, <2>2, <2>3 DEF Updates, CommitApproveSeal
<1>7. ASSUME NEW q \in Requests, CommitRejectSeal(q) PROVE Goal
  <2>1. req[q] \in OpType /\ Exists(req[q].run) /\ req[q].run \in Runs
    BY <1>7, Kinds DEF CommitRejectSeal, Referenced, Operations, OpType
  <2>2. UpdateSealReject(run[req[q].run]) \in RowType
    BY <2>1, RowExists, UpdateTypes DEF OpType
  <2>3. Write(req[q].run, UpdateSealReject(run[req[q].run]))
    BY <1>7 DEF CommitRejectSeal
  <2> QED
    BY <1>0, <1>7, <2>1, <2>2, <2>3 DEF Updates, CommitRejectSeal
<1>8. ASSUME NEW k \in Workers, ReportProgress(k) PROVE Goal
  <2>1. worker[k] \in TaskType /\ worker[k] # Idle
    BY <1>8, Kinds DEF ReportProgress, Idle
  <2>2. Exists(worker[k].run) /\ worker[k].run \in Runs
    BY <2>1 DEF Referenced, Started, TaskType
  <2>3. UpdateProgress(run[worker[k].run]) \in RowType
    BY <2>2, RowExists, RowFields, UpdateTypes
  <2>4. Write(worker[k].run, UpdateProgress(run[worker[k].run]))
    BY <1>8 DEF ReportProgress
  <2> QED
    BY <1>0, <2>2, <2>3, <2>4 DEF Updates
<1>9. ASSUME NEW k \in Workers, MarkCompleted(k) PROVE Goal
  <2>1. worker[k] \in TaskType /\ worker[k] # Idle /\ worker[k].failed \in BOOLEAN
    BY <1>9, Kinds DEF MarkCompleted, Idle, TaskType
  <2>2. Exists(worker[k].run) /\ worker[k].run \in Runs
    BY <2>1 DEF Referenced, Started, TaskType
  <2>3. UpdateCompletion(run[worker[k].run], worker[k].failed) \in RowType
    <3>1. run[worker[k].run] \in RowType /\ run[worker[k].run].creator \in Users
      BY <2>2, RowExists, RowFields
    <3> QED
      BY <2>1, <3>1, UpdateTypes
  <2>4. Write(worker[k].run, UpdateCompletion(run[worker[k].run], worker[k].failed))
    BY <1>9 DEF MarkCompleted
  <2> QED
    BY <1>0, <1>9, <2>2, <2>3, <2>4 DEF Updates, MarkCompleted
<1> QED
  BY <1>1, <1>2, <1>3, <1>4, <1>5, <1>6, <1>7, <1>8, <1>9, RunSteps

-----------------------------------------------------------------------------
(* Types and growth.                                                       *)

\* Every variable stays in its type.
LEMMA TypePreserved == TypeOK /\ Referenced /\ [Next]_vars => TypeOK'
<1> SUFFICES ASSUME TypeOK, Referenced, Next PROVE TypeOK'
  BY DEF TypeOK, vars
<1>1. run' \in [Runs -> {Absent} \cup RowType]
  BY RowChange
<1>2. lines' \in [Runs -> SUBSET Instruments]
  <2>1. ASSUME NEW q \in Requests, CommitCompute(q) PROVE lines' \in [Runs -> SUBSET Instruments]
    BY <2>1, Kinds DEF CommitCompute, ComputeType, InsertResultLine, TypeOK
  <2>2. ASSUME NEW k \in Workers, NEW i \in Instruments, PersistInstrument(k, i)
        PROVE  lines' \in [Runs -> SUBSET Instruments]
    BY <2>2 DEF PersistInstrument, InsertResultLine, TypeOK
  <2> QED
    BY <2>1, <2>2, LineSteps DEF TypeOK
<1>3. spared' \in [Runs -> SUBSET Lineless]
  <2>1. ASSUME NEW k \in Workers, NEW i \in Instruments, PersistInstrument(k, i)
        PROVE  spared' \in [Runs -> SUBSET Lineless]
    BY <2>1 DEF PersistInstrument, TypeOK
  <2> QED
    BY <2>1, SparedSteps DEF TypeOK
<1>4. trail' \in [Runs -> SUBSET Users]
  <2>1. ASSUME NEW q \in Requests, CommitRequestSeal(q) PROVE trail' \in [Runs -> SUBSET Users]
    <3>1. req[q].user \in Users
      BY <2>1, Kinds DEF CommitRequestSeal, OpType, Operations
    <3> QED
      BY <2>1, <3>1 DEF CommitRequestSeal, TypeOK
  <2> QED
    BY <2>1, TrailSteps DEF TypeOK
<1>5. active' \in SUBSET Instruments
  BY ActiveSteps DEF TypeOK, ActivateInstrument, DeactivateInstrument
<1>6. req' \in [Requests -> RequestType]
  <2>1. ASSUME NEW q \in Requests, Done(q) PROVE req' \in [Requests -> RequestType]
    BY <2>1 DEF Done, TypeOK, RequestType
  <2>2. ASSUME NEW q \in Requests, NEW r \in Runs, NEW u \in Users, NEW p \in Periodes,
               LoadCreate(q, r, u, p)
        PROVE  req' \in [Requests -> RequestType]
    BY <2>2 DEF LoadCreate, Accept, TypeOK, RequestType, CreateType
  <2>3. ASSUME NEW q \in Requests, NEW r \in Runs, NEW op \in Operations, NEW u \in Users,
               LoadOp(q, op, r, u)
        PROVE  req' \in [Requests -> RequestType]
    BY <2>3 DEF LoadOp, Accept, TypeOK, RequestType, OpType
  <2>4. ASSUME NEW q \in Requests, NEW r \in Runs, NEW i \in Instruments, LoadCompute(q, r, i)
        PROVE  req' \in [Requests -> RequestType]
    BY <2>4 DEF LoadCompute, Accept, TypeOK, RequestType, ComputeType
  <2> QED
    BY <2>1, <2>2, <2>3, <2>4, RequestSteps DEF TypeOK
<1>7. queue' \in [Runs -> Nat]
  <2>1. ASSUME NEW q \in Requests, CommitStart(q) PROVE queue' \in [Runs -> Nat]
    BY <2>1 DEF CommitStart, TypeOK
  <2>2. ASSUME NEW r \in Runs, GiveUp(r) \/ \E k \in Workers : PickUp(k, r)
        PROVE  queue' \in [Runs -> Nat]
    BY <2>2 DEF GiveUp, PickUp, TypeOK
  <2>3. ASSUME NEW k \in Workers, MarkCompleted(k) \/ Abandon(k) PROVE queue' \in [Runs -> Nat]
    BY <2>3 DEF MarkCompleted, Abandon, Redeliver, TypeOK
  <2> QED
    BY <2>1, <2>2, <2>3, QueueSteps DEF TypeOK
<1>8. worker' \in [Workers -> {Idle} \cup TaskType]
  <2>1. ASSUME NEW k \in Workers, NEW t \in {Idle} \cup TaskType, Becomes(k, t)
        PROVE  worker' \in [Workers -> {Idle} \cup TaskType]
    BY <2>1 DEF Becomes, TypeOK
  <2>2. ASSUME NEW k \in Workers, NEW r \in Runs, PickUp(k, r)
        PROVE  worker' \in [Workers -> {Idle} \cup TaskType]
    <3>1. [kind |-> "computing", run |-> r, todo |-> active, busy |-> {},
           failed |-> FALSE, stopped |-> FALSE] \in TaskType
      BY DEF TaskType, TypeOK
    <3> QED
      BY <2>1, <2>2, <3>1 DEF PickUp
  <2>3. ASSUME NEW k \in Workers, NEW i \in Instruments, BeginInstrument(k, i)
        PROVE  worker' \in [Workers -> {Idle} \cup TaskType]
    <3>1. worker[k] \in TaskType
      BY <2>3, Kinds DEF BeginInstrument
    <3>2. [worker[k] EXCEPT !.todo = @ \ {i}] \in TaskType
          /\ [worker[k] EXCEPT !.todo = @ \ {i}, !.busy = @ \cup {i}] \in TaskType
      BY <3>1 DEF TaskType
    <3> QED
      BY <2>1, <2>3, <3>2 DEF BeginInstrument
  <2>4. ASSUME NEW k \in Workers, NEW i \in Instruments, PersistInstrument(k, i)
        PROVE  worker' \in [Workers -> {Idle} \cup TaskType]
    <3>1. worker[k] \in TaskType
      BY <2>4, Kinds DEF PersistInstrument
    <3>2. [worker[k] EXCEPT !.busy = @ \ {i}] \in TaskType
      BY <3>1 DEF TaskType
    <3> QED
      BY <2>1, <2>4, <3>2 DEF PersistInstrument
  <2>5. ASSUME NEW k \in Workers, NEW i \in Instruments, FailInstrument(k, i)
        PROVE  worker' \in [Workers -> {Idle} \cup TaskType]
    <3>1. worker[k] \in TaskType
      BY <2>5, Kinds DEF FailInstrument
    <3>2. [worker[k] EXCEPT !.todo = @ \ {i}, !.busy = @ \ {i}, !.failed = TRUE] \in TaskType
      BY <3>1 DEF TaskType
    <3> QED
      BY <2>1, <2>5, <3>2 DEF FailInstrument
  <2>6. ASSUME NEW k \in Workers, EndContext(k)
        PROVE  worker' \in [Workers -> {Idle} \cup TaskType]
    <3>1. worker[k] \in TaskType
      BY <2>6, Kinds DEF EndContext
    <3>2. [worker[k] EXCEPT !.todo = {}, !.stopped = TRUE] \in TaskType
      BY <3>1 DEF TaskType
    <3> QED
      BY <2>1, <2>6, <3>2 DEF EndContext
  <2>7. ASSUME NEW k \in Workers, FinishBulk(k)
        PROVE  worker' \in [Workers -> {Idle} \cup TaskType]
    <3>1. worker[k] \in TaskType
      BY <2>7, Kinds DEF FinishBulk
    <3>2. [worker[k] EXCEPT !.kind = "marking"] \in TaskType
      BY <3>1 DEF TaskType
    <3> QED
      BY <2>1, <2>7, <3>2 DEF FinishBulk
  <2>8. ASSUME NEW k \in Workers, MarkCompleted(k) \/ Abandon(k)
        PROVE  worker' \in [Workers -> {Idle} \cup TaskType]
    BY <2>1, <2>8 DEF MarkCompleted, Abandon
  <2> QED
    BY <2>2, <2>3, <2>4, <2>5, <2>6, <2>7, <2>8, WorkerSteps DEF TypeOK
<1> QED
  BY <1>1, <1>2, <1>3, <1>4, <1>5, <1>6, <1>7, <1>8 DEF TypeOK

\* Runs, their snapshots, their lines and their trail are never taken away.
LEMMA Growth ==
    ASSUME TypeOK, Referenced, Next, NEW r \in Runs
    PROVE  /\ Exists(r) => Exists(r)' /\ (run[r].snapshot => run'[r].snapshot)
           /\ lines[r] \subseteq lines'[r] /\ spared[r] \subseteq spared'[r]
           /\ trail[r] \subseteq trail'[r]
           /\ Started(r) => Started(r)'
           /\ Finished(r) => Finished(r)'
<1>1. Exists(r) => Exists(r)' /\ (run[r].snapshot => run'[r].snapshot)
  <2>1. CASE run'[r] = run[r]
    BY <2>1 DEF Exists
  <2>2. CASE Updated(r)
    <3>1. run'[r] # Absent
      BY <2>2, RowExists DEF Updated
    <3>2. run[r] \in RowType
      BY <2>2, RowExists DEF Updated
    <3>3. run[r].snapshot => run'[r].snapshot
      BY <2>2, <3>2 DEF Updated, Updates, RowType, UpdateStartFields, UpdateCancel, UpdateProgress,
         UpdateSealRequest, UpdateSealApprove, UpdateSealReject, UpdateCompletion
    <3> QED
      BY <3>1, <3>3 DEF Exists
  <2> QED
    BY <2>1, <2>2, RowChange DEF Inserted
<1>2. lines[r] \subseteq lines'[r]
  BY LineSteps DEF CommitCompute, PersistInstrument, InsertResultLine, TypeOK
<1>3. spared[r] \subseteq spared'[r]
  BY SparedSteps DEF PersistInstrument, InsertResultLine, TypeOK
<1>4. trail[r] \subseteq trail'[r]
  BY TrailSteps DEF CommitRequestSeal, TypeOK
<1> QED
  BY <1>1, <1>2, <1>3, <1>4 DEF Started, Finished, Exists

-----------------------------------------------------------------------------
(* The invariant is inductive.                                             *)

\* It holds of the empty table.
LEMMA Initially == Init => IInv
<1> SUFFICES ASSUME Init PROVE IInv
  OBVIOUS
<1>1. TypeOK
  BY InstrumentAssumption DEF Init, TypeOK, RequestType
<1>2. Referenced /\ \A q \in Requests : JudgedOp(q)
  BY DEF Init, Referenced, JudgedOp, Idle, Operations
<1>3. \A k \in Workers : Diligent(k)
  BY DEF Init, Diligent
<1>4. \A r \in Runs : RowInv(r)
  BY DEF Init, RowInv, Exists
<1> QED
  BY <1>1, <1>2, <1>3, <1>4 DEF IInv, Init

\* A row keeps its part, whatever is committed on it.
LEMMA RowKept ==
    ASSUME IInv, Next, NEW r \in Runs
    PROVE  RowInv(r)'
<1>1. TypeOK /\ Referenced /\ RowInv(r)
  BY DEF IInv
<1>2. /\ Finished(r) => Finished(r)'
      /\ trail[r] \subseteq trail'[r]
  BY <1>1, Growth
<1>3. CASE run'[r] = run[r]
  BY <1>1, <1>2, <1>3 DEF RowInv, Exists, IsSealed
<1>4. CASE Inserted(r)
  BY <1>4, RowFields DEF RowInv, Inserted, IsSealed, ConsistencyCheck
<1>5. CASE Updated(r)
  <2> DEFINE w == run[r]
             new == run'[r]
  <2>1. w \in RowType /\ new \in RowType /\ Exists(r)
    BY <1>1, <1>5, RowExists DEF Updated
  <2>2. ConsistencyCheck(new) /\ SoDSealCheck(new)
    BY <1>5 DEF Updated
  <2>3. w.status = "SEALED" => new = w
    BY <1>1, <1>5, <2>1 DEF Updated, SealedGuard, RowInv, ConsistencyCheck
  <2>4. CASE new.status \in {"DRAFT", "IN_PROGRESS", "CANCELLED", "COMPLETED_WITH_ERRORS"}
    BY <2>2, <2>4 DEF RowInv, IsSealed
  <2>5. CASE new.status = w.status /\ new.requester = w.requester /\ w.status # "SEALED"
    BY <1>1, <1>2, <2>1, <2>2, <2>5 DEF RowInv, IsSealed
  <2>6. ASSUME NEW q \in Requests, req[q].run = r, req[q].kind = "requestSeal",
               new = UpdateSealRequest(w, req[q].user), req[q].user \in trail'[r]
        PROVE  RowInv(r)'
    <3>1. new.status = "SEAL_REQUESTED" /\ new.requester = req[q].user
      BY <2>1, <2>6 DEF UpdateSealRequest, RowType
    <3>2. Finished(r)'
      BY <1>2, <2>6 DEF IInv, JudgedOp
    <3> QED
      BY <2>2, <2>6, <3>1, <3>2 DEF RowInv, IsSealed
  <2>7. ASSUME NEW q \in Requests, req[q].run = r, req[q].kind = "approveSeal",
               new = UpdateSealApprove(w, req[q].user)
        PROVE  RowInv(r)'
    <3>1. new.status = "SEALED" /\ new.sealer = req[q].user
      BY <2>1, <2>7 DEF UpdateSealApprove, RowType
    <3>2. Finished(r)' /\ trail'[r] \ {req[q].user} # {}
      BY <1>2, <2>7 DEF IInv, JudgedOp
    <3>3. new.sealer \notin {new.creator, new.requester}
      BY <2>2, <3>1 DEF ConsistencyCheck, SoDSealCheck
    <3> QED
      BY <2>2, <3>1, <3>2, <3>3 DEF RowInv, IsSealed
  <2>8. ASSUME NEW q \in Requests, req[q].run = r, req[q].kind = "rejectSeal",
               new = UpdateSealReject(w)
        PROVE  RowInv(r)'
    <3>1. new.status = "COMPLETED"
      BY <2>1, <2>8 DEF UpdateSealReject, RowType
    <3>2. Finished(r)'
      BY <1>2, <2>8 DEF IInv, JudgedOp
    <3> QED
      BY <2>2, <3>1, <3>2 DEF RowInv, IsSealed
  <2>9. ASSUME NEW k \in Workers, worker[k].kind = "marking", worker[k].run = r,
               new = UpdateCompletion(w, worker[k].failed)
        PROVE  RowInv(r)'
    <3>1. CASE worker[k].failed
      <4>1. new.status = "COMPLETED_WITH_ERRORS"
        BY <2>1, <2>9, <3>1 DEF UpdateCompletion, RowType
      <4> QED
        BY <2>4, <4>1
    <3>2. CASE ~worker[k].failed
      <4>1. new.status = "COMPLETED"
        BY <2>1, <2>9, <3>2 DEF UpdateCompletion, RowType
      <4>2. worker[k] # Idle /\ worker[k] \in TaskType
        BY <1>1, <2>9, Kinds DEF Idle
      <4>3. Started(r) /\ Book \subseteq lines[r] \cup spared[r]
        BY <2>9, <3>2, <4>2 DEF IInv, Referenced, Diligent
      <4>4. Finished(r)'
        BY <1>2, <4>3 DEF Started, Finished
      <4> QED
        BY <2>2, <4>1, <4>4 DEF RowInv, IsSealed
    <3> QED
      BY <3>1, <3>2
  <2>10. CASE new = UpdateStartFields(w)
    BY <2>1, <2>4, <2>10 DEF UpdateStartFields, RowType
  <2>11. CASE new = UpdateCancel(w)
    BY <2>1, <2>4, <2>11 DEF UpdateCancel, RowType
  <2>12. CASE new = UpdateProgress(w)
    BY <1>3, <2>1, <2>3, <2>5, <2>12 DEF UpdateProgress, RowType
  <2> QED
    BY <1>5, <2>6, <2>7, <2>8, <2>9, <2>10, <2>11, <2>12 DEF Updated, Updates
<1> QED
  BY <1>1, <1>3, <1>4, <1>5, RowChange

\* What was judged stays true while a request waits, and is true when it is accepted.
LEMMA JudgedKept ==
    ASSUME IInv, Next, NEW q \in Requests
    PROVE  JudgedOp(q)' /\ (req[q].kind \in Operations => Exists(req[q].run))'
<1> DEFINE Goal == JudgedOp(q)' /\ (req[q].kind \in Operations => Exists(req[q].run))'
<1>1. TypeOK /\ Referenced /\ JudgedOp(q)
  BY DEF IInv
<1>2. CASE req'[q] = req[q]
  <2>1. CASE req[q].kind \in Operations
    <3>1. PICK r \in Runs : req[q].run = r /\ Exists(r)
      BY <1>1, <2>1, Kinds DEF OpType, Referenced
    <3>2. Exists(r)' /\ (Finished(r) => Finished(r)') /\ trail[r] \subseteq trail'[r]
      BY <1>1, <3>1, Growth
    <3>3. (req[q].kind = "approveSeal")' => (trail[r] \ {req[q].user} # {})'
      BY <1>1, <1>2, <3>1, <3>2 DEF JudgedOp
    <3>4. (req[q].kind \in {"requestSeal", "approveSeal", "rejectSeal"})' => Finished(r)'
      BY <1>1, <1>2, <3>1, <3>2 DEF JudgedOp
    <3>5. req'[q].run = r
      BY <1>2, <3>1
    <3>6. Exists(req[q].run)'
      BY <3>2, <3>5 DEF Exists
    <3>7. JudgedOp(q)'
      BY <3>3, <3>4, <3>5 DEF JudgedOp, Exists, Finished
    <3> QED
      BY <3>6, <3>7
  <2>2. CASE req[q].kind \notin Operations
    BY <1>2, <2>2 DEF JudgedOp, Operations
  <2> QED
    BY <2>1, <2>2
<1>3. CASE req'[q] = Idle
  BY <1>3 DEF JudgedOp, Idle, Operations
<1>4. ASSUME NEW r \in Runs, NEW u \in Users, NEW p \in Periodes, LoadCreate(q, r, u, p)
      PROVE  Goal
  BY <1>1, <1>4 DEF LoadCreate, Accept, TypeOK, JudgedOp, Operations
<1>5. ASSUME NEW r \in Runs, NEW i \in Instruments, LoadCompute(q, r, i)
      PROVE  Goal
  BY <1>1, <1>5 DEF LoadCompute, Accept, TypeOK, JudgedOp, Operations
<1>6. ASSUME NEW r \in Runs, NEW op \in Operations, NEW u \in Users, LoadOp(q, op, r, u)
      PROVE  Goal
  <2>1. req'[q] = [kind |-> op, run |-> r, user |-> u] /\ UNCHANGED <<run, lines, spared, trail>>
    BY <1>1, <1>6 DEF LoadOp, Accept, TypeOK
  <2>2. Exists(r) /\ RowInv(r)
    BY <1>6 DEF LoadOp, IInv
  <2>3. op = "requestSeal" => run[r].status = "COMPLETED"
    BY <1>6 DEF LoadOp, CanRequestSeal
  <2>4. op = "rejectSeal" => run[r].status = "SEAL_REQUESTED"
    BY <1>6 DEF LoadOp, CanRejectSeal
  <2>5. op = "approveSeal" => run[r].status = "SEAL_REQUESTED" /\ u # run[r].requester
    BY <1>6 DEF LoadOp, CanApproveSeal
  <2>6. op \in {"requestSeal", "rejectSeal", "approveSeal"} => Finished(r)
    BY <2>2, <2>3, <2>4, <2>5 DEF RowInv
  <2>7. op = "approveSeal" => trail[r] \ {u} # {}
    BY <2>2, <2>5 DEF RowInv
  <2>8. /\ req'[q].run = r /\ req'[q].user = u /\ req'[q].kind = op
        /\ Exists(r)' /\ (Finished(r) => Finished(r)') /\ trail'[r] = trail[r]
    BY <2>1, <2>2 DEF Exists, Finished
  <2> QED
    BY <2>6, <2>7, <2>8 DEF JudgedOp, Exists, Finished
<1>7. \/ req'[q] = req[q] \/ req'[q] = Idle
      \/ \E r \in Runs :
           \/ \E u \in Users, p \in Periodes : LoadCreate(q, r, u, p)
           \/ \E op \in Operations, u \in Users : LoadOp(q, op, r, u)
           \/ \E i \in Instruments : LoadCompute(q, r, i)
  <2>1. ASSUME NEW x \in Requests, Done(x) PROVE req'[q] = req[q] \/ req'[q] = Idle
    BY <1>1, <2>1 DEF Done, TypeOK
  <2>2. ASSUME NEW x \in Requests \ {q}, NEW new, Accept(x, new) PROVE req'[q] = req[q]
    BY <1>1, <2>2 DEF Accept, TypeOK
  <2> QED
    BY <2>1, <2>2, RequestSteps DEF LoadCreate, LoadOp, LoadCompute
<1> QED
  BY <1>2, <1>3, <1>4, <1>5, <1>6, <1>7

\* A queued task belongs to a run that was started.
LEMMA QueueKept ==
    ASSUME IInv, Next, NEW r \in Runs
    PROVE  (queue[r] > 0 => Started(r))'
<1>1. TypeOK /\ Referenced /\ queue[r] \in Nat
  BY DEF IInv, TypeOK
<1>2. Started(r) => Started(r)'
  BY <1>1, Growth
<1>3. CASE queue'[r] = queue[r]
  BY <1>1, <1>2, <1>3 DEF Referenced
<1>4. ASSUME NEW q \in Requests, CommitStart(q), queue'[r] # queue[r]
      PROVE  Started(r)'
  <2>1. req[q].run = r
    BY <1>1, <1>4 DEF CommitStart, TypeOK
  <2>2. Exists(r) /\ run[r] \in RowType
    BY <1>1, <1>4, <2>1, RowExists DEF CommitStart, Referenced, Operations
  <2>3. run'[r] = UpdateStartFields(run[r])
    BY <1>1, <1>4, <2>1 DEF CommitStart, Write, TypeOK
  <2>4. run'[r].snapshot
    BY <2>2, <2>3 DEF UpdateStartFields, RowType
  <2> QED
    BY <1>1, <2>2, <2>4, Growth DEF Started
<1>5. ASSUME NEW x \in Runs, GiveUp(x) \/ \E k \in Workers : PickUp(k, x)
      PROVE  (queue[r] > 0 => Started(r))'
  <2>1. queue'[r] > 0 => queue[r] > 0
    BY <1>1, <1>5 DEF GiveUp, PickUp, TypeOK
  <2> QED
    BY <1>1, <1>2, <2>1 DEF Referenced
<1>6. ASSUME NEW k \in Workers, MarkCompleted(k) \/ Abandon(k), queue'[r] # queue[r]
      PROVE  Started(r)'
  <2>1. worker[k] # Idle /\ worker[k].run = r
    BY <1>1, <1>6 DEF MarkCompleted, Abandon, Redeliver, TypeOK, Idle
  <2> QED
    BY <1>1, <1>2, <2>1 DEF Referenced
<1> QED
  BY <1>3, <1>4, <1>5, <1>6, QueueSteps

\* Workers stay with runs that were started, and stay diligent.
LEMMA WorkerKept ==
    ASSUME IInv, Next, NEW k \in Workers
    PROVE  (worker[k] # Idle => Started(worker[k].run))' /\ Diligent(k)'
<1> DEFINE Goal == (worker[k] # Idle => Started(worker[k].run))' /\ Diligent(k)'
           t == worker[k]
<1>1. TypeOK /\ Referenced /\ Diligent(k)
  BY DEF IInv
<1>2. ASSUME NEW r \in Runs
      PROVE  /\ Started(r) => Started(r)'
             /\ lines[r] \subseteq lines'[r] /\ spared[r] \subseteq spared'[r]
  BY <1>1, Growth
<1>3. CASE worker'[k] = t
  <2>1. CASE t = Idle
    BY <1>3, <2>1 DEF Diligent
  <2>2. CASE t # Idle
    <3>1. PICK r \in Runs : t.run = r
      BY <1>1, <2>2, Kinds DEF TaskType
    <3>2. Started(r)' /\ lines[r] \subseteq lines'[r] /\ spared[r] \subseteq spared'[r]
      BY <1>1, <1>2, <2>2, <3>1 DEF Referenced
    <3>3. (worker[k] # Idle => Started(worker[k].run))'
      BY <1>3, <3>1, <3>2 DEF Started, Exists
    <3>4. Diligent(k)'
      BY <1>1, <1>3, <2>2, <3>1, <3>2 DEF Diligent
    <3> QED
      BY <3>3, <3>4
  <2> QED
    BY <2>1, <2>2
<1>4. CASE worker'[k] = Idle
  BY <1>4 DEF Diligent
<1>5. ASSUME NEW r \in Runs, PickUp(k, r) PROVE Goal
  <2>1. worker'[k] = [kind |-> "computing", run |-> r, todo |-> active, busy |-> {},
                      failed |-> FALSE, stopped |-> FALSE]
    BY <1>1, <1>5 DEF PickUp, Becomes, TypeOK
  <2>2. Started(r)'
    BY <1>1, <1>2, <1>5 DEF PickUp, Referenced
  <2>3. Book \subseteq active
    BY DEF IInv
  <2>4. (worker[k] # Idle => Started(worker[k].run))'
    BY <2>1, <2>2 DEF Started, Exists
  <2>5. Diligent(k)'
    BY <2>1, <2>3 DEF Diligent
  <2> QED
    BY <2>4, <2>5
<1>6. ASSUME t # Idle, worker'[k] \in TaskType, worker'[k].run = t.run,
             (/\ ~t.failed /\ ~t.stopped =>
                   Book \subseteq lines[t.run] \cup spared[t.run] \cup t.todo \cup t.busy
              /\ t.kind = "marking" => t.todo = {} /\ t.busy = {} /\ ~t.stopped)
             => LET n == worker'[k] IN
                /\ ~n.failed /\ ~n.stopped =>
                     Book \subseteq lines'[t.run] \cup spared'[t.run] \cup n.todo \cup n.busy
                /\ n.kind = "marking" => n.todo = {} /\ n.busy = {} /\ ~n.stopped
      PROVE  Goal
  <2>1. PICK r \in Runs : t.run = r
    BY <1>1, <1>6, Kinds DEF TaskType
  <2>2. Started(r)'
    BY <1>1, <1>2, <1>6, <2>1 DEF Referenced
  <2>3. (worker[k] # Idle => Started(worker[k].run))'
    BY <1>6, <2>1, <2>2 DEF Started, Exists
  <2>4. Diligent(k)'
    BY <1>1, <1>6, <2>1 DEF Diligent
  <2> QED
    BY <2>3, <2>4
<1>7. ASSUME NEW i \in Instruments, BeginInstrument(k, i) PROVE Goal
  <2>1. t \in TaskType /\ t # Idle /\ t.kind = "computing" /\ UNCHANGED <<lines, spared>>
    BY <1>1, <1>7, Kinds DEF BeginInstrument, Idle
  <2>2. CASE i \in lines[t.run] /\ worker'[k] = [t EXCEPT !.todo = @ \ {i}]
    BY <1>6, <2>1, <2>2 DEF TaskType
  <2>3. CASE worker'[k] = [t EXCEPT !.todo = @ \ {i}, !.busy = @ \cup {i}]
    <3>1. worker'[k] \in TaskType
      <4>1. t.todo \ {i} \in SUBSET Instruments /\ t.busy \cup {i} \in SUBSET Instruments
        BY <2>1 DEF TaskType
      <4> QED
        BY <2>1, <2>3, <4>1 DEF TaskType
    <3>2. /\ worker'[k].run = t.run /\ worker'[k].kind = "computing"
          /\ (worker'[k].failed <=> t.failed) /\ (worker'[k].stopped <=> t.stopped)
      BY <2>1, <2>3 DEF TaskType
    <3>3. t.todo \cup t.busy \subseteq worker'[k].todo \cup worker'[k].busy
      BY <2>1, <2>3 DEF TaskType
    <3> QED
      BY <1>6, <2>1, <3>1, <3>2, <3>3
  <2> QED
    BY <1>1, <1>7, <2>2, <2>3 DEF BeginInstrument, Becomes, TypeOK
<1>8. ASSUME NEW i \in Instruments, PersistInstrument(k, i) PROVE Goal
  <2>1. t \in TaskType /\ t # Idle /\ t.kind = "computing"
    BY <1>1, <1>8, Kinds DEF PersistInstrument, Idle
  <2>2. i \in lines'[t.run] \cup spared'[t.run]
    BY <1>1, <1>8, <2>1 DEF PersistInstrument, InsertResultLine, TypeOK, TaskType
  <2>3. lines[t.run] \subseteq lines'[t.run] /\ spared[t.run] \subseteq spared'[t.run]
    <3>1. t.run \in Runs
      BY <2>1 DEF TaskType
    <3> QED
      BY <1>2, <3>1
  <2>4. worker'[k] = [t EXCEPT !.busy = @ \ {i}]
    BY <1>1, <1>8 DEF PersistInstrument, Becomes, TypeOK
  <2> QED
    BY <1>6, <2>1, <2>2, <2>3, <2>4 DEF TaskType
<1>9. ASSUME NEW i \in Instruments, FailInstrument(k, i) PROVE Goal
  <2>1. t \in TaskType /\ t # Idle /\ t.kind = "computing"
    BY <1>1, <1>9, Kinds DEF FailInstrument, Idle
  <2>2. worker'[k] = [t EXCEPT !.todo = @ \ {i}, !.busy = @ \ {i}, !.failed = TRUE]
    BY <1>1, <1>9 DEF FailInstrument, Becomes, TypeOK
  <2> QED
    BY <1>6, <2>1, <2>2 DEF TaskType
<1>10. ASSUME EndContext(k) PROVE Goal
  <2>1. t \in TaskType /\ t # Idle /\ t.kind = "computing"
    BY <1>1, <1>10, Kinds DEF EndContext, Idle
  <2>2. worker'[k] = [t EXCEPT !.todo = {}, !.stopped = TRUE]
    BY <1>1, <1>10 DEF EndContext, Becomes, TypeOK
  <2> QED
    BY <1>6, <2>1, <2>2 DEF TaskType
<1>11. ASSUME FinishBulk(k), worker'[k] # Idle PROVE Goal
  <2>1. t \in TaskType /\ t # Idle /\ t.todo = {} /\ t.busy = {} /\ UNCHANGED <<lines, spared>>
    BY <1>1, <1>11, Kinds DEF FinishBulk, Idle
  <2>2. ~t.stopped /\ worker'[k] = [t EXCEPT !.kind = "marking"]
    BY <1>1, <1>11 DEF FinishBulk, Becomes, TypeOK
  <2> QED
    BY <1>6, <2>1, <2>2 DEF TaskType
<1>12. ASSUME MarkCompleted(k) \/ Abandon(k) PROVE Goal
  BY <1>1, <1>4, <1>12 DEF MarkCompleted, Abandon, Becomes, TypeOK
<1>13. ASSUME NEW x \in Workers \ {k}, NEW task, Becomes(x, task) PROVE worker'[k] = t
  BY <1>1, <1>13 DEF Becomes, TypeOK
<1>14. ASSUME NEW x \in Workers \ {k},
              \/ \E r \in Runs : PickUp(x, r)
              \/ \E i \in Instruments :
                   BeginInstrument(x, i) \/ PersistInstrument(x, i) \/ FailInstrument(x, i)
              \/ EndContext(x) \/ FinishBulk(x) \/ MarkCompleted(x) \/ Abandon(x)
       PROVE  Goal
  BY <1>3, <1>13, <1>14 DEF PickUp, BeginInstrument, PersistInstrument, FailInstrument,
     EndContext, FinishBulk, MarkCompleted, Abandon
<1> QED
  BY <1>3, <1>4, <1>5, <1>7, <1>8, <1>9, <1>10, <1>11, <1>12, <1>14, WorkerSteps

\* The instruments of the book stay active.
LEMMA BookKept ==
    ASSUME Book \subseteq active, Next
    PROVE  Book \subseteq active'
BY ActiveSteps DEF ActivateInstrument, DeactivateInstrument

\* Every step keeps the invariant.
LEMMA Inductive == IInv /\ [Next]_vars => IInv'
<1>1. ASSUME IInv, UNCHANGED vars PROVE IInv'
  BY <1>1 DEF IInv, vars, TypeOK, Referenced, JudgedOp, Diligent, RowInv, Started, Finished,
     Exists, IsSealed
<1>2. ASSUME IInv, Next PROVE IInv'
  <2>1. TypeOK' /\ (Book \subseteq active)'
    BY <1>2, TypePreserved, BookKept DEF IInv
  <2>2. Referenced'
    BY <1>2, JudgedKept, QueueKept, WorkerKept DEF Referenced
  <2>3. \A q \in Requests : JudgedOp(q)'
    BY <1>2, JudgedKept
  <2>4. \A k \in Workers : Diligent(k)'
    BY <1>2, WorkerKept
  <2>5. \A r \in Runs : RowInv(r)'
    BY <1>2, RowKept
  <2> QED
    BY <2>1, <2>2, <2>3, <2>4, <2>5 DEF IInv
<1> QED
  BY <1>1, <1>2

-----------------------------------------------------------------------------
(* The theorems.                                                           *)

\* The invariant holds of every behaviour: what was judged before a transaction
\* stays true until it, and no worker forgets an instrument.
THEOREM Invariance == Spec => []IInv
BY Initially, Inductive, PTL DEF Spec

\* Types, for any number of runs, people, instruments, requests and workers.
THEOREM TypeCorrect == Spec => []TypeOK
<1>1. IInv => TypeOK
  BY DEF IInv
<1> QED
  BY <1>1, Invariance, PTL

\* Whoever sealed a run neither created it nor is its recorded requester.
THEOREM SealSeparation == Spec => []SealSoD
<1>1. IInv => SealSoD
  BY DEF IInv, RowInv, SealSoD, IsSealed
<1> QED
  BY <1>1, Invariance, PTL

\* Somebody other than the sealer asked for the seal, also where a rejection has
\* wiped the requester from the row.
THEOREM FourEyes == Spec => []FourEyesSeal
<1>1. IInv => FourEyesSeal
  BY DEF IInv, RowInv, FourEyesSeal, IsSealed
<1> QED
  BY <1>1, Invariance, PTL

\* A run that may be sealed, and a sealed one, has every line it must have and its
\* parameters, for any number of workers, failures and redeliveries.
THEOREM Complete == Spec => []SealedRunComplete
<1>1. IInv => SealedRunComplete
  BY DEF IInv, RowInv, SealedRunComplete, Finished
<1> QED
  BY <1>1, Invariance, PTL

\* No step of a request or a worker changes a sealed run.
THEOREM Frozen == Spec => SealedRunFrozen
<1>1. ASSUME IInv, Next, NEW r \in Runs, IsSealed(r) PROVE run'[r] = run[r]
  <2>1. TypeOK /\ Referenced /\ Exists(r) /\ run[r].sealer # NoUser
    BY <1>1 DEF IInv, RowInv, IsSealed, ConsistencyCheck
  <2> QED
    BY <2>1, <1>1, RowChange DEF Inserted, Updated, SealedGuard
<1>2. IInv /\ [Next]_vars => [\A r \in Runs : IsSealed(r) => run'[r] = run[r]]_vars
  BY <1>1 DEF vars
<1> QED
  BY <1>2, Invariance, PTL DEF Spec, SealedRunFrozen

=============================================================================
