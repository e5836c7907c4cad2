----------------------------- MODULE Idempotency -----------------------------
(***************************************************************************)
(* The Idempotency-Key middleware (common/middleware/idempotency.go) over  *)
(* sys.idempotency_key.                                                    *)
(*                                                                         *)
(* A mutating request looks its key up, runs the handler if the key is not *)
(* there, and saves the answer after the handler has answered.  Nothing    *)
(* reserves a key meanwhile, and nothing in the program deletes an expired *)
(* row.  A payload stands for method, path and body, which are hashed      *)
(* together.  Requests without a valid key are refused before the lookup,  *)
(* others than POST, PUT, PATCH and DELETE never reach it: neither touches *)
(* this state, and they are left out.                                      *)
(***************************************************************************)
EXTENDS Integers, Sequences, FiniteSets

CONSTANTS
    Requests,       \* the requests the server handles at one time
    Keys, Payloads,
    NoRow,          \* NULL
    TTL,            \* life of a saved answer
    MaxClock,       \* bound: time that passes
    MaxRuns         \* bound: executions of handlers

(* What the handler answered: a success, a refusal, a failure.              *)
Statuses == {"2xx", "4xx", "5xx"}

ASSUME IdempotencyAssumption ==
    /\ TTL \in Nat \ {0} /\ MaxClock \in Nat /\ MaxRuns \in Nat
    /\ NoRow \notin Keys
    /\ NoRow \notin [payload : Payloads, answer : Nat, status : Statuses, expires : Nat]

VARIABLES
    clock,
    stored,     \* sys.idempotency_key: key -> [payload, answer, status, expires]
                \* or NoRow
    req,        \* the requests
    ran,        \* every execution of a handler, in order: its key and payload
    orderly     \* keys whose requests never overlapped and whose executions
                \* succeeded, were saved and have not expired

idemVars == <<clock, stored, req, ran, orderly>>

NotYet == [step |-> "idle", key |-> NoRow, payload |-> NoRow, answer |-> 0, status |-> "none"]
(* handle: the answer will be saved; unsaved: it will not.                  *)
Steps == {"idle", "lookup", "handle", "unsaved", "save", "ran", "replayed", "mismatch"}
Open == {r \in Requests : req[r].step \in {"lookup", "handle", "unsaved", "save"}}
Of(key) == {n \in DOMAIN ran : ran[n].key = key}

IdemInit ==
    /\ clock = 0 /\ ran = <<>> /\ orderly = Keys
    /\ stored = [k \in Keys |-> NoRow]
    /\ req = [r \in Requests |-> NotYet]

-----------------------------------------------------------------------------
(* WHERE key = $1 AND expires_at > now()                                    *)
Live(key) == stored[key] # NoRow /\ stored[key].expires > clock

ExpiresLater(now) == now + TTL + 1
ExpiresAtOnce(now) == now
Expires(now) == now + TTL

SameRequestAny(row, payload) == TRUE
SameRequest(row, payload) == row.payload = payload

(* ON CONFLICT (key) DO NOTHING: an expired row still is a conflict.  The   *)
(* status of the answer is not looked at.                                   *)
Saves(row) == row = NoRow

Arrive(r, key, payload) ==
    /\ r \notin Open
    /\ req' = [req EXCEPT ![r] = [NotYet EXCEPT !.step = "lookup", !.key = key, !.payload = payload]]
    /\ orderly' = IF \E o \in Open : req[o].key = key THEN orderly \ {key} ELSE orderly
    /\ UNCHANGED <<clock, stored, ran>>

Reach(r, step, n) == req' = [req EXCEPT ![r].step = step, ![r].answer = n]

(* The body cannot be read or the lookup fails: the handler runs, and its   *)
(* answer is not saved.                                                     *)
FailOpen(r) ==
    /\ req[r].step = "lookup"
    /\ Reach(r, "unsaved", 0) /\ orderly' = orderly \ {req[r].key}
    /\ UNCHANGED <<clock, stored, ran>>

Found(r) ==
    /\ req[r].step = "lookup" /\ Live(req[r].key)
    /\ \/ /\ SameRequest(stored[req[r].key], req[r].payload)
          /\ Reach(r, "replayed", stored[req[r].key].answer)
       \/ /\ ~SameRequest(stored[req[r].key], req[r].payload)
          /\ Reach(r, "mismatch", 0)
    /\ UNCHANGED <<clock, stored, ran, orderly>>

NotFound(r) ==
    /\ req[r].step = "lookup" /\ ~Live(req[r].key)
    /\ Reach(r, "handle", 0)
    /\ UNCHANGED <<clock, stored, ran, orderly>>

Run(r) ==
    /\ Len(ran) < MaxRuns
    /\ ran' = Append(ran, [key |-> req[r].key, payload |-> req[r].payload])

(* The handler runs and answers.                                            *)
Handle(r) ==
    /\ req[r].step = "handle" /\ Run(r)
    /\ \E status \in Statuses :
          /\ req' = [req EXCEPT ![r].step = "save", ![r].answer = Len(ran'), ![r].status = status]
          /\ orderly' = IF status = "2xx" THEN orderly ELSE orderly \ {req[r].key}
    /\ UNCHANGED <<clock, stored>>

(* Not saved: the lookup failed, the answer has no body, or the handler     *)
(* panics.                                                                  *)
HandleUnsaved(r) ==
    /\ req[r].step \in {"handle", "unsaved"} /\ Run(r)
    /\ Reach(r, "ran", Len(ran')) /\ orderly' = orderly \ {req[r].key}
    /\ UNCHANGED <<clock, stored>>

Row(r) == [payload |-> req[r].payload, answer |-> req[r].answer, status |-> req[r].status,
           expires |-> Expires(clock)]
Save(r) ==
    /\ req[r].step = "save"
    /\ Reach(r, "ran", req[r].answer)
    /\ stored' = IF Saves(stored[req[r].key])
                 THEN [stored EXCEPT ![req[r].key] = Row(r)] ELSE stored
    /\ UNCHANGED <<clock, ran, orderly>>

(* The insert uses the request's context; its failure is only logged.       *)
SaveFails(r) ==
    /\ req[r].step = "save"
    /\ Reach(r, "ran", req[r].answer) /\ orderly' = orderly \ {req[r].key}
    /\ UNCHANGED <<clock, stored, ran>>

Tick ==
    /\ clock < MaxClock /\ clock' = clock + 1
    /\ orderly' = {k \in orderly : stored[k] # NoRow => stored[k].expires > clock'}
    /\ UNCHANGED <<stored, req, ran>>

IdemNext ==
    \/ Tick
    \/ \E r \in Requests :
          \/ \E key \in Keys, payload \in Payloads : Arrive(r, key, payload)
          \/ FailOpen(r) \/ Found(r) \/ NotFound(r)
          \/ Handle(r) \/ HandleUnsaved(r) \/ Save(r) \/ SaveFails(r)

IdemSpec == IdemInit /\ [][IdemNext]_idemVars

-----------------------------------------------------------------------------
(* Saved rows and requests have their types; a saved answer is that of an   *)
(* execution of its own key, and lives for at most the TTL (the 24 hours of *)
(* idempotencyKeyTTL).                                                      *)
IdemTypeOK ==
    /\ clock \in 0 .. MaxClock /\ orderly \subseteq Keys
    /\ \A r \in Requests : req[r].step \in Steps
    /\ \A k \in Keys : stored[k] # NoRow =>
          stored[k].answer \in Of(k) /\ stored[k].expires <= clock + TTL

(* A replayed answer is the answer of an execution of the same key and the  *)
(* same payload: no request is ever answered with what another one did,     *)
(* however requests overlap (the hash comparison in Idempotency).           *)
ReplayFaithful ==
    \A r \in Requests : req[r].step = "replayed" =>
        ran[req[r].answer] = [key |-> req[r].key, payload |-> req[r].payload]

(* A key whose requests came one after the other and succeeded, and whose   *)
(* answer was saved and lives, was executed once: every retry was replayed. *)
SequentialOnce == \A k \in orderly : Cardinality(Of(k)) <= 1

(* "Hanya simpan sukses (2xx) dan 4xx tertentu", only successes and certain *)
(* refusals are saved (idempotency.go:139): what the code does refutes it,  *)
(* a failure is kept and answers every retry until it expires.              *)
FailuresNotSaved == \A k \in Keys : stored[k] # NoRow => stored[k].status # "5xx"
=============================================================================
