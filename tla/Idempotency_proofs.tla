------------------------- MODULE Idempotency_proofs -------------------------
(***************************************************************************)
(* What the idempotency keys guarantee for any number of requests.         *)
(***************************************************************************)
EXTENDS Idempotency, TLAPS

-----------------------------------------------------------------------------
(* The inductive invariant.                                                *)

\* What the phase of a request says of it.
PhaseInv ==
    \A r \in Requests :
        /\ pc[r] # "new" => key[r] \in Keys
        /\ r \in reserved => pc[r] \in {"handle", "update", "forward", "done"}
        /\ pc[r] = "update" => r \in reserved
        /\ result[r] # "none" => pc[r] \in {"update", "forward", "done"}
        /\ pc[r] # "done" => reply[r] = "none"

\* At most one request has a reservation waiting for its commit, and it has judged
\* the row as it still is.
ReserveInv ==
    \A k \in Keys : \A r \in Requests :
        Reserving(r, k) =>
            /\ row[k].status \in {"absent", "failed"}
            /\ \A q \in Requests : Reserving(q, k) => q = r

\* The reserved requests with key k that succeeded.
Succeeded(k) == {r \in reserved : key[r] = k /\ result[r] = "2xx"}

\* Where the success of a key can be: nowhere while the key is free, with the
\* request that runs while one does, and in the row once it is completed.
SuccessInv ==
    \A k \in Keys :
        /\ row[k].status \in {"absent", "failed"} => Succeeded(k) = {}
        /\ \A r \in Running(k) : Succeeded(k) \subseteq {r}
        /\ row[k].status = "completed" => row[k].response \in Succeeded(k)
        /\ \A r, q \in Succeeded(k) : r = q

\* A replayed response is the success that the row of its key keeps.
Replayed ==
    \A r \in Requests :
        reply[r] \in Requests \ {r} =>
            /\ reply[r] \in reserved
            /\ key[reply[r]] = key[r]
            /\ result[reply[r]] = "2xx"
            /\ row[key[r]] = [status |-> "completed", response |-> reply[r]]

IInv == TypeOK /\ PhaseInv /\ ReserveInv /\ OneRunner /\ SuccessInv /\ Replayed

LEMMA InitInv == Init => IInv
<1> SUFFICES ASSUME Init PROVE IInv
  OBVIOUS
<1> USE DEF Init
<1>1. TypeOK
  BY DEF TypeOK, Statuses, Phases
<1>2. PhaseInv /\ ReserveInv /\ OneRunner
  BY DEF PhaseInv, ReserveInv, Reserving, OneRunner, Running
<1>3. SuccessInv
  BY DEF SuccessInv, Succeeded, Running
<1>4. Replayed
  BY NoneAssumption DEF Replayed
<1> QED
  BY <1>1, <1>2, <1>3, <1>4 DEF IInv

-----------------------------------------------------------------------------
(* The steps. *)

\* The parts of the invariant that read the keys, the rows and the results of the
\* reserved requests, under a step that changes none of them and starts nobody.
LEMMA QuietStep ==
    ASSUME IInv, NEW r \in Requests, UNCHANGED <<row, key, reserved, result>>,
           NEW phase \in Phases, pc' = [pc EXCEPT ![r] = phase],
           phase \in {"handle", "update"} => r \notin reserved
    PROVE  OneRunner' /\ SuccessInv'
<1>1. ASSUME NEW k \in Keys PROVE Running(k)' \subseteq Running(k)
  BY DEF Running, IInv, TypeOK
<1>2. ASSUME NEW k \in Keys PROVE Succeeded(k)' = Succeeded(k)
  BY DEF Succeeded
<1>3. OneRunner'
  BY <1>1 DEF OneRunner, IInv
<1>4. SuccessInv'
  BY <1>1, <1>2 DEF SuccessInv, IInv
<1> QED
  BY <1>3, <1>4

\* What was replayed stays right as long as completed rows and successes stay.
LEMMA ReplayStep ==
    ASSUME IInv, NEW r \in Requests, UNCHANGED key,
           \A q \in Requests : q # r => reply'[q] = reply[q],
           reply'[r] \in {r, reply[r], "none", "in progress"},
           \A q \in reserved : q \in reserved' /\ (result[q] = "2xx" => result'[q] = "2xx"),
           \A k \in Keys : row[k].status = "completed" => row'[k] = row[k]
    PROVE  Replayed'
<1> SUFFICES ASSUME NEW q \in Requests, reply'[q] \in Requests \ {q}
             PROVE  /\ reply'[q] \in reserved'
                    /\ key[reply'[q]] = key[q]
                    /\ result'[reply'[q]] = "2xx"
                    /\ row'[key[q]] = [status |-> "completed", response |-> reply'[q]]
  BY DEF Replayed
<1>1. reply'[q] = reply[q]
  BY NoneAssumption
<1>2. /\ reply[q] \in reserved /\ key[reply[q]] = key[q]
      /\ result[reply[q]] = "2xx"
      /\ row[key[q]] = [status |-> "completed", response |-> reply[q]]
  BY <1>1 DEF IInv, Replayed
<1>3. key[q] \in Keys
  <2>1. pc[reply[q]] # "new" /\ reply[q] \in Requests
    BY <1>2 DEF IInv, TypeOK, PhaseInv
  <2> QED
    BY <1>2, <2>1 DEF IInv, PhaseInv
<1>4. row'[key[q]] = row[key[q]]
  <2>1. row[key[q]].status = [status |-> "completed", response |-> reply[q]].status
    BY <1>2
  <2> QED
    BY <1>3, <2>1
<1>5. reply[q] \in reserved' /\ result'[reply[q]] = "2xx"
  BY <1>2
<1> QED
  BY <1>1, <1>2, <1>4, <1>5

\* A request that leaves the wait for its commit, or was never there, disturbs no
\* reservation unless it changes the row of another one.
LEMMA ReserveKept ==
    ASSUME IInv, NEW r \in Requests, UNCHANGED key,
           NEW phase \in Phases \ {"commit"}, pc' = [pc EXCEPT ![r] = phase],
           \A k \in Keys : row'[k] = row[k] \/ \A q \in Requests \ {r} : ~Reserving(q, k)
    PROVE  ReserveInv'
<1>1. \A q \in Requests, k \in Keys : Reserving(q, k)' => Reserving(q, k) /\ q # r
  BY DEF Reserving, IInv, TypeOK
<1>2. ASSUME NEW k \in Keys, NEW q \in Requests, Reserving(q, k)'
      PROVE  /\ row'[k].status \in {"absent", "failed"}
             /\ \A p \in Requests : Reserving(p, k)' => p = q
  <2>1. Reserving(q, k) /\ q # r
    BY <1>1, <1>2
  <2>2. row'[k] = row[k]
    BY <2>1
  <2> QED
    BY <1>1, <2>1, <2>2 DEF IInv, ReserveInv
<1> QED
  BY <1>2 DEF ReserveInv

\* A step that touches the row and the executions of one key alone.
LEMMA OneKeyStep ==
    ASSUME IInv, NEW k \in Keys,
           \A l \in Keys : l # k => /\ Running(l)' \subseteq Running(l)
                                   /\ Succeeded(l)' = Succeeded(l)
                                   /\ row'[l] = row[l],
           \A r \in Running(k)' : /\ Running(k)' = {r} /\ row'[k].status = "pending"
                                  /\ Succeeded(k)' \subseteq {r},
           row'[k].status \in {"absent", "failed"} => Succeeded(k)' = {},
           row'[k].status = "completed" => row'[k].response \in Succeeded(k)',
           \A r, q \in Succeeded(k)' : r = q
    PROVE  OneRunner' /\ SuccessInv'
<1>1. OneRunner'
  <2> SUFFICES ASSUME NEW l \in Keys, NEW r \in Running(l)'
               PROVE  Running(l)' = {r} /\ row'[l].status = "pending"
    BY DEF OneRunner
  <2> QED
    BY DEF IInv, OneRunner
<1>2. SuccessInv'
  <2> SUFFICES ASSUME NEW l \in Keys
               PROVE  /\ row'[l].status \in {"absent", "failed"} => Succeeded(l)' = {}
                      /\ \A r \in Running(l)' : Succeeded(l)' \subseteq {r}
                      /\ row'[l].status = "completed" => row'[l].response \in Succeeded(l)'
                      /\ \A r, q \in Succeeded(l)' : r = q
    BY DEF SuccessInv
  <2> QED
    BY DEF IInv, SuccessInv
<1> QED
  BY <1>1, <1>2

LEMMA ArriveInv == ASSUME IInv, NEW r \in Requests, Arrive(r) PROVE IInv'
<1>1. PICK k \in Keys : /\ key' = [key EXCEPT ![r] = k]
                        /\ pc' = [pc EXCEPT ![r] = "get"]
                        /\ pc[r] = "new" /\ UNCHANGED <<row, reserved, result, reply, moved>>
  BY DEF Arrive, GoTo
<1>2. r \notin reserved /\ reply[r] = "none"
  BY <1>1 DEF IInv, PhaseInv
<1>3. \A q \in reserved : key'[q] = key[q] /\ pc'[q] = pc[q]
  BY <1>1, <1>2 DEF IInv, TypeOK
<1>4. \A l \in Keys : Running(l)' = Running(l) /\ Succeeded(l)' = Succeeded(l)
  BY <1>1, <1>3 DEF Running, Succeeded
<1>5. TypeOK'
  BY <1>1 DEF IInv, TypeOK, Phases
<1>6. PhaseInv'
  BY <1>1, <1>2 DEF IInv, TypeOK, PhaseInv
<1>7. ReserveInv'
  BY <1>1, ZenonT(30) DEF IInv, TypeOK, ReserveInv, Reserving
<1>8. OneRunner' /\ SuccessInv'
  BY <1>1, <1>4 DEF IInv, OneRunner, SuccessInv
<1>9. Replayed'
  <2> SUFFICES ASSUME NEW q \in Requests, reply[q] \in Requests \ {q}
               PROVE  /\ reply[q] \in reserved
                      /\ key'[reply[q]] = key'[q]
                      /\ result[reply[q]] = "2xx"
                      /\ row[key'[q]] = [status |-> "completed", response |-> reply[q]]
    BY <1>1 DEF Replayed
  <2>1. q # r
    BY <1>2, NoneAssumption
  <2>2. key'[q] = key[q]
    BY <1>1, <2>1 DEF IInv, TypeOK
  <2>3. /\ reply[q] \in reserved /\ key[reply[q]] = key[q]
        /\ result[reply[q]] = "2xx"
        /\ row[key[q]] = [status |-> "completed", response |-> reply[q]]
    BY DEF IInv, Replayed
  <2> QED
    BY <1>3, <2>2, <2>3
<1> QED
  BY <1>5, <1>6, <1>7, <1>8, <1>9 DEF IInv

LEMMA GetInv == ASSUME IInv, NEW r \in Requests, Get(r) PROVE IInv'
<1> DEFINE found == row[key[r]]
<1>1. pc[r] = "get" /\ UNCHANGED <<row, key, reserved, result, moved>> /\ key[r] \in Keys
      /\ r \notin reserved
  BY DEF Get, IInv, PhaseInv
<1>2. CASE /\ found.status = "completed"
           /\ pc' = [pc EXCEPT ![r] = "done"]
           /\ reply' = [reply EXCEPT ![r] = found.response]
  <2>1. /\ found.response \in reserved /\ key[found.response] = key[r]
        /\ result[found.response] = "2xx"
        /\ found = [status |-> "completed", response |-> found.response]
    <3>1. found.response \in Succeeded(key[r])
      BY <1>1, <1>2 DEF IInv, SuccessInv
    <3>2. found \in [status : Statuses, response : Requests \cup {NoRequest}]
      BY <1>1 DEF IInv, TypeOK
    <3> QED
      BY <1>2, <3>1, <3>2 DEF Succeeded
  <2>2. TypeOK'
    BY <1>1, <1>2, <2>1 DEF IInv, TypeOK, Phases
  <2>3. PhaseInv' /\ ReserveInv'
    BY <1>1, <1>2, ReserveKept DEF IInv, TypeOK, PhaseInv, Phases
  <2>4. OneRunner' /\ SuccessInv'
    BY <1>1, <1>2, QuietStep DEF Phases
  <2>5. Replayed'
    BY <1>1, <1>2, <2>1 DEF IInv, TypeOK, Replayed
  <2> QED
    BY <2>2, <2>3, <2>4, <2>5 DEF IInv
<1>3. CASE \/ /\ pc' = [pc EXCEPT ![r] = "done"]
              /\ reply' = [reply EXCEPT ![r] = "in progress"]
           \/ /\ pc' = [pc EXCEPT ![r] = "reserve"]
              /\ UNCHANGED reply
  <2>1. TypeOK'
    BY <1>1, <1>3 DEF IInv, TypeOK, Phases
  <2>2. PhaseInv'
    BY <1>1, <1>3 DEF IInv, TypeOK, PhaseInv
  <2>5. ReserveInv'
    BY <1>1, <1>3, ReserveKept DEF Phases
  <2>3. OneRunner' /\ SuccessInv'
    BY <1>1, <1>3, QuietStep DEF Phases
  <2>4. Replayed'
    BY <1>1, <1>3, ReplayStep DEF IInv, TypeOK
  <2> QED
    BY <2>1, <2>2, <2>3, <2>4, <2>5 DEF IInv
<1> QED
  BY <1>2, <1>3 DEF Get, EndWith, GoTo

LEMMA ReserveStepInv == ASSUME IInv, NEW r \in Requests, Reserve(r) PROVE IInv'
<1>1. /\ pc[r] = "reserve" /\ UNCHANGED <<row, key, reserved, result, moved>>
      /\ \A q \in Requests : ~Reserving(q, key[r])
      /\ key[r] \in Keys /\ r \notin reserved
  BY DEF Reserve, IInv, PhaseInv
<1>2. \/ /\ row[key[r]].status \in {"absent", "failed"}
         /\ pc' = [pc EXCEPT ![r] = "commit"] /\ UNCHANGED reply
      \/ /\ pc' = [pc EXCEPT ![r] = "done"]
         /\ reply' = [reply EXCEPT ![r] = "in progress"]
  BY DEF Reserve, EndWith, GoTo
<1>3. TypeOK'
  BY <1>1, <1>2 DEF IInv, TypeOK, Phases
<1>4. PhaseInv'
  BY <1>1, <1>2 DEF IInv, TypeOK, PhaseInv
<1>5. ReserveInv'
  <2>1. \A q \in Requests, k \in Keys :
            Reserving(q, k)' =>
                \/ Reserving(q, k)
                \/ q = r /\ k = key[r] /\ row[k].status \in {"absent", "failed"}
    BY <1>1, <1>2 DEF IInv, TypeOK, Reserving
  <2> QED
    BY <1>1, <2>1 DEF IInv, ReserveInv
<1>6. OneRunner' /\ SuccessInv'
  BY <1>1, <1>2, QuietStep DEF Phases
<1>7. Replayed'
  BY <1>1, <1>2, ReplayStep DEF IInv, TypeOK
<1> QED
  BY <1>3, <1>4, <1>5, <1>6, <1>7 DEF IInv

LEMMA CommitReservationInv ==
    ASSUME IInv, NEW r \in Requests, CommitReservation(r) PROVE IInv'
<1> DEFINE k == key[r]
<1>1. /\ pc[r] = "commit" /\ k \in Keys /\ Reserving(r, k) /\ r \notin reserved
      /\ pc' = [pc EXCEPT ![r] = "handle"]
      /\ row' = [row EXCEPT ![k] = PendingRow] /\ reserved' = reserved \cup {r}
      /\ UNCHANGED <<key, result, reply, moved>>
  BY DEF CommitReservation, GoTo, Reserving, IInv, PhaseInv
<1>2. /\ row[k].status \in {"absent", "failed"}
      /\ \A q \in Requests : Reserving(q, k) => q = r
  BY <1>1 DEF IInv, ReserveInv
<1>3. Running(k) = {} /\ Succeeded(k) = {}
  BY <1>1, <1>2 DEF IInv, OneRunner, SuccessInv
<1>4. result[r] = "none"
  BY <1>1 DEF IInv, PhaseInv
<1>5. TypeOK'
  BY <1>1 DEF IInv, TypeOK, Phases, PendingRow, Statuses
<1>6. PhaseInv'
  BY <1>1, <1>4 DEF IInv, TypeOK, PhaseInv
<1>7. ReserveInv'
  BY <1>1, <1>2, ReserveKept DEF Phases, IInv, TypeOK
<1>8. row'[k].status = "pending"
  BY <1>1 DEF IInv, TypeOK, PendingRow
<1>9. \A l \in Keys : /\ Running(l)' \subseteq Running(l) \cup (IF l = k THEN {r} ELSE {})
                      /\ Succeeded(l)' = Succeeded(l)
                      /\ l # k => row'[l] = row[l]
  BY <1>1, <1>4 DEF Running, Succeeded, IInv, TypeOK
<1>10. OneRunner' /\ SuccessInv'
  BY <1>1, <1>3, <1>8, <1>9, OneKeyStep
<1>11. Replayed'
  BY <1>1, <1>2, ReplayStep DEF IInv, TypeOK
<1> QED
  BY <1>5, <1>6, <1>7, <1>10, <1>11 DEF IInv

LEMMA RunBareInv == ASSUME IInv, NEW r \in Requests, RunBare(r) PROVE IInv'
<1> DEFINE k == key[r]
<1>1. /\ pc[r] \in {"get", "reserve", "commit"} /\ k \in Keys /\ r \notin reserved
      /\ pc' = [pc EXCEPT ![r] = "handle"]
      /\ UNCHANGED <<key, reserved, result, reply, moved>>
  BY DEF RunBare, GoTo, IInv, PhaseInv
<1>2. CASE UNCHANGED row
  <2>1. TypeOK' /\ PhaseInv'
    BY <1>1, <1>2 DEF IInv, TypeOK, PhaseInv, Phases
  <2>2. ReserveInv'
    BY <1>1, <1>2, ReserveKept DEF Phases
  <2>3. OneRunner' /\ SuccessInv'
    BY <1>1, <1>2, QuietStep DEF Phases
  <2>4. Replayed'
    BY <1>1, <1>2, ReplayStep
  <2> QED
    BY <2>1, <2>2, <2>3, <2>4 DEF IInv
<1>3. CASE pc[r] = "commit" /\ row' = [row EXCEPT ![k] = PendingRow]
  <2>1. /\ row[k].status \in {"absent", "failed"}
        /\ \A q \in Requests : Reserving(q, k) => q = r
    BY <1>1, <1>3 DEF IInv, ReserveInv, Reserving
  <2>2. Running(k) = {} /\ Succeeded(k) = {}
    BY <1>1, <2>1 DEF IInv, OneRunner, SuccessInv
  <2>3. TypeOK' /\ PhaseInv'
    BY <1>1, <1>3 DEF IInv, TypeOK, PhaseInv, Phases, PendingRow, Statuses
  <2>4. ReserveInv'
    BY <1>1, <1>3, <2>1, ReserveKept, ZenonT(30) DEF Phases, IInv, TypeOK
  <2>5. row'[k].status = "pending"
    BY <1>1, <1>3 DEF IInv, TypeOK, PendingRow
  <2>6. \A l \in Keys : /\ Running(l)' \subseteq Running(l) /\ Succeeded(l)' = Succeeded(l)
                        /\ l # k => row'[l] = row[l]
    BY <1>1, <1>3 DEF Running, Succeeded, IInv, TypeOK
  <2>7. OneRunner' /\ SuccessInv'
    BY <1>1, <2>2, <2>5, <2>6, OneKeyStep
  <2>8. Replayed'
    BY <1>1, <1>3, <2>1, ReplayStep DEF IInv, TypeOK
  <2> QED
    BY <2>3, <2>4, <2>7, <2>8 DEF IInv
<1> QED
  BY <1>2, <1>3 DEF RunBare

\* The status code of the response changes for one request, which is not reserved
\* or runs; it ends there or goes on to the update.
LEMMA HandleInv == ASSUME IInv, NEW r \in Requests, Handle(r) PROVE IInv'
<1> DEFINE k == key[r]
<1>1. PICK class \in Classes : result' = [result EXCEPT ![r] = class]
  BY DEF Handle
<1>2. /\ pc[r] = "handle" /\ k \in Keys /\ UNCHANGED <<row, key, reserved>>
      /\ moved' \in {moved, moved \cup {r}}
      /\ reply[r] = "none" /\ result[r] = "none"
  BY DEF Handle, IInv, PhaseInv
<1>3. \/ /\ r \in reserved /\ pc' = [pc EXCEPT ![r] = "update"] /\ UNCHANGED reply
      \/ /\ r \notin reserved /\ pc' = [pc EXCEPT ![r] = "done"]
         /\ reply' = [reply EXCEPT ![r] = r]
  BY DEF Handle, GoTo, EndWith
<1>4. TypeOK'
  <2>1. result' \in [Requests -> Classes \cup {"none"}] /\ moved' \subseteq Requests
    BY <1>1, <1>2 DEF IInv, TypeOK
  <2>2. pc' \in [Requests -> Phases]
    BY <1>3 DEF IInv, TypeOK, Phases
  <2>3. reply' \in [Requests -> Requests \cup {"none", "in progress"}]
    BY <1>3, ZenonT(30) DEF IInv, TypeOK
  <2> QED
    BY <1>2, <2>1, <2>2, <2>3 DEF IInv, TypeOK
<1>5. PhaseInv'
  BY <1>1, <1>2, <1>3 DEF IInv, TypeOK, PhaseInv
<1>6. ReserveInv'
  BY <1>2, <1>3, ReserveKept DEF Phases
<1>7. \A l \in Keys : Running(l)' \subseteq Running(l)
  BY <1>2, <1>3 DEF Running, IInv, TypeOK
<1>8. \A l \in Keys : Succeeded(l)' \subseteq
          Succeeded(l) \cup (IF l = k /\ r \in reserved THEN {r} ELSE {})
  BY <1>1, <1>2 DEF Succeeded, IInv, TypeOK
<1>9. \A l \in Keys : Succeeded(l) \subseteq Succeeded(l)'
  BY <1>1, <1>2 DEF Succeeded, IInv, TypeOK
<1>10. ASSUME r \in reserved
       PROVE  Running(k) = {r} /\ row[k].status = "pending" /\ Succeeded(k) \subseteq {r}
  <2>1. r \in Running(k)
    BY <1>2, <1>10 DEF Running
  <2> QED
    BY <1>2, <2>1 DEF IInv, OneRunner, SuccessInv
<1>11. OneRunner'
  BY <1>2, <1>7 DEF IInv, OneRunner
<1>12. SuccessInv'
  <2> SUFFICES ASSUME NEW l \in Keys
               PROVE  /\ row[l].status \in {"absent", "failed"} => Succeeded(l)' = {}
                      /\ \A q \in Running(l)' : Succeeded(l)' \subseteq {q}
                      /\ row[l].status = "completed" => row[l].response \in Succeeded(l)'
                      /\ \A p, q \in Succeeded(l)' : p = q
    BY <1>2 DEF SuccessInv
  <2>1. CASE l = k /\ r \in reserved
    BY <1>7, <1>8, <1>10, <2>1
  <2>2. CASE ~(l = k /\ r \in reserved)
    <3>1. Succeeded(l)' = Succeeded(l)
      BY <1>8, <1>9, <2>2
    <3> QED
      BY <1>7, <3>1 DEF IInv, SuccessInv
  <2> QED
    BY <2>1, <2>2
<1>13. Replayed'
  <2>1. \A q \in reserved : result[q] = "2xx" => result'[q] = "2xx"
    BY <1>1, <1>2 DEF IInv, TypeOK
  <2>2. \A q \in Requests : q # r => reply'[q] = reply[q]
    BY <1>3 DEF IInv, TypeOK
  <2>3. reply'[r] \in {r, reply[r]}
    BY <1>3 DEF IInv, TypeOK
  <2> QED
    BY <1>2, <2>1, <2>2, <2>3, ReplayStep
<1> QED
  BY <1>4, <1>5, <1>6, <1>11, <1>12, <1>13 DEF IInv

LEMMA UpdateInv == ASSUME IInv, NEW r \in Requests, Update(r) PROVE IInv'
<1> DEFINE k == key[r]
           status == IF result[r] = "2xx" THEN "completed" ELSE "failed"
<1>1. /\ pc[r] = "update" /\ r \in reserved /\ k \in Keys
      /\ pc' = [pc EXCEPT ![r] = "forward"]
      /\ row' = [row EXCEPT ![k] = [status |-> status, response |-> r]]
      /\ UNCHANGED <<key, reserved, result, reply, moved>>
  BY DEF Update, Kept, GoTo, IInv, PhaseInv
<1>2. Running(k) = {r} /\ row[k].status = "pending" /\ Succeeded(k) \subseteq {r}
  <2>1. r \in Running(k)
    BY <1>1 DEF Running
  <2> QED
    BY <1>1, <2>1 DEF IInv, OneRunner, SuccessInv
<1>3. TypeOK'
  BY <1>1 DEF IInv, TypeOK, Phases, Statuses
<1>4. PhaseInv'
  BY <1>1 DEF IInv, TypeOK, PhaseInv
<1>5. ReserveInv'
  <2>1. \A q \in Requests : ~Reserving(q, k)
    BY <1>1, <1>2 DEF IInv, ReserveInv
  <2>2. \A l \in Keys : row'[l] = row[l] \/ l = k
    BY <1>1 DEF IInv, TypeOK
  <2> QED
    BY <1>1, <2>1, <2>2, ReserveKept DEF Phases
<1>6. row'[k] = [status |-> status, response |-> r]
  BY <1>1 DEF IInv, TypeOK
<1>7. \A l \in Keys : /\ Running(l)' \subseteq Running(l) \ {r}
                      /\ Succeeded(l)' = Succeeded(l)
                      /\ l # k => row'[l] = row[l]
  BY <1>1 DEF Running, Succeeded, IInv, TypeOK
<1>8. status = "completed" <=> r \in Succeeded(k)
  BY <1>1 DEF Succeeded
<1>9. status = "failed" => Succeeded(k) = {}
  BY <1>2, <1>8
<1>10. OneRunner' /\ SuccessInv'
  <2>1. Running(k)' = {}
    BY <1>1, <1>2, <1>7
  <2>2. row'[k].status = status /\ row'[k].response = r
    BY <1>6
  <2>3. row'[k].status \in {"absent", "failed"} => Succeeded(k)' = {}
    BY <1>1, <1>7, <1>9, <2>2
  <2>4. row'[k].status = "completed" => row'[k].response \in Succeeded(k)'
    BY <1>1, <1>7, <1>8, <2>2
  <2>5. \A p, q \in Succeeded(k)' : p = q
    BY <1>1, <1>2, <1>7
  <2>6. k \in Keys /\ \A p \in Running(k)' : FALSE
    BY <1>1, <2>1
  <2>7. \A l \in Keys : l # k => /\ Running(l)' \subseteq Running(l)
                                 /\ Succeeded(l)' = Succeeded(l)
                                 /\ row'[l] = row[l]
    BY <1>7
  <2> HIDE DEF status
  <2> QED
    BY <1>1, <2>6, <2>7, <2>3, <2>4, <2>5, OneKeyStep
<1>11. Replayed'
  <2>1. \A l \in Keys : row[l].status = "completed" => row'[l] = row[l]
    BY <1>1, <1>2, <1>7
  <2>2. reply' = reply /\ reserved' = reserved /\ result' = result /\ key' = key
    BY <1>1
  <2> QED
    BY <2>1, <2>2, ReplayStep
<1> QED
  BY <1>3, <1>4, <1>5, <1>10, <1>11 DEF IInv

\* The steps that end a request or take it past its update, and touch no row.
LEMMA LeaveInv ==
    ASSUME IInv, NEW r \in Requests, UpdateFails(r) \/ Forward(r) \/ Die(r)
    PROVE  IInv'
<1>1. /\ Live(r) /\ UNCHANGED <<row, key, reserved, result>>
      /\ moved' \in {moved, moved \cup {r}}
      /\ \/ pc' = [pc EXCEPT ![r] = "forward"] /\ r \in reserved /\ UNCHANGED reply
            /\ pc[r] = "update"
         \/ pc' = [pc EXCEPT ![r] = "done"] /\ reply' \in {reply, [reply EXCEPT ![r] = r]}
  BY DEF UpdateFails, Forward, Die, Live, GoTo, EndWith, IInv, PhaseInv
<1>2. TypeOK'
  <2>1. pc' \in [Requests -> Phases]
    BY <1>1 DEF IInv, TypeOK, Phases
  <2>2. reply' \in [Requests -> Requests \cup {"none", "in progress"}]
    BY <1>1, ZenonT(30) DEF IInv, TypeOK
  <2>3. moved' \subseteq Requests
    BY <1>1 DEF IInv, TypeOK
  <2> QED
    BY <1>1, <2>1, <2>2, <2>3 DEF IInv, TypeOK
<1>3. PhaseInv'
  BY <1>1 DEF IInv, TypeOK, PhaseInv, Live
<1>4. ReserveInv'
  BY <1>1, ReserveKept DEF Phases
<1>5. OneRunner' /\ SuccessInv'
  BY <1>1, QuietStep DEF Phases
<1>6. Replayed'
  <2>1. \A q \in Requests : q # r => reply'[q] = reply[q]
    BY <1>1 DEF IInv, TypeOK
  <2>2. reply'[r] \in {r, reply[r]}
    BY <1>1 DEF IInv, TypeOK
  <2> QED
    BY <1>1, <2>1, <2>2, ReplayStep
<1> QED
  BY <1>2, <1>3, <1>4, <1>5, <1>6 DEF IInv

LEMMA NextInv == IInv /\ [Next]_vars => IInv'
<1> SUFFICES ASSUME IInv, [Next]_vars PROVE IInv'
  OBVIOUS
<1>1. CASE UNCHANGED vars
  <2>1. \A k : Running(k)' = Running(k) /\ Succeeded(k)' = Succeeded(k)
    BY <1>1 DEF vars, Running, Succeeded
  <2>2. TypeOK' /\ PhaseInv'
    BY <1>1 DEF vars, IInv, TypeOK, PhaseInv
  <2>3. ReserveInv'
    BY <1>1 DEF vars, IInv, ReserveInv, Reserving
  <2>4. OneRunner' /\ SuccessInv'
    BY <1>1, <2>1 DEF vars, IInv, OneRunner, SuccessInv
  <2>5. Replayed'
    BY <1>1 DEF vars, IInv, Replayed
  <2> QED
    BY <2>2, <2>3, <2>4, <2>5 DEF IInv
<1>2. ASSUME NEW r \in Requests,
             \/ Arrive(r) \/ Get(r) \/ Reserve(r) \/ CommitReservation(r) \/ RunBare(r)
             \/ Handle(r) \/ Update(r) \/ UpdateFails(r) \/ Forward(r) \/ Die(r)
      PROVE  IInv'
  BY <1>2, ArriveInv, GetInv, ReserveStepInv, CommitReservationInv, RunBareInv,
     HandleInv, UpdateInv, LeaveInv
<1> QED
  BY <1>1, <1>2 DEF Next

LEMMA Inductive == Spec => []IInv
  BY InitInv, NextInv, PTL DEF Spec

-----------------------------------------------------------------------------
(* The theorems. *)

\* However many retries of a request overlap, one of them at a time runs its
\* handler under the key, and the key's row says so all the while
\* (IdempotencyRepo.reserve, and the look-up before it).
THEOREM OneRunnerCorrect == Spec => []OneRunner
<1>1. IInv => OneRunner
  BY DEF IInv
<1> QED
  BY <1>1, Inductive, PTL

\* Whatever fails between two of them, at most one of the executions that reserve a
\* key succeeds (IdempotencyRepo.reserve, complete and fail).
THEOREM OneSuccessCorrect == Spec => []OneSuccess
<1>1. IInv => OneSuccess
  <2> SUFFICES ASSUME IInv, NEW r \in reserved, NEW q \in reserved,
                      key[r] = key[q], result[r] = "2xx", result[q] = "2xx"
               PROVE  r = q
    BY DEF OneSuccess
  <2>1. key[r] \in Keys
    BY DEF IInv, TypeOK, PhaseInv
  <2>2. r \in Succeeded(key[r]) /\ q \in Succeeded(key[r])
    BY DEF Succeeded
  <2> QED
    BY <2>1, <2>2 DEF IInv, SuccessInv
<1> QED
  BY <1>1, Inductive, PTL

\* A client that is given a stored response is given the one that its key keeps, of
\* an execution that held the key and has ended (the replay in
\* IdempotencyMiddleware.__call__).
THEOREM ReplayFaithfulCorrect == Spec => []ReplayFaithful
<1>1. IInv => ReplayFaithful
  <2> SUFFICES ASSUME IInv, NEW r \in Requests, reply[r] \in Requests \ {r}
               PROVE  /\ reply[r] \in reserved
                      /\ key[reply[r]] = key[r]
                      /\ pc[reply[r]] \in {"forward", "done"}
                      /\ row[key[r]] = [status |-> "completed", response |-> reply[r]]
    BY DEF ReplayFaithful
  <2> DEFINE q == reply[r]
  <2>1. /\ q \in reserved /\ key[q] = key[r] /\ result[q] = "2xx"
        /\ row[key[q]] = [status |-> "completed", response |-> q]
    BY DEF IInv, Replayed
  <2>2. pc[q] \in {"update", "forward", "done"} /\ key[q] \in Keys
    BY <2>1 DEF IInv, TypeOK, PhaseInv
  <2>3. row[key[q]].status # "pending"
    BY <2>1
  <2>4. pc[q] # "update"
    BY <2>1, <2>2, <2>3 DEF IInv, OneRunner, Running
  <2> QED
    BY <2>1, <2>2, <2>4
<1> QED
  BY <1>1, Inductive, PTL

\* The table keeps its type (IdempotencyRow in store/postgres/idempotency_repo.py).
THEOREM TypeCorrect == Spec => []TypeOK
<1>1. IInv => TypeOK
  BY DEF IInv
<1> QED
  BY <1>1, Inductive, PTL

-----------------------------------------------------------------------------
(* The middleware implements OnceOnly. *)

\* The state of OnceOnly that a state of the middleware stands for.
HolderOf(S) == IF S = {} THEN NoRequest ELSE CHOOSE r \in S : TRUE
AnswerOf(stored) == IF stored.status = "completed" THEN stored.response ELSE NoRequest

Slots == [k \in Keys |-> Slot(row[k].status)]
Holders == [k \in Keys |-> HolderOf(Running(k))]
Answers == [k \in Keys |-> AnswerOf(row[k])]

LEMMA Mapped ==
    /\ Promise!Init <=> /\ Slots = [k \in Keys |-> "free"]
                        /\ Holders = [k \in Keys |-> NoRequest]
                        /\ Answers = [k \in Keys |-> NoRequest]
    /\ UNCHANGED <<Slots, Holders, Answers>> => UNCHANGED Promise!vars
BY DEF Promise!Init, Promise!vars, Slots, Holders, HolderOf, Answers, AnswerOf

LEMMA HolderOfOne == ASSUME NEW r PROVE HolderOf({r}) = r
<1>1. (CHOOSE q \in {r} : TRUE) \in {r}
  OBVIOUS
<1> QED
  BY <1>1 DEF HolderOf

\* The steps of OnceOnly, by what they do to the key they touch.
LEMMA Steps ==
    ASSUME NEW k \in Keys, NEW r \in Requests, NEW h \in {r, NoRequest}
    PROVE  /\ (/\ Slots[k] = "free"
               /\ Slots' = [Slots EXCEPT ![k] = "held"]
               /\ Holders' = [Holders EXCEPT ![k] = h]
               /\ UNCHANGED Answers) => Promise!Next
           /\ (/\ Slots[k] = "held" /\ Holders[k] = r
               /\ Holders' = [Holders EXCEPT ![k] = NoRequest]
               /\ \/ /\ Slots' = [Slots EXCEPT ![k] = "spent"]
                     /\ Answers' = [Answers EXCEPT ![k] = r]
                  \/ /\ Slots' = [Slots EXCEPT ![k] = "free"]
                     /\ UNCHANGED Answers
                  \/ UNCHANGED <<Slots, Answers>>) => Promise!Next
<1>1. Promise!Take(k, r, h) <=>
          /\ Slots[k] = "free"
          /\ Slots' = [Slots EXCEPT ![k] = "held"]
          /\ Holders' = [Holders EXCEPT ![k] = h]
          /\ UNCHANGED Answers
  BY DEF Promise!Take, Slots, Holders, HolderOf, Answers, AnswerOf
<1>2. Promise!Spend(k) <=>
          /\ Slots[k] = "held" /\ Holders[k] # NoRequest
          /\ Slots' = [Slots EXCEPT ![k] = "spent"]
          /\ Answers' = [Answers EXCEPT ![k] = Holders[k]]
          /\ Holders' = [Holders EXCEPT ![k] = NoRequest]
  BY DEF Promise!Spend, Slots, Holders, HolderOf, Answers, AnswerOf
<1>3. Promise!GiveBack(k) <=>
          /\ Slots[k] = "held" /\ Holders[k] # NoRequest
          /\ Slots' = [Slots EXCEPT ![k] = "free"]
          /\ Holders' = [Holders EXCEPT ![k] = NoRequest]
          /\ UNCHANGED Answers
  BY DEF Promise!GiveBack, Slots, Holders, HolderOf, Answers, AnswerOf
<1>4. Promise!Lose(k) <=>
          /\ Slots[k] = "held" /\ Holders[k] # NoRequest
          /\ Holders' = [Holders EXCEPT ![k] = NoRequest]
          /\ UNCHANGED <<Slots, Answers>>
  BY DEF Promise!Lose, Slots, Holders, HolderOf, Answers, AnswerOf
<1>5. h \in Requests \cup {NoRequest} /\ r # NoRequest
  BY NoneAssumption
<1>6. Promise!Take(k, r, h) \/ Promise!Spend(k) \/ Promise!GiveBack(k) \/ Promise!Lose(k)
          => Promise!Next
  BY <1>5 DEF Promise!Next
<1> QED
  BY <1>1, <1>2, <1>3, <1>4, <1>5, <1>6

\* A step that neither changes a row nor who runs is none of OnceOnly's.
LEMMA Stutter ==
    ASSUME UNCHANGED row, \A k \in Keys : Running(k)' = Running(k)
    PROVE  UNCHANGED Promise!vars
<1>1. UNCHANGED <<Slots, Holders, Answers>>
  BY DEF Slots, Holders, Answers
<1> QED
  BY <1>1, Mapped

\* The reservation of r is made: r runs, or is lost to the handler it runs bare.
LEMMA TakesKey ==
    ASSUME IInv, NEW r \in Requests, pc[r] = "commit",
           row' = [row EXCEPT ![key[r]] = PendingRow], key' = key,
           NEW S \in {{r}, {}},
           \A k \in Keys : Running(k)' = Running(k) \cup (IF k = key[r] THEN S ELSE {})
    PROVE  Promise!Next
<1> DEFINE k == key[r]
           h == IF S = {} THEN NoRequest ELSE r
<1>1. k \in Keys /\ row[k].status \in {"absent", "failed"}
  <2>1. k \in Keys
    BY DEF IInv, PhaseInv
  <2> QED
    BY <2>1 DEF IInv, ReserveInv, Reserving
<1>2. Running(k) = {} /\ Running(k)' = S
  BY <1>1 DEF IInv, OneRunner
<1>3. row' \in [Keys -> [status : Statuses, response : Requests \cup {NoRequest}]]
      /\ row'[k].status = "pending" /\ \A l \in Keys \ {k} : row'[l] = row[l]
  BY <1>1 DEF IInv, TypeOK, PendingRow, Statuses
<1>4. Slots[k] = "free" /\ Slots' = [Slots EXCEPT ![k] = "held"]
  BY <1>1, <1>3 DEF Slots, Slot
<1>5. HolderOf(S) = h
  BY HolderOfOne DEF HolderOf
<1>6. Holders' = [Holders EXCEPT ![k] = h]
  <2>1. Holders' = [l \in Keys |-> HolderOf(Running(l)')]
    BY DEF Holders
  <2>2. \A l \in Keys \ {k} : Running(l)' = Running(l)
    OBVIOUS
  <2> QED
    BY <1>1, <1>2, <1>5, <2>1, <2>2 DEF Holders
<1>7. UNCHANGED Answers
  BY <1>1, <1>3 DEF Answers, AnswerOf
<1>8. h \in {r, NoRequest}
  OBVIOUS
<1> QED
  BY <1>1, <1>4, <1>6, <1>7, <1>8, Steps

\* The reserved execution r of a key ends: by a success, a failure, or a loss.
LEMMA LeavesKey ==
    ASSUME IInv, NEW r \in Requests, r \in Running(key[r]), key' = key,
           \A k \in Keys : Running(k)' = Running(k) \ {r},
           \/ UNCHANGED row
           \/ row' = [row EXCEPT ![key[r]] =
                         [status |-> IF Kept(result[r]) THEN "completed" ELSE "failed",
                          response |-> r]]
    PROVE  Promise!Next
<1> DEFINE k == key[r]
<1>1. k \in Keys
  BY DEF IInv, PhaseInv, Running
<1>2. Running(k) = {r} /\ row[k].status = "pending"
  BY <1>1 DEF IInv, OneRunner
<1>3. \A l \in Keys \ {k} : r \notin Running(l)
  BY DEF Running
<1>4. Slots[k] = "held" /\ Holders[k] = r
  BY <1>1, <1>2, HolderOfOne DEF Slots, Slot, Holders
<1>5. Holders' = [Holders EXCEPT ![k] = NoRequest]
  <2>1. Holders' = [l \in Keys |-> HolderOf(Running(l)')]
    BY DEF Holders
  <2>2. \A l \in Keys : Running(l)' = IF l = k THEN {} ELSE Running(l)
    <3>1. \A l \in Keys \ {k} : Running(l) \ {r} = Running(l)
      BY <1>3
    <3>2. Running(k) \ {r} = {}
      BY <1>2
    <3> QED
      BY <1>1, <3>1, <3>2
  <2>3. HolderOf({}) = NoRequest
    BY DEF HolderOf
  <2> QED
    BY <1>1, <2>1, <2>2, <2>3 DEF Holders
<1>6. CASE UNCHANGED row
  <2>1. UNCHANGED <<Slots, Answers>>
    BY <1>6 DEF Slots, Answers
  <2> QED
    BY <1>1, <1>4, <1>5, <2>1, Steps
<1>7. CASE row' = [row EXCEPT ![k] = [status |-> "completed", response |-> r]]
  <2>1. Slots' = [Slots EXCEPT ![k] = "spent"] /\ Answers' = [Answers EXCEPT ![k] = r]
    BY <1>1, <1>7 DEF IInv, TypeOK, Slots, Slot, Answers, AnswerOf
  <2> QED
    BY <1>1, <1>4, <1>5, <2>1, Steps
<1>8. CASE row' = [row EXCEPT ![k] = [status |-> "failed", response |-> r]]
  <2>1. Slots' = [Slots EXCEPT ![k] = "free"] /\ UNCHANGED Answers
    BY <1>1, <1>2, <1>8 DEF IInv, TypeOK, Slots, Slot, Answers, AnswerOf
  <2> QED
    BY <1>1, <1>4, <1>5, <2>1, Steps
<1> QED
  BY <1>6, <1>7, <1>8

\* Every step of the middleware is a step of OnceOnly, or none.
LEMMA NextMapped == IInv /\ [Next]_vars => [Promise!Next]_(Promise!vars)
<1> SUFFICES ASSUME IInv, [Next]_vars PROVE Promise!Next \/ UNCHANGED Promise!vars
  OBVIOUS
<1>1. CASE UNCHANGED vars
  BY <1>1, Stutter DEF vars, Running
<1>2. ASSUME NEW r \in Requests,
             Arrive(r) \/ Get(r) \/ Reserve(r) \/ Forward(r)
      PROVE  UNCHANGED Promise!vars
  <2>1. /\ UNCHANGED <<row, reserved>> /\ key' \in {key, [key EXCEPT ![r] = key'[r]]}
        /\ pc[r] \notin {"handle", "update"}
        /\ \E p \in Phases \ {"handle", "update"} : pc' = [pc EXCEPT ![r] = p]
        /\ r \in reserved => key' = key
    BY <1>2 DEF IInv, PhaseInv, TypeOK, Arrive, Get, Reserve, Forward, GoTo, EndWith, Phases
  <2>2. \A k \in Keys : Running(k)' = Running(k)
    BY <2>1 DEF IInv, TypeOK, Running
  <2> QED
    BY <2>1, <2>2, Stutter
<1>3. ASSUME NEW r \in Requests, CommitReservation(r) PROVE Promise!Next
  <2>1. \A k \in Keys : Running(k)' = Running(k) \cup (IF k = key[r] THEN {r} ELSE {})
    BY <1>3 DEF CommitReservation, GoTo, Running, IInv, TypeOK, PhaseInv
  <2> QED
    BY <1>3, <2>1, TakesKey DEF CommitReservation
<1>4. ASSUME NEW r \in Requests, RunBare(r)
      PROVE  Promise!Next \/ UNCHANGED Promise!vars
  <2>1. r \notin reserved
    BY <1>4 DEF RunBare, IInv, PhaseInv
  <2>2. \A k \in Keys : Running(k)' = Running(k)
    BY <1>4, <2>1 DEF RunBare, GoTo, Running, IInv, TypeOK
  <2>3. CASE UNCHANGED row
    BY <2>2, <2>3, Stutter
  <2>4. CASE pc[r] = "commit" /\ row' = [row EXCEPT ![key[r]] = PendingRow]
    <3>1. \A k \in Keys : Running(k)' = Running(k) \cup (IF k = key[r] THEN {} ELSE {})
      BY <2>2
    <3> QED
      BY <1>4, <2>4, <3>1, TakesKey DEF RunBare
  <2> QED
    BY <1>4, <2>3, <2>4 DEF RunBare
<1>5. ASSUME NEW r \in Requests, Handle(r) PROVE UNCHANGED Promise!vars
  <2>1. /\ pc[r] = "handle" /\ UNCHANGED <<row, key, reserved>>
        /\ \/ r \in reserved /\ pc' = [pc EXCEPT ![r] = "update"]
           \/ r \notin reserved /\ pc' = [pc EXCEPT ![r] = "done"]
    BY <1>5 DEF Handle, GoTo, EndWith
  <2>2. \A k \in Keys : Running(k)' = Running(k)
    BY <2>1 DEF Running, IInv, TypeOK
  <2> QED
    BY <2>1, <2>2, Stutter
<1>6. ASSUME NEW r \in Requests, Update(r) \/ UpdateFails(r) PROVE Promise!Next
  <2>1. /\ pc[r] = "update" /\ r \in reserved /\ UNCHANGED <<key, reserved>>
        /\ pc' = [pc EXCEPT ![r] = "forward"]
    BY <1>6 DEF Update, UpdateFails, GoTo, IInv, PhaseInv
  <2>2. r \in Running(key[r]) /\ \A k \in Keys : Running(k)' = Running(k) \ {r}
    BY <2>1 DEF Running, IInv, TypeOK
  <2>3. \/ UNCHANGED row
        \/ row' = [row EXCEPT ![key[r]] =
                      [status |-> IF Kept(result[r]) THEN "completed" ELSE "failed",
                       response |-> r]]
    BY <1>6 DEF Update, UpdateFails
  <2> QED
    BY <2>1, <2>2, <2>3, LeavesKey
<1>7. ASSUME NEW r \in Requests, Die(r) PROVE Promise!Next \/ UNCHANGED Promise!vars
  <2>1. /\ UNCHANGED <<row, key, reserved>> /\ pc' = [pc EXCEPT ![r] = "done"]
    BY <1>7 DEF Die, GoTo
  <2>2. \A k \in Keys : Running(k)' = Running(k) \ {r}
    BY <2>1 DEF Running, IInv, TypeOK
  <2>3. CASE r \in Running(key[r])
    BY <2>1, <2>2, <2>3, LeavesKey
  <2>4. CASE r \notin Running(key[r])
    <3>1. \A k \in Keys : Running(k)' = Running(k)
      BY <2>2, <2>4 DEF Running
    <3> QED
      BY <2>1, <3>1, Stutter
  <2> QED
    BY <2>3, <2>4
<1> QED
  BY <1>1, <1>2, <1>3, <1>4, <1>5, <1>6, <1>7 DEF Next

\* To whoever reserves them the keys behave as OnceOnly, whatever fails on the way:
\* a key is held by one execution, spent by the one that succeeds, and never taken
\* while it is held or after it is spent (IdempotencyMiddleware.__call__ with
\* IdempotencyRepo).
THEOREM KeepsPromiseCorrect == Spec => KeepsPromise
<1>1. Init => Promise!Init
  <2>1. ASSUME Init
        PROVE  /\ Slots = [k \in Keys |-> "free"]
               /\ Holders = [k \in Keys |-> NoRequest]
               /\ Answers = [k \in Keys |-> NoRequest]
    BY <2>1 DEF Init, Slots, Slot, Holders, HolderOf, Running, Answers, AnswerOf
  <2> QED
    BY <2>1, Mapped
<1>2. KeepsPromise <=> Promise!Init /\ [][Promise!Next]_(Promise!vars)
  BY DEF KeepsPromise, Promise!Spec
<1> QED
  BY <1>1, <1>2, Inductive, NextMapped, PTL DEF Spec
=============================================================================
