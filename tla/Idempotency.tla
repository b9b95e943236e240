---------------------------- MODULE Idempotency ----------------------------
(***************************************************************************)
(* The Idempotency-Key middleware (api/middleware/idempotency.py) over the *)
(* idempotency_keys table (store/postgres/idempotency_repo.py): many       *)
(* requests, among them retries of each other, carry the same key.         *)
(*                                                                         *)
(* Every database call may fail, and the middleware then runs the handler  *)
(* without a reservation rather than refuse the request.  A request may    *)
(* die anywhere.                                                           *)
(***************************************************************************)
EXTENDS Integers, FiniteSets

CONSTANTS
    Requests,       \* HTTP requests with a key
    Keys,           \* values of the Idempotency-Key header
    NoRequest, NoKey

ASSUME NoneAssumption ==
    /\ NoRequest \notin Requests /\ NoKey \notin Keys
    /\ {"none", "in progress"} \cap Requests = {}

VARIABLES
    row,        \* idempotency_keys: the status of each key, and whose response it has
    pc,         \* the await each request is at
    key,        \* the key each request carries
    reserved,   \* the requests whose reservation was committed
    result,     \* the class of the status code a request's handler ended with
    reply,      \* what the client got: the response of some request, or a 409
    moved       \* history: requests whose handler moved money

vars == <<row, pc, key, reserved, result, reply, moved>>

Statuses == {"absent", "pending", "completed", "failed"}
Phases == {"new", "get", "reserve", "commit", "handle", "update", "forward", "done"}
Classes == {"2xx", "4xx", "5xx"}

TypeOK ==
    /\ row \in [Keys -> [status : Statuses, response : Requests \cup {NoRequest}]]
    /\ pc \in [Requests -> Phases]
    /\ key \in [Requests -> Keys \cup {NoKey}]
    /\ reserved \subseteq Requests
    /\ result \in [Requests -> Classes \cup {"none"}]
    /\ reply \in [Requests -> Requests \cup {"none", "in progress"}]
    /\ moved \subseteq Requests

Init ==
    /\ row = [k \in Keys |-> [status |-> "absent", response |-> NoRequest]]
    /\ pc = [r \in Requests |-> "new"]
    /\ key = [r \in Requests |-> NoKey]
    /\ reserved = {}
    /\ result = [r \in Requests |-> "none"]
    /\ reply = [r \in Requests |-> "none"]
    /\ moved = {}

-----------------------------------------------------------------------------
Live(r) == pc[r] \notin {"new", "done"}

GoTo(r, phase) == pc' = [pc EXCEPT ![r] = phase]

EndWith(r, a) == GoTo(r, "done") /\ reply' = [reply EXCEPT ![r] = a]

\* A request with key k arrives.
Arrive(r) ==
    /\ pc[r] = "new"
    /\ \E k \in Keys : key' = [key EXCEPT ![r] = k]
    /\ GoTo(r, "get")
    /\ UNCHANGED <<row, reserved, result, reply, moved>>

\* Look the key up: replay a completed response, refuse while one is pending.
Get(r) ==
    /\ pc[r] = "get"
    /\ LET found == row[key[r]]
       IN CASE found.status = "completed" -> EndWith(r, found.response)
            [] found.status = "pending" -> EndWith(r, "in progress")
            [] OTHER -> GoTo(r, "reserve") /\ UNCHANGED reply
    /\ UNCHANGED <<row, key, reserved, result, moved>>

\* Mutant: the session of a request that reserved is never closed.
ReservingForEver(r, k) == pc[r] \notin {"new", "get", "reserve"} /\ key[r] = k

\* A request that has inserted or updated the row of k and not committed.
Reserving(r, k) == pc[r] = "commit" /\ key[r] = k

\* Mutant: the conflicting row is updated whatever its status.
ReserveAnyRow(r) ==
    /\ pc[r] = "reserve"
    /\ \A q \in Requests : ~Reserving(q, key[r])
    /\ GoTo(r, "commit") /\ UNCHANGED reply
    /\ UNCHANGED <<row, key, reserved, result, moved>>

\* Mutant: only a pending row conflicts.
ReserveCompleted(r) ==
    /\ pc[r] = "reserve"
    /\ \A q \in Requests : ~Reserving(q, key[r])
    /\ IF row[key[r]].status # "pending"
       THEN GoTo(r, "commit") /\ UNCHANGED reply
       ELSE EndWith(r, "in progress")
    /\ UNCHANGED <<row, key, reserved, result, moved>>

\* Mutant: the row is read and written with no regard for uncommitted ones.
ReserveNoWait(r) ==
    /\ pc[r] = "reserve"
    /\ IF row[key[r]].status \in {"absent", "failed"}
       THEN GoTo(r, "commit") /\ UNCHANGED reply
       ELSE EndWith(r, "in progress")
    /\ UNCHANGED <<row, key, reserved, result, moved>>

\* INSERT ... ON CONFLICT DO UPDATE ... WHERE status = 'failed': waits for an
\* uncommitted row of the same key, then judges the committed one.
Reserve(r) ==
    /\ pc[r] = "reserve"
    /\ \A q \in Requests : ~Reserving(q, key[r])
    /\ IF row[key[r]].status \in {"absent", "failed"}
       THEN GoTo(r, "commit") /\ UNCHANGED reply
       ELSE EndWith(r, "in progress")
    /\ UNCHANGED <<row, key, reserved, result, moved>>

PendingRow == [status |-> "pending", response |-> NoRequest]

\* The reservation is committed, and the handler starts.
CommitReservation(r) ==
    /\ pc[r] = "commit"
    /\ row' = [row EXCEPT ![key[r]] = PendingRow]
    /\ reserved' = reserved \cup {r}
    /\ GoTo(r, "handle")
    /\ UNCHANGED <<key, result, reply, moved>>

\* get, reserve or the commit raises: the handler starts all the same.  A commit
\* that raises may have been made.
RunBare(r) ==
    /\ pc[r] \in {"get", "reserve", "commit"}
    /\ \/ pc[r] = "commit" /\ row' = [row EXCEPT ![key[r]] = PendingRow]
       \/ UNCHANGED row
    /\ GoTo(r, "handle")
    /\ UNCHANGED <<key, reserved, result, reply, moved>>

\* Mutant: a run without a reservation falls through to the update of the key.
HandleFallsThrough(r) ==
    /\ pc[r] = "handle"
    /\ \E class \in Classes :
          /\ result' = [result EXCEPT ![r] = class]
          /\ \/ moved' = moved \cup {r}
             \/ class # "2xx" /\ UNCHANGED moved
    /\ GoTo(r, "update")
    /\ UNCHANGED <<row, key, reserved, reply>>

\* The handler runs to its end.  A 2xx means that money moved; an error does not
\* mean that it did not, for the services write to TigerBeetle first and may fail
\* later.  Without a reservation the response goes straight to the client.
Handle(r) ==
    /\ pc[r] = "handle"
    /\ \E class \in Classes :
          /\ result' = [result EXCEPT ![r] = class]
          /\ \/ moved' = moved \cup {r}
             \/ class # "2xx" /\ UNCHANGED moved
    /\ IF r \in reserved THEN GoTo(r, "update") /\ UNCHANGED reply
       ELSE EndWith(r, r)
    /\ UNCHANGED <<row, key, reserved>>

\* The class of responses that a key keeps and replays.
Kept(class) == class = "2xx"

\* Mutant: the row is given the status of the response.
UpdateWithClass(r) ==
    /\ pc[r] = "update"
    /\ row' = [row EXCEPT ![key[r]] = [status |-> result[r], response |-> r]]
    /\ GoTo(r, "forward")
    /\ UNCHANGED <<key, reserved, result, reply, moved>>

\* IdempotencyRepo.complete or fail, and their commit.
Update(r) ==
    /\ pc[r] = "update"
    /\ row' = [row EXCEPT ![key[r]] =
                  [status |-> IF Kept(result[r]) THEN "completed" ELSE "failed",
                   response |-> r]]
    /\ GoTo(r, "forward")
    /\ UNCHANGED <<key, reserved, result, reply, moved>>

\* The update raises: it is logged, and the key stays as it was.
UpdateFails(r) ==
    /\ pc[r] = "update"
    /\ GoTo(r, "forward")
    /\ UNCHANGED <<row, key, reserved, result, reply, moved>>

\* The captured response goes to the client.
Forward(r) ==
    /\ pc[r] = "forward"
    /\ EndWith(r, r)
    /\ UNCHANGED <<row, key, reserved, result, moved>>

\* The request dies with no answer; its handler may have moved money by then.
Die(r) ==
    /\ Live(r)
    /\ \/ pc[r] = "handle" /\ moved' = moved \cup {r}
       \/ UNCHANGED moved
    /\ GoTo(r, "done")
    /\ UNCHANGED <<row, key, reserved, result, reply>>

-----------------------------------------------------------------------------
Proceed(r) ==
    \/ Get(r) \/ Reserve(r) \/ CommitReservation(r) \/ Handle(r) \/ Update(r) \/ Forward(r)

Next ==
    \E r \in Requests :
        \/ Arrive(r) \/ Get(r) \/ Reserve(r) \/ CommitReservation(r) \/ RunBare(r)
        \/ Handle(r) \/ Update(r) \/ UpdateFails(r) \/ Forward(r) \/ Die(r)

Spec == Init /\ [][Next]_vars

\* Every await ends some time.  Nothing obliges a client to send a request.
FairSpec == Spec /\ \A r \in Requests : WF_vars(Proceed(r))

-----------------------------------------------------------------------------
(* What must hold. *)

\* The requests that run their handler under a reservation not yet settled.
Running(k) == {r \in reserved : key[r] = k /\ pc[r] \in {"handle", "update"}}

\* A key is reserved by one request at a time, and the row says "pending" for as
\* long as that request runs: the look-up of the key and its reservation are two
\* awaits apart, and any number of retries may be between them.
OneRunner ==
    \A k \in Keys : \A r \in Running(k) :
        Running(k) = {r} /\ row[k].status = "pending"

\* Of the requests that reserve a key at most one ever succeeds, over any number
\* of retries, failures in between, lost updates and deaths.
OneSuccess ==
    \A r, q \in reserved :
        key[r] = key[q] /\ result[r] = "2xx" /\ result[q] = "2xx" => r = q

\* A replayed response is the one its key keeps: that of a request with the same
\* key which ran under the reservation and has come to its end.  No retry is answered
\* by an execution that ran beside the reservation after a database error, or by one
\* whose key has been handed out again.
ReplayFaithful ==
    \A r \in Requests :
        reply[r] \in Requests \ {r} =>
            /\ reply[r] \in reserved
            /\ key[reply[r]] = key[r]
            /\ pc[reply[r]] \in {"forward", "done"}
            /\ row[key[r]] = [status |-> "completed", response |-> reply[r]]

\* To whoever reserves them, keys are what OnceOnly promises.
Slot(status) ==
    CASE status = "pending" -> "held" [] status = "completed" -> "spent" [] OTHER -> "free"

Promise == INSTANCE OnceOnly WITH
    slot <- [k \in Keys |-> Slot(row[k].status)],
    holder <- [k \in Keys |-> IF Running(k) = {} THEN NoRequest
                              ELSE CHOOSE r \in Running(k) : TRUE],
    answer <- [k \in Keys |-> IF row[k].status = "completed" THEN row[k].response
                              ELSE NoRequest]

\* The middleware implements OnceOnly, database faults and deaths included: no key
\* is taken while it is held or after it is spent, whoever lost or retried what.
KeepsPromise == Promise!Spec

\* Every request that reaches the middleware ends; none waits for ever on the row
\* another request has inserted.
EveryRequestEnds == \A r \in Requests : Live(r) ~> pc[r] = "done"

-----------------------------------------------------------------------------
(* What the documentation says and the code does not do. *)

\* The middleware's docstring: "Enforce idempotency for mutating requests via
\* Idempotency-Key header."  A response outside 2xx frees the key although the
\* handler may have moved money, and the retry, reserved as well, moves it again.
MoneyMovesOnce == \A r, q \in moved \cap reserved : key[r] = key[q] => r = q
=============================================================================
