------------------------------ MODULE OnceOnly ------------------------------
(***************************************************************************)
(* What an idempotency key promises: one execution at a time holds the     *)
(* key; when it succeeds the key is spent and its answer is the only one   *)
(* the key will ever have; when it fails the key is free again; when it is *)
(* lost the key is held for good, for nobody knows what the execution did. *)
(***************************************************************************)
CONSTANTS Keys, Requests, NoRequest

VARIABLES
    slot,       \* slot[k]: "free", "held" or "spent"
    holder,     \* holder[k]: the execution that holds k, if it is still alive
    answer      \* answer[k]: the execution whose answer k keeps

vars == <<slot, holder, answer>>

Init ==
    /\ slot = [k \in Keys |-> "free"]
    /\ holder = [k \in Keys |-> NoRequest]
    /\ answer = [k \in Keys |-> NoRequest]

\* r takes the key; h is r, or nobody if r is lost in the attempt.
Take(k, r, h) ==
    /\ slot[k] = "free" /\ h \in {r, NoRequest}
    /\ slot' = [slot EXCEPT ![k] = "held"]
    /\ holder' = [holder EXCEPT ![k] = h]
    /\ UNCHANGED answer

\* The holder succeeds, and the key keeps its answer.
Spend(k) ==
    /\ slot[k] = "held" /\ holder[k] # NoRequest
    /\ slot' = [slot EXCEPT ![k] = "spent"]
    /\ answer' = [answer EXCEPT ![k] = holder[k]]
    /\ holder' = [holder EXCEPT ![k] = NoRequest]

\* The holder fails, and the key may be taken again.
GiveBack(k) ==
    /\ slot[k] = "held" /\ holder[k] # NoRequest
    /\ slot' = [slot EXCEPT ![k] = "free"]
    /\ holder' = [holder EXCEPT ![k] = NoRequest]
    /\ UNCHANGED answer

\* The holder is lost.
Lose(k) ==
    /\ slot[k] = "held" /\ holder[k] # NoRequest
    /\ holder' = [holder EXCEPT ![k] = NoRequest]
    /\ UNCHANGED <<slot, answer>>

Next ==
    \E k \in Keys :
        \/ \E r \in Requests, h \in Requests \cup {NoRequest} : Take(k, r, h)
        \/ Spend(k) \/ GiveBack(k) \/ Lose(k)

Spec == Init /\ [][Next]_vars
=============================================================================
