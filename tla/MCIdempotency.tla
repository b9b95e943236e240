--------------------------- MODULE MCIdempotency ---------------------------
(***************************************************************************)
(* Small instances of Idempotency: requests and keys are alike.            *)
(***************************************************************************)
EXTENDS Idempotency, TLC

AnyName == Permutations(Requests) \cup Permutations(Keys)
=============================================================================
