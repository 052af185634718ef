---------------------------- MODULE MCInvocation ----------------------------
(* Invocation for TLC: a request that gets a response, registering with its *)
(* session or not, beside one that feeds a stream, with a response or not.  *)
EXTENDS Invocation

CONSTANTS q1, q2

CallBesideStream ==
  [r \in Requests |-> IF r = q1 THEN {"call", "inline"} ELSE {"stream", "progress"}]
=============================================================================
