------------------------------- MODULE MCAuth -------------------------------
(* Auth for TLC: requests and tokens are interchangeable, and states that  *)
(* differ only in the answer a finished request was given are the same:    *)
(* no guard and no property reads it.                                      *)
EXTENDS Auth, TLC

Symmetry == Permutations(Requests) \cup Permutations(Tokens)

View == <<now, employees, tokens, touches,
          [r \in Requests |-> IF requests[r].step = "idle" THEN "idle" ELSE requests[r]]>>
=============================================================================
