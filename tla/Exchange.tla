------------------------------ MODULE Exchange ------------------------------
(***************************************************************************)
(* What one call of send_result promises, without connections, bodies and  *)
(* retries: the result gets to the server at most twice, perhaps after the *)
(* client has given up waiting, and the client says that it was taken only *)
(* if the server has it.  Agent (SendReturns, SendThrows, ProcessEnds)     *)
(* relies on this much, and ResultDelivery implements it.                  *)
(***************************************************************************)
EXTENDS Naturals

VARIABLES
  copies,    \* how many times the server has got the result
  outcome    \* what send_result returned

vars == <<copies, outcome>>

MaxCopies == 2

Init ==
  /\ copies = 0
  /\ outcome = "pending"

\* The server gets it, now or when nobody waits for its answer any more.
Reach ==
  /\ copies < MaxCopies
  /\ copies' = copies + 1
  /\ UNCHANGED outcome

End ==
  /\ outcome = "pending"
  /\ \/ copies > 0 /\ outcome' = "delivered"
     \/ outcome' = "undelivered"
  /\ UNCHANGED copies

Next == Reach \/ End

Spec == Init /\ [][Next]_vars
=============================================================================
