------------------------------ MODULE Payment -------------------------------
(***************************************************************************)
(* What a pay run promises, with nothing of how it is done: every worker   *)
(* is paid by one queue at most, the books record a payment only once it   *)
(* was made, and what they record is that payment and stays.               *)
(***************************************************************************)
CONSTANTS Worker, Queue

VARIABLES
  paidBy,     \* worker -> the queues whose transfer reached the worker
  recorded    \* worker -> the queues the books name as having paid the worker

Init ==
  /\ paidBy   = [w \in Worker |-> {}]
  /\ recorded = [w \in Worker |-> {}]

Pay(w, q) ==
  /\ paidBy[w] = {}
  /\ paidBy' = [paidBy EXCEPT ![w] = {q}]
  /\ UNCHANGED recorded

Record(w) ==
  /\ recorded[w] = {}
  /\ paidBy[w] # {}
  /\ recorded' = [recorded EXCEPT ![w] = paidBy[w]]
  /\ UNCHANGED paidBy

Next == \E w \in Worker : Record(w) \/ \E q \in Queue : Pay(w, q)

Spec == Init /\ [][Next]_<<paidBy, recorded>>
=============================================================================
