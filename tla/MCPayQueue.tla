----------------------------- MODULE MCPayQueue -----------------------------
(* Small instances of PayQueue, and the specifications that add one kind of *)
(* mishap at a time to an attended run.                                     *)
EXTENDS PayQueueInv

CONSTANTS w1, w2, q1, q2, q3

\* The tab may also be closed while a transfer's id is not in the books yet.
ReloadSpec == Init /\ [][AttendedNext \/ Reload]_vars

\* The operator may also go to another page and come back.
LeaveSpec == Init /\ [][AttendedNext \/ Leave]_vars

\* The explorer may also answer with an error while a payment is confirmed.
ExplorerSpec ==
  Init /\ [][AttendedNext \/ \E q \in Queue, w \in Worker : ExplorerFails(q, w)]_vars
=============================================================================
