------------------------------ MODULE MCLedger ------------------------------
(* Ledger and its statements on small instances.                           *)
EXTENDS Statements, TLC

CONSTANTS s1, b1, b2, b3, n1, n2

\* Retained Earnings is the one system account.
SmallSystemSection == [a \in {s1} |-> "equity"]

Symmetric == Permutations(Name) \cup Permutations(Account \ System)

\* The bound of the run: a journal of three entries, or two and a locked period, over a chart
\* of two accounts; an entry that holds its accounts in place in a chart of three; or a whole
\* chart.
Small ==
  \/ Cardinality(Chart) <= 2 /\ (Len(entries) <= 2 \/ lockedThrough = 0)
  \/ Cardinality(Chart) <= 3 /\ Len(entries) <= 1 /\ closedThrough = 0
  \/ entries = <<>> /\ closedThrough = 0

SmallSpec == Init /\ [][Next /\ Small']_vars
=============================================================================
