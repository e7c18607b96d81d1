------------------------------- MODULE MCSales -------------------------------
(* Sales on small instances: one content of an invoice, worth 1 and as much *)
(* tax, both rounded up.                                                     *)
EXTENDS Sales, TLC

CONSTANTS c1, c2, v1, n1

\* 0.50 at 1 cent is rounded up to 1 cent, half of which is tax, rounded up to 1.
Taxed == [lines |-> <<[quantity |-> 50, unitPrice |-> 1, taxable |-> TRUE]>>,
          taxRateBp |-> 5000]
SmallContent == {Taxed}

Symmetric == Permutations(Customer)

\* The bound of the run: the last month is closed, but not locked, so something can go on.
SmallSpec == Init /\ [][Next /\ lockedThrough' < LastDate]_vars
=============================================================================
