------------------------------ MODULE MCPayRun -------------------------------
(* PayRun on small instances: half of what is paid goes to Social Security,  *)
(* so that odd cents are rounded, on up to two cents a year.                 *)
EXTENDS PayRun

T(rate, incomeTax) == [rate |-> rate, incomeTax |-> incomeTax]

SmallTerms == {T(1, 0), T(2, 1)}
=============================================================================
