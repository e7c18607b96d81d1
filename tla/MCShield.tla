------------------------------ MODULE MCShield -------------------------------
(* Shield on small instances, at two minor units a cent: three units come   *)
(* in, half a cent is made public, and half a cent comes in; what goes out  *)
(* is a payment.                                                            *)
EXTENDS Shield

CONSTANTS p1, f1

A(kind, part, minor) == [kind |-> kind, part |-> part, minor |-> minor, pays |-> None]

SmallMovement == {A("in", "private", 3), A("inside", "private", 1), A("in", "public", 1)}

OnePrivate == [part \in Part |-> IF part = "private" THEN 3 ELSE 0]
=============================================================================
