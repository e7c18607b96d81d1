----------------------------- MODULE MCChannels -----------------------------
(* Channels on small instances.                                            *)
EXTENDS Channels, TLC

CONSTANTS m1, m2, j1, j2

Symmetric == Permutations(Member)

\* The bounds of the run: a day passes only when a receipt is waiting for it, one call is
\* late at a time, and there is a member whose thread no answer is missing from.
Dated == \E p \in pins : p.until # Undated

Small ==
  /\ today' # today => Dated
  /\ \A x, y \in late' : x = y
  /\ \A m \in Member : owed'[m] <= 1
  /\ \E m \in Member : owed'[m] = 0

SmallSpec == Init /\ [][OrderlyNext /\ Small]_vars
=============================================================================
