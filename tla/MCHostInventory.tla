-------------------------- MODULE MCHostInventory --------------------------
(* Small instances of HostInventory for TLC.                               *)
EXTENDS HostInventory, TLC

CONSTANTS h1, h2, x1, a1, n1

\* h1 holds the one address on the first network; h2 may join, or be there too.
Plain(x) == [name |-> x, static |-> [n \in Networks |-> Dynamic], notify |-> FALSE]
Reserved == [Plain(x1) EXCEPT !.static[n1] = a1]
OneHost == [h \in {h1} |-> Reserved]
TwoHosts == [h \in {h1, h2} |-> IF h = h1 THEN Reserved ELSE Plain(x1)]

Symmetric == Permutations(Calls)
=============================================================================
