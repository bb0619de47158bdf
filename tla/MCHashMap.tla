----------------------------- MODULE MCHashMap -----------------------------
EXTENDS HashMap

CONSTANTS k1, k2, k3, k4

\* Three keys share a home bucket in the small table, two of them in the
\* doubled one too, and one path wraps around the end of the table.
Colliding == [k \in Keys |-> CASE k = k1 -> 3 [] k = k2 -> 7 [] k = k3 -> 11
                               [] OTHER -> 4]

Identity == {<<k, k>> : k \in Keys}
=============================================================================
