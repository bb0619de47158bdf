---- MODULE MCWpEncoder ----
\* Bodies over 0..2 for TLC: every body up to MaxLength instructions.
EXTENDS WpEncoder

Le(n) == [rel |-> "le", k |-> n]
Eq(n) == [rel |-> "eq", k |-> n]

MCValues == 0..2
MCInputs == {0, 1}
MCExprs == {"zero", "succ"}
MCClaims == {Eq(1)}
MCGuards == {Le(0)}
LoopGuards == {Le(1)}
MCInvariants == {NoInvariant, Le(1)}
LoopInvariants == {Le(1)}
MCEnsures == Le(1)
AllOps == {"assign", "assert", "assume", "if", "while", "call", "return", "break"}
LoopOps == {"assign", "while"}
====
