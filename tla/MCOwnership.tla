---------------------------- MODULE MCOwnership ----------------------------
\* Bodies over two names for TLC: every body up to MaxLength statements.
EXTENDS Ownership

MCNames == {"a", "b"}
AllOps == {"let", "assign", "pass", "use", "defer", "if", "while", "break", "continue", "return"}
CallOps == {"pass", "use"}
=============================================================================
