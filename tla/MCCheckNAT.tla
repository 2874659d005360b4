----------------------------- MODULE MCCheckNAT -----------------------------
(* Small instances of CheckNAT: two STUN keys, two addresses. *)
EXTENDS CheckNAT

CONSTANTS k1, k2, tmp, nokey, x, y

\* Every command on a key that may be there and on one that is not.
AllLines == {Line("other", nokey), Line("exit", nokey)}
            \cup {Line(op, k) : op \in {"pop3", "nat", "smtp"}, k \in {k1, nokey}}
OnlyExit == {Line("exit", nokey)}
=============================================================================
