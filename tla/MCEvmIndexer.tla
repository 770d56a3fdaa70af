---------------------------- MODULE MCEvmIndexer ----------------------------
(***************************************************************************)
(* Two EVM domains, 1 and 2.                                               *)
(***************************************************************************)
EXTENDS EvmIndexer

A == [nonce |-> 1, from |-> 1, to |-> 2]
B == [nonce |-> 1, from |-> 2, to |-> 1]
C == [nonce |-> 2, from |-> 1, to |-> 3]
D == [nonce |-> 3, from |-> 1, to |-> 4]

Ev(kind, key, block, tx) == [kind |-> kind, key |-> key, block |-> block, tx |-> tx]

DepositA == Ev("deposit", A, 2, "dA")
FailA == Ev("failed", A, 1, "fA")
ExecA == Ev("executed", A, 4, "xA")
DepositB == Ev("deposit", B, 2, "dB")
ExecB == Ev("executed", B, 4, "xB")

\* To a domain that is not indexed, and to a blacklisted one.
DepositC == Ev("deposit", C, 3, "dC")
DepositD == Ev("deposit", D, 3, "dD")

MCTx == {"dA", "fA", "xA", "dB", "xB", "dC", "dD"}

\* Two transfers in opposite directions, each listener saving deposits and
\* executions in one range while the other does; one of them with an execution
\* that fails before the one that succeeds, each of which may be indexed before the
\* deposit; and a deposit that cannot be decoded.
BothWays == {DepositA, FailA, ExecA, DepositB, ExecB, DepositC}
BothWaysKeys == {A, B, C}
BothWaysFlaky == {DepositB, ExecA}

\* Deposits to a domain that is blacklisted, and to one that is not.
Mixed == {DepositA, DepositD}
MixedKeys == {A, D}
=============================================================================
