------------------------- MODULE MCSubstrateIndexer -------------------------
(***************************************************************************)
(* Two Substrate domains, 1 and 2.                                         *)
(***************************************************************************)
EXTENDS SubstrateIndexer

A == [nonce |-> 1, from |-> 1, to |-> 2]
B == [nonce |-> 2, from |-> 1, to |-> 2]
C == [nonce |-> 3, from |-> 1, to |-> 2]
D == [nonce |-> 4, from |-> 1, to |-> 3]

Ev(kind, key, block, index, tx) ==
  [kind |-> kind, key |-> key, block |-> block, index |-> index, tx |-> tx]

DepositA == Ev("deposit", A, 1, 1, "1-1")
FeeA == Ev("fee", A, 1, 2, "1-1")
FailA == Ev("failed", A, 1, 1, "1-1b")
ExecA == Ev("executed", A, 2, 1, "2-1b")

\* A batch: the same extrinsic as A's deposit.
DepositB == Ev("deposit", B, 1, 3, "1-1")
FeeB == Ev("fee", B, 1, 4, "1-1")
ExecB == Ev("executed", B, 1, 2, "1-2b")

\* To a blacklisted domain, before another deposit of the same block.
DepositD == Ev("deposit", D, 2, 1, "2-1")
DepositC == Ev("deposit", C, 2, 2, "2-2")

MCTx == {"1-1", "2-1", "2-2", "1-1b", "1-2b", "2-1b"}

\* A transfer from before the fee event that fails and is then executed.
Contest == {DepositA, FailA, ExecA}
ContestKeys == {A}

\* A deposit and its fee, nothing else.
Single == {DepositA, FeeA}
SingleKeys == {A}

\* A batch of two transfers, one of which is executed, and a blacklisted deposit.
Batch == {DepositA, FeeA, DepositB, FeeB, ExecB, DepositD, DepositC}
BatchKeys == {A, B, C, D}
=============================================================================
