----------------------------- MODULE MCIndexers -----------------------------
(***************************************************************************)
(* An EVM domain, 1, and a Substrate domain, 2.                            *)
(***************************************************************************)
EXTENDS Indexers

A == [nonce |-> 1, from |-> 1, to |-> 2]
B == [nonce |-> 1, from |-> 2, to |-> 1]

OnEvm(kind, key, block, tx) == [kind |-> kind, key |-> key, block |-> block, tx |-> tx]
OnSubstrate(kind, key, block, index, tx) ==
  [kind |-> kind, key |-> key, block |-> block, index |-> index, tx |-> tx]

MCTx == {"dA", "xA", "dB", "fB", "xB"}

\* To Substrate: the deposit on the EVM chain, the execution on the other.
Out == OnEvm("deposit", A, 1, "dA")
OutExecuted == OnSubstrate("executed", A, 1, 1, "xA")

\* From Substrate, in a block of its own; it fails and is then executed.
Back == OnSubstrate("deposit", B, 1, 2, "dB")
BackFee == OnSubstrate("fee", B, 1, 3, "dB")
BackFailed == OnEvm("failed", B, 1, "fB")
BackExecuted == OnEvm("executed", B, 2, "xB")

BothEvm == {Out, BackFailed, BackExecuted}
BothSubstrate == {OutExecuted, Back, BackFee}
BothKeys == {A, B}

OutEvm == {Out}
OutSubstrate == {OutExecuted}
OutKeys == {A}
=============================================================================
