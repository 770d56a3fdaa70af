------------------------ MODULE TransferStore_proofs ------------------------
(***************************************************************************)
(* What the repository methods that write the transfer table do to its     *)
(* columns; both kinds of indexers' proofs rest on these lemmas.           *)
(***************************************************************************)
EXTENDS TransferStore, TLAPS

\* The statuses of a transfer whose execution was tried.
Tried == {"failed", "executed"}

\* What a step of any indexer does to the tables: rows stay, details stay, and a
\* transfer that was tried stays so.
Grows ==
  /\ StoreTypeOK'
  /\ accounts \subseteq accounts' /\ deposits \subseteq deposits' /\ fees \subseteq fees'
  /\ \A k \in Key :
       /\ transfer[k].filled => transfer'[k].filled
       /\ transfer[k].status \in Tried => transfer'[k].status \in Tried
       /\ execution[k] # NoTx => execution'[k] # NoTx

\* Of the transfers in K the step records the deposit at most, no execution.
DepositOnly(K) ==
  \A k \in K :
    /\ execution'[k] = execution[k]
    /\ \/ transfer'[k].status = transfer[k].status
       \/ transfer[k].status = "absent" /\ transfer'[k].status = "pending"

\* The two writes of an execution leave rows in the table.
LEMMA MarkedRowType ==
  ASSUME transfer \in [Key -> Transfer \union {NoTransfer}],
         NEW k \in Key, NEW status \in {"failed", "executed"}, NEW message \in Message,
         UpdateStatus(k, status, message) \/ InsertTransfer(k, status, message)
  PROVE  transfer' \in [Key -> Transfer \union {NoTransfer}]
<1>1. CASE UpdateStatus(k, status, message)
  <2>1. transfer[k] \in Transfer
    BY <1>1 DEF UpdateStatus, Exists
  <2>2. [transfer[k] EXCEPT !.status = status, !.message = message] \in Transfer
    BY <2>1 DEF Transfer, Status
  <2> QED
    BY <1>1, <2>2 DEF UpdateStatus
<1>2. CASE InsertTransfer(k, status, message)
  BY <1>2 DEF InsertTransfer, Transfer, Status
<1> QED
  BY <1>1, <1>2

LEMMA NoTransferFields ==
  NoTransfer.status = "absent" /\ NoTransfer.message = "" /\ NoTransfer.filled = FALSE
  BY DEF NoTransfer

\* What a write of the transfer table does to the columns: the deposit's upsert
\* fills the details of its row and creates it pending; the execution's writes
\* set the status and the message of theirs.
LEMMA UpsertEffect ==
  ASSUME transfer \in [Key -> Transfer \union {NoTransfer}],
         NEW k \in Key, UpsertDepositTransfer(k)
  PROVE  /\ transfer'[k].filled
         /\ transfer'[k].message = ""
         /\ transfer'[k].status = IF transfer[k].status = "absent" THEN "pending"
                                  ELSE transfer[k].status
         /\ \A j \in Key \ {k} : transfer'[j] = transfer[j]
<1>1. transfer[k] # NoTransfer => transfer[k].status # "absent"
  BY DEF Transfer, Status
<1>2. transfer[k] = NoTransfer => transfer[k].status = "absent"
  BY NoTransferFields
<1> QED
  BY <1>1, <1>2 DEF UpsertDepositTransfer, Exists

LEMMA MarkEffect ==
  ASSUME transfer \in [Key -> Transfer \union {NoTransfer}],
         NEW k \in Key, NEW status, NEW message,
         UpdateStatus(k, status, message) \/ InsertTransfer(k, status, message)
  PROVE  /\ transfer'[k].status = status
         /\ transfer'[k].message = message
         /\ transfer'[k].filled = transfer[k].filled
         /\ \A j \in Key \ {k} : transfer'[j] = transfer[j]
<1>1. CASE UpdateStatus(k, status, message)
  <2>1. transfer[k] \in Transfer
    BY <1>1 DEF UpdateStatus, Exists
  <2>2. transfer'[k] = [transfer[k] EXCEPT !.status = status, !.message = message]
    BY <1>1 DEF UpdateStatus
  <2> QED
    BY <1>1, <2>1, <2>2 DEF UpdateStatus, Transfer
<1>2. CASE InsertTransfer(k, status, message)
  <2>1. transfer[k] = NoTransfer
    BY <1>2 DEF InsertTransfer, Exists
  <2>2. transfer'[k] = [status |-> status, message |-> message, filled |-> FALSE]
    BY <1>2 DEF InsertTransfer
  <2> QED
    BY <1>2, <2>1, <2>2, NoTransferFields DEF InsertTransfer
<1> QED
  BY <1>1, <1>2
=============================================================================
