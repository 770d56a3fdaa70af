--------------------------- MODULE TransferStore ---------------------------
(***************************************************************************)
(* The database the indexers share: the tables of prisma/schema.prisma     *)
(* that hold transfers, and the repository methods that write them         *)
(* (src/indexer/repository).  A row is found by the transfer it belongs to,*)
(* so a table is a function of transfer keys or the set of keys it has     *)
(* rows for; @@unique(transferId) and the @unique transferId columns are   *)
(* why an insert needs its row to be absent (it throws otherwise).         *)
(* Amounts, addresses, prices and timestamps are left out: what matters of *)
(* a transfer's deposit columns is whether they were filled in.            *)
(***************************************************************************)

CONSTANTS
  Key,    \* <<depositNonce, fromDomainId, toDomainId>> of the transfers
  Tx,     \* transactions an execution row may name
  NoTx    \* no execution row

ASSUME StoreAssumption == NoTx \notin Tx

VARIABLES
  accounts,   \* Account: the keys whose depositor has a row
  transfer,   \* Transfer: a row or NoTransfer for each key
  deposits,   \* Deposit: the keys that have a row
  fees,       \* Fee: the keys that have a row
  execution   \* Execution: txHash of the row of each key, or NoTx

store == <<accounts, transfer, deposits, fees, execution>>

Status == {"pending", "failed", "executed"}

\* What the message column says: nothing, or why the execution failed.
Message == {"", "error"}

Transfer == [status : Status, message : Message, filled : BOOLEAN]
NoTransfer == [status |-> "absent", message |-> "", filled |-> FALSE]

Exists(k) == transfer[k] # NoTransfer

StoreTypeOK ==
  /\ accounts \subseteq Key
  /\ transfer \in [Key -> Transfer \union {NoTransfer}]
  /\ deposits \subseteq Key
  /\ fees \subseteq Key
  /\ execution \in [Key -> Tx \union {NoTx}]

StoreInit ==
  /\ accounts = {}
  /\ transfer = [k \in Key |-> NoTransfer]
  /\ deposits = {}
  /\ fees = {}
  /\ execution = [k \in Key |-> NoTx]

-----------------------------------------------------------------------------
(* TransferRepository.  Each operator says what becomes of `transfer`, and  *)
(* under which condition the database accepts it.                          *)

\* Mutations: a re-indexed deposit writes its status too (the update branch
\* without `status: undefined`), an update of the status leaves the message.
UpsertDepositTransferResets(k) ==
  transfer' = [transfer EXCEPT ![k] = [status |-> "pending", message |-> "", filled |-> TRUE]]
UpdateStatusKeepsMessage(k, status, message) ==
  /\ Exists(k)
  /\ transfer' = [transfer EXCEPT ![k].status = status,
                                 ![k].message = IF message = "" THEN @ ELSE message]

\* The row connects to its depositor's account.  The update branch clears the
\* message and leaves the status alone.
UpsertDepositTransfer(k) ==
  LET status == IF Exists(k) THEN transfer[k].status ELSE "pending"
  IN  /\ k \in accounts
      /\ transfer' = [transfer EXCEPT ![k] = [status |-> status, message |-> "", filled |-> TRUE]]

\* insertExecutionTransfer and insertFailedTransfer: a row with no details.
InsertTransfer(k, status, message) ==
  /\ ~Exists(k)
  /\ transfer' = [transfer EXCEPT ![k] = [status |-> status, message |-> message, filled |-> FALSE]]

UpdateStatus(k, status, message) ==
  /\ Exists(k)
  /\ transfer' = [transfer EXCEPT ![k].status = status, ![k].message = message]

-----------------------------------------------------------------------------
(* AccountRepository, DepositRepository, FeeRepository, ExecutionRepository. *)

InsertAccount(k) == accounts' = accounts \union {k}
InsertDeposit(k) == k \notin deposits /\ deposits' = deposits \union {k}
InsertFee(k) == k \notin fees /\ fees' = fees \union {k}
UpsertExecution(k, tx) == execution' = [execution EXCEPT ![k] = tx]
=============================================================================
