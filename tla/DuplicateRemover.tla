-------------------------- MODULE DuplicateRemover --------------------------
(***************************************************************************)
(* The fix script "remove-duplicates", for tables from before the unique   *)
(* index on transferId and the timestamp column: of the deposit rows and   *)
(* of the execution rows of a transfer all but the first one found are     *)
(* deleted, and rows without a timestamp get that of their transfer, where *)
(* it has a document.  The indexers go on inserting rows, duplicates       *)
(* included.  Rows are told apart by their ids.                            *)
(***************************************************************************)
EXTENDS Naturals, FiniteSets

CONSTANTS
  Owner,  \* the transfers
  Id,     \* row ids
  Of      \* [Id -> Owner], transferId

ASSUME RemoverAssumption == Of \in [Id -> Owner]

Table == {"deposit", "execution"}

VARIABLES
  rows,      \* each table: the ids of its rows
  dated,     \* each table: the ids of the rows that have a timestamp
  documents, \* Transfer: those that have a document; a row's id may name none
  stamped,   \* Transfer: those whose document has the timestamp of old
  step,      \* where the script is
  table,     \* the table it is at
  doomed,    \* duplicateDepositIds or duplicateExecutionIds
  undated,   \* each table: depositsWithoutTimestamp, executionsWithoutTimestamp
  owned,     \* history, each table: the transfers that have ever had a row
  late       \* history, each table: the rows inserted since it was scanned

removal == <<step, table, doomed, undated>>
removerVars == <<rows, dated, documents, stamped, removal, owned, late>>

Owners(ids) == {Of[i] : i \in ids}

RemoverTypeOK ==
  /\ rows \in [Table -> SUBSET Id]
  /\ dated \in [Table -> SUBSET Id]
  /\ documents \subseteq Owner
  /\ stamped \subseteq documents
  /\ step \in {"off", "scan", "delete", "find", "date", "done"}
  /\ table \in Table
  /\ undated \in [Table -> SUBSET Id]
  /\ owned \in [Table -> SUBSET Owner]
  /\ late \in [Table -> SUBSET Id]
  /\ doomed \subseteq rows[table]
  /\ \A t \in Table : dated[t] \union undated[t] \union late[t] \subseteq rows[t]

Nothing == [t \in Table |-> {}]

RemoverIdle ==
  /\ step = "off"
  /\ table = "deposit"
  /\ doomed = {}
  /\ undated = Nothing
  /\ late = Nothing

\* Tables as years of indexing may have left them; the database does not hold a row
\* to the transfer it names.
RemoverInit ==
  /\ rows \in [Table -> SUBSET Id]
  /\ dated \in [Table -> SUBSET Id] /\ \A t \in Table : dated[t] \subseteq rows[t]
  /\ documents \in SUBSET Owner
  /\ stamped \in SUBSET documents
  /\ owned = [t \in Table |-> Owners(rows[t])]
  /\ RemoverIdle

-----------------------------------------------------------------------------
(* The indexers: insertDeposit, or the create of upsertExecution, for a transfer   *)
(* they have inserted or found; no transfer is deleted.                            *)

Insert(t, i) ==
  /\ i \notin rows[t]
  /\ Of[i] \in documents
  /\ rows' = [rows EXCEPT ![t] = @ \union {i}]
  /\ dated' = [dated EXCEPT ![t] = @ \union {i}]
  /\ owned' = [owned EXCEPT ![t] = @ \union {Of[i]}]
  /\ late' = [late EXCEPT ![t] = @ \union {i}]
  /\ UNCHANGED <<documents, stamped, removal>>

\* upsertExecution finds a row and writes its timestamp again, or for the first time.
UpdateExecution(i) ==
  /\ i \in rows["execution"]
  /\ Of[i] \in documents
  /\ dated' = [dated EXCEPT !["execution"] = @ \union {i}]
  /\ UNCHANGED <<rows, documents, stamped, removal, owned, late>>

-----------------------------------------------------------------------------
(* executeAction. *)

RunRemover ==
  /\ step \in {"off", "done"}
  /\ step' = "scan"
  /\ table' = "deposit"
  /\ UNCHANGED <<rows, dated, documents, stamped, doomed, undated, owned, late>>

\* Mutations: the set of transfers seen is one for both tables; a second row is
\* spared.
FirstOfEachShared(t, kept) ==
  /\ kept \subseteq rows[t]
  /\ Owners(kept) = Owners(rows[t]) \ (IF t = "execution" THEN Owners(rows["deposit"]) ELSE {})
  /\ \A i, j \in kept : Of[i] = Of[j] => i = j
FirstOfEachTwice(t, kept) ==
  /\ kept \subseteq rows[t]
  /\ Owners(kept) = Owners(rows[t])
  /\ \A o \in Owner : Cardinality({i \in kept : Of[i] = o}) <= 2

\* The query may return the rows in any order; one row of each transfer is first.
FirstOfEach(t, kept) ==
  /\ kept \subseteq rows[t]
  /\ Owners(kept) = Owners(rows[t])
  /\ \A i, j \in kept : Of[i] = Of[j] => i = j

Scan ==
  /\ step = "scan"
  /\ step' = "delete"
  /\ \E kept \in SUBSET rows[table] : FirstOfEach(table, kept) /\ doomed' = rows[table] \ kept
  /\ late' = [late EXCEPT ![table] = {}]
  /\ UNCHANGED <<rows, dated, documents, stamped, table, undated, owned>>

\* These rows are gone.
RemoveRows(ids) ==
  /\ rows' = [rows EXCEPT ![table] = @ \ ids]
  /\ dated' = [dated EXCEPT ![table] = @ \ ids]
  /\ late' = [late EXCEPT ![table] = @ \ ids]

\* deleteMany; after the deposits the executions.
DeleteMany ==
  /\ step = "delete"
  /\ RemoveRows(doomed)
  /\ doomed' = {}
  /\ IF table = "deposit" THEN step' = "scan" ELSE step' = "find"
  /\ table' = IF table = "deposit" THEN "execution" ELSE "deposit"
  /\ UNCHANGED <<documents, stamped, undated, owned>>

\* Deposits and executions without a timestamp, one query after the other; no rows
\* without one are inserted meanwhile.
FindUndated ==
  /\ step = "find"
  /\ undated' = [t \in Table |-> rows[t] \ dated[t]]
  /\ step' = "date"
  /\ UNCHANGED <<rows, dated, documents, stamped, table, doomed, owned, late>>

\* The loops are at this row: deposits first.
AtRow(t, i) ==
  /\ step = "date"
  /\ i \in undated[t]
  /\ t = "execution" => undated["deposit"] = {}

\* The timestamp of the transfer's document.
AddTimestamp(t, i) ==
  /\ AtRow(t, i)
  /\ Of[i] \in stamped
  /\ dated' = [dated EXCEPT ![t] = @ \union {i}]
  /\ undated' = [undated EXCEPT ![t] = @ \ {i}]
  /\ UNCHANGED <<rows, documents, stamped, step, table, doomed, owned, late>>

\* A mutation: a transfer that is not found ends the loops.
PassOverAll(t, i) ==
  /\ AtRow(t, i)
  /\ Of[i] \notin documents
  /\ undated' = Nothing
  /\ UNCHANGED <<rows, dated, documents, stamped, step, table, doomed, owned, late>>

\* `if (transfer.length)`: findRaw finds no document, and the row stays as it is.
PassOver(t, i) ==
  /\ AtRow(t, i)
  /\ Of[i] \notin documents
  /\ undated' = [undated EXCEPT ![t] = @ \ {i}]
  /\ UNCHANGED <<rows, dated, documents, stamped, step, table, doomed, owned, late>>

FinishRemover ==
  /\ step = "date"
  /\ undated = Nothing
  /\ step' = "done"
  /\ UNCHANGED <<rows, dated, documents, stamped, table, doomed, undated, owned, late>>

\* The script is over: what it holds is gone, the tables are left.
Over ==
  /\ step' = "off"
  /\ table' = "deposit"
  /\ doomed' = {}
  /\ undated' = Nothing
  /\ UNCHANGED <<documents, stamped, owned>>

\* `transfer[0].timestamp["$date"]`: the document has no timestamp.  The TypeError
\* ends the script and leaves the rows behind this one as they are.
NoTimestamp(t, i) ==
  /\ AtRow(t, i)
  /\ Of[i] \in documents \ stamped
  /\ Over
  /\ UNCHANGED <<rows, dated, late>>

\* A call throws or the operator ends the script, maybe within deleteMany.
RemoverAborts ==
  /\ step \notin {"off", "done"}
  /\ \E ids \in SUBSET doomed : RemoveRows(ids)
  /\ Over

RemoverScript ==
  \/ Scan \/ DeleteMany \/ FindUndated \/ FinishRemover
  \/ \E t \in Table, i \in Id : AddTimestamp(t, i) \/ PassOver(t, i) \/ NoTimestamp(t, i)

RemoverNext ==
  \/ RunRemover \/ RemoverScript \/ RemoverAborts
  \/ \E t \in Table, i \in Id : Insert(t, i)
  \/ \E i \in Id : UpdateExecution(i)

RemoverSpec == RemoverInit /\ [][RemoverNext]_removerVars /\ WF_removerVars(RemoverScript)

-----------------------------------------------------------------------------
(* Properties. *)

\* No transfer that ever had a deposit's or an execution's row is left without one:
\* whatever order the rows come in, whatever is inserted meanwhile, and wherever the
\* script ends and is run again.
LastRowsAreKept == \A t \in Table : owned[t] \subseteq Owners(rows[t])

\* Once a run is done no transfer has two rows in a table, those inserted since the
\* table was scanned left aside.
DuplicatesAreGone ==
  step = "done" =>
    \A t \in Table : \A i, j \in rows[t] \ late[t] : Of[i] = Of[j] => i = j

\* No row of a transfer that has a document is without a timestamp.
Dated == \A t \in Table : \A i \in rows[t] : Of[i] \in documents => i \in dated[t]

\* Once a run comes to its end, past rows whose transfer is not found, every row of a
\* transfer that has a document has a timestamp; and so it stays, through later
\* inserts and later runs, those that throw or end half way included.
RowsAreDated ==
  /\ [](step = "done" => Dated)
  /\ [][Dated => Dated']_removerVars

\* A run comes to its end.
RemoverRunsEnd == step \notin {"off", "done"} ~> step \in {"off", "done"}
=============================================================================
