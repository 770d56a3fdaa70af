--------------------------- MODULE TransferQueries ---------------------------
(***************************************************************************)
(* TransfersService: the queries of the API, one of which the price script *)
(* uses too.  `where` is a function from the columns a query names to the  *)
(* values it asks for; a value the request left out is Undefined, and      *)
(* Prisma drops the column.  Pages are cut out of the rows by position,    *)
(* newest deposit first, in a new query each time.                         *)
(***************************************************************************)
EXTENDS TransferRows, SequencesExt

CONSTANT Undefined   \* a parameter the request does not have

ASSUME QueryAssumption == Undefined # Null

-----------------------------------------------------------------------------
(* The filters. *)

FindAllTransfers(s) == [status |-> s]

FindTransfersByAccountAddress(sender, s) == [accountId |-> sender, status |-> s]

FindTransfersByResourceID(resource, s) == [resourceID |-> resource, status |-> s]

FindTransfersBySourceDomainToDestinationDomain(source, destination) ==
  [fromDomainId |-> source, toDomainId |-> destination]

FindTransfersByResourceBetweenDomains(resource, source, destination) ==
  [resourceID |-> resource, fromDomainId |-> source, toDomainId |-> destination]

FindTransfersByDomain(domain, side, s) ==
  IF side = "source" THEN [fromDomainId |-> domain, status |-> s]
                     ELSE [toDomainId |-> domain, status |-> s]

Matches(k, where) ==
  \A column \in DOMAIN where : where[column] \in {Undefined, Column(k, column)}

Matching(where) == {k \in Rows : Matches(k, where)}

-----------------------------------------------------------------------------
(* findTransfers. *)

\* The timestamp descending; a row without a deposit has none and comes last.
ComesBefore(j, k) ==
  /\ j \in deposits
  /\ k \in deposits => Time[j] > Time[k]

\* The database may answer in any of these orders, and rows of one timestamp, or
\* of none, may change places from one query to the next.
Orders(rows) ==
  {o \in SetToSeqs(rows) : \A i, j \in DOMAIN o : ComesBefore(o[i], o[j]) => i < j}

\* A mutation: pages count from zero.
SkipFromZero(page, limit) == page * limit

\* calculatePaginationParams; pages count from one.
Skip(page, limit) == (page - 1) * limit

\* Prisma throws on a negative skip, which page zero is.
Refused(page) == page = 0

\* The rows of a page, in some order of all rows; their order within it is left out.
Cut(o, page, limit) ==
  {o[i] : i \in {j \in DOMAIN o : Skip(page, limit) < j /\ j <= Skip(page, limit) + limit}}

\* What one query may return.
Pages(where, page, limit) == {Cut(o, page, limit) : o \in Orders(Matching(where))}

-----------------------------------------------------------------------------
(* Notions for the properties of those who page. *)

\* A filter whose rows stay once they match: of the statuses "executed" alone is
\* final, and all other columns keep the value they have once been given.
Stable(where) ==
  "status" \in DOMAIN where => where["status"] \in {Undefined, "executed"}

\* No other deposit carries the timestamp of k.
Alone(k) == \A j \in Key \ {k} : Time[j] # Time[k]

\* The rows a walk that begins now should come by.
Due(where) == IF Stable(where) THEN {k \in Matching(where) \intersect deposits : Alone(k)} ELSE {}
=============================================================================
