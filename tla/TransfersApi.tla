---------------------------- MODULE TransfersApi ----------------------------
(***************************************************************************)
(* The public API: a client asks, one request at a time, and the handlers  *)
(* of TransfersController answer from the tables while the indexers write  *)
(* them.  A request reads only, so one client stands for all of them.  It  *)
(* walks through the pages of a query until one is empty, looks a transfer *)
(* up by its id or by its transaction, or asks for one of the tables the   *)
(* program holds.                                                          *)
(***************************************************************************)
EXTENDS TransferQueries

CONSTANTS
  Wheres,  \* the queries clients ask
  Limits,  \* their limits
  Bogus,   \* an id no transfer has, or that is not an id at all
  Environment,  \* ENVIRONMENT
  Described     \* the environments DomainMetadataConfig and ResourcesMetadataConfig have

\* A request has no way to ask for a column without a value.
ASSUME ApiAssumption ==
  /\ Limits \subseteq Nat \ {0}
  /\ \A where \in Wheres : \A column \in DOMAIN where : where[column] # Null

VARIABLES
  asked,   \* what the request on its way is for, or "nothing"
  walk,    \* the walk in progress, or the last one
  target,  \* what is looked up: a transfer, or Bogus
  code,    \* the status of the last answer, or 0
  missing  \* history: the rows the walk owes its client

api == <<asked, walk, target, code, missing>>
apiVars == <<tables, api>>

Walk == [where : Wheres, page : Nat, limit : Limits, over : BOOLEAN]
NoWalk == [where |-> <<>>, page |-> 1, limit |-> 1, over |-> TRUE]

ApiTypeOK ==
  /\ asked \in {"nothing", "transfers", "transferById", "transferByTxHash", "metadata", "routes"}
  /\ walk \in Walk \union {NoWalk}
  /\ target \in Key \union {Bogus}
  /\ code \in {0, 200, 404, 500}
  /\ missing \subseteq Rows
  /\ asked = "transfers" => ~walk.over

ApiInit ==
  /\ asked = "nothing"
  /\ walk = NoWalk
  /\ target = Bogus
  /\ code = 0
  /\ missing = {}

-----------------------------------------------------------------------------
(* The client. *)

\* It begins a walk, at the default page one or, as others number pages, at zero.
BeginWalk(where, limit, page) ==
  /\ asked = "nothing"
  /\ walk.over
  /\ walk' = [where |-> where, page |-> page, limit |-> limit, over |-> FALSE]
  /\ asked' = "transfers"
  /\ missing' = Due(where)
  /\ code' = 0
  /\ UNCHANGED target

\* It asks for the next page, or for the same one after an error.
AskPage ==
  /\ asked = "nothing"
  /\ ~walk.over
  /\ asked' = "transfers"
  /\ code' = 0
  /\ UNCHANGED <<walk, target, missing>>

\* It is not interested any more.
Abandon ==
  /\ asked = "nothing"
  /\ ~walk.over
  /\ walk' = NoWalk
  /\ missing' = {}
  /\ code' = 0
  /\ UNCHANGED <<asked, target>>

LookUp(how, id) ==
  /\ asked = "nothing"
  /\ walk.over
  /\ asked' = how
  /\ target' = id
  /\ walk' = NoWalk
  /\ missing' = {}
  /\ code' = 0

-----------------------------------------------------------------------------
(* The handlers. *)

\* Status 200 and a page, which ends the walk when it is empty.
SendPage ==
  /\ asked = "transfers"
  /\ ~Refused(walk.page)
  /\ \E page \in Pages(walk.where, walk.page, walk.limit) :
       /\ missing' = missing \ page
       /\ walk' = IF page = {} THEN [walk EXCEPT !.over = TRUE] ELSE [walk EXCEPT !.page = @ + 1]
  /\ asked' = "nothing"
  /\ code' = 200
  /\ UNCHANGED target

\* Status 200 with the transfer, or NotFound was thrown, status 404.
SendTransfer ==
  /\ asked = "transferById"
  /\ code' = IF target \in Rows THEN 200 ELSE 404
  /\ asked' = "nothing"
  /\ UNCHANGED <<walk, target, missing>>

\* The transfers whose deposit has the transaction, of one domain if asked for: a
\* list, status 200 even when it is empty.
SendTransfersOfTx ==
  /\ asked = "transferByTxHash"
  /\ code' = 200
  /\ asked' = "nothing"
  /\ UNCHANGED <<walk, target, missing>>

\* Domains' metadata or resources.  For an environment without any the handler sets
\* status 404 and sends nothing, and as it is not asynchronous nobody else does.
SendMetadata ==
  /\ asked = "metadata"
  /\ Environment \in Described
  /\ code' = 200
  /\ asked' = "nothing"
  /\ UNCHANGED <<walk, target, missing>>

\* The routes from a domain, or none if it is not known.
SendRoutes ==
  /\ asked = "routes"
  /\ code' = 200
  /\ asked' = "nothing"
  /\ UNCHANGED <<walk, target, missing>>

\* A mutation: the error status is set and nothing is sent.
SendNoError ==
  /\ asked \in {"transfers", "transferById", "transferByTxHash"}
  /\ UNCHANGED api

\* The query threw, for its parameters or because of the database: status 500.
SendError ==
  /\ asked \in {"transfers", "transferById", "transferByTxHash"}
  /\ asked' = "nothing"
  /\ code' = 500
  /\ UNCHANGED <<walk, target, missing>>

Answer ==
  SendPage \/ SendTransfer \/ SendTransfersOfTx \/ SendMetadata \/ SendRoutes \/ SendError

Client ==
  \/ \E where \in Wheres, limit \in Limits, page \in {0, 1} : BeginWalk(where, limit, page)
  \/ AskPage
  \/ Abandon
  \/ \E how \in {"transferById", "transferByTxHash"}, id \in Key \union {Bogus} : LookUp(how, id)
  \/ \E how \in {"metadata", "routes"} : LookUp(how, Bogus)

ApiStep == (Client \/ Answer) /\ UNCHANGED tables

ApiIndex == (\E k \in Key : Index(k)) /\ UNCHANGED api

ApiNext == ApiStep \/ ApiIndex

\* A request that has arrived is answered; nothing is assumed of clients and indexers.
ApiFairness == WF_apiVars(Answer /\ UNCHANGED tables)

ApiSpec == RowsInit /\ ApiInit /\ [][ApiNext]_apiVars /\ ApiFairness

-----------------------------------------------------------------------------
(* Properties. *)

\* Pages are cut by position while rows are added ahead of them, yet a walk to the
\* empty page leaves out no transfer that had its deposit's row and matched when it
\* began: positions only grow, so a row may come twice but is not overtaken.  For
\* filters by "pending" or "failed", whose rows leave, and for rows of one timestamp,
\* or none, which may change places, the code gives no such guarantee.
WalksMissNothing == walk.over => missing = {}

\* Every request is answered, page zero, unknown ids and errors included.  It takes
\* an environment that is described.
RequestsAreAnswered == asked # "nothing" ~> asked = "nothing"
=============================================================================
