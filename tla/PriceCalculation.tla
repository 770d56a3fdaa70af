-------------------------- MODULE PriceCalculation --------------------------
(***************************************************************************)
(* The fix script "price-calculations": it pages through all transfers and *)
(* values those whose usdValue is null or zero, beside indexers that write *)
(* the same rows.  It decides on what its page said of a row, some awaits  *)
(* before it writes.                                                       *)
(***************************************************************************)
EXTENDS TransferQueries

CONSTANTS
  Type,      \* [Key -> {"fungible", "nonfungible", "gmp"}]
  Listed,    \* the keys whose resource the shared configuration names
  PageLimit  \* limit, 50 in the code

ASSUME ScriptAssumption == PageLimit \in Nat \ {0} /\ Null \notin Key

VARIABLES
  usd,       \* usdValue: "null", "zero" or "value"
  priceStep, \* where the script is
  page,      \* page
  batch,     \* transfers: the keys of the page not reached
  worthless, \* those of them that had no value when the page was read
  nameless,  \* those of them that had no resource then
  current,   \* the transfer whose price is asked for or written, or Null
  newValue,  \* newValue of that transfer
  unseen     \* history: the rows the run owes its operator

script == <<priceStep, page, batch, worthless, nameless, current, newValue, unseen>>
priceVars == <<tables, usd, script>>

Value == {"null", "zero", "value"}

PriceTypeOK ==
  /\ usd \in [Key -> Value]
  /\ priceStep \in {"off", "next", "price", "write"}
  /\ page \in Nat \ {0}
  /\ batch \subseteq Rows
  /\ worthless \subseteq batch \union {current} /\ nameless \subseteq batch
  /\ current \in Rows \union {Null}
  /\ newValue \in {"zero", "value"}
  /\ unseen \subseteq Rows
  /\ priceStep \in {"price", "write"} <=> current # Null
  /\ current # Null => current \in known

PriceInit ==
  /\ usd = [k \in Key |-> "null"]
  /\ priceStep = "off"
  /\ page = 1
  /\ batch = {} /\ worthless = {} /\ nameless = {}
  /\ current = Null
  /\ newValue = "zero"
  /\ unseen = {}

-----------------------------------------------------------------------------
(* The indexers: a deposit that is indexed, or indexed again, sets the value, *)
(* to zero when the price service fails.                                      *)

Valued(k) ==
  /\ Indexers!Deposited(k)
  /\ IF Type[k] = "fungible"
       THEN \E value \in {"zero", "value"} : usd' = [usd EXCEPT ![k] = value]
       ELSE usd' = [usd EXCEPT ![k] = "null"]

PriceIndex ==
  /\ \E k \in Key :
       \/ Valued(k)
       \/ (Indexers!Failed(k) \/ Indexers!Executed(k) \/ Indexers!FileDeposit(k)) /\ UNCHANGED usd
  /\ UNCHANGED script

-----------------------------------------------------------------------------
(* executeAction. *)

All == FindAllTransfers(Undefined)

\* A mutation: only those without a value are asked for.
FetchWorthless(p) ==
  {Cut(o, p, PageLimit) : o \in Orders({k \in Rows : usd[k] # "value"})}

\* findTransfers({}, { limit, page }).
Fetch(p) == Pages(All, p, PageLimit)

Run ==
  /\ priceStep = "off"
  /\ priceStep' = "next"
  /\ page' = 1
  /\ unseen' = Due(All)
  /\ UNCHANGED <<usd, batch, worthless, nameless, current, newValue>>

\* A mutation: the page is not counted.
ReadPageAgain ==
  /\ priceStep = "next" /\ batch = {}
  /\ \E rows \in Fetch(page) :
       /\ rows # {}
       /\ batch' = rows
       /\ worthless' = {k \in rows : usd[k] # "value"}
       /\ nameless' = rows \ known
  /\ UNCHANGED <<usd, priceStep, page, current, newValue, unseen>>

ReadPage ==
  /\ priceStep = "next" /\ batch = {}
  /\ \E rows \in Fetch(page) :
       /\ rows # {}
       /\ batch' = rows
       /\ worthless' = {k \in rows : usd[k] # "value"}
       /\ nameless' = rows \ known
  /\ page' = page + 1
  /\ UNCHANGED <<usd, priceStep, current, newValue, unseen>>

\* The page is empty: the script is done.
Done ==
  /\ priceStep = "next" /\ batch = {}
  /\ {} \in Fetch(page)
  /\ priceStep' = "off"
  /\ page' = 1
  /\ UNCHANGED <<usd, batch, worthless, nameless, current, newValue, unseen>>

Reach(k) ==
  /\ priceStep = "next" /\ k \in batch
  /\ batch' = batch \ {k}
  /\ nameless' = nameless \ {k}
  /\ unseen' = unseen \ {k}

\* It has a value; or it has none, and no resource the price could be asked for:
\* an error is logged.
PassBy(k) ==
  /\ Reach(k)
  /\ k \in worthless => k \in nameless \/ k \notin Listed
  /\ worthless' = worthless \ {k}
  /\ UNCHANGED <<usd, priceStep, page, current, newValue>>

\* A mutation: a transfer without a resource is not passed by.
CalculateNameless(k) ==
  /\ Reach(k)
  /\ k \in worthless
  /\ current' = k
  /\ priceStep' = "price"
  /\ newValue' = "zero"
  /\ UNCHANGED <<usd, page, worthless>>

\* It has none: the price is asked for, unless there is no amount (the message of a
\* generic transfer).  A token's id is an amount here.
Calculate(k) ==
  /\ Reach(k)
  /\ k \in (worthless \ nameless) \intersect Listed
  /\ current' = k
  /\ priceStep' = IF Type[k] = "gmp" THEN "write" ELSE "price"
  /\ newValue' = "zero"
  /\ UNCHANGED <<usd, page, worthless>>

Leave ==
  /\ priceStep' = "next"
  /\ current' = Null
  /\ worthless' = worthless \ {current}
  /\ newValue' = "zero"
  /\ UNCHANGED <<page, batch, nameless, unseen>>

\* getValueInUSD answers; a price may be zero.
Priced ==
  /\ priceStep = "price"
  /\ priceStep' = "write"
  /\ newValue' \in {"zero", "value"}
  /\ UNCHANGED <<usd, page, batch, worthless, nameless, current, unseen>>

\* A mutation: as in the indexers, a price that cannot be had counts as zero.
PriceFailsToZero ==
  /\ priceStep = "price"
  /\ Leave
  /\ usd' = [usd EXCEPT ![current] = "zero"]

\* It throws: an error is logged.
PriceFails ==
  /\ priceStep = "price"
  /\ Leave
  /\ UNCHANGED usd

\* updateTransfer: of the columns it writes only the value can differ.
UpdateTransfer ==
  /\ priceStep = "write"
  /\ Leave
  /\ usd' = [usd EXCEPT ![current] = newValue]

\* The database throws: an error is logged.
UpdateFails ==
  /\ priceStep = "write"
  /\ Leave
  /\ UNCHANGED usd

PriceScript ==
  \/ ReadPage \/ Done \/ (\E k \in Key : PassBy(k) \/ Calculate(k))
  \/ Priced \/ PriceFails \/ UpdateTransfer \/ UpdateFails

\* A query for a page throws, or the operator ends the script.
PriceAborts ==
  /\ priceStep # "off"
  /\ priceStep' = "off"
  /\ page' = 1
  /\ batch' = {} /\ worthless' = {} /\ nameless' = {}
  /\ current' = Null
  /\ newValue' = "zero"
  /\ unseen' = {}
  /\ UNCHANGED usd

PriceStep == (Run \/ PriceScript \/ PriceAborts) /\ UNCHANGED tables

PriceNext == PriceStep \/ PriceIndex

\* The script runs on once it is started; nobody has to start it.
PriceFairness == WF_priceVars(PriceScript /\ UNCHANGED tables)

PriceSpec == RowsInit /\ PriceInit /\ [][PriceNext]_priceVars /\ PriceFairness

-----------------------------------------------------------------------------
(* Properties. *)

\* A run that ends by itself has come by every transfer that had its deposit's row
\* when it began, although deposits were added ahead of the page it was at.  Again
\* for transfers that share their timestamp with no other.
RunsMissNothing == priceStep = "off" => unseen = {}

\* The script decides on a page read long before, and the indexers may have valued
\* the transfer since.  It then takes the value away only by a price that is zero,
\* and never that of a transfer which already had one when the page was read.
ValuesAreLostToZeroPricesOnly ==
  [][\A k \in Key :
       usd[k] = "value" /\ usd'[k] # "value" /\ PriceStep
         => priceStep = "write" /\ k = current /\ k \in worthless /\ newValue = "zero"]_priceVars

\* A run comes to its end: every page read brings it closer to the last one, though
\* transfers are added meanwhile.
PriceRunsEnd == priceStep # "off" ~> priceStep = "off"
=============================================================================
