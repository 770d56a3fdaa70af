CONSTANTS
  Key <- MCKey
  Columns <- MCColumns
  Time <- MCTime
  Type <- MCType
  Null = Null
  Undefined = Undefined
  Bogus = Bogus
  Environment = "testnet"
  Described = {"mainnet", "testnet"}
  Wheres <- MCWheres
  Limits = {2}
  Listed = {1, 3}
  PageLimit = 2
  Owner <- MCOwner
  Id <- MCId
  Of <- MCOf
SPECIFICATION FairSpec
INVARIANTS TypeOK WalksMissNothing RunsMissNothing LastRowsAreKept DuplicatesAreGone
PROPERTIES RowsAreDated ValuesAreLostToZeroPricesOnly RequestsAreAnswered RunsEnd
