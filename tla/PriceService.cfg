CONSTANTS
  Caller = {1, 2}
  Symbol = {"ETH"}
  TtlInMins = 1
  TickMs = 500
  RetryCount = 3
  Backoff = 1
  MaxLatency = 2
  NoSymbol = NoSymbol
  NoQuote = NoQuote
  NoPrice = NoPrice
SPECIFICATION FairSpec
INVARIANTS TypeOK AnswersAreFresh PricesSpareRequests ListenersAreNotHeldUp
PROPERTIES AsksAreSettled
