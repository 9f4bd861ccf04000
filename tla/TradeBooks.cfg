\* Failing REST calls and an exchange that ends orders; a cancel by the user of the
\* exchange has the effect of an expiry, with a report that also has the reference
SPECIFICATION FairSpec
\* the trade may end removed, with nothing left to do
CHECK_DEADLOCK FALSE
CONSTANTS
  MaxOrders = 3
  Quantity = 3
  FillSizes = {1, 2}
  BaseFee <- NoFee
  IntIds = FALSE
  ApiFaults = {"cancel", "create", "funds"}
  ExchangeEvents = {"expired", "rejected"}
  Operations = {"exit", "take_profit", "stop_loss", "soft_close"}
  MaxOutages = 0
INVARIANTS TypeOK NoOversell SingleExit ExactBooks Tracked
PROPERTIES NoOrphan ClosingEnds
