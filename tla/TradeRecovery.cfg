\* One lost stream, or one restart
SPECIFICATION Spec
\* the trade may end removed, with nothing left to do
CHECK_DEADLOCK FALSE
CONSTANTS
  MaxOrders = 3
  Quantity = 2
  FillSizes = {1, 2}
  BaseFee <- NoFee
  IntIds = FALSE
  ApiFaults = {"cancel"}
  ExchangeEvents = {}
  Operations = {"exit", "take_profit", "stop_loss", "soft_close", "terminate", "check"}
  MaxOutages = 1
INVARIANT NothingMissed
