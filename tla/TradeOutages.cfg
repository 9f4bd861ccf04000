\* Every operation, the faults that make the trade lose an order, integer identifiers
SPECIFICATION Spec
\* the trade may end removed, with nothing left to do
CHECK_DEADLOCK FALSE
CONSTANTS
  MaxOrders = 3
  Quantity = 1
  FillSizes = {1}
  BaseFee <- NoFee
  IntIds = TRUE
  ApiFaults = {"info", "lost_reply"}
  ExchangeEvents = {}
  Operations = {"exit", "take_profit", "stop_loss", "soft_close", "resize", "terminate", "check", "clean"}
  MaxOutages = 1
PROPERTY NoSellAfterClosing
