CONSTANTS
  Junk = Junk
  App = App
  alice = alice
  token = token
  bob = bob
  token_id = token_id
  amount = amount
  id1 = id1
  id2 = id2
  amount1 = amount1
  amount2 = amount2
  base = base
  exec = exec
  Args <- AllArgs
  VoucherRequests <- AllVoucherRequests
  Rooms <- AllRooms
  Requests <- AllRequests
  MaxRequests = 2
SPECIFICATION ClientSpec
INVARIANTS DecodesJustTheInput InspectsJustTheParams VoucherPaysRequest DepositsAreRepaid
PROPERTIES RefusedKeepsType EveryRequestIsAnswered
