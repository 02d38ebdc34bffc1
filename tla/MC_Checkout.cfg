SPECIFICATION FairSpec
CONSTANTS
  cart1 = cart1
  cart2 = cart2
  direct1 = direct1
  direct2 = direct2
  p1 = p1
  c1 = c1
  b1 = b1
  b2 = b2
  i1 = i1
  i2 = i2
  v = v
  NoOne = NoOne
  Requests = {cart1, cart2, direct1, direct2}
  Payments = {p1}
  Cancels = {c1}
  Buyers = {b1, b2}
  Items = {i1, i2}
  Voucher = v
  BuyerOf <- McBuyerOf
  Asked <- McAsked
  FromCart = {cart1, cart2}
  ByWallet = {cart1}
  WithVoucher = {direct1, direct2}
  Price = 3
  Discount = 1
  Credit = 3
  Limit = 1
  MaxWithdrawn = 1
INVARIANTS TypeOK ItemsMatchOrders WalletIsItsJournal UsesAreCounted OneOrderPerCart
PROPERTIES ShopKept EveryCheckoutEnds
CHECK_DEADLOCK FALSE
