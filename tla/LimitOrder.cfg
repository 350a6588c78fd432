SPECIFICATION Spec
CONSTANTS
  o1 = o1
  o2 = o2
  o3 = o3
  m1 = m1
  m2 = m2
  Order = {o1, o2, o3}
  Terms <- MCTerms
  Account = {m2}
  Maker = {m1}
  AccessToken = {m2}
  Nonce = {0, 1}
  Series = {0}
  SlotSize = 2
  Word = 16
  MaxAmount = 3
  MaxEpoch = 1
  MaxDepth = 2
  MaxCalls = 1
  Horizon = 2
INVARIANTS
  TypeOK
  OnlySigned
  WithinOrder
  OnePerNonce
  RateKept
PROPERTIES
  DeadStaysDead
  FillsAreTransactions
