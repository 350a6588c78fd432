SPECIFICATION Spec
CONSTANTS
  o1 = o1
  o2 = o2
  m1 = m1
  m2 = m2
  taker = taker
  this = this
  Nobody = Nobody
  Order = {o1, o2}
  Terms <- MCTerms
  Account = {m1, m2, taker, this}
  Depositor <- MCDepositor
  Resolver = {taker}
  Nonce = {0}
  Series = {0}
  SlotSize = 1
  Word = 16
  MaxAmount = 3
  MaxEpoch = 0
  MaxDepth = 2
  MaxCalls = 2
  Horizon = 3
  Premium = {0, 2}
  AuctionDuration = {2}
  PremiumBase = 2
  Fee = {0, 1}
  MaxWeth = 1
INVARIANT ExpiredBeforeReward
