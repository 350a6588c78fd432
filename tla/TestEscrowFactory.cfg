SPECIFICATION Spec
CONSTANTS
  e1 = e1
  maker = maker
  taker = taker
  keeper = keeper
  usdc = usdc
  eth = eth
  x1 = x1
  FieldRange = 16
  Clone = {e1}
  Account = {maker, taker, keeper}
  Asset = {usdc, eth}
  Native = eth
  Secret = {x1}
  Keccak <- MCKeccak
  Terms <- MCTerms
  Refuses = {}
  Donor = {}
  Endowment <- MCEndowment
  Horizon = 12
  rescueDelaySrc = 8
  rescueDelayDst = 5
INVARIANT SrcRescueDelayed
CHECK_DEADLOCK FALSE
