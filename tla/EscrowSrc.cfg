SPECIFICATION Spec
CONSTANTS
  e1 = e1
  e2 = e2
  maker = maker
  taker = taker
  keeper = keeper
  stranger = stranger
  usdc = usdc
  eth = eth
  x1 = x1
  x2 = x2
  FieldRange = 16
  Clone = {e1, e2}
  Account = {maker, taker, keeper, stranger}
  Asset = {usdc, eth}
  Native = eth
  Secret = {x1, x2}
  Keccak <- MCKeccak
  Terms <- MCTerms
  RescueDelay = 6
  Refuses = {}
  Donor = {stranger}
  Endowment <- MCEndowment
  Horizon = 9
PROPERTIES
  OutflowJustified
  SettlesAsHashTimelock
CHECK_DEADLOCK FALSE
