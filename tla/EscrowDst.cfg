SPECIFICATION Spec
CONSTANTS
  e1 = e1
  e2 = e2
  e3 = e3
  maker = maker
  refuser = refuser
  taker = taker
  keeper = keeper
  stranger = stranger
  usdc = usdc
  eth = eth
  x1 = x1
  x2 = x2
  FieldRange = 16
  Clone = {e1, e2, e3}
  Account = {maker, refuser, taker, keeper, stranger}
  Asset = {usdc, eth}
  Native = eth
  Secret = {x1, x2}
  Keccak <- MCKeccak
  Terms <- MCTerms
  RescueDelay = 4
  Refuses = {refuser}
  Donor = {stranger}
  Endowment <- MCEndowment
  Horizon = 6
INVARIANTS
  ChainTypeOK
PROPERTIES
  OutflowJustified
  SettlesAsHashTimelock
CHECK_DEADLOCK FALSE
