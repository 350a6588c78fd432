SPECIFICATION FairSpec
CONSTANTS
  maker = maker
  taker = taker
  keeper = keeper
  usdc = usdc
  weth = weth
  eth = eth
  DstToken = weth
  FieldRange = 32
  Swap = {1}
  Secret = {1}
  Account = {maker, taker, keeper}
  Asset = {usdc, weth, eth}
  Native = eth
  Keccak <- MCKeccak
  SecretOf <- MCSecretOf
  SrcTerms <- MCSrcTerms
  Complement <- MCComplement
  RescueDelaySrc = 6
  RescueDelayDst = 6
  SrcEndowment <- MCSrcEndowment
  DstEndowment <- MCDstEndowment
  Drift = 1
  Horizon = 9
INVARIANTS
  TypeOK
  MakerSafe
  TakerSafe
  DutiesCanBeDone
PROPERTY NothingStaysLocked
CHECK_DEADLOCK FALSE
