SPECIFICATION Spec
CONSTANTS
  Run = {r1, r2}
  MaxDeploys = 1
  MaxJobs = 1
  MaxMints = 2
  MaxGifts = 2
SYMMETRY Symmetry
INVARIANTS
  FundsInClones
  SecretsLogged
  DstPrepared
PROPERTY InStepRunsFill
CHECK_DEADLOCK FALSE
