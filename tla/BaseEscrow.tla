----------------------------- MODULE BaseEscrow -----------------------------
(***************************************************************************)
(* What the escrow clones of one chain have in common (BaseEscrow.sol,     *)
(* Escrow.sol): a clone is a minimal proxy at an address derived from the  *)
(* immutables it was created with.  It has no storage.  Every call brings  *)
(* the immutables along and the clone checks that they hash to its own     *)
(* address, so the state of a clone is its existence and its balances.     *)
(***************************************************************************)
EXTENDS Timelocks

CONSTANTS
  Clone,         \* addresses of escrow clones
  Account,       \* every other address
  Asset,         \* ERC20 tokens and the native currency
  Native,        \* address(0): the native currency
  Secret,
  Keccak,        \* hash of a secret
  Terms,         \* the immutables each clone is created with, undated
  RescueDelay,   \* RESCUE_DELAY of the implementation behind the clones
  Refuses,       \* accounts whose code rejects native currency
  Donor,         \* accounts that only ever send assets to clones, unasked
  Endowment,     \* the balances everything starts from
  Horizon        \* bound on the clock

VARIABLES
  now,           \* block.timestamp
  deployedAt,    \* time a clone was created, 0 while there is no code there
  bal,           \* balance of every address in every asset
  log            \* how often a clone emitted each event

chainVars == <<now, deployedAt, bal, log>>

Address == Clone \union Account
Caller == Account \ Donor
Event == {"Withdrawal", "EscrowCancelled", "FundsRescued"}
Hash == {Keccak[x] : x \in Secret}

Immutables ==
  [hashlock : Hash, maker : Account, taker : Account, token : Asset,
   amount : Nat, safetyDeposit : Nat, timelocks : Timelock]

ASSUME ClonesAssumption == Clone \intersect Account = {}
ASSUME NativeAssumption == Native \in Asset
ASSUME TermsAssumption == Terms \in [Clone -> Immutables]
ASSUME DonorAssumption == Donor \subseteq Account
ASSUME RescueDelayAssumption == RescueDelay \in Nat
ASSUME EndowmentAssumption == Endowment \in [Asset -> [Address -> Nat]]
ASSUME HorizonAssumption == Horizon \in Nat \ {0} /\ Horizon < FieldRange

ChainInit ==
  /\ now = 1
  /\ deployedAt = [c \in Clone |-> 0]
  /\ bal = Endowment
  /\ log = [c \in Clone |-> [k \in Event |-> 0]]

ChainTypeOK ==
  /\ now \in 1 .. Horizon
  /\ deployedAt \in [Clone -> 0 .. Horizon]
  /\ bal \in [Asset -> [Address -> Nat]]
  /\ log \in [Clone -> [Event -> Nat]]

-----------------------------------------------------------------------------

\* setDeployedAt(block.timestamp) dates the immutables when a clone is created.
Dated(c, t) == [Terms[c] EXCEPT !.timelocks = SetDeployedAt(@, t)]

ImmutablesOf(c) == Dated(c, deployedAt[c])

Starts(im, stage) == StageStart(im.timelocks, stage)

Deployed(c) == deployedAt[c] # 0

-----------------------------------------------------------------------------
(* Modifiers.  A call whose guard fails reverts and changes nothing.        *)

OnlyTaker(caller, im) == caller = im.taker

OnlyAfter(start) == now >= start

OnlyBefore(stop) == now < stop

OnlyValidSecret(secret, im) == Keccak[secret] = im.hashlock

\* Mutant: the immutables of the call are not compared with the address.
OnlyDeployed(c, im) == Deployed(c)

\* The CREATE2 address computed from `im` is this clone's address.
OnlyValidImmutables(c, im) == Deployed(c) /\ im = ImmutablesOf(c)

-----------------------------------------------------------------------------
(* Transfers, as relations between the balances before and after.          *)

Accepts(asset, to) == ~(asset = Native /\ to \in Refuses)

\* Mutant: the transfer does not look at the balance.
CanAlwaysPay(b, asset, from, to, n) == Accepts(asset, to)

CanPay(b, asset, from, to, n) == b[asset][from] >= n /\ Accepts(asset, to)

Pay(b, asset, from, to, n) ==
  LET taken == [b[asset] EXCEPT ![from] = @ - n]
  IN  [b EXCEPT ![asset] = [taken EXCEPT ![to] = @ + n]]

Emit(c, event) == log' = [log EXCEPT ![c][event] = @ + 1]

\* The safety deposit goes to whoever made the call that settles a clone.
PayDeposit(b, c, im, caller) ==
  /\ CanPay(b, Native, c, caller, im.safetyDeposit)
  /\ bal' = Pay(b, Native, c, caller, im.safetyDeposit)

-----------------------------------------------------------------------------

\* Mutant: the rescue delay is not looked at.
RescueFundsAnyTime(c, im, caller, asset, n) ==
  /\ OnlyTaker(caller, im)
  /\ OnlyValidImmutables(c, im)
  /\ CanPay(bal, asset, c, caller, n)
  /\ bal' = Pay(bal, asset, c, caller, n)
  /\ Emit(c, "FundsRescued")
  /\ UNCHANGED <<now, deployedAt>>

\* The taker collects what is left in a clone once the rescue delay is over.
RescueFunds(c, im, caller, asset, n) ==
  /\ OnlyTaker(caller, im)
  /\ OnlyValidImmutables(c, im)
  /\ OnlyAfter(RescueStart(im.timelocks, RescueDelay))
  /\ CanPay(bal, asset, c, caller, n)
  /\ bal' = Pay(bal, asset, c, caller, n)
  /\ Emit(c, "FundsRescued")
  /\ UNCHANGED <<now, deployedAt>>

\* Anybody may send assets to an address, before or after a clone exists there.
Donate(from, c, asset, n) ==
  /\ CanPay(bal, asset, from, c, n)
  /\ bal' = Pay(bal, asset, from, c, n)
  /\ UNCHANGED <<now, deployedAt, log>>

\* The chain produces a block with a later timestamp.
Tick ==
  /\ now < Horizon
  /\ now' = now + 1
  /\ UNCHANGED <<deployedAt, bal, log>>
=============================================================================
