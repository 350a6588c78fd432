# A verification project for GhostMesh

GhostMesh swaps a token on one chain (Sepolia) for a token on another (Arbitrum
Sepolia) without a custodian. It is a fork of 1inch's cross-chain resolver: a
*maker* signs an order; a *resolver* (the *taker*) fills it through the limit
order protocol, which locks the maker's tokens in an escrow on the source
chain; the resolver locks its own in an escrow on the destination chain, under
the same hashlock; the maker shares the secret; each party collects on the other
chain. If the secret never comes, both take back what they locked, after
their timelocks.

This directory holds TLA+ modules that model the contracts and the protocol, TLC
configurations that check them on small instances, and TLAPS proofs for every
instance. Paths below are relative to the repository; `swap/` stands for
`contracts/1inch/cross-chain-swap/contracts/`, `lop/` for
`contracts/1inch/limited_order/contracts/`, `sdk/` for
`custome-sdk-cross-chain/src/`.

## 1. Inventory

| Component | State | Operations | What is hard |
|---|---|---|---|
| Escrow clones: `swap/BaseEscrow.sol`, `Escrow.sol`, `EscrowSrc.sol`, `EscrowDst.sol` | none of their own: the address is a hash of the immutables, and only the balances say whether a clone was settled | withdraw, withdrawTo, publicWithdraw, cancel, publicCancel (source), rescueFunds | the caller brings the immutables; nothing but the balance stops a second payout; gifts and rescues change balances; native currency, where amount and deposit share a balance |
| Timelocks: `swap/libraries/TimelocksLib.sol`, `sdk/cross-chain-order/time-locks/` | seven delays and a 32-bit deployment time in a word | get, setDeployedAt, rescueStart | widths; the order of the windows is the SDK's business and not the contracts' |
| Escrow factory: `swap/BaseEscrowFactory.sol`, `EscrowFactory.sol` | clones at computed addresses; the last validated proof | postInteraction, createDstEscrow | called in the middle of a fill; trusts the reported source cancellation time |
| Partial fills: `swap/MerkleStorageInvalidator.sol`, `_isValidPartialFill`, `sdk/cross-chain-order/` | last validated leaf and index per order | takerInteraction, postInteraction, getMultipleFillIdx | nested fills, fills that revert, the proof of another fill; division with remainder |
| Limit order protocol: `lop/OrderMixin.sol` and its libraries | invalidators: a bit per nonce, what remains per order; epochs; a pause flag | fillOrder and its variants, cancelOrder(s), bitsInvalidateForOrder, advanceEpoch, pause | foreign code between reading and writing what remains; nested fills; reverts |
| Resolver: `contracts/resolver/Resolver.sol` | none | deploySrc, deployDst, withdraw, cancel, arbitraryCalls | its withdraw and cancel are open to everybody |
| Swap: `scripts/resolver.ts`, `test/resolver/main.spec.ts`, `sdk/sdk.ts` | two chains, the secret | the order of all the calls above | two clocks, no shared state, parties that stop or cheat |
| Amounts and fees: `lop/OrderLib.sol`, `lop/libraries/AmountCalculatorLib.sol`, `lop/extensions/*Calculator.sol`, `AmountGetterWithFee.sol`, `FeeTaker.sol` | none | pure, but for the clock of an auction | rounding at every fill; fees added by one contract and taken off by another |
| ETHOrders: `lop/extensions/ETHOrders.sol` | deposits of native orders | ethOrderDeposit, cancelOrder, cancelOrderByResolver, postInteraction | cancellation racing fills |
| Predicates: `lop/helpers/PredicateHelper.sol` | none | and, or, not, comparisons over calls | encoded offsets |
| SDK order building: `sdk/api/quoter`, `sdk/cross-chain-order`, `sdk/immutables`, `sdk/escrow-factory` | none: values that are encoded, sent and decoded | getQuote, createOrder, submitOrder, fromDataAndExtension, toSrcImmutables, get{Src,Dst}EscrowAddress | what the maker means, the resolver reads and the contracts compute must be one order; deposits packed two to a word; assertions missing or on one side only |
| SDK client: `sdk/sdk.ts`, `sdk/api`, `sdk/ws-api` | subscriptions | orders, secrets, public actions | answers that are late, lost, repeated or another request's |
| Scripts: `scripts/` | two copies of a configuration file, the chains, a log | deployment of each contract, tokens, the swap script | files edited by hand between runs; a script may die at any `await` |
| Mocks and generated code: `contracts/mock`, `dist/` | – | – | – |

How they interact. The resolver calls `OrderMixin.fillOrderArgs` through
`Resolver.deploySrc`, with the safety deposit sent ahead to the address the clone
will have. The protocol writes its invalidator, transfers the maker's tokens to
that address, calls `takerInteraction` (the Merkle proof of a partial fill) and,
in the end, the factory's `postInteraction`, which creates the clone and checks
that both balances are there. The event it emits is all the resolver needs for
`createDstEscrow` on the other chain. There the chains' dealings end: the rest is
the timing of withdraw and cancel, and one secret that goes over the relay.

What would make each part wrong:

* a clone pays out of its windows, to another than its parties, or twice;
* one party collects on one chain and takes back on the other;
* funds stay locked though a party does all that is its to do;
* two escrows of an order open with the same secret, or a unit of an order is
  locked twice;
* an order is filled beyond its amount, without a signature, after its
  cancellation, or below its rate;
* the order the maker signed is not the one the resolver reads, or the escrow the
  SDK computes is not the one the factory deploys;
* a secret leaves the maker too early, or never reaches the resolver;
* a script leaves tokens where nobody can take them, or with a secret nobody kept.

`PROJECT.json` lists the hazards behind these at their lines.

## 2. Modules

```
Timelocks ─┬─ BaseEscrow ─┬─ EscrowSrc ─┬─ CrossChainSwap ── CrossChainSwapProofs
           │              └─ EscrowDst ─┘
           │                 EscrowSrcProofs, EscrowDstProofs (of one clone)
           │  HashTimelock   (what EscrowSrc and EscrowDst implement)
           │  TestEscrowFactory (instance of EscrowSrc)
           └─ SdkTimeLocks ── CrossChainOrder ── Quoter ── OrderPipeline ── SdkProofs
MultipleFills ── MultipleFillsProofs
AmountGetters ── LimitOrder ─┬─ LimitOrderProofs
                             └─ ETHOrders ── ETHOrdersProofs
OrderBook        (what LimitOrder implements)
SecretRelay ── SdkProofs (together with OrderPipeline)
SecretExchange   (what SecretRelay implements)
Testnet ── TestnetProofs
```

**Timelocks** is the word of `TimelocksLib`: `SetDeployedAt` keeps a field's worth
of the timestamp (`FieldRange`, 2^32), `StageStart` is `get`, `RescueStart` is
`rescueStart`, and `WellOrdered` what `SrcTimeLocks` and `DstTimeLocks` assert.

**BaseEscrow** is one chain: its clock `now`, when each clone was deployed (0 for
never), balances by asset and holder, and the events each clone has emitted.
Accounts, assets and secrets are values of small sets; the hash of immutables is
the immutables themselves, so that `OnlyValidImmutables` compares records where
the code compares addresses. Modifiers (`OnlyTaker`, `OnlyAfter`, `OnlyBefore`,
`OnlyValidSecret`) are operators of the same names. A transfer that the balance
does not cover, or a recipient that refuses native currency, makes the whole
call fail, as in `_uniTransfer` and `_ethTransfer`.

**EscrowSrc** and **EscrowDst** add the calls of the two kinds of clone, one action
each, over any caller, any immutables at hand and any secret that is out.
`DeploySrc` is the chain of calls from `Resolver.deploySrc` to `_postInteraction`,
which fail or succeed as one; `CreateDstEscrow` takes native value and checks
the reported cancellation time. `PayWithdrawal` of EscrowDst ignores a failed native
transfer to the maker, as the code does.

**HashTimelock** says what a clone is for: a leg is claimed before it expires or
refunded after, once. `SettlesAsHashTimelock` in both escrow modules is the
refinement: claims and refunds are the clone's events, `expired` its cancellation
window.

**CrossChainSwap** composes a source chain and a destination chain, a set of
swaps, the revealed secrets and the set `honest` of parties that follow the
protocol. Every call a contract accepts from anybody stays possible; honesty
only restricts what the party itself does. See section 4 for its assumptions.

**TestEscrowFactory** is the factory of the scripts and tests, and the rescue delay
it gives source clones.

**MultipleFills** is one order with several fills: what remains of it, the last
validated proof, the stack of fills whose foreign calls have not returned, and
the pieces that have an escrow. A fill that reverts restores what was there when
it began, nested fills included.

**LimitOrder** is the order protocol: the invalidators, epochs and the pause flag
(`storage`), and the stack `pending` of calls that wait for foreign code. A fill is
four steps, one for each stretch of `_fillOrder`/`_fill` between foreign calls:
`BeginPermit` (up to `tryPermit`), `EndPermit` or `BeginFill` (up to the
invalidation), `Transfer`, `EndFill`; `RevertFill` may come at any of them. Between
them everything else may be called, the same order's fills included. Predicates,
the taker's threshold and Permit2 only narrow what a fill may do and are left
out. An order may carry the getters of **AmountGetters**, a pre-interaction with
`OrderIdInvalidator` (`ids`), and `FeeTaker` as its post-interaction.

**AmountGetters** is what an order asks for: the linear price, the price of
`DutchAuctionCalculator` at the time of the block, the fees `AmountGetterWithFee`
puts on top for this taker, and `ToReceiver`, what `FeeTaker` leaves of the taking
amount for the maker. The taker's payment is commented out of this fork's `_fill` (the natspec at
`OrderMixin.sol:241` still lists it), so that `due` records what a fill *reports*
as the taking amount, net of the fees: what the maker is owed on the other chain.
A FeeTaker beside this fork would pay receivers out of a balance nobody fills.

**OrderBook** is the abstract specification of the protocol: transactions that
take from live, signed orders within their limits.

**ETHOrders** is the extension that sells native currency: its contract is the
maker of all native orders, and its deposits are one balance of WETH. It
instantiates LimitOrder: `BeginFill`, `Transfer`, `EndFill` and `RevertFill` are the protocol's with
what they do to the deposits (`vault`), `saved` holds what a revert goes back
to. Cancellations take the traits their caller names, which may be another order's.

**SdkTimeLocks** is `sdk/cross-chain-order/time-locks`: how durations become the
seven delays, the word they are packed into and read from, the assertions of the
three classes, the windows of `getStage`, and the calls that the contracts leave
open in each.

**CrossChainOrder** is the order of the SDK: its extension and hash lock, what of
them is encoded and how they are decoded, the hash that is signed, the immutables
on both sides of the API, and the addresses of the clones. A hash, an address and
an encoding are the tuple of what they are taken of; fields narrower than what
they are given wrap or run over as in the code (`Half` stands for 2^128,
`FieldRange` for 2^32).

**Quoter** is what the SDK makes of a quote: the assertions on requests and custom
presets, and the order it builds (`Quote.createOrder`, with the whitelist, the
start of the auction and the nonce). What the quoter answers is any of `Responses`.

**OrderPipeline** runs one order through them: `GetQuote`, `MakeOrder`, `SubmitOrder`
by the maker, `ReadOrder`, `DeploySrc`, `DeployDst` by the resolver of
`scripts/resolver.ts`, with the contracts' own reading of the encoded order in
between (`SrcImmutables`, `DstComplement`, `ProofHolds`, `Fillable`).

**SecretRelay** is the client of the relayer: the maker's loop as the SDK's README
has it (`sdk`'s `../README.md:89`: ask what is ready, submit the secrets one by
one and await each, ask whether the order is over), the relayer as its types in `sdk/api/orders/types.ts`
and `sdk/ws-api/types.ts` describe it, and a resolver that gets secrets by event, by
HTTP or by pages over the websocket (`route`). Nothing in the loop catches: a request that
is rejected ends it (`Fail`), as do three states of the order. Posts and websocket messages
are sets: they are lost, overtake each other and come after the state they speak of.
**SecretExchange** is what it is for: a resolver learns secrets of fills that are
ready, and of no others. Pages start at 1 and the sizes are those `PaginationRequest` lets through.

**Testnet** is `scripts/`: each deployment script, each token script and the swap
script is a job or a run that reads the configuration when it starts (`cfg`, and
`sdk` for the copy whose domain the user signs) and then sends its transactions
one `await` at a time. `EditScripts` and `EditSdk` are the person who writes a new
address into a file; addresses only move to later deployments. The chains are apart from the
scripts: the Owner's transactions on the destination wait in `txs`, in the order of their
nonces, and a script waits for a receipt where it awaits one, which
`Wallet.transfer` does not; a fill waits in `pool` while its order expires (`Expire`) or its
script dies. `PostInteraction` looks at balances, as the factory does: what fills
(`paid`) and strangers (`gifts`, `Give`) have sent to the address. The swap script ends at the `return` after
`deploySrc` (`test-cross-chain-swap.ts:338`), and so does the model.

The `MC*` modules give the constants their values. Definitions preceded by
`Mutant:` are faulty forms of the definition after them. No specification uses
them; they show that each property can fail.

## 3. Runs

| Run | Instance | States | Checks |
|---|---|---|---|
| `EscrowSrc` | two source clones with windows that overlap but differ, their immutables and both secrets at everybody's hand, withdrawals to any address, clones included, a stranger with gifts | 588,140 | `OutflowJustified`: a clone's token leaves it in its own windows only; `SettlesAsHashTimelock` |
| `EscrowDst` | three destination clones: one for an ERC20 token, two for native currency, which the maker of one refuses; a stranger with a gift | 386,333 | `ChainTypeOK`, `OutflowJustified`, and `SettlesAsHashTimelock` for the clones whose maker accepts its payment |
| `Swap` | one swap, each party honest or not, clocks up to one apart, with fairness | 77,617 | `TypeOK`, `MakerSafe`, `TakerSafe`, `DutiesCanBeDone`, `NothingStaysLocked` |
| `MultipleFills` | ten units in four parts (which do not divide), nested three deep | 11,379 | `TypeOK`, `OneSecretPerEscrow`, `LastSecretForLastFill`, `TakenOnce`, `SdkIndexIsRight` |
| `LimitOrder` | three orders of a maker: one with several fills, an epoch, a permit, a falling price and fees at a discount; one with a single partial fill, an expiration and a permit; one all or nothing, with fees; the last two share a nonce, the first and the last an id | 124,024 | `TypeOK`, `OnlySigned`, `WithinOrder`, `OnePerNonce`, `RateKept`, `DeadStaysDead`, `FillsAreTransactions` |
| `ETHOrders` | two native orders of different makers, one of which expires, with a premium; traits of either in a cancellation; fills nested two deep, to any target; up to two units of WETH that others send | 678,954 | `TypeOK`, `Solvent`, `OutOfOwnDeposit` |
| `OrderPipeline` | one order, of 10 requests, 13 answers of the quoter and 4 custom presets that differ from a good one in a place or two: chains, native tokens, deposits up to and over half a word, delays out of order, one or several secrets, exclusivity; hash locks right and wrong | 213,774 | `TypeOK`, `ReadsWhatWasSigned`, `DepositsAsQuoted`, `EscrowsCanBeOpened`, `EscrowsAgree`, `StagesAgree`, `ExclusiveFirst` |
| `SecretRelay` | two fills, pages of one secret, one answer in flight | 185,068 | `RelayTypeOK`; `SecretsOnlyWhenReady`, which is SecretExchange; `SecretsPublished`: the loop shares what is ready, unless it is over |
| `Testnet` | two runs of the swap script, one deployment, one other script at a time, two mints, two gifts | 2,681,942 | `FundsInClones`, `SecretsLogged`, `DstPrepared`, `InStepRunsFill` |
| `SwapDrift` | as `Swap` | – | violation of `TakerAtomic`, see section 6 |
| `ETHOrdersReward` | as `ETHOrders`, with and without a premium | – | violation of `ExpiredBeforeReward`, see section 6 |
| `TestEscrowFactory` | the constructor's two rescue delays differ | – | violation of `SrcRescueDelayed`, see section 6 |

Why the bounds are enough. Delays are 0 to 5 and rescue delays just above, so
that every window opens, closes and meets its neighbours within the `Horizon`, with one
or two seconds inside each. Two clones suffice to bring one's immutables or
secret to the other; the third of `EscrowDst` is there for its maker. Gifts stay below a safety
deposit, which every settlement pays out: with its amount and its deposit given once more a
clone does pay again, which is what the code says.
Ten units in four parts have parts of two and of three units; three nested
fills have a fill that reverts within a fill that succeeds and the reverse. In
`LimitOrder` two nested calls are all it takes to have a call inside the permit,
before and after the transfer; one cancellation (`MaxCalls`) meets every point of
them; amounts of 2 and 3 round both ways, with fees of 60 and 30 percent, and the two
seconds of the `Horizon` lie at two prices of the auction. The clock is frozen during a
transaction, as on the chain.

In `OrderPipeline` a field of 12 seconds and a half word of 4 units let each
width be met and passed; the clock runs from 6 to 15, past the end of the field. Three secrets
are two parts and the additional one. In `SecretRelay` two pages of one secret
have answers that arrive for another request; two fills one that closes while the
other's secret is on its way. In `Testnet` one deployment and
the edits of either file that follow are enough to put any two of the contracts out of
step; two runs of the script, which are symmetric, are what it takes to share the
resolver's accounts, and two gifts to pay for an escrow in a stranger's name.
TLC has also been through two runs with two deployments and no gifts (9,863,025 states)
and one run with two deployments and two gifts (518,624).

Deadlock is not checked where the models stop: when the clock has come to the
`Horizon` and every clone is settled there is nothing left to call.

## 4. Assumptions and fairness

Named `ASSUME`s of `CrossChainSwap`, each of them a fact that the contracts do
*not* enforce and on which the safety of a swap rests:

* `TermsAssumption`: the windows are ordered as the SDK asserts, and the rescue
  delays end after the cancellation windows. Nothing in the code ties
  `RESCUE_DELAY` to the timelocks. After it, the taker may rescue the safety
  deposit alone, upon which `cancel` and `publicCancel` of that clone revert for
  want of the deposit; or rescue the maker's tokens.
* `TimeAssumption`: the chains' clocks differ by at most `Drift`. The taker reports the
  source cancellation as it is (`scripts/resolver.ts:55`), if it is honest, and anything
  else if it is not. Timestamps stay below the 32 bits of the field (2106).
* `SecretsAssumption`: the hash has no collisions, and each swap has a secret of
  its own. For the fills of one order that is what `OneSecretEach` proves.
* Honest parties act in time: `TickSrc` and `TickDst` do not take the clock past the last
  second in which an honest party must collect a payment whose secret is out, or
  take its tokens back. `DutiesCanBeDone` checks that the contracts let it make
  that call then, so that this holds time for no impossible deed. An honest
  maker shares its secret when both clones are there and the destination's
  window is open (`ReadyToAcceptSecret`); `submitSecret` leaves that check to its caller.

`TakerSafe` is therefore conditional: it speaks of swaps whose destination is cancelled before
the source by the drift (`CancelsInTime`). `createDstEscrow` sees to that if the clocks
agree; if they do not, nobody does, and `TakerAtomic`, the same without the condition, is violated (section 6).

Fairness (`FairSpec`): weak fairness of `Tick`, since blocks are produced; of
`MakerActs` and `TakerActs`, since a party with funds at stake sends the calls
open to it. None is assumed of dishonest parties, of anybody else, or of the sharing
of the secret, which may never happen.

In `SecretRelay` the maker's script runs on and each request is answered or rejected at
last: weak fairness of the loop (`MakerLoop`, whose steps include a rejected request) and of the
fate of each post. Nothing is assumed of how often a request fails, of the events, or of
the resolver, which may never ask for a secret: no code of the repository does so again.
`ETHOrders`, `LimitOrder`, `OrderPipeline` and `Testnet` state safety only: nobody
is obliged to fill, and any script may die.

`MultipleFills` assumes two parts at least, as `HashLock.forMultipleFills` asserts, and not that the
order has a unit for each. With fewer units than parts, which nothing excludes, the rounding
of `BaseEscrowFactory.sol:237-247` skips secrets, the last one among them:
the second half of `LastSecretForLastFill` is about orders of `Parts <= MakingAmount`, and
TLC has been through three units in five parts as well. `ETHOrders` bounds the WETH that
others send (`MaxWeth`).

`LimitOrder` assumes that products of amounts fit a word (`BoundsAssumption`),
`ETHOrders` the same of the constants it shares with it (`ProtocolAssumption`)
and that the orders are finitely many (`OrdersAssumption`: they are 256-bit hashes),
and `BaseEscrow` that gifts come from accounts (`DonorAssumption`). A resolver's
requests in `SecretRelay` may be for a page after the last one, since only pages below 1 are refused.

The modules of the SDK assume that fields and half words are not empty and the
expiration delay of an order is no negative time
(`WidthAssumption`), that the quoter answers with the fields its type has
(`AnswersAssumption`), that nobody fills an amount of zero (`AmountsAssumption`) and
that the clock has a range to run over (`ClockAssumption`). What is wrong with a quote,
a custom preset or a hash lock is for the SDK to refuse and not assumed away.

`Testnet` assumes that a person who edits a file names a contract that is deployed, and a later one than before.

## 5. Proofs

`CrossChainSwapProofs` proves, for any number of swaps between the two parties, any terms, delays,
endowments and clocks that satisfy the assumptions:

* `TypeCorrect`, `MakerIsSafe`, `TakerIsSafe`: `TypeOK`, `MakerSafe` and
  `TakerSafe` hold always;
* `TakerIsSafeOnOneClock`: `TakerAtomic` holds always if `Drift` is 0.

None of the safety properties is inductive. `MakerSafe` says that tokens leave
the source clone only when the maker is or can be paid; that a step keeps it
depends on what balances and events say about each other, on how the two clones'
windows lie, and on what an honest maker has *not* done yet. The invariant `IInv` is, for
each swap, the conjunction of

* `Clocks`: no clone was deployed in the future, and the clocks are within the drift;
* `SrcInv`, `DstInv`: an unsettled source clone holds its amount until its rescue
  delay is over, an unsettled destination clone until its cancellation begins;
  withdrawals need the secret out and source cancellations their window; an honest taker's
  destination cancellation begins no later than the source's, as its own chain dates it;
* `MakerInv`: with an honest maker, a secret that is out means that the
  destination has paid or is open before its cancellation; and while the
  secret is not out, an open source clone has not come to its rescue;
* `TakerInv`: with an honest taker and a destination cancelled in time, a destination withdrawal means that the source
  has paid or is open before its cancellation.

Each action has a lemma that sums up what it does to one clone (`SrcSettles`, `DstSettles`,
`SrcRescues`, `DstRescues`, `SrcDeploys`, `DstDeploys`), from the lemmas about
transfers and dates, and one that it keeps `IInv`; `Bystander` is what
all of them use for the swaps an action does not touch. TLC has checked `IInv` on the instance of the run
`Swap` first.

`MultipleFillsProofs` proves, for any amount, number of parts and depth,
`OrderTakenOnce`, `OneSecretEach` and `LastSecretIsLast`. What has to be found is how
the stack of fills relates to the order (`EscrowsOK`, `FrameOK`, `StackOK`,
`Coherent`): no escrow reaches into the piece that a pending fill took off the order,
the escrows a revert would restore lie before that piece, a nested fill's piece
lies beyond its caller's, and a stored hash is the one of the stored index. The arithmetic rests on
`PartsInOrder` and `LastPart` about the division.

`TestnetProofs` proves all four properties of `Testnet`, for any number of runs,
deployments and mints: `UsdcInClones`, `NoSecretLost`, `ResolverPrepared`,
`FilledIfInStep`. The invariant adds what each script has read and left behind:
contracts are only ever added (`ContractsOK`), files and scripts name contracts that
are there (`FilesOK`, `JobsOK`, `RunsOK`), and `LeftBehind` says, for each point a run has got to,
which allowance, balance and log entry it has left or will have when the Owner's
transactions before its own are mined (`Topped`), a run that died with its
transaction in flight included. `FundsInClones` is not the factory's own check: that looks
at balances, and what a fill paid may be at another address than the clone. That no transaction of another run takes these
away again is what most steps are about.

`SdkProofs` proves every property of `OrderPipeline`, for any requests, answers,
presets, hash locks and clocks, and any width of a field and of a half word:
`TypeCorrect`, `ReadsAreSigned`, `DepositsReach`, `SecretsOpen`, `AddressesAgree`,
`StagesTold`, `ExclusiveFills`. Each property looks back from the end of the
pipeline to its beginning, over values that several steps have encoded, sent and decoded.
The invariant (`IInv`) says of each stage that is reached what it has left and what
it had passed: `Quoted`, and the conjuncts for the order, the submission, the reading and
both deployments, each in terms of the one before. Three kinds of lemmas are under it:

* round trips. The word of the seven delays is packed and unpacked by recursive
  functions; seven steps of division and remainder give back every delay that fits
  its field, and every delay the SDK lets through does. The word of both deposits is
  read back when the destination deposit fits its half, and what happens to the source
  deposit otherwise is an equation too. The extension and the order are read back from
  what is sent of them.
* the clones. `Immutables` of the event of the source, of its complement and of the
  two SDK computations are compared field by field; those that agree have the same address.
* secrets. The leaves that the factory verifies are those of the maker's secrets, so that
  what a clone is locked with is the hash of one of them, except for the order of a single
  fill that carries a root (section 6).

It also proves `RelayImplementsExchange` of `SecretRelay`: the initial states and every
step of `SecretRelay` map to an initial state and a step, or a stutter, of
SecretExchange. Its invariant (`OnTheWay`): whatever is on its way from the
relayer's answer to the resolver's callback, in the maker's loop, posts, published list or
messages, belongs to fills that are ready; and a fill once ready stays so.

`LimitOrderProofs` proves every property of `LimitOrder`, for any orders, auctions, fees
and depth: `TypeCorrect`, `MakersConsent`, `NeverOverfilled`, `NoncesUsedOnce`,
`MakersPaid`, `CancellationHolds`, and that it implements OrderBook
(`FillsImplementBook`). A call that reverts puts back the storage it began with, so
none of this can be proved of the current storage alone. The invariant (`Levels`) speaks
of every level of the stack: the entries there are in order (`StorageOK`: signed,
within the order, exclusive, counting what calls at that level are about to
move), and what the call above it leaves *follows* what it began with (`FrameOK`).
`Follows` is a preorder on storages: of an order no more is taken than was left, at no less
than its lowest price so far, and nothing of a dead one. That is what makes both a return and a revert
keep the invariant, and the steps of a transaction, taken together, one step of OrderBook.
`RateKept` needs lemmas about products and quotients: the price never falls below
the lowest one of the auction, rounding is for the maker, and what `FeeTaker`
leaves of an amount that includes the fees is no less than what was asked without them.

`ETHOrdersProofs` proves `TypeCorrect`, `DepositsAreSeparate` (`OutOfOwnDeposit`) and
`HoldsWhatItOwes` (`Solvent`: at least what is owed, as a taker may leave the WETH where it is
and anybody may send some). The books are even between transactions only: a transfer comes before the
post-interaction that takes it off the deposit, with foreign code in between. The
invariant (`Books`, `Accounted`) gives each level of the stack books of its own, whose
`Excess` is that of the level under it plus what the call between has moved and
not reported; at the bottom it is zero. `Backed` says the same of the one balance
that stands behind all orders, for their books together. These are a fold over the
set of orders; induction over the set is not at hand, but the fold is the number of the
units on the books (`OwedIsCounted`): a least set on which the two differ, which
well-foundedness of inclusion provides, leads to a contradiction. So a change of one
entry changes the sum by as much (`OwedChanged`), which is all the steps need. The lemmas about fees are stated again there, since theorems of an instantiated
module cannot be cited.

`EscrowSrcProofs` and `EscrowDstProofs` prove, of any set of clones at once,
`TypeCorrect`, `OutflowsAreJustified` and `ImplementsHashTimelock`. Two hypotheses are
stated with the theorems, as the contracts enforce neither; both hold of the
instances that the runs check.

* `WindowsOrdered`: what the SDK asserts of the delays. On the destination also that the
  rescue comes after the cancellation begins: `rescueFunds` leaves no trace
  but the balance, so that an early rescue would be followed by a withdrawal.
* `GiftsAreSmall`: gifts and the native currency an address held before its clone was there
  do not cover another safety deposit. A clone has no memory of having paid: given its amount and
  its deposit once more, it pays again. A withdrawal into a clone, another or itself, refills
  its token (`withdrawTo` takes any target), but not the deposit, which goes to the caller:
  that is why a source clone settles once all the same. If the stranger of the run has
  a deposit to give, TLC finds a second settlement. `OutflowJustified` of `EscrowSrc` does without this
  hypothesis; for destinations it is about amounts and deposits, as those may be one balance.

The invariants behind the refinement relate balances to the events (`Budget`: the native
currency that a source clone holds, and what may be given to it, exceeds the gifts by its
deposit at most, and not at all once it is settled; `Held` and `Balanced` for destinations).

`MultipleFillsProofs` also has `TypeCorrect` and `SdkAgreesWithFactory`, and
`SdkProofs` `RelayTypeCorrect`; for the latter the type invariant had to be corrected, which
had taken for granted that nobody asks for a page after the last.

Model-checked only: liveness (`NothingStaysLocked`, `SecretsPublished`) and
`DutiesCanBeDone`, as fairness and `ENABLED` are beyond the prover. Every other
property of a passing run is a theorem. The violations of section 6 are TLC's.

## 6. Findings

`TestEscrowFactory` (`contracts/resolver/TestEscrowFactory.sol:21`) hands
`rescueDelayDst` to `EscrowFactory` twice. Its callers name the argument that is
ignored "src rescue delay". Both pass equal delays, which hides it; the run
`TestEscrowFactory` shows a rescue of source funds before the source's delay.

`cancelOrderByResolver` (`lop/extensions/ETHOrders.sol:130`) looks for the
expiration in the traits that its caller passes, which are not tied to the order
it cancels. Its comment promises the cancellation of expired orders; the run `ETHOrdersReward`
cancels one that does not expire. The deposits stay right all the same (`Solvent`,
`OutOfOwnDeposit`): a fill of an order whose deposit was returned fails in its
post-interaction, whatever the protocol's invalidators say.

`createDstEscrow` checks that the destination's cancellation starts "not later than the cancellation
time on the source chain" (`swap/BaseEscrowFactory.sol:168`), which compares times
of two clocks, and `scripts/resolver.ts:55` reports the source's time itself, without a margin for their
difference. The run `SwapDrift` has clocks a second apart: the maker withdraws in the
destination's last second, when the source can only be cancelled any more, and the taker, which
follows the protocol, has paid for nothing (`TakerAtomic`).

The properties of `OrderPipeline` have two exceptions written into them, both of
assertions the SDK lacks: a destination deposit of 2^128 or more runs over into
the source deposit, since `EscrowExtension` asserts the source deposit twice
(`sdk/cross-chain-order/escrow-extension.ts:49`); and an order of a single fill
may be locked with a Merkle root, which no secret opens (`sdk/sdk.ts:164`).

Met while modelling, without a run of their own:

* `_withdraw` of the destination ignores a failed native transfer to the maker, so that
  takers get their deposits back (`swap/EscrowDst.sol:100`). Since nothing records a
  withdrawal, it can be made again while the balance covers a deposit, which then
  comes out of the maker's amount; such a clone settles more than once.
* `ActiveOrdersRequest` drops the chain filters of its parameters
  (`sdk/api/orders/orders.request.ts:11` against `types.ts:12`).
* The loop of the SDK's README that shares secrets awaits each submission without a catch and
  keeps the secrets in memory: one rejected request ends the script, and the secrets not yet
  submitted are lost. It ends on three states of the order (executed, expired, refunded) and goes on
  after a cancellation; `SecretsPublished` has the end of the loop as its exception.
* `toSrcImmutables` asks for the "leaf of a merkle tree" as the hash lock of a
  partial fill (`sdk/cross-chain-order/cross-chain-order.ts:351`). The factory locks the
  escrow with the hash of the secret (`swap/BaseEscrowFactory.sol:99`), which the
  tests pass; with the leaf the fill reverts (`"leaf"` of `Kinds` in `OrderPipeline`, which never gets past `Funds`).
* A fill pays the deposit and the USDC to the address that the resolver's own factory would use
  (`Resolver.sol:68`), and the order's factory looks at balances only: if somebody has
  paid the same to the escrow it deploys, the fill goes through and what it paid is where nothing
  stands. That is the exception in `FundsInClones`.
* A secret may be posted on a stale answer, after the destination's cancellation
  has begun; `SecretsOnlyWhenReady` therefore says "were deployed", not "are open".
* Messages of the websocket carry no request number, so that an answer may be another page's.
* The first `SrcEscrowCreated` event of a block is taken for one's own
  (`scripts/escrow-factory.ts:44`), and a `deployDst` sent again after a lost
  answer locks the amount twice (`Resolver.sol:90`).
* `deployDst` of the script sends no value for a native destination token
  (`scripts/resolver.ts:56`); the call reverts (`DeployDst` of `OrderPipeline`).
* `mint-mock-tokens.ts:124` mints WETH to the resolver's own account, while
  `createDstEscrow` takes it from the resolver contract, which approves but owns none.
* The part of the swap script after `return` (`test-cross-chain-swap.ts:338`) never runs.

## 7. Not modelled, and why

* Byte encodings: traits, ABI, EIP-712, address derivation. The fields that are
  too narrow or run over are modelled (`CrossChainOrder`, `Timelocks`); otherwise an encoding is
  injective, and so are hashes. `OffsetsLib` and `ExtensionLib` slice bytes.
* The fee of the settlement extension, and the auction and permits of the fusion SDK: external
  packages. Of the settlement extension's whitelist `Fillable` keeps one thing, that the resolver is on it
  and its time has come, on which `ExclusiveFirst` rests.
* `simulate`, which always reverts; views; predicates, which change nothing and
  can only make a fill revert, as every fill of `LimitOrder` may.
* `RangeAmountCalculator` (square roots over 18 digits), `ChainlinkCalculator` (an oracle's prices),
  the gas price limiter; their amounts are the maker's choice and have no bound to keep.
* The contracts of `lop/` that no part of the swap uses: token proxies, Permit2
  witness, approval pre-interaction, series nonces, order registrator, safe order builder.
* The client's lists of orders and `buildCancelOrderCallData`: requests that
  change nothing here and whose answers nothing uses.
* A second destination escrow of one swap, and the event log of a block.
* Mocks, and the compiled SDK under `dist/`.

## 8. Plan

Done: timelocks, escrows and their composition with its safety proofs; partial
fills and their proofs; the order protocol with auctions, fees and ids; native
orders; the SDK from the quote to both escrows; the relay of secrets and the
scripts, with proofs of both.

Proved: every invariant and action property of the runs that does not speak of
`ENABLED`, the SDK's pipeline and the balance of native orders included.

Next, the most important first:

1. The composition of `EscrowSrc` and `EscrowDst` theorems with those of `CrossChainSwap`: an
   atomic swap as the abstract specification of both clones.
2. Several orders through the pipeline at once, over one quoter and one event log.
3. Predicates, as far as they read what a fill changes.
