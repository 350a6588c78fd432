-------------------------------- MODULE Quoter --------------------------------
(***************************************************************************)
(* The SDK's side of a quote: what it asks the quoter service for, what it *)
(* keeps of the answer and the order it makes of it.  The service itself   *)
(* is external; it may answer anything of the right shape.                 *)
(***************************************************************************)
EXTENDS CrossChainOrder

\* What this code uses of an answer, as its types have it.
PresetData ==
  [auctionEndAmount : Nat, auctionDuration : Nat, startAuctionIn : Nat,
   exclusiveResolver : STRING, partial : BOOLEAN, multiple : BOOLEAN, secretsCount : Nat]

QuoterResponse ==
  [quoteId : STRING, srcTokenAmount : Nat, srcEscrowFactory : STRING,
   presets : [{"fast", "slow"} -> PresetData], recommendedPreset : STRING,
   timeLocks : [Stage -> Nat], srcSafetyDeposit : Nat, dstSafetyDeposit : Nat,
   whitelist : SUBSET STRING]

CustomPreset == [auctionStartAmount : Int, auctionEndAmount : Int, points : SUBSET Int,
                 integerDuration : BOOLEAN]

\* What does not parse as an amount is modelled by a negative number.
ValidAmount(amount) == amount >= 0

\* The assertions of QuoterRequest's constructor.
QuoterRequestOK(r) ==
  /\ r.srcChain # r.dstChain
  /\ ValidAmount(r.amount)
  /\ r.srcToken # "native"
  /\ r.dstToken # "zero"
  /\ r.fee # 0 => r.source # "sdk"

\* validate of QuoterCustomPresetRequest.
CustomPresetOK(c) ==
  /\ ValidAmount(c.auctionStartAmount) /\ ValidAmount(c.auctionEndAmount)
  /\ c.integerDuration
  /\ \A p \in c.points : c.auctionEndAmount <= p /\ p <= c.auctionStartAmount

\* A quote that was asked for without an estimate has no id: no order is made of it.
HasQuoteId(quote) == quote.response.quoteId # "null"

\* A missing preset is undefined, and using it throws.
HasPreset(quote, type) == type \in DOMAIN quote.response.presets
GetPreset(quote, type) == quote.response.presets[type]

AuctionStartTime(preset, now) == now + preset.startAuctionIn

CreateAuctionDetails(preset, now) ==
  [startTime |-> AuctionStartTime(preset, now), duration |-> preset.auctionDuration]

\* Mutant: nobody waits.
GetWhitelistOpen(quote, startTime, exclusive) ==
  {[address |-> a, allowFrom |-> 0] : a \in quote.response.whitelist}

GetWhitelist(quote, startTime, exclusive) ==
  {[address |-> a, allowFrom |-> IF exclusive \in {"none", a} THEN 0 ELSE startTime] :
      a \in quote.response.whitelist}

\* A random nonce is drawn where one is needed and none is given.
NonceOf(preset, nonce, random) ==
  IF nonce = 0 /\ ~(preset.partial /\ preset.multiple) THEN random ELSE nonce

EscrowParamsOf(quote, hashLock) ==
  [hashLock |-> hashLock, srcChainId |-> quote.request.srcChain,
   dstChainId |-> quote.request.dstChain,
   srcSafetyDeposit |-> quote.response.srcSafetyDeposit,
   dstSafetyDeposit |-> quote.response.dstSafetyDeposit,
   timeLocks |-> NewTimeLocks(quote.response.timeLocks)]

OrderInfoOf(quote, preset, receiver, salt) ==
  [maker |-> quote.request.walletAddress, receiver |-> receiver,
   makerAsset |-> quote.request.srcToken, takerAsset |-> quote.request.dstToken,
   makingAmount |-> quote.response.srcTokenAmount,
   takingAmount |-> preset.auctionEndAmount, salt |-> salt]

ExtraOf(preset, params) ==
  [nonce |-> NonceOf(preset, params.nonce, params.random), partial |-> preset.partial,
   multiple |-> preset.multiple, expirationDelay |-> ExpirationDelay]

\* createOrder of the SDK and of the quote, and getOrderHash, throw for the rest.
CreateOrderOK(quote, params) ==
  /\ HasQuoteId(quote)
  /\ HasPreset(quote, params.preset)
  /\ TimeLocksOK(NewTimeLocks(quote.response.timeLocks))
  /\ LET preset == GetPreset(quote, params.preset)
         escrow == EscrowParamsOf(quote, params.hashLock)
     IN /\ NewOrderOK(OrderInfoOf(quote, preset, params.receiver, params.salt), escrow,
                      ExtraOf(preset, params))
        /\ Encodable(escrow)
  /\ HashableOn(quote.request.srcChain)

CreateOrder(quote, params, now) ==
  LET preset  == GetPreset(quote, params.preset)
      auction == CreateAuctionDetails(preset, now)
      fusion  == [factory |-> quote.response.srcEscrowFactory,
                  startTime |-> auction.startTime, duration |-> auction.duration,
                  whitelist |-> GetWhitelist(quote, auction.startTime, preset.exclusiveResolver)]
  IN NewOrder(fusion, OrderInfoOf(quote, preset, params.receiver, params.salt),
              EscrowParamsOf(quote, params.hashLock), ExtraOf(preset, params))

\* What submitOrder asks of the order and the hashes of its secrets: that a
\* single hash goes with a lock of a single secret is not asked.
SubmitOrderOK(order, hashes) ==
  /\ ~order.multiple => Len(hashes) <= 1
  /\ order.multiple => Len(hashes) = GetPartsCount(order.ext.hashLock) + 1

\* One hash is not sent: it is the lock itself.
SecretHashesSent(hashes) == IF Len(hashes) = 1 THEN <<>> ELSE hashes
===============================================================================
