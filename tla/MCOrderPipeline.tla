--------------------------- MODULE MCOrderPipeline ---------------------------
(* A good order and those that differ from it in one or two places.         *)
EXTENDS OrderPipeline

MCLimitOrderProtocol == [c \in {"sepolia", "arbitrum"} |-> << "lop", c >>]
MCTrueERC20 == [c \in SupportedChains |-> IF c = "zksync" THEN "zkTrue"
                                          ELSE IF c \in Testnets THEN "wrapped" ELSE "true"]

MCRequest == [srcChain |-> "sepolia", dstChain |-> "arbitrum", amount |-> 4,
              srcToken |-> "usdc", dstToken |-> "weth", walletAddress |-> "maker",
              fee |-> 0, source |-> "sdk"]

MCRequests ==
  {MCRequest, [MCRequest EXCEPT !.dstToken = "native"],
   [MCRequest EXCEPT !.dstToken = "zero"], [MCRequest EXCEPT !.srcToken = "native"],
   [MCRequest EXCEPT !.amount = -1], [MCRequest EXCEPT !.fee = 1],
   [MCRequest EXCEPT !.dstChain = "sepolia"], [MCRequest EXCEPT !.dstChain = "zksync"],
   [MCRequest EXCEPT !.srcChain = "zksync"], [MCRequest EXCEPT !.dstChain = "fantom"]}

MCDelays(a, b, c, d, e, f, g) ==
  [s \in Stage |-> CASE s = "SrcWithdrawal" -> a
                     [] s = "SrcPublicWithdrawal" -> b
                     [] s = "SrcCancellation" -> c
                     [] s = "SrcPublicCancellation" -> d
                     [] s = "DstWithdrawal" -> e
                     [] s = "DstPublicWithdrawal" -> f
                     [] s = "DstCancellation" -> g]

MCDelay == FromDurations([srcFinalityLock |-> 1, srcPrivateWithdrawal |-> 1,
                          srcPublicWithdrawal |-> 2, srcPrivateCancellation |-> 1,
                          dstFinalityLock |-> 1, dstPrivateWithdrawal |-> 1,
                          dstPublicWithdrawal |-> 1]).delay

MCPreset == [auctionEndAmount |-> 5, auctionDuration |-> 2, startAuctionIn |-> 1,
             exclusiveResolver |-> "none", partial |-> FALSE, multiple |-> FALSE,
             secretsCount |-> 1]
MCMany == [MCPreset EXCEPT !.partial = TRUE, !.multiple = TRUE, !.secretsCount = 3]

MCResponse ==
  [quoteId |-> "q", srcTokenAmount |-> 4, srcEscrowFactory |-> "factory",
   presets |-> [t \in {"fast", "slow"} |-> IF t = "fast" THEN MCMany ELSE MCPreset],
   recommendedPreset |-> "fast", timeLocks |-> MCDelay,
   srcSafetyDeposit |-> 1, dstSafetyDeposit |-> 2, whitelist |-> {"resolver", "rival"}]

MCPresets(p) == [t \in {"fast", "slow"} |-> IF t = "fast" THEN MCMany ELSE p]

MCResponses ==
  {MCResponse, [MCResponse EXCEPT !.quoteId = "null"],
   [MCResponse EXCEPT !.timeLocks = MCDelays(2, 2, 3, 4, 1, 2, 3)],
   [MCResponse EXCEPT !.timeLocks = MCDelays(1, 2, 4, 8, 1, 2, 3)],
   [MCResponse EXCEPT !.timeLocks = MCDelays(1, 2, 4, 12, 1, 2, 3)],
   [MCResponse EXCEPT !.srcSafetyDeposit = 4],
   [MCResponse EXCEPT !.dstSafetyDeposit = 6], [MCResponse EXCEPT !.dstSafetyDeposit = 16],
   [MCResponse EXCEPT !.presets = MCPresets([MCPreset EXCEPT !.exclusiveResolver = "rival"])],
   [MCResponse EXCEPT !.presets = MCPresets([MCPreset EXCEPT !.exclusiveResolver = "resolver"])],
   [MCResponse EXCEPT !.presets = MCPresets([MCPreset EXCEPT !.secretsCount = 3])],
   [MCResponse EXCEPT !.presets = MCPresets([MCMany EXCEPT !.secretsCount = 1])],
   [MCResponse EXCEPT !.presets = MCPresets([MCMany EXCEPT !.secretsCount = 2])]}

MCCustom == [auctionStartAmount |-> 7, auctionEndAmount |-> 6, points |-> {6, 7},
             integerDuration |-> TRUE]
MCCustomPresets == {MCCustom, [MCCustom EXCEPT !.points = {5}],
                    [MCCustom EXCEPT !.auctionEndAmount = -1],
                    [MCCustom EXCEPT !.integerDuration = FALSE]}
==============================================================================
