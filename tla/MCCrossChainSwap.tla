-------------------------- MODULE MCCrossChainSwap --------------------------
(* Swaps of two source tokens for two destination tokens, with the delays   *)
(* of the repository's tests in small: the destination cancels first.       *)
EXTENDS CrossChainSwap, TLC

CONSTANTS keeper, usdc, weth, eth, DstToken

MCDelay == [k \in Stage |-> CASE k = "SrcWithdrawal" -> 1
                              [] k = "SrcPublicWithdrawal" -> 3
                              [] k = "SrcCancellation" -> 4
                              [] k = "SrcPublicCancellation" -> 5
                              [] k = "DstWithdrawal" -> 0
                              [] k = "DstPublicWithdrawal" -> 1
                              [] k = "DstCancellation" -> 2]

\* Swap number s hides secret number s.
MCKeccak == [x \in Secret |-> <<"hash", x>>]

MCSecretOf == [s \in Swap |-> s]

MCSrcTerms ==
  [s \in Swap |-> [hashlock |-> MCKeccak[s], maker |-> maker, taker |-> taker,
                   token |-> usdc, amount |-> 2, safetyDeposit |-> 1,
                   timelocks |-> [deployedAt |-> 0, delay |-> MCDelay]]]

MCComplement ==
  [s \in Swap |-> [maker |-> maker, token |-> DstToken, amount |-> 2, safetyDeposit |-> 1]]

MCEndowment(owner, asset) ==
  [a \in Asset |-> [p \in Swap \union Account |->
     CASE a = asset /\ p = owner -> 2 * 2
       [] a = eth /\ p = taker -> 2 * 3
       [] OTHER -> 0]]

MCSrcEndowment == MCEndowment(maker, usdc)
MCDstEndowment == MCEndowment(taker, weth)
=============================================================================
