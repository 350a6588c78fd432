------------------------ MODULE MCTestEscrowFactory ------------------------
(* One source clone of a factory with different rescue delays.             *)
EXTENDS TestEscrowFactory

CONSTANTS e1, maker, taker, keeper, usdc, eth, x1

MCKeccak == [x \in {x1} |-> "h1"]

MCDelay == [k \in Stage |-> CASE k = "SrcWithdrawal" -> 1
                              [] k = "SrcPublicWithdrawal" -> 2
                              [] k = "SrcCancellation" -> 3
                              [] k = "SrcPublicCancellation" -> 4
                              [] OTHER -> 0]

MCTerms ==
  [c \in {e1} |-> [hashlock |-> "h1", maker |-> maker, taker |-> taker,
                   token |-> usdc, amount |-> 2, safetyDeposit |-> 1,
                   timelocks |-> [deployedAt |-> 0, delay |-> MCDelay]]]

MCEndowment ==
  [a \in {usdc, eth} |-> [p \in {e1, maker, taker, keeper} |->
     CASE a = usdc /\ p = maker -> 2
       [] a = eth /\ p = taker -> 2
       [] OTHER -> 0]]
=============================================================================
