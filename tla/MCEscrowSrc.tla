---------------------------- MODULE MCEscrowSrc ----------------------------
(* Two clones of one maker and one taker on the source chain: a short and a *)
(* long one, with different hashlocks, so that each other's immutables and  *)
(* secrets are tempting arguments.                                          *)
EXTENDS EscrowSrc, TLC

CONSTANTS e1, e2, maker, taker, keeper, stranger, usdc, eth, x1, x2

MCKeccak == (x1 :> "h1") @@ (x2 :> "h2")

MCTimelock(w, pw, c, pc) ==
  [deployedAt |-> 0,
   delay |-> [k \in Stage |-> CASE k = "SrcWithdrawal" -> w
                                [] k = "SrcPublicWithdrawal" -> pw
                                [] k = "SrcCancellation" -> c
                                [] k = "SrcPublicCancellation" -> pc
                                [] OTHER -> 0]]

MCImmutables(h, timelocks) ==
  [hashlock |-> h, maker |-> maker, taker |-> taker, token |-> usdc,
   amount |-> 2, safetyDeposit |-> 2, timelocks |-> timelocks]

MCTerms == (e1 :> MCImmutables("h1", MCTimelock(1, 2, 3, 4)))
        @@ (e2 :> MCImmutables("h2", MCTimelock(0, 2, 4, 5)))

\* The stranger has half of an amount to give away, and half of a safety
\* deposit.
MCEndowment ==
  [a \in {usdc, eth} |-> [p \in {e1, e2, maker, taker, keeper, stranger} |->
     CASE a = usdc /\ p = maker -> 4
       [] a = eth /\ p = stranger -> 1
       [] a = usdc /\ p = stranger -> 1
       [] a = eth /\ p = taker -> 4
       [] OTHER -> 0]]
=============================================================================
