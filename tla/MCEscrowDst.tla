---------------------------- MODULE MCEscrowDst ----------------------------
(* Three clones on the destination chain: e1 holds a token, e2 and e3 the   *)
(* native currency, where amount and safety deposit share one balance; the  *)
(* maker of e3 refuses native currency.                                     *)
EXTENDS EscrowDst, TLC

CONSTANTS e1, e2, e3, maker, refuser, taker, keeper, stranger, usdc, eth, x1, x2

MCKeccak == (x1 :> "h1") @@ (x2 :> "h2")

MCTimelock(w, pw, c) ==
  [deployedAt |-> 0,
   delay |-> [k \in Stage |-> CASE k = "DstWithdrawal" -> w
                                [] k = "DstPublicWithdrawal" -> pw
                                [] k = "DstCancellation" -> c
                                [] OTHER -> 0]]

MCImmutables(h, to, token, n, timelocks) ==
  [hashlock |-> h, maker |-> to, taker |-> taker, token |-> token,
   amount |-> n, safetyDeposit |-> n, timelocks |-> timelocks]

MCTerms == (e1 :> MCImmutables("h1", maker, usdc, 1, MCTimelock(1, 2, 3)))
        @@ (e2 :> MCImmutables("h2", maker, eth, 2, MCTimelock(0, 1, 3)))
        @@ (e3 :> MCImmutables("h2", refuser, eth, 1, MCTimelock(0, 1, 2)))

\* The stranger's gift is less than what e2 pays out, and no token.
MCEndowment ==
  [a \in {usdc, eth} |-> [p \in {e1, e2, e3, maker, refuser, taker, keeper, stranger} |->
     CASE a = usdc /\ p = taker -> 1
       [] a = eth /\ p = taker -> 7
       [] a = eth /\ p = stranger -> 1
       [] OTHER -> 0]]
=============================================================================
