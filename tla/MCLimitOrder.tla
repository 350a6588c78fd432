---------------------------- MODULE MCLimitOrder ----------------------------
(* Three orders of one maker: o1 may be filled several times while its      *)
(* epoch lasts, at a price that falls and with fees at a discount; o2 and   *)
(* o3 share a nonce, o1 and o3 an id; o3 is filled whole or not at all.     *)
EXTENDS LimitOrder, TLC

CONSTANTS o1, o2, o3, m1, m2

MCAuction == [startTime |-> 1, endTime |-> 3, takingAmountStart |-> 3, takingAmountEnd |-> 1]

MCFees(whitelist) ==
  [integratorFee |-> 60000, integratorShare |-> 50, resolverFee |-> 60000,
   whitelistDiscountNumerator |-> 50, whitelist |-> whitelist]

MCOrder(making, taking, partial, multiple, epoch, expiration, permit, auction, fees, id) ==
  [maker |-> m1, makingAmount |-> making, takingAmount |-> taking,
   allowPartialFills |-> partial, allowMultipleFills |-> multiple, nonceOrEpoch |-> 0,
   needCheckEpochManager |-> epoch, series |-> 0, expiration |-> expiration,
   allowedSender |-> {m2}, makerPermit |-> permit,
   auction |-> auction, fees |-> fees, orderId |-> id]

MCTerms ==
     (o1 :> MCOrder(2, 3, TRUE, TRUE, TRUE, 0, TRUE, MCAuction, MCFees({m2}), 1))
  @@ (o2 :> MCOrder(1, 1, TRUE, FALSE, FALSE, 1, TRUE, NoAuction, NoFees, 0))
  @@ (o3 :> MCOrder(2, 1, FALSE, TRUE, FALSE, 0, FALSE, NoAuction, MCFees({}), 1))
=============================================================================
