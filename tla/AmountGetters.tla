---------------------------- MODULE AmountGetters ----------------------------
(***************************************************************************)
(* What an order's maker may be asked for and owed when its extension      *)
(* names a getter: DutchAuctionCalculator.sol, and AmountGetterWithFee.sol *)
(* with the FeeTaker.sol that takes the fees off again when the order was  *)
(* filled.  A getter of fees may wrap one of an auction.                   *)
(***************************************************************************)
EXTENDS Integers

CeilDiv(a, b) == (a + b - 1) \div b

-----------------------------------------------------------------------------
(* The taking amount of a whole order falls (or rises) with time.           *)

Auction ==
  {a \in [startTime : Nat, endTime : Nat, takingAmountStart : Nat, takingAmountEnd : Nat] :
     a.startTime < a.endTime /\ a.takingAmountStart > 0 /\ a.takingAmountEnd > 0}

NoAuction == [startTime |-> 0, endTime |-> 0, takingAmountStart |-> 0, takingAmountEnd |-> 0]

\* _calculateAuctionTakingAmount
AuctionTakingAmount(a, timestamp) ==
  LET currentTime == IF timestamp < a.startTime THEN a.startTime
                     ELSE IF timestamp > a.endTime THEN a.endTime ELSE timestamp
  IN  (a.takingAmountStart * (a.endTime - currentTime)
         + a.takingAmountEnd * (currentTime - a.startTime)) \div (a.endTime - a.startTime)

-----------------------------------------------------------------------------
(* Fees are added to what the taker pays: to one that is whitelisted at a   *)
(* discount.                                                                *)

Base1E5 == 100000
Base1E2 == 100

\* What a field of 16 bits holds.
MaxFee == 65535

FeeData(Taker) ==
  [integratorFee : 0 .. MaxFee, integratorShare : 0 .. Base1E2, resolverFee : 0 .. MaxFee,
   whitelistDiscountNumerator : 0 .. Base1E2, whitelist : SUBSET Taker]

NoFees == [integratorFee |-> 0, integratorShare |-> 0, resolverFee |-> 0,
           whitelistDiscountNumerator |-> 0, whitelist |-> {}]

\* _parseFeeData
ResolverFee(fees, taker) ==
  IF taker \in fees.whitelist
    THEN (fees.resolverFee * fees.whitelistDiscountNumerator) \div Base1E2
    ELSE fees.resolverFee

WithFee(fees, taker) == Base1E5 + fees.integratorFee + ResolverFee(fees, taker)

\* _getMakingAmount and _getTakingAmount, of what the wrapped getter returns.
MakingAmountWithFee(fees, taker, making) == (making * Base1E5) \div WithFee(fees, taker)

TakingAmountWithFee(fees, taker, taking) == CeilDiv(taking * WithFee(fees, taker), Base1E5)

\* Mutant: the fees are a share of the whole taking amount, which contains them.
GetFeeAmountsOfWhole(fees, taker, taking) ==
  LET total == (taking * fees.integratorFee) \div Base1E5
      integratorFeeAmount == (total * fees.integratorShare) \div Base1E2
  IN  [integrator |-> integratorFeeAmount,
       protocol |-> (taking * ResolverFee(fees, taker)) \div Base1E5 + total - integratorFeeAmount]

\* _getFeeAmounts
GetFeeAmounts(fees, taker, taking) ==
  LET total == (taking * fees.integratorFee) \div WithFee(fees, taker)
      integratorFeeAmount == (total * fees.integratorShare) \div Base1E2
  IN  [integrator |-> integratorFeeAmount,
       protocol |-> (taking * ResolverFee(fees, taker)) \div WithFee(fees, taker)
                      + total - integratorFeeAmount]

\* FeeTaker._postInteraction, as the receiver of the order: what the maker gets.
ToReceiver(fees, taker, taking) ==
  LET amounts == GetFeeAmounts(fees, taker, taking)
  IN  taking - amounts.integrator - amounts.protocol
=============================================================================
