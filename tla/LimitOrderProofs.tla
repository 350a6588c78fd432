-------------------------- MODULE LimitOrderProofs --------------------------
(***************************************************************************)
(* Proofs about LimitOrder, for any orders, makers, prices, fees and       *)
(* clock, and for fills nested to any depth.                               *)
(*                                                                         *)
(* The stack of calls holds, with every call, the storage a revert goes    *)
(* back to.  So the invariant IInv speaks of every level of the stack: of  *)
(* each storage with the fills that are under way below it (StorageOK),    *)
(* and, of each call, that the storage it began with can be followed by    *)
(* what it leaves when it ends (FrameOK).  `Follows` is the one relation   *)
(* between storages everything rests on: no more can be taken than could   *)
(* be, what is dead stays dead, and the maker is owed the rate for what    *)
(* was taken.  It is reflexive and transitive, so the end of a nested call *)
(* is a way to go on for every call below it, and a revert, which brings   *)
(* back a lower level, for the same reason.                                *)
(***************************************************************************)
EXTENDS LimitOrder, SequenceTheorems, TLAPS

-----------------------------------------------------------------------------
(* Arithmetic.                                                              *)

\* What a quotient is.
LEMMA Quotient ==
  ASSUME NEW a \in Nat, NEW n \in Nat \ {0}
  PROVE  /\ a \div n \in Nat
         /\ n * (a \div n) <= a
         /\ a < n * ((a \div n) + 1)
  OBVIOUS

\* Factors keep an order.
LEMMA Scaled ==
  ASSUME NEW a \in Nat, NEW b \in Nat, NEW n \in Nat, a <= b
  PROVE  n * a <= n * b /\ a * n <= b * n /\ n * a \in Nat /\ n * b \in Nat
<1>1. PICK d \in Nat : b = a + d
  <2>1. b - a \in Nat
    OBVIOUS
  <2> QED BY <2>1
<1>2. n * b = n * a + n * d /\ b * n = a * n + d * n
  BY <1>1
<1>3. n * a \in Nat /\ n * b \in Nat /\ n * d \in Nat /\ a * n \in Nat /\ d * n \in Nat
  OBVIOUS
<1> QED BY <1>2, <1>3

\* A positive factor can be taken off an order.
LEMMA Unscaled ==
  ASSUME NEW a \in Int, NEW b \in Int, NEW n \in Nat \ {0}, n * a <= n * b
  PROVE  a <= b
<1> SUFFICES ASSUME b + 1 <= a PROVE FALSE
  OBVIOUS
<1>1. PICK d \in Nat : a = (b + 1) + d
  <2>1. a - (b + 1) \in Nat
    OBVIOUS
  <2> QED BY <2>1
<1>2. n * a = n * b + n + n * d
  BY <1>1
<1>3. n * a \in Int /\ n * b \in Int /\ n * d \in Nat
  OBVIOUS
<1> QED BY <1>2, <1>3

\* Quotients keep an order.
LEMMA QuotientKeepsOrder ==
  ASSUME NEW a \in Nat, NEW b \in Nat, NEW n \in Nat \ {0}, a <= b
  PROVE  a \div n <= b \div n
<1> DEFINE q == a \div n
           r == b \div n
<1>1. /\ q \in Nat /\ n * q <= a
      /\ r \in Nat /\ b < n * (r + 1)
  BY Quotient
<1> HIDE DEF q, r
<1>2. n * (r + 1) = n * r + n /\ n * q \in Nat /\ n * r \in Nat
  BY <1>1
<1> SUFFICES ASSUME r + 1 <= q PROVE FALSE
  BY <1>1 DEF q, r
<1>3. n * (r + 1) <= n * q
  BY <1>1, Scaled
<1> QED BY <1>1, <1>2, <1>3

\* What a quotient that is rounded up is.
LEMMA Ceiling ==
  ASSUME NEW a \in Nat, NEW n \in Nat \ {0}
  PROVE  /\ CeilDiv(a, n) \in Nat
         /\ a <= n * CeilDiv(a, n)
<1> DEFINE b == a + n - 1
           q == b \div n
<1>1. b \in Nat /\ q = CeilDiv(a, n)
  BY DEF CeilDiv
<1>2. q \in Nat /\ b < n * (q + 1)
  BY <1>1, Quotient
<1> HIDE DEF q
<1>3. n * (q + 1) = n * q + n /\ n * q \in Nat
  BY <1>2
<1>4. a <= n * q
  BY <1>2, <1>3
<1> QED BY <1>1, <1>2, <1>4

-----------------------------------------------------------------------------
(* Auctions and fees.                                                       *)

\* What a fee of an order is.
LEMMA Fees ==
  ASSUME NEW fees \in FeeData(Account), NEW taker \in Account
  PROVE  /\ ResolverFee(fees, taker) \in Nat
         /\ fees.integratorFee \in Nat
         /\ WithFee(fees, taker) = Base1E5 + fees.integratorFee + ResolverFee(fees, taker)
         /\ WithFee(fees, taker) \in Nat \ {0}
         /\ Base1E5 \in Nat \ {0} /\ Base1E2 \in Nat \ {0}
         /\ fees.integratorShare \in Nat
<1>1. /\ fees.resolverFee \in Nat /\ fees.whitelistDiscountNumerator \in Nat
      /\ fees.integratorFee \in Nat /\ fees.integratorShare \in Nat
      /\ Base1E5 \in Nat \ {0} /\ Base1E2 \in Nat \ {0}
  <2>1. /\ fees.resolverFee \in 0 .. MaxFee /\ fees.integratorFee \in 0 .. MaxFee
        /\ fees.whitelistDiscountNumerator \in 0 .. Base1E2
        /\ fees.integratorShare \in 0 .. Base1E2
    BY DEF FeeData
  <2>2. Base1E5 \in Nat \ {0} /\ Base1E2 \in Nat \ {0}
    BY DEF Base1E5, Base1E2
  <2> QED BY <2>1, <2>2
<1>2. ResolverFee(fees, taker) \in Nat
  <2>1. fees.resolverFee * fees.whitelistDiscountNumerator \in Nat
    BY <1>1
  <2>2. (fees.resolverFee * fees.whitelistDiscountNumerator) \div Base1E2 \in Nat
    BY <1>1, <2>1, Quotient
  <2> QED BY <1>1, <2>2 DEF ResolverFee
<1> QED BY <1>1, <1>2 DEF WithFee

\* FeeTaker takes from the maker's receiver no more than the share of the fees.
LEMMA ReceiverGets ==
  ASSUME NEW fees \in FeeData(Account), NEW taker \in Account, NEW taking \in Nat
  PROVE  /\ ToReceiver(fees, taker, taking) \in Nat
         /\ Base1E5 * taking <= WithFee(fees, taker) * ToReceiver(fees, taker, taking)
<1> DEFINE w == WithFee(fees, taker)
           i == fees.integratorFee
           r == ResolverFee(fees, taker)
           x == (taking * i) \div w
           y == (taking * r) \div w
           share == (x * fees.integratorShare) \div Base1E2
           z == taking - x - y
<1>1. /\ i \in Nat /\ r \in Nat /\ w \in Nat \ {0} /\ w = Base1E5 + i + r
      /\ Base1E5 \in Nat \ {0}
  BY Fees
<1>2. taking * i \in Nat /\ taking * r \in Nat
  BY <1>1
<1> HIDE DEF w, i, r
<1>3. x \in Nat /\ w * x <= taking * i
  BY <1>1, <1>2, Quotient
<1>4. y \in Nat /\ w * y <= taking * r
  BY <1>1, <1>2, Quotient
<1>5. share \in Nat
  <2>1. fees.integratorShare \in Nat /\ Base1E2 \in Nat \ {0}
    BY Fees
  <2>2. x * fees.integratorShare \in Nat
    BY <1>3, <2>1
  <2> QED BY <2>1, <2>2, Quotient
<1>6. ToReceiver(fees, taker, taking) = taking - share - (y + x - share)
  BY DEF ToReceiver, GetFeeAmounts, w, i, r
<1> HIDE DEF x, y, share
<1>7. ToReceiver(fees, taker, taking) = z
  BY <1>3, <1>4, <1>5, <1>6
<1>8. z \in Int
  BY <1>3, <1>4
<1>9. w * z = w * taking - w * x - w * y
  BY <1>1, <1>3, <1>4
<1>10. w * taking = Base1E5 * taking + taking * i + taking * r
  BY <1>1
<1>11. /\ w * x \in Nat /\ w * y \in Nat /\ w * taking \in Nat /\ Base1E5 * taking \in Nat
       /\ w * z \in Int
  BY <1>1, <1>3, <1>4, <1>8
<1> HIDE DEF z
<1>12. Base1E5 * taking <= w * z
  BY <1>2, <1>3, <1>4, <1>9, <1>10, <1>11
<1>13. 0 <= z
  <2>1. w * 0 <= w * z
    BY <1>1, <1>11, <1>12
  <2> QED BY <1>1, <1>8, <2>1, Unscaled
<1> QED BY <1>7, <1>8, <1>12, <1>13 DEF w

\* A taking amount that was asked for with fees on top leaves the maker the one
\* that was asked for without.
LEMMA TakingCoversFees ==
  ASSUME NEW fees \in FeeData(Account), NEW taker \in Account, NEW taking \in Nat
  PROVE  /\ TakingAmountWithFee(fees, taker, taking) \in Nat
         /\ taking <= ToReceiver(fees, taker, TakingAmountWithFee(fees, taker, taking))
<1> DEFINE w == WithFee(fees, taker)
           asked == TakingAmountWithFee(fees, taker, taking)
           z == ToReceiver(fees, taker, asked)
<1>1. w \in Nat \ {0} /\ Base1E5 \in Nat \ {0} /\ taking * w \in Nat
  BY Fees
<1>2. asked \in Nat /\ taking * w <= Base1E5 * asked
  BY <1>1, Ceiling DEF TakingAmountWithFee
<1>3. z \in Nat /\ Base1E5 * asked <= w * z
  BY <1>2, ReceiverGets
<1> HIDE DEF w, asked, z
<1>4. w * taking <= w * z
  <2>1. w * taking = taking * w
    BY <1>1
  <2>2. Base1E5 * asked \in Nat /\ w * z \in Nat
    BY <1>1, <1>2, <1>3
  <2> QED BY <1>1, <1>2, <1>3, <2>1, <2>2
<1>5. taking <= z
  BY <1>1, <1>3, <1>4, Unscaled
<1> QED BY <1>2, <1>5 DEF asked, z

\* The makers' tokens that a taking amount buys once fees are off it cost no
\* less than what the maker is left with.
LEMMA MakingCoversFees ==
  ASSUME NEW fees \in FeeData(Account), NEW taker \in Account,
         NEW taking \in Nat, NEW most \in Nat, NEW n \in Nat, NEW price \in Nat,
         price * most <= taking * n
  PROVE  /\ MakingAmountWithFee(fees, taker, most) \in Nat
         /\ price * MakingAmountWithFee(fees, taker, most) <= n * ToReceiver(fees, taker, taking)
<1> DEFINE w == WithFee(fees, taker)
           making == MakingAmountWithFee(fees, taker, most)
           z == ToReceiver(fees, taker, taking)
<1>1. w \in Nat \ {0} /\ Base1E5 \in Nat \ {0} /\ most * Base1E5 \in Nat
  BY Fees
<1>2. making \in Nat /\ w * making <= most * Base1E5
  BY <1>1, Quotient DEF MakingAmountWithFee
<1>3. z \in Nat /\ Base1E5 * taking <= w * z
  BY ReceiverGets
<1> HIDE DEF w, making, z
<1>4. price * (w * making) <= price * (most * Base1E5)
  <2>1. w * making \in Nat
    BY <1>1, <1>2
  <2> QED BY <1>1, <1>2, <2>1, Scaled
<1>5. Base1E5 * (price * most) <= Base1E5 * (taking * n)
  <2>1. price * most \in Nat /\ taking * n \in Nat
    OBVIOUS
  <2> QED BY <1>1, <2>1, Scaled
<1>6. n * (Base1E5 * taking) <= n * (w * z)
  <2>1. Base1E5 * taking \in Nat /\ w * z \in Nat
    BY <1>1, <1>3
  <2> QED BY <1>3, <2>1, Scaled
<1>7. /\ price * (w * making) = w * (price * making)
      /\ price * (most * Base1E5) = Base1E5 * (price * most)
      /\ Base1E5 * (taking * n) = n * (Base1E5 * taking)
      /\ n * (w * z) = w * (n * z)
  BY <1>1, <1>2, <1>3
<1>8. /\ price * making \in Nat /\ n * z \in Nat /\ w * (price * making) \in Nat
      /\ w * (n * z) \in Nat /\ Base1E5 * (price * most) \in Nat
      /\ n * (Base1E5 * taking) \in Nat
  BY <1>1, <1>2, <1>3
<1>9. w * (price * making) <= w * (n * z)
  BY <1>4, <1>5, <1>6, <1>7, <1>8
<1>10. price * making <= n * z
  BY <1>1, <1>8, <1>9, Unscaled
<1> QED BY <1>2, <1>10 DEF making, z

\* Where an auction stands.
CurrentTime(a, timestamp) ==
  IF timestamp < a.startTime THEN a.startTime
  ELSE IF timestamp > a.endTime THEN a.endTime ELSE timestamp

\* The timestamp an auction is read at does not go back either.
LEMMA AuctionClock ==
  ASSUME NEW a \in Auction, NEW t \in Nat, NEW u \in Nat, t <= u
  PROVE  /\ CurrentTime(a, t) \in a.startTime .. a.endTime
         /\ CurrentTime(a, u) \in a.startTime .. a.endTime
         /\ CurrentTime(a, t) <= CurrentTime(a, u)
  BY DEF Auction, CurrentTime

\* An auction moves from its first amount towards its last, and asks for something.
LEMMA AuctionMoves ==
  ASSUME NEW a \in Auction, NEW t \in Nat, NEW u \in Nat,
         CurrentTime(a, t) <= CurrentTime(a, u)
  PROVE  /\ AuctionTakingAmount(a, t) \in Nat \ {0}
         /\ AuctionTakingAmount(a, u) \in Nat \ {0}
         /\ a.takingAmountEnd <= a.takingAmountStart
              => AuctionTakingAmount(a, u) <= AuctionTakingAmount(a, t)
         /\ a.takingAmountStart <= a.takingAmountEnd
              => AuctionTakingAmount(a, t) <= AuctionTakingAmount(a, u)
<1> DEFINE s == a.takingAmountStart
           e == a.takingAmountEnd
           c == CurrentTime(a, t)
           d == CurrentTime(a, u)
           length == a.endTime - a.startTime
           Num(x) == s * (a.endTime - x) + e * (x - a.startTime)
<1>1. /\ s \in Nat \ {0} /\ e \in Nat \ {0} /\ length \in Nat \ {0}
      /\ a.startTime \in Nat /\ a.endTime \in Nat
  BY DEF Auction
<1>2. /\ c \in a.startTime .. a.endTime /\ d \in a.startTime .. a.endTime /\ c <= d
  BY AuctionClock
<1>3. /\ AuctionTakingAmount(a, t) = Num(c) \div length
      /\ AuctionTakingAmount(a, u) = Num(d) \div length
  BY DEF AuctionTakingAmount, CurrentTime
<1> HIDE DEF s, e, c, d
<1>4. ASSUME NEW x \in a.startTime .. a.endTime
      PROVE  Num(x) \in Nat /\ length <= Num(x)
  <2>1. PICK m \in Nat, n \in Nat : m = a.endTime - x /\ n = x - a.startTime
    BY <1>1
  <2>2. length = m + n
    BY <1>1, <2>1
  <2>3. 1 * m <= s * m /\ 1 * n <= e * n /\ s * m \in Nat /\ e * n \in Nat
    BY <1>1, Scaled
  <2> QED BY <2>1, <2>2, <2>3
<1>5. ASSUME NEW x \in Nat, length <= x PROVE x \div length \in Nat \ {0}
  <2>1. /\ x \div length \in Nat /\ x < length * ((x \div length) + 1)
    BY <1>1, Quotient
  <2>2. x \div length = 0 => length * ((x \div length) + 1) = length
    BY <1>1
  <2> QED BY <1>1, <1>5, <2>1, <2>2
<1>6. Num(c) \in Nat /\ Num(d) \in Nat /\ length <= Num(c) /\ length <= Num(d)
  BY <1>2, <1>4
<1>7. PICK m \in Nat : d = c + m
  <2>1. d - c \in Nat
    BY <1>1, <1>2
  <2> QED BY <1>1, <1>2, <2>1
<1>8. Num(d) + s * m = Num(c) + e * m
  <2>1. c \in Nat
    BY <1>1, <1>2
  <2> QED BY <1>1, <1>7, <2>1
<1>9. s * m \in Nat /\ e * m \in Nat
  BY <1>1
<1>10. e <= s => Num(d) <= Num(c)
  <2>1. SUFFICES ASSUME e <= s PROVE Num(d) <= Num(c)
    OBVIOUS
  <2>2. e * m <= s * m
    BY <1>1, <2>1, Scaled
  <2> HIDE DEF Num
  <2> QED BY <1>6, <1>8, <1>9, <2>2
<1>11. s <= e => Num(c) <= Num(d)
  <2>1. SUFFICES ASSUME s <= e PROVE Num(c) <= Num(d)
    OBVIOUS
  <2>2. s * m <= e * m
    BY <1>1, <2>1, Scaled
  <2> HIDE DEF Num
  <2> QED BY <1>6, <1>8, <1>9, <2>2
<1> HIDE DEF Num, length
<1>12. /\ e <= s => Num(d) \div length <= Num(c) \div length
       /\ s <= e => Num(c) \div length <= Num(d) \div length
  BY <1>1, <1>6, <1>10, <1>11, QuotientKeepsOrder
<1>13. Num(c) \div length \in Nat \ {0} /\ Num(d) \div length \in Nat \ {0}
  BY <1>5, <1>6
<1> QED BY <1>3, <1>12, <1>13 DEF s, e
-----------------------------------------------------------------------------
(* The inductive invariant.                                                 *)

\* What `o` may still be filled for.
Left(s, o) ==
  LET t == Terms[o]
  IN  IF UseBitInvalidator(o)
        THEN IF t.nonceOrEpoch \in s.bits[t.maker] THEN 0 ELSE t.makingAmount
        ELSE IF s.raw[t.maker][o] = 0 THEN t.makingAmount ELSE Not(s.raw[t.maker][o])

\* The order a call has invalidated, if any.
OrderOf(f) == IF f.stage = "permit" THEN {} ELSE {f.order}

\* What the storage goes back to when all but `k` calls of the stack `p` revert;
\* with no call reverted it is `s`.
StorageAt(p, s, k) == IF k < Len(p) THEN p[k + 1].before ELSE s

\* The orders that the first `k` calls of the stack have invalidated.
OrdersOf(p, k) == {p[j].order : j \in {i \in 1 .. k : p[i].stage # "permit"}}

\* Used, of a storage `s` and the orders `filling` under way.
InUse(s, filling, o) == s.taken[o] > 0 \/ o \in filling

\* Orders that OnePerNonce allows one of to be filled.
Exclusive(o, p) ==
  /\ Terms[o].maker = Terms[p].maker
  /\ \/ /\ UseBitInvalidator(o) /\ UseBitInvalidator(p)
        /\ Terms[o].nonceOrEpoch = Terms[p].nonceOrEpoch
     \/ Terms[o].orderId # 0 /\ Terms[o].orderId = Terms[p].orderId

\* What an order is left open for is within the order, needs the maker's signature
\* to differ from the whole, and an order in use has its entries made.
EntryOK(s, filling, o, signers) ==
  LET t == Terms[o]
  IN  /\ s.taken[o] + Left(s, o) <= t.makingAmount
      /\ Left(s, o) \notin {0, t.makingAmount} => o \in signers
      /\ InUse(s, filling, o) =>
           /\ o \in signers
           /\ UseBitInvalidator(o) => t.nonceOrEpoch \in s.bits[t.maker]
           /\ t.orderId # 0 => o \in s.ids[t.maker]

\* The entries of all orders, with the orders `filling` under way.
StorageOK(s, filling, signers) ==
  /\ \A o \in Order : EntryOK(s, filling, o, signers)
  /\ \A o, p \in Order :
       Exclusive(o, p) /\ InUse(s, filling, o) /\ InUse(s, filling, p) => o = p

\* The storage `s`, once the call `f` at its top has moved what it is for.
Completed(f, s) ==
  IF f.stage = "permit" THEN s
  ELSE [s EXCEPT !.taken[f.order] = IF f.stage = "invalidated" THEN @ + f.making ELSE @,
                 !.due[f.order] = @ + ToReceiver(Terms[f.order].fees, f.sender, f.taking)]

\* Price at a given time.
PriceAt(o, time) ==
  LET t == Terms[o]
  IN  IF t.auction = NoAuction THEN t.takingAmount ELSE AuctionTakingAmount(t.auction, time)

\* LowestPrice at a given time.
LowestAt(o, time) ==
  LET t == Terms[o]
      first == AuctionTakingAmount(t.auction, t.auction.startTime)
  IN  IF t.auction # NoAuction /\ first < PriceAt(o, time) THEN first ELSE PriceAt(o, time)

\* DeadIn at a given time.
DeadAt(s, o, time) ==
  LET t == Terms[o]
  IN  \/ UseBitInvalidator(o) /\ t.nonceOrEpoch \in s.bits[t.maker]
      \/ ~UseBitInvalidator(o) /\ s.raw[t.maker][o] = Not(0)
      \/ t.needCheckEpochManager /\ s.epoch[t.maker][t.series] > t.nonceOrEpoch
      \/ t.expiration # 0 /\ t.expiration < time

\* What `t` may be after `s`, for one order: no more of it is taken than was left,
\* nothing when it was dead, and its maker is owed the rate for what was taken.
FollowsFor(s, t, o, time) ==
  /\ t.taken[o] + Left(t, o) <= s.taken[o] + Left(s, o)
  /\ s.taken[o] <= t.taken[o]
  /\ DeadAt(s, o, time) => DeadAt(t, o, time) /\ t.taken[o] = s.taken[o]
  /\ s.due[o] * Terms[o].makingAmount + t.taken[o] * LowestAt(o, time)
       <= t.due[o] * Terms[o].makingAmount + s.taken[o] * LowestAt(o, time)

\* `t` is a way for the storage `s` to go on.
Follows(s, t, time) == \A o \in Order : FollowsFor(s, t, o, time)

\* When the call `f` ends at `s`, the storage it began with has gone on; and a call
\* that waits for its permit remembers a signed and untouched order.
FrameOK(f, s, time, signers) ==
  /\ Follows(f.before, Completed(f, s), time)
  /\ f.stage = "permit" => f.order \in signers /\ f.remaining = Terms[f.order].makingAmount

\* Every level of the stack is in order.
Levels(p, s, time, signers) ==
  /\ \A k \in 0 .. Len(p) : StorageOK(StorageAt(p, s, k), OrdersOf(p, k), signers)
  /\ \A k \in 1 .. Len(p) : FrameOK(p[k], StorageAt(p, s, k), time, signers)

\* RateKept, of a storage and at a time.
RateIn(s, time) ==
  \A o \in Order : s.taken[o] * LowestAt(o, time) <= s.due[o] * Terms[o].makingAmount

\* The inductive invariant: TypeOK and every level of the stack; and the rate,
\* where no call is under way.
IInv ==
  /\ TypeOK
  /\ Levels(pending, storage, now, signed)
  /\ RateIn(StorageAt(pending, storage, 0), now)

-----------------------------------------------------------------------------

\* What an order is.
LEMMA OrderFacts ==
  ASSUME NEW o \in Order
  PROVE  /\ Terms[o].maker \in Maker /\ Terms[o].series \in Series
         /\ Terms[o].nonceOrEpoch \in Nonce /\ Terms[o].nonceOrEpoch \in Nat
         /\ Terms[o].makingAmount \in 1 .. MaxAmount /\ Terms[o].makingAmount \in Nat \ {0}
         /\ Terms[o].takingAmount \in Nat \ {0}
         /\ Terms[o].fees \in FeeData(Account) /\ Terms[o].allowedSender \subseteq Account
         /\ Terms[o].auction \in Auction \union {NoAuction}
         /\ Terms[o].expiration \in Nat /\ Terms[o].orderId \in Nat
         /\ MaxAmount \in Nat /\ Word \in Nat /\ MaxAmount + 1 < Word
<1>1. Terms[o] \in OrderTerms
  BY TermsAssumption
<1>2. MaxAmount \in Nat /\ Word \in Nat /\ MaxAmount * (MaxAmount + 1) < Word
  BY BoundsAssumption
<1>3. /\ Terms[o].maker \in Maker /\ Terms[o].series \in Series
      /\ Terms[o].nonceOrEpoch \in Nonce
      /\ Terms[o].makingAmount \in 1 .. MaxAmount /\ Terms[o].takingAmount \in 1 .. MaxAmount
      /\ Terms[o].fees \in FeeData(Account) /\ Terms[o].allowedSender \in SUBSET Account
      /\ Terms[o].auction \in Auction \union {NoAuction}
      /\ Terms[o].expiration \in Nat /\ Terms[o].orderId \in Nat
  BY <1>1 DEF OrderTerms
<1>4. MaxAmount \in Nat \ {0}
  BY <1>2, <1>3
<1>5. 1 * (MaxAmount + 1) <= MaxAmount * (MaxAmount + 1) /\ MaxAmount * (MaxAmount + 1) \in Nat
  <2>1. 1 <= MaxAmount /\ MaxAmount + 1 \in Nat
    BY <1>4
  <2> QED BY <1>4, <2>1, Scaled
<1>6. MaxAmount + 1 < Word
  BY <1>2, <1>4, <1>5
<1>7. Terms[o].makingAmount \in Nat \ {0} /\ Terms[o].takingAmount \in Nat \ {0}
  BY <1>3, <1>4
<1>8. Terms[o].nonceOrEpoch \in Nat
  BY <1>3, NonceAssumption
<1> QED BY <1>2, <1>3, <1>6, <1>7, <1>8

\* What is stored of an order.
LEMMA StorageFacts ==
  ASSUME NEW s \in Storage, NEW o \in Order
  PROVE  /\ s.raw[Terms[o].maker][o] \in 0 .. Word - 1
         /\ s.bits[Terms[o].maker] \subseteq Nonce
         /\ s.epoch[Terms[o].maker][Terms[o].series] \in Nat
         /\ s.ids[Terms[o].maker] \subseteq Order
         /\ s.taken[o] \in Nat /\ s.due[o] \in Nat
         /\ Left(s, o) \in Nat
<1>1. /\ s.raw \in [Maker -> [Order -> 0 .. Word - 1]] /\ s.bits \in [Maker -> SUBSET Nonce]
      /\ s.epoch \in [Maker -> [Series -> Nat]] /\ s.ids \in [Maker -> SUBSET Order]
      /\ s.taken \in [Order -> Nat] /\ s.due \in [Order -> Nat]
  BY DEF Storage
<1>2. /\ s.raw[Terms[o].maker][o] \in 0 .. Word - 1
      /\ s.bits[Terms[o].maker] \subseteq Nonce
      /\ s.epoch[Terms[o].maker][Terms[o].series] \in Nat
      /\ s.ids[Terms[o].maker] \subseteq Order
      /\ s.taken[o] \in Nat /\ s.due[o] \in Nat
  BY <1>1, OrderFacts
<1>3. Left(s, o) \in Nat
  BY <1>2, OrderFacts DEF Left, Not
<1> QED BY <1>2, <1>3

\* The price of an order is never nothing, and never under the lowest.
LEMMA PriceFacts ==
  ASSUME NEW o \in Order, NEW time \in Nat
  PROVE  /\ PriceAt(o, time) \in Nat \ {0} /\ LowestAt(o, time) \in Nat
         /\ LowestAt(o, time) <= PriceAt(o, time)
<1> DEFINE t == Terms[o]
<1>1. CASE t.auction = NoAuction
  BY <1>1, OrderFacts DEF PriceAt, LowestAt
<1>2. CASE t.auction # NoAuction
  <2>1. t.auction \in Auction /\ t.auction.startTime \in Nat
    BY <1>2, OrderFacts DEF Auction
  <2>2. /\ AuctionTakingAmount(t.auction, time) \in Nat \ {0}
        /\ AuctionTakingAmount(t.auction, t.auction.startTime) \in Nat \ {0}
    BY <2>1, AuctionClock, AuctionMoves
  <2> QED BY <1>2, <2>2 DEF PriceAt, LowestAt
<1> QED BY <1>1, <1>2

\* The model's operators speak of the present.
LEMMA AtNow ==
  ASSUME NEW o \in Order
  PROVE  /\ Price(o) = PriceAt(o, now) /\ LowestPrice(o) = LowestAt(o, now)
         /\ \A s : DeadIn(s, o) <=> DeadAt(s, o, now)
<1>1. Price(o) = PriceAt(o, now)
  BY DEF Price, PriceAt
<1>2. LowestPrice(o) = LowestAt(o, now)
  BY <1>1 DEF LowestPrice, LowestAt
<1>3. \A s : DeadIn(s, o) <=> DeadAt(s, o, now)
  BY DEF DeadIn, DeadAt, Expired
<1> QED BY <1>1, <1>2, <1>3

-----------------------------------------------------------------------------
(* What may become of the storage.                                          *)

\* What an order is open for hangs on its entries alone.
LEMMA SameEntries ==
  ASSUME NEW s \in Storage, NEW t \in Storage, NEW o \in Order, NEW time,
         s.raw = t.raw, s.bits = t.bits, s.epoch = t.epoch
  PROVE  Left(s, o) = Left(t, o) /\ (DeadAt(s, o, time) <=> DeadAt(t, o, time))
  BY DEF Left, DeadAt

\* Nothing is a way to go on.
LEMMA FollowsItself ==
  ASSUME NEW s \in Storage, NEW time \in Nat
  PROVE  Follows(s, s, time)
<1> SUFFICES ASSUME NEW o \in Order PROVE FollowsFor(s, s, o, time)
  BY DEF Follows
<1>1. /\ s.taken[o] \in Nat /\ s.due[o] \in Nat /\ Left(s, o) \in Nat
      /\ LowestAt(o, time) \in Nat /\ Terms[o].makingAmount \in Nat
  BY StorageFacts, PriceFacts, OrderFacts
<1>2. s.due[o] * Terms[o].makingAmount \in Nat /\ s.taken[o] * LowestAt(o, time) \in Nat
  BY <1>1
<1> QED BY <1>1, <1>2 DEF FollowsFor

\* One way to go on after another is one as well.
LEMMA FollowsOn ==
  ASSUME NEW s \in Storage, NEW t \in Storage, NEW u \in Storage, NEW time \in Nat,
         Follows(s, t, time), Follows(t, u, time)
  PROVE  Follows(s, u, time)
<1> SUFFICES ASSUME NEW o \in Order PROVE FollowsFor(s, u, o, time)
  BY DEF Follows
<1>1. FollowsFor(s, t, o, time) /\ FollowsFor(t, u, o, time)
  BY DEF Follows
<1>2. /\ s.taken[o] \in Nat /\ s.due[o] \in Nat /\ Left(s, o) \in Nat
      /\ t.taken[o] \in Nat /\ t.due[o] \in Nat /\ Left(t, o) \in Nat
      /\ u.taken[o] \in Nat /\ u.due[o] \in Nat /\ Left(u, o) \in Nat
      /\ LowestAt(o, time) \in Nat /\ Terms[o].makingAmount \in Nat
  BY StorageFacts, PriceFacts, OrderFacts
<1>3. /\ s.due[o] * Terms[o].makingAmount \in Nat /\ s.taken[o] * LowestAt(o, time) \in Nat
      /\ t.due[o] * Terms[o].makingAmount \in Nat /\ t.taken[o] * LowestAt(o, time) \in Nat
      /\ u.due[o] * Terms[o].makingAmount \in Nat /\ u.taken[o] * LowestAt(o, time) \in Nat
  BY <1>2
<1>4. s.due[o] * Terms[o].makingAmount + u.taken[o] * LowestAt(o, time)
        <= u.due[o] * Terms[o].makingAmount + s.taken[o] * LowestAt(o, time)
  BY <1>1, <1>3 DEF FollowsFor
<1>5. /\ u.taken[o] + Left(u, o) <= s.taken[o] + Left(s, o)
      /\ s.taken[o] <= u.taken[o]
      /\ DeadAt(s, o, time) => DeadAt(u, o, time) /\ u.taken[o] = s.taken[o]
  BY <1>1, <1>2 DEF FollowsFor
<1> QED BY <1>4, <1>5 DEF FollowsFor

\* What completing a fill does.
LEMMA CompletedFacts ==
  ASSUME NEW f \in Frame, NEW s \in Storage
  PROVE  /\ Completed(f, s) \in Storage
         /\ Completed(f, s).raw = s.raw /\ Completed(f, s).bits = s.bits
         /\ Completed(f, s).epoch = s.epoch
         /\ \A o \in Order :
              /\ Completed(f, s).taken[o]
                   = s.taken[o] + IF o = f.order /\ f.stage = "invalidated" THEN f.making ELSE 0
              /\ Completed(f, s).due[o]
                   = s.due[o] + IF o = f.order /\ f.stage # "permit"
                       THEN ToReceiver(Terms[o].fees, f.sender, f.taking) ELSE 0
<1>1. /\ f.order \in Order /\ f.sender \in Account /\ f.taking \in Nat /\ f.making \in Nat
  <2>1. /\ f.order \in Order /\ f.sender \in Account /\ f.taking \in Nat
        /\ f.making \in 0 .. MaxAmount
    BY DEF Frame
  <2> QED BY <2>1
<1>2. ToReceiver(Terms[f.order].fees, f.sender, f.taking) \in Nat
  BY <1>1, OrderFacts, ReceiverGets
<1>3. s.taken \in [Order -> Nat] /\ s.due \in [Order -> Nat]
  BY DEF Storage
<1>4. CASE f.stage = "permit"
  BY <1>3, <1>4 DEF Completed
<1>5. CASE f.stage # "permit"
  <2> DEFINE x == IF f.stage = "invalidated" THEN s.taken[f.order] + f.making
                                             ELSE s.taken[f.order]
             y == s.due[f.order] + ToReceiver(Terms[f.order].fees, f.sender, f.taking)
             taken == [s.taken EXCEPT ![f.order] = x]
             due == [s.due EXCEPT ![f.order] = y]
  <2>1. taken \in [Order -> Nat] /\ due \in [Order -> Nat]
    <3>1. x \in Nat /\ y \in Nat
      BY <1>1, <1>2, <1>3
    <3> QED BY <1>1, <1>3, <3>1
  <2>2. /\ Completed(f, s) \in Storage
        /\ Completed(f, s) = [s EXCEPT !.taken = taken, !.due = due]
    <3>1. Completed(f, s) = [s EXCEPT !.taken = taken, !.due = due]
      BY <1>5 DEF Completed, Storage
    <3> HIDE DEF taken, due
    <3> QED BY <2>1, <3>1 DEF Storage
  <2>3. /\ Completed(f, s).raw = s.raw /\ Completed(f, s).bits = s.bits
        /\ Completed(f, s).epoch = s.epoch /\ Completed(f, s).taken = taken
        /\ Completed(f, s).due = due
    <3> HIDE DEF taken, due
    <3> QED BY <2>2 DEF Storage
  <2>4. \A o \in Order :
          /\ taken[o] = s.taken[o] + IF o = f.order /\ f.stage = "invalidated"
                                       THEN f.making ELSE 0
          /\ due[o] = s.due[o] + IF o = f.order
                        THEN ToReceiver(Terms[o].fees, f.sender, f.taking) ELSE 0
    BY <1>1, <1>2, <1>3
  <2> QED BY <1>5, <2>2, <2>3, <2>4
<1> QED BY <1>4, <1>5

\* Whatever else happens meanwhile, a fill adds the same to it.
LEMMA CompletedFollows ==
  ASSUME NEW f \in Frame, NEW s \in Storage, NEW t \in Storage, NEW time \in Nat,
         Follows(s, t, time)
  PROVE  Follows(Completed(f, s), Completed(f, t), time)
<1> SUFFICES ASSUME NEW o \in Order
             PROVE  FollowsFor(Completed(f, s), Completed(f, t), o, time)
  BY DEF Follows
<1> DEFINE a == Completed(f, s)
           b == Completed(f, t)
           more == IF o = f.order /\ f.stage = "invalidated" THEN f.making ELSE 0
           owed == IF o = f.order /\ f.stage # "permit"
                     THEN ToReceiver(Terms[o].fees, f.sender, f.taking) ELSE 0
           n == Terms[o].makingAmount
           price == LowestAt(o, time)
<1>1. /\ a \in Storage /\ a.taken[o] = s.taken[o] + more /\ a.due[o] = s.due[o] + owed
      /\ a.raw = s.raw /\ a.bits = s.bits /\ a.epoch = s.epoch
  BY CompletedFacts
<1>2. /\ b \in Storage /\ b.taken[o] = t.taken[o] + more /\ b.due[o] = t.due[o] + owed
      /\ b.raw = t.raw /\ b.bits = t.bits /\ b.epoch = t.epoch
  BY CompletedFacts
<1>3. more \in Nat /\ owed \in Nat
  <2>1. f.sender \in Account /\ f.taking \in Nat /\ f.making \in 0 .. MaxAmount
    BY DEF Frame
  <2>2. ToReceiver(Terms[o].fees, f.sender, f.taking) \in Nat
    BY <2>1, OrderFacts, ReceiverGets
  <2> QED BY <2>1, <2>2
<1>4. /\ s.taken[o] \in Nat /\ s.due[o] \in Nat /\ Left(s, o) \in Nat
      /\ t.taken[o] \in Nat /\ t.due[o] \in Nat /\ Left(t, o) \in Nat
      /\ n \in Nat /\ price \in Nat
  BY StorageFacts, PriceFacts, OrderFacts
<1>5. FollowsFor(s, t, o, time)
  BY DEF Follows
<1> HIDE DEF a, b
<1>6. /\ Left(a, o) = Left(s, o) /\ (DeadAt(a, o, time) <=> DeadAt(s, o, time))
      /\ Left(b, o) = Left(t, o) /\ (DeadAt(b, o, time) <=> DeadAt(t, o, time))
  BY <1>1, <1>2, SameEntries
<1> HIDE DEF more, owed
<1>7. /\ b.taken[o] + Left(b, o) <= a.taken[o] + Left(a, o)
      /\ a.taken[o] <= b.taken[o]
      /\ DeadAt(a, o, time) => DeadAt(b, o, time) /\ b.taken[o] = a.taken[o]
  BY <1>1, <1>2, <1>3, <1>4, <1>5, <1>6 DEF FollowsFor
<1>8. a.due[o] * n + b.taken[o] * price <= b.due[o] * n + a.taken[o] * price
  <2>1. s.due[o] * n + t.taken[o] * price <= t.due[o] * n + s.taken[o] * price
    BY <1>5 DEF FollowsFor
  <2> HIDE DEF n, price
  <2>2. /\ a.due[o] * n = s.due[o] * n + owed * n
        /\ b.due[o] * n = t.due[o] * n + owed * n
        /\ a.taken[o] * price = s.taken[o] * price + more * price
        /\ b.taken[o] * price = t.taken[o] * price + more * price
    BY <1>1, <1>2, <1>3, <1>4
  <2>3. /\ s.due[o] * n \in Nat /\ t.due[o] * n \in Nat /\ owed * n \in Nat
        /\ s.taken[o] * price \in Nat /\ t.taken[o] * price \in Nat /\ more * price \in Nat
    BY <1>3, <1>4
  <2> QED BY <2>1, <2>2, <2>3
<1> QED BY <1>7, <1>8 DEF FollowsFor, a, b

-----------------------------------------------------------------------------
(* The stack of calls.                                                      *)

\* What lies under the top of a stack.
LEMMA Under ==
  ASSUME NEW p \in Seq(Frame), p # <<>>
  PROVE  /\ Len(p) \in Nat \ {0} /\ Last(p) = p[Len(p)] /\ Last(p) \in Frame
         /\ Front(p) \in Seq(Frame) /\ Len(Front(p)) = Len(p) - 1
         /\ \A k \in 1 .. Len(p) - 1 : Front(p)[k] = p[k] /\ p[k] \in Frame
<1> DEFINE n == Len(p)
<1>1. n \in Nat \ {0} /\ \A k \in 1 .. n : p[k] \in Frame
  OBVIOUS
<1>2. n - 1 \in Nat /\ \A k \in 1 .. n - 1 : k \in 1 .. n
  BY <1>1
<1> HIDE DEF n
<1>3. /\ SubSeq(p, 1, n - 1) \in Seq(Frame)
      /\ Len(SubSeq(p, 1, n - 1)) = n - 1
      /\ \A k \in 1 .. n - 1 : SubSeq(p, 1, n - 1)[k] = p[k]
  BY <1>1, <1>2, SubSeqProperties
<1> QED BY <1>1, <1>2, <1>3 DEF Last, Front, n

\* At every level there is a storage.
LEMMA LevelFacts ==
  ASSUME NEW p \in Seq(Frame), NEW s \in Storage
  PROVE  StorageAt(p, s, 0) \in Storage
<1>1. Len(p) \in Nat /\ \A j \in 1 .. Len(p) : p[j] \in Frame
  OBVIOUS
<1>2. \A f \in Frame : f.before \in Storage
  BY DEF Frame
<1>3. 0 < Len(p) => 0 + 1 \in 1 .. Len(p)
  BY <1>1
<1> QED BY <1>1, <1>2, <1>3 DEF StorageAt

\* Of the orders under way, what another call adds.
LEMMA OrdersPushed ==
  ASSUME NEW p \in Seq(Frame), NEW f \in Frame
  PROVE  /\ \A k \in 0 .. Len(p) : OrdersOf(Append(p, f), k) = OrdersOf(p, k)
         /\ OrdersOf(Append(p, f), Len(p) + 1)
              = OrdersOf(p, Len(p)) \union OrderOf(f)
<1>1. /\ Len(p) \in Nat /\ Append(p, f)[Len(p) + 1] = f
      /\ \A j \in 1 .. Len(p) : Append(p, f)[j] = p[j]
  OBVIOUS
<1>2. ASSUME NEW k \in 0 .. Len(p) PROVE OrdersOf(Append(p, f), k) = OrdersOf(p, k)
  <2>1. \A j \in 1 .. k : j \in 1 .. Len(p)
    BY <1>1
  <2> QED BY <1>1, <2>1 DEF OrdersOf
<1>3. OrdersOf(Append(p, f), Len(p) + 1)
        = OrdersOf(p, Len(p)) \union OrderOf(f)
  <2>1. 1 .. Len(p) + 1 = 1 .. Len(p) \union {Len(p) + 1}
    BY <1>1
  <2> DEFINE n == Len(p)
  <2>2. n + 1 \notin 1 .. n
    BY <1>1
  <2>3. \A x : x \in OrdersOf(Append(p, f), n + 1)
               <=> \E j \in 1 .. n + 1 :
                     Append(p, f)[j].stage # "permit" /\ x = Append(p, f)[j].order
    BY DEF OrdersOf
  <2>4. \A x : x \in OrdersOf(p, n) <=> \E j \in 1 .. n : p[j].stage # "permit" /\ x = p[j].order
    BY DEF OrdersOf
  <2> HIDE DEF n
  <2>5. \A x : x \in OrdersOf(Append(p, f), n + 1)
               <=> x \in OrdersOf(p, n) \/ (f.stage # "permit" /\ x = f.order)
    BY <1>1, <2>1, <2>3, <2>4 DEF n
  <2> QED BY <2>5 DEF n, OrderOf
<1> QED BY <1>2, <1>3

\* Of the orders under way, those of the calls under the top.
LEMMA OrdersUnder ==
  ASSUME NEW p \in Seq(Frame), p # <<>>
  PROVE  /\ \A k \in 0 .. Len(p) - 1 : OrdersOf(Front(p), k) = OrdersOf(p, k)
         /\ OrdersOf(Front(p), Len(p) - 1) \subseteq OrdersOf(p, Len(p))
         /\ Last(p).stage # "permit" => Last(p).order \in OrdersOf(p, Len(p))
         /\ OrdersOf(p, Len(p)) \subseteq OrdersOf(Front(p), Len(p) - 1) \union {Last(p).order}
<1>1. /\ Len(p) \in Nat \ {0} /\ Last(p) = p[Len(p)]
      /\ \A j \in 1 .. Len(p) - 1 : Front(p)[j] = p[j]
  BY Under
<1>2. ASSUME NEW k \in 0 .. Len(p) - 1 PROVE OrdersOf(Front(p), k) = OrdersOf(p, k)
  <2>1. \A j \in 1 .. k : j \in 1 .. Len(p) - 1
    BY <1>1
  <2> QED BY <1>1, <2>1 DEF OrdersOf
<1>3. 1 .. Len(p) = 1 .. Len(p) - 1 \union {Len(p)}
  BY <1>1
<1>4. OrdersOf(p, Len(p) - 1) \subseteq OrdersOf(p, Len(p))
  BY <1>3 DEF OrdersOf
<1>5. Last(p).stage # "permit" => Last(p).order \in OrdersOf(p, Len(p))
  BY <1>1, <1>3 DEF OrdersOf
<1>6. OrdersOf(p, Len(p)) \subseteq OrdersOf(p, Len(p) - 1) \union {Last(p).order}
  BY <1>1, <1>3 DEF OrdersOf
<1>7. Len(p) - 1 \in 0 .. Len(p) - 1
  BY <1>1
<1> QED BY <1>2, <1>4, <1>5, <1>6, <1>7

\* An order that is no longer under way can be forgotten.
LEMMA FewerOrders ==
  ASSUME NEW s \in Storage, NEW F, NEW G, NEW signers, G \subseteq F,
         StorageOK(s, F, signers)
  PROVE  StorageOK(s, G, signers)
<1>1. \A o \in Order : InUse(s, G, o) => InUse(s, F, o)
  BY DEF InUse
<1>2. \A o \in Order : EntryOK(s, F, o, signers) => EntryOK(s, G, o, signers)
  BY <1>1 DEF EntryOK
<1> QED BY <1>1, <1>2 DEF StorageOK

\* A call that begins leaves the levels under it alone.
LEMMA LevelsPushed ==
  ASSUME NEW p \in Seq(Frame), NEW s \in Storage, NEW t \in Storage, NEW f \in Frame,
         NEW time \in Nat, NEW signers, Levels(p, s, time, signers), f.before = s,
         StorageOK(t, OrdersOf(p, Len(p)) \union OrderOf(f), signers),
         FrameOK(f, t, time, signers)
  PROVE  /\ Append(p, f) \in Seq(Frame)
         /\ Levels(Append(p, f), t, time, signers)
         /\ StorageAt(Append(p, f), t, 0) = StorageAt(p, s, 0)
<1> DEFINE q == Append(p, f)
           n == Len(p)
<1>1. /\ n \in Nat /\ q \in Seq(Frame) /\ Len(q) = n + 1 /\ q[n + 1] = f
      /\ \A k \in 1 .. n : q[k] = p[k]
  OBVIOUS
<1> HIDE DEF q, n
<1>2. ASSUME NEW k \in 0 .. n PROVE StorageAt(q, t, k) = StorageAt(p, s, k)
  <2>1. CASE k = n
    BY <1>1, <2>1 DEF StorageAt, n
  <2>2. CASE k # n
    <3>1. k < n /\ k < n + 1 /\ k + 1 \in 1 .. n
      BY <1>1, <2>2
    <3> QED BY <1>1, <3>1 DEF StorageAt, n
  <2> QED BY <2>1, <2>2
<1>3. StorageAt(q, t, n + 1) = t
  BY <1>1 DEF StorageAt
<1>4. /\ \A k \in 0 .. n : OrdersOf(q, k) = OrdersOf(p, k)
      /\ OrdersOf(q, n + 1)
           = OrdersOf(p, n) \union OrderOf(f)
  BY OrdersPushed DEF q, n
<1>5. ASSUME NEW k \in 0 .. n + 1 PROVE StorageOK(StorageAt(q, t, k), OrdersOf(q, k), signers)
  <2>1. CASE k = n + 1
    BY <1>3, <1>4, <2>1 DEF n
  <2>2. CASE k # n + 1
    <3>1. k \in 0 .. n
      BY <1>1, <2>2
    <3> QED BY <1>2, <1>4, <3>1 DEF Levels, n
  <2> QED BY <2>1, <2>2
<1>6. ASSUME NEW k \in 1 .. n + 1 PROVE FrameOK(q[k], StorageAt(q, t, k), time, signers)
  <2>1. CASE k = n + 1
    BY <1>1, <1>3, <2>1
  <2>2. CASE k # n + 1
    <3>1. k \in 1 .. n /\ k \in 0 .. n
      BY <1>1, <2>2
    <3> QED BY <1>1, <1>2, <3>1 DEF Levels, n
  <2> QED BY <2>1, <2>2
<1>7. 0 \in 0 .. n
  BY <1>1
<1> QED BY <1>1, <1>2, <1>5, <1>6, <1>7 DEF Levels, q

\* A call that ends leaves them alone, too, and if it reverts there is nothing
\* more to it.
LEMMA LevelsPopped ==
  ASSUME NEW p \in Seq(Frame), NEW s \in Storage, NEW time \in Nat, NEW signers,
         p # <<>>, Levels(p, s, time, signers)
  PROVE  /\ Front(p) \in Seq(Frame)
         /\ Last(p).before \in Storage
         /\ Levels(Front(p), Last(p).before, time, signers)
         /\ StorageAt(Front(p), Last(p).before, 0) = StorageAt(p, s, 0)
<1> DEFINE q == Front(p)
           n == Len(p)
           t == Last(p).before
<1>1. /\ n \in Nat \ {0} /\ q \in Seq(Frame) /\ Len(q) = n - 1
      /\ \A k \in 1 .. n - 1 : q[k] = p[k]
      /\ Last(p) = p[n] /\ Last(p) \in Frame
  BY Under
<1>2. t \in Storage
  BY <1>1 DEF Frame
<1>3. \A k \in 0 .. n - 1 : OrdersOf(q, k) = OrdersOf(p, k)
  BY OrdersUnder
<1> HIDE DEF q, n
<1>4. ASSUME NEW k \in 0 .. n - 1 PROVE StorageAt(q, t, k) = StorageAt(p, s, k)
  <2>1. CASE k = n - 1
    <3>1. k < n /\ k + 1 = n /\ ~(k < n - 1)
      BY <1>1, <2>1
    <3> QED BY <1>1, <3>1 DEF StorageAt, n
  <2>2. CASE k # n - 1
    <3>1. k < n /\ k < n - 1 /\ k + 1 \in 1 .. n - 1
      BY <1>1, <2>2
    <3> QED BY <1>1, <3>1 DEF StorageAt, n
  <2> QED BY <2>1, <2>2
<1>5. ASSUME NEW k \in 0 .. n - 1
      PROVE  /\ StorageOK(StorageAt(q, t, k), OrdersOf(q, k), signers)
             /\ k # 0 => FrameOK(q[k], StorageAt(q, t, k), time, signers)
  <2>1. k \in 0 .. n /\ (k # 0 => k \in 1 .. n /\ k \in 1 .. n - 1)
    BY <1>1
  <2> QED BY <1>1, <1>3, <1>4, <2>1 DEF Levels, n
<1>6. 0 \in 0 .. n - 1 /\ \A k \in 1 .. n - 1 : k \in 0 .. n - 1 /\ k # 0
  BY <1>1
<1> QED BY <1>1, <1>2, <1>4, <1>5, <1>6 DEF Levels, q

\* What happens to the storage at the top of the stack is the call's at the top.
LEMMA LevelsGrown ==
  ASSUME NEW p \in Seq(Frame), NEW s \in Storage, NEW t \in Storage,
         NEW time \in Nat, NEW signers, Levels(p, s, time, signers), Follows(s, t, time),
         StorageOK(t, OrdersOf(p, Len(p)), signers)
  PROVE  /\ Levels(p, t, time, signers)
         /\ p # <<>> => StorageAt(p, t, 0) = StorageAt(p, s, 0)
<1> DEFINE n == Len(p)
<1>1. n \in Nat /\ (p # <<>> => n \in Nat \ {0}) /\ \A k \in 1 .. n : p[k] \in Frame
  OBVIOUS
<1> HIDE DEF n
<1>2. \A k \in 0 .. n : k # n => k < n
  BY <1>1
<1>3. ~(n < n)
  BY <1>1
<1>4. /\ \A k \in 0 .. n : k # n => StorageAt(p, t, k) = StorageAt(p, s, k)
      /\ StorageAt(p, t, n) = t /\ StorageAt(p, s, n) = s
  BY <1>2, <1>3 DEF StorageAt, n
<1>5. ASSUME NEW k \in 0 .. n PROVE StorageOK(StorageAt(p, t, k), OrdersOf(p, k), signers)
  BY <1>4 DEF Levels, n
<1>6. ASSUME NEW k \in 1 .. n PROVE FrameOK(p[k], StorageAt(p, t, k), time, signers)
  <2>1. p[k] \in Frame /\ p[k].before \in Storage /\ k \in 0 .. n
    BY <1>1 DEF Frame
  <2>2. CASE k = n
    <3>1. FrameOK(p[k], s, time, signers)
      BY <1>4, <2>2 DEF Levels, n
    <3>2. Follows(p[k].before, Completed(p[k], t), time)
      <4>1. Follows(p[k].before, Completed(p[k], s), time)
        BY <3>1 DEF FrameOK
      <4>2. Follows(Completed(p[k], s), Completed(p[k], t), time)
        BY <2>1, CompletedFollows
      <4>3. Completed(p[k], s) \in Storage /\ Completed(p[k], t) \in Storage
        BY <2>1, CompletedFacts
      <4> QED BY <2>1, <4>1, <4>2, <4>3, FollowsOn
    <3> QED BY <1>4, <2>2, <3>1, <3>2 DEF FrameOK
  <2>3. CASE k # n
    BY <1>4, <2>1, <2>3 DEF Levels, n
  <2> QED BY <2>2, <2>3
<1>7. p # <<>> => StorageAt(p, t, 0) = StorageAt(p, s, 0)
  <2>1. p # <<>> => 0 < Len(p)
    BY <1>1 DEF n
  <2> QED BY <2>1 DEF StorageAt
<1> QED BY <1>5, <1>6, <1>7 DEF Levels, n

-----------------------------------------------------------------------------
(* Fills.                                                                   *)

\* A fill takes no more than remains, and pays the price of what it takes.
LEMMA AmountsOfFill ==
  ASSUME NEW o \in Order, NEW sender \in Account, NEW remaining \in Nat,
         NEW isMakingAmount \in BOOLEAN, NEW amount \in Nat, now \in Nat
  PROVE  LET a == Amounts(o, sender, remaining, isMakingAmount, amount)
         IN  /\ a.making \in 0 .. remaining /\ a.taking \in Nat
             /\ a.making * LowestAt(o, now)
                  <= ToReceiver(Terms[o].fees, sender, a.taking) * Terms[o].makingAmount
<1> DEFINE a == Amounts(o, sender, remaining, isMakingAmount, amount)
           most == GetMakingAmount(o, sender, amount)
           n == Terms[o].makingAmount
           fees == Terms[o].fees
           price == Price(o)
<1>1. n \in Nat \ {0} /\ price \in Nat \ {0} /\ fees \in FeeData(Account)
      /\ LowestAt(o, now) \in Nat /\ LowestAt(o, now) <= price
  BY OrderFacts, PriceFacts, AtNow
<1>2. most \in Nat /\ price * most <= n * ToReceiver(fees, sender, amount)
  <2> DEFINE q == (amount * n) \div price
  <2>1. amount * n \in Nat
    BY <1>1
  <2>2. q \in Nat /\ price * q <= amount * n
    BY <1>1, <2>1, Quotient
  <2>3. most = MakingAmountWithFee(fees, sender, q)
    BY DEF GetMakingAmount
  <2> HIDE DEF q, n, price, fees, most
  <2>4. MakingAmountWithFee(fees, sender, q) \in Nat
        /\ price * MakingAmountWithFee(fees, sender, q) <= n * ToReceiver(fees, sender, amount)
    BY <1>1, <2>2, MakingCoversFees
  <2> QED BY <2>3, <2>4
<1>3. ASSUME NEW making \in Nat
      PROVE  /\ GetTakingAmount(o, sender, making) \in Nat
             /\ price * making <= n * ToReceiver(fees, sender, GetTakingAmount(o, sender, making))
  <2> DEFINE z == CeilDiv(making * price, n)
             w == GetTakingAmount(o, sender, making)
  <2>1. making * price \in Nat /\ making * price = price * making
    BY <1>1
  <2>2. z \in Nat /\ making * price <= n * z
    BY <1>1, <2>1, Ceiling
  <2>3. w = TakingAmountWithFee(fees, sender, z)
    BY DEF GetTakingAmount
  <2> HIDE DEF z, n, price, fees, w
  <2>4. w \in Nat /\ z <= ToReceiver(fees, sender, w)
    BY <1>1, <2>2, <2>3, TakingCoversFees
  <2>5. ToReceiver(fees, sender, w) \in Nat
    BY <1>1, <2>4, ReceiverGets
  <2>6. n * z <= n * ToReceiver(fees, sender, w)
    BY <1>1, <2>2, <2>4, <2>5, Scaled
  <2>7. n * z \in Nat /\ n * ToReceiver(fees, sender, w) \in Nat
    BY <1>1, <2>2, <2>5
  <2> QED BY <2>1, <2>2, <2>4, <2>6, <2>7 DEF w
<1>4. /\ a.making = IF isMakingAmount THEN (IF amount < remaining THEN amount ELSE remaining)
                    ELSE IF most > remaining THEN remaining ELSE most
      /\ a.taking = IF isMakingAmount \/ most > remaining
                      THEN GetTakingAmount(o, sender, a.making) ELSE amount
  BY DEF Amounts
<1> HIDE DEF a, most, n, fees, price
<1>5. a.making \in 0 .. remaining /\ a.making \in Nat
  BY <1>2, <1>4
<1>6. a.taking \in Nat /\ price * a.making <= n * ToReceiver(fees, sender, a.taking)
  <2>1. CASE isMakingAmount \/ most > remaining
    BY <1>3, <1>4, <1>5, <2>1
  <2>2. CASE ~(isMakingAmount \/ most > remaining)
    BY <1>2, <1>4, <2>2
  <2> QED BY <2>1, <2>2
<1>7. ToReceiver(fees, sender, a.taking) \in Nat
  BY <1>1, <1>6, ReceiverGets
<1>8. a.making * LowestAt(o, now) <= ToReceiver(fees, sender, a.taking) * n
  <2>1. a.making * LowestAt(o, now) <= a.making * price
    BY <1>1, <1>5, Scaled
  <2>2. /\ a.making * LowestAt(o, now) \in Nat /\ a.making * price \in Nat
        /\ a.making * price = price * a.making
        /\ n * ToReceiver(fees, sender, a.taking) \in Nat
        /\ n * ToReceiver(fees, sender, a.taking) = ToReceiver(fees, sender, a.taking) * n
    BY <1>1, <1>5, <1>7
  <2> QED BY <1>6, <2>1, <2>2
<1> QED BY <1>5, <1>6, <1>8 DEF a, n, fees

\* The storage once `o` has been invalidated with `r` of it left.
Claimed(o, r) ==
  LET t == Terms[o]
  IN  [(IF UseBitInvalidator(o)
          THEN [storage EXCEPT !.bits[t.maker] = @ \union {t.nonceOrEpoch}]
          ELSE [storage EXCEPT !.raw[t.maker][o] = Not(r)]) EXCEPT
        !.ids[t.maker] = IF t.orderId = 0 THEN @ ELSE @ \union {o}]

\* What invalidating an order does to the entries.
LEMMA EntriesOfFill ==
  ASSUME storage \in Storage, NEW o \in Order, NEW r \in 0 .. MaxAmount
  PROVE  /\ Claimed(o, r) \in Storage
         /\ Claimed(o, r).taken = storage.taken /\ Claimed(o, r).due = storage.due
         /\ Claimed(o, r).epoch = storage.epoch
         /\ \A p \in Order :
              /\ Claimed(o, r).raw[Terms[p].maker][p]
                   = IF p = o /\ ~UseBitInvalidator(o) THEN Not(r)
                     ELSE storage.raw[Terms[p].maker][p]
              /\ Claimed(o, r).bits[Terms[p].maker]
                   = IF UseBitInvalidator(o) /\ Terms[p].maker = Terms[o].maker
                       THEN storage.bits[Terms[p].maker] \union {Terms[o].nonceOrEpoch}
                       ELSE storage.bits[Terms[p].maker]
              /\ Claimed(o, r).ids[Terms[p].maker]
                   = IF Terms[o].orderId # 0 /\ Terms[p].maker = Terms[o].maker
                       THEN storage.ids[Terms[p].maker] \union {o}
                       ELSE storage.ids[Terms[p].maker]
<1> DEFINE t == Terms[o]
           raw == IF UseBitInvalidator(o) THEN storage.raw
                  ELSE [storage.raw EXCEPT ![t.maker] = [@ EXCEPT ![o] = Not(r)]]
           bits == IF UseBitInvalidator(o)
                     THEN [storage.bits EXCEPT ![t.maker] = @ \union {t.nonceOrEpoch}]
                     ELSE storage.bits
           ids == [storage.ids EXCEPT ![t.maker] = IF t.orderId = 0 THEN @ ELSE @ \union {o}]
<1>1. /\ t.maker \in Maker /\ t.nonceOrEpoch \in Nonce
      /\ Word \in Nat /\ MaxAmount \in Nat /\ MaxAmount + 1 < Word
      /\ \A p \in Order : Terms[p].maker \in Maker
  BY OrderFacts
<1>2. /\ storage.raw \in [Maker -> [Order -> 0 .. Word - 1]]
      /\ storage.bits \in [Maker -> SUBSET Nonce]
      /\ storage.ids \in [Maker -> SUBSET Order]
  BY DEF Storage
<1>3. Not(r) \in 0 .. Word - 1
  BY <1>1 DEF Not
<1>4. /\ raw \in [Maker -> [Order -> 0 .. Word - 1]]
      /\ \A p \in Order : raw[Terms[p].maker][p]
           = IF p = o /\ ~UseBitInvalidator(o) THEN Not(r) ELSE storage.raw[Terms[p].maker][p]
  <2>1. CASE UseBitInvalidator(o)
    BY <1>2, <2>1
  <2>2. CASE ~UseBitInvalidator(o)
    <3> DEFINE x == Not(r)
               y == [storage.raw[t.maker] EXCEPT ![o] = x]
    <3>1. y \in [Order -> 0 .. Word - 1] /\ y[o] = x
          /\ \A p \in Order : p # o => y[p] = storage.raw[t.maker][p]
      BY <1>1, <1>2, <1>3
    <3>2. raw = [storage.raw EXCEPT ![t.maker] = y]
      BY <2>2
    <3> HIDE DEF x, y, raw
    <3>3. raw \in [Maker -> [Order -> 0 .. Word - 1]] /\ raw[t.maker] = y
          /\ \A m \in Maker : m # t.maker => raw[m] = storage.raw[m]
      BY <1>1, <1>2, <3>1, <3>2
    <3> QED BY <1>1, <2>2, <3>1, <3>3 DEF x
  <2> QED BY <2>1, <2>2
<1>5. /\ bits \in [Maker -> SUBSET Nonce]
      /\ \A m \in Maker : bits[m] = IF UseBitInvalidator(o) /\ m = t.maker
                                      THEN storage.bits[m] \union {t.nonceOrEpoch}
                                      ELSE storage.bits[m]
  BY <1>1, <1>2
<1>6. /\ ids \in [Maker -> SUBSET Order]
      /\ \A m \in Maker : ids[m] = IF t.orderId # 0 /\ m = t.maker
                                     THEN storage.ids[m] \union {o} ELSE storage.ids[m]
  BY <1>1, <1>2
<1> DEFINE s == Claimed(o, r)
<1>7. s = [storage EXCEPT !.raw = raw, !.bits = bits, !.ids = ids]
  BY DEF Storage, Claimed
<1> HIDE DEF raw, bits, ids, s
<1>8. s \in Storage
  BY <1>4, <1>5, <1>6, <1>7 DEF Storage
<1>9. /\ s.taken = storage.taken /\ s.due = storage.due /\ s.epoch = storage.epoch
      /\ s.raw = raw /\ s.bits = bits /\ s.ids = ids
  BY <1>7 DEF Storage
<1> QED BY <1>1, <1>4, <1>5, <1>6, <1>8, <1>9 DEF s

\* What _fill has looked at when it invalidates an order: the order is alive and
\* nobody else fills one that excludes it.
LEMMA FillGuards ==
  ASSUME TypeOK, NEW o \in Order, NEW F, StorageOK(storage, F, signed),
         Remaining(o) > 0, ~Expired(o), ~WrongEpoch(o), NotInvalidated(o), OrderIdFree(o)
  PROVE  /\ Left(storage, o) = Remaining(o)
         /\ ~DeadAt(storage, o, now)
         /\ \A p \in Order : Exclusive(o, p) /\ InUse(storage, F, p) => p = o
<1> DEFINE t == Terms[o]
<1>1. storage \in Storage
  BY DEF TypeOK
<1>2. /\ t.maker \in Maker /\ t.makingAmount \in Nat \ {0} /\ t.nonceOrEpoch \in Nat
      /\ storage.raw[t.maker][o] \in 0 .. Word - 1 /\ Word \in Nat /\ MaxAmount \in Nat
      /\ MaxAmount + 1 < Word /\ storage.epoch[t.maker][t.series] \in Nat
  BY <1>1, OrderFacts, StorageFacts
<1>3. UseBitInvalidator(o) => t.nonceOrEpoch \notin storage.bits[t.maker]
  BY DEF NotInvalidated
<1>4. Left(storage, o) = Remaining(o)
  BY <1>3 DEF Left, Remaining, Raw
<1>5. ~UseBitInvalidator(o) => storage.raw[t.maker][o] # Not(0)
  <2>1. SUFFICES ASSUME ~UseBitInvalidator(o), storage.raw[t.maker][o] = Not(0) PROVE FALSE
    OBVIOUS
  <2>2. storage.raw[t.maker][o] = Word - 1 /\ storage.raw[t.maker][o] # 0
    BY <1>2, <2>1 DEF Not
  <2>3. Remaining(o) = 0
    BY <1>2, <2>1, <2>2 DEF Remaining, Raw, Not
  <2> QED BY <2>3
<1>6. t.needCheckEpochManager => ~(storage.epoch[t.maker][t.series] > t.nonceOrEpoch)
  BY <1>2 DEF WrongEpoch
<1>7. ~DeadAt(storage, o, now)
  BY <1>3, <1>5, <1>6 DEF DeadAt, Expired
<1>8. ASSUME NEW p \in Order, Exclusive(o, p), InUse(storage, F, p) PROVE p = o
  <2>1. EntryOK(storage, F, p, signed)
    BY DEF StorageOK
  <2>2. CASE UseBitInvalidator(o) /\ UseBitInvalidator(p) /\ t.nonceOrEpoch = Terms[p].nonceOrEpoch
    BY <1>3, <1>8, <2>1, <2>2 DEF EntryOK, Exclusive
  <2>3. CASE t.orderId # 0 /\ t.orderId = Terms[p].orderId
    BY <1>8, <2>1, <2>3 DEF EntryOK, Exclusive, OrderIdFree
  <2> QED BY <1>8, <2>2, <2>3 DEF Exclusive
<1> QED BY <1>4, <1>7, <1>8

\* A fill of `o` waits above `below`, would go back to `before`, and leaves the
\* storage in order and as something that may come of what it was.
Filled(o, below, before, F) ==
  \E f \in Frame :
    /\ pending' = Append(below, f)
    /\ f.order = o /\ f.stage = "invalidated" /\ f.before = before
    /\ storage' \in Storage
    /\ StorageOK(storage', F \union {o}, signed)
    /\ Follows(storage, Completed(f, storage'), now)
    /\ \A p \in Order : DeadAt(storage, p, now) => p # o /\ DeadAt(storage', p, now)

\* _fill keeps what is true of the storage, and what it adds when it completes is
\* a way to go on from where it began.
LEMMA FillKeeps ==
  ASSUME TypeOK, NEW o \in Order, NEW sender \in Account, NEW remaining,
         NEW isMakingAmount \in BOOLEAN, NEW amount \in 1 .. MaxAmount,
         NEW below, NEW before \in Storage, NEW F, StorageOK(storage, F, signed),
         o \in signed, remaining = Remaining(o), remaining > 0,
         Fill(o, sender, remaining, isMakingAmount, amount, below, before)
  PROVE  Filled(o, below, before, F)
<1> DEFINE t == Terms[o]
           a == Amounts(o, sender, remaining, isMakingAmount, amount)
           r == remaining - a.making
           f == [order |-> o, sender |-> sender, stage |-> "invalidated",
                 remaining |-> remaining, making |-> a.making, taking |-> a.taking,
                 before |-> before]
           n == t.makingAmount
           price == LowestAt(o, now)
           owed == ToReceiver(t.fees, sender, a.taking)
<1>1. storage \in Storage /\ now \in Nat /\ amount \in Nat /\ MaxAmount \in Nat /\ Word \in Nat
      /\ MaxAmount + 1 < Word
  BY OrderFacts, BoundsAssumption DEF TypeOK
<1>2. /\ Left(storage, o) = remaining
      /\ ~DeadAt(storage, o, now)
      /\ \A p \in Order : Exclusive(o, p) /\ InUse(storage, F, p) => p = o
  BY FillGuards DEF Fill
<1>3. \A p \in Order : EntryOK(storage, F, p, signed)
  BY DEF StorageOK
<1>4. /\ n \in 1 .. MaxAmount /\ price \in Nat /\ storage.taken[o] \in Nat
      /\ remaining \in Nat /\ remaining <= n
  <2>1. Left(storage, o) \in Nat /\ storage.taken[o] \in Nat /\ n \in 1 .. MaxAmount
        /\ price \in Nat
    BY <1>1, StorageFacts, OrderFacts, PriceFacts
  <2>2. storage.taken[o] + Left(storage, o) <= n
    BY <1>3 DEF EntryOK
  <2> QED BY <1>1, <1>2, <2>1, <2>2
<1>5. /\ a.making \in 0 .. remaining /\ a.taking \in Nat
      /\ a.making * price <= owed * n
  BY <1>1, <1>4, AmountsOfFill
<1>6. a.making > 0 /\ pending' = Append(below, f)
  BY DEF Fill
<1> HIDE DEF a
<1>7. r \in 0 .. MaxAmount /\ r \in Nat /\ r < n /\ r + a.making = remaining
      /\ a.making \in Nat /\ a.making \in 0 .. MaxAmount /\ remaining \in 0 .. MaxAmount
  BY <1>1, <1>4, <1>5, <1>6
<1>8. f \in Frame
  BY <1>5, <1>7 DEF Frame
<1>9. /\ storage' \in Storage
      /\ storage'.taken = storage.taken /\ storage'.due = storage.due
      /\ storage'.epoch = storage.epoch
      /\ \A p \in Order :
           /\ storage'.raw[Terms[p].maker][p]
                = IF p = o /\ ~UseBitInvalidator(o) THEN Not(r)
                  ELSE storage.raw[Terms[p].maker][p]
           /\ storage'.bits[Terms[p].maker]
                = IF UseBitInvalidator(o) /\ Terms[p].maker = Terms[o].maker
                    THEN storage.bits[Terms[p].maker] \union {Terms[o].nonceOrEpoch}
                    ELSE storage.bits[Terms[p].maker]
           /\ storage'.ids[Terms[p].maker]
                = IF Terms[o].orderId # 0 /\ Terms[p].maker = Terms[o].maker
                    THEN storage.ids[Terms[p].maker] \union {o}
                    ELSE storage.ids[Terms[p].maker]
  <2>1. storage' = Claimed(o, r)
    BY DEF Fill, Invalidated, Claimed, a
  <2> HIDE DEF r
  <2>2. r \in 0 .. MaxAmount
    BY <1>7
  <2>3. storage \in Storage
    BY <1>1
  <2> DEFINE c == Claimed(o, r)
  <2>4. /\ c \in Storage
        /\ c.taken = storage.taken /\ c.due = storage.due /\ c.epoch = storage.epoch
    BY <2>2, <2>3, EntriesOfFill
  <2>5. ASSUME NEW p \in Order
        PROVE c.raw[Terms[p].maker][p]
                = IF p = o /\ ~UseBitInvalidator(o) THEN Not(r)
                  ELSE storage.raw[Terms[p].maker][p]
    BY <2>2, <2>3, EntriesOfFill
  <2>6. ASSUME NEW p \in Order
        PROVE c.bits[Terms[p].maker]
                = IF UseBitInvalidator(o) /\ Terms[p].maker = Terms[o].maker
                    THEN storage.bits[Terms[p].maker] \union {Terms[o].nonceOrEpoch}
                    ELSE storage.bits[Terms[p].maker]
    BY <2>2, <2>3, EntriesOfFill
  <2>7. ASSUME NEW p \in Order
        PROVE c.ids[Terms[p].maker]
                = IF Terms[o].orderId # 0 /\ Terms[p].maker = Terms[o].maker
                    THEN storage.ids[Terms[p].maker] \union {o}
                    ELSE storage.ids[Terms[p].maker]
    BY <2>2, <2>3, EntriesOfFill
  <2>8. storage' = c
    BY <2>1
  <2> HIDE DEF c
  <2> QED BY <2>4, <2>5, <2>6, <2>7, <2>8
<1>10. Left(storage', o) <= r
  <2>1. CASE UseBitInvalidator(o)
    <3>1. t.nonceOrEpoch \in storage'.bits[t.maker]
      BY <1>9, <2>1
    <3>2. Left(storage', o) = 0
      BY <2>1, <3>1 DEF Left
    <3> QED BY <1>7, <3>2
  <2>2. CASE ~UseBitInvalidator(o)
    <3>1. storage'.raw[t.maker][o] = Word - 1 - r
      BY <1>9, <2>2 DEF Not
    <3>2. Word - 1 - r # 0 /\ Word - 1 - (Word - 1 - r) = r
      BY <1>1, <1>4, <1>7
    <3> QED BY <1>7, <2>2, <3>1, <3>2 DEF Left, Not
  <2> QED BY <2>1, <2>2
<1>11. ASSUME NEW p \in Order, p # o
       PROVE  /\ Left(storage', p) = Left(storage, p) \/ Left(storage', p) = 0
              /\ DeadAt(storage, p, now) => DeadAt(storage', p, now)
  <2>1. /\ storage'.raw[Terms[p].maker][p] = storage.raw[Terms[p].maker][p]
        /\ storage.bits[Terms[p].maker] \subseteq storage'.bits[Terms[p].maker]
        /\ storage'.epoch = storage.epoch
    BY <1>9, <1>11
  <2>2. Left(storage', p) = Left(storage, p) \/ Left(storage', p) = 0
    BY <2>1 DEF Left
  <2>3. DeadAt(storage, p, now) => DeadAt(storage', p, now)
    BY <2>1 DEF DeadAt
  <2> QED BY <2>2, <2>3
<1>12. ASSUME NEW p \in Order PROVE EntryOK(storage', F \union {o}, p, signed)
  <2>1. /\ storage'.taken[p] \in Nat /\ Left(storage, p) \in Nat /\ Left(storage', p) \in Nat
        /\ storage'.taken[p] = storage.taken[p] /\ Terms[p].makingAmount \in Nat
    BY <1>1, <1>9, StorageFacts, OrderFacts
  <2>2. CASE p = o
    <3>1. storage'.taken[o] + Left(storage', o) <= n
      <4>1. storage.taken[o] + remaining <= n
        BY <1>2, <1>3 DEF EntryOK
      <4> QED BY <1>4, <1>7, <1>10, <2>1, <2>2, <4>1
    <3>2. /\ UseBitInvalidator(o) => t.nonceOrEpoch \in storage'.bits[t.maker]
          /\ t.orderId # 0 => o \in storage'.ids[t.maker]
      BY <1>9
    <3> QED BY <2>2, <3>1, <3>2 DEF EntryOK
  <2>3. CASE p # o
    <3>1. EntryOK(storage, F, p, signed)
      BY <1>3
    <3>2. InUse(storage', F \union {o}, p) => InUse(storage, F, p)
      BY <2>1, <2>3 DEF InUse
    <3>3. storage'.taken[p] + Left(storage', p) <= Terms[p].makingAmount
      BY <1>11, <2>1, <2>3, <3>1 DEF EntryOK
    <3>4. Left(storage', p) \notin {0, Terms[p].makingAmount} => p \in signed
      BY <1>11, <2>3, <3>1 DEF EntryOK
    <3>5. /\ storage.bits[Terms[p].maker] \subseteq storage'.bits[Terms[p].maker]
          /\ storage.ids[Terms[p].maker] \subseteq storage'.ids[Terms[p].maker]
      BY <1>9
    <3> QED BY <3>1, <3>2, <3>3, <3>4, <3>5 DEF EntryOK
  <2> QED BY <2>2, <2>3
<1>13. ASSUME NEW p \in Order, NEW q \in Order, Exclusive(p, q),
              InUse(storage', F \union {o}, p), InUse(storage', F \union {o}, q)
       PROVE  p = q
  <2>1. /\ p # o => InUse(storage, F, p)
        /\ q # o => InUse(storage, F, q)
    BY <1>9, <1>13 DEF InUse
  <2>2. Exclusive(q, p)
    BY <1>13 DEF Exclusive
  <2> QED BY <1>2, <1>13, <2>1, <2>2 DEF StorageOK
<1>14. StorageOK(storage', F \union {o}, signed)
  BY <1>12, <1>13 DEF StorageOK
<1>15. ASSUME NEW p \in Order PROVE FollowsFor(storage, Completed(f, storage'), p, now)
  <2> DEFINE c == Completed(f, storage')
  <2>1. /\ c \in Storage /\ c.raw = storage'.raw /\ c.bits = storage'.bits
        /\ c.epoch = storage'.epoch
        /\ c.taken[p] = storage.taken[p] + IF p = o THEN a.making ELSE 0
        /\ c.due[p] = storage.due[p] + IF p = o THEN owed ELSE 0
    <3> DEFINE mine == p = f.order /\ f.stage = "invalidated"
    <3>1. /\ c \in Storage /\ c.raw = storage'.raw /\ c.bits = storage'.bits
          /\ c.epoch = storage'.epoch
          /\ c.taken[p] = storage'.taken[p] + IF p = f.order /\ f.stage = "invalidated"
                                                THEN f.making ELSE 0
          /\ c.due[p] = storage'.due[p] + IF p = f.order /\ f.stage # "permit"
                          THEN ToReceiver(Terms[p].fees, f.sender, f.taking) ELSE 0
      <4> HIDE DEF f
      <4> QED BY <1>8, <1>9, CompletedFacts
    <3>2. /\ f.order = o /\ f.stage = "invalidated" /\ f.making = a.making
          /\ f.sender = sender /\ f.taking = a.taking
      OBVIOUS
    <3> HIDE DEF c, f
    <3> QED BY <1>9, <3>1, <3>2
  <2> HIDE DEF c
  <2>2. Left(c, p) = Left(storage', p) /\ (DeadAt(c, p, now) <=> DeadAt(storage', p, now))
    BY <1>9, <2>1, SameEntries
  <2>3. /\ storage.taken[p] \in Nat /\ storage.due[p] \in Nat /\ Left(storage, p) \in Nat
        /\ Left(storage', p) \in Nat /\ LowestAt(p, now) \in Nat /\ Terms[p].makingAmount \in Nat
    BY <1>1, <1>9, StorageFacts, OrderFacts, PriceFacts
  <2>4. owed \in Nat
    BY <1>5, OrderFacts, ReceiverGets
  <2> HIDE DEF owed, n, price, r
  <2>5. CASE p = o
    <3>1. c.taken[p] + Left(c, p) <= storage.taken[p] + Left(storage, p)
      BY <1>2, <1>4, <1>7, <1>10, <2>1, <2>2, <2>3, <2>5
    <3>2. storage.taken[p] <= c.taken[p]
      BY <1>7, <2>1, <2>3, <2>5
    <3>3. storage.due[p] * n + c.taken[p] * price <= c.due[p] * n + storage.taken[p] * price
      <4>1. /\ c.taken[p] * price = storage.taken[p] * price + a.making * price
            /\ c.due[p] * n = storage.due[p] * n + owed * n
        BY <1>4, <1>7, <2>1, <2>3, <2>4, <2>5
      <4>2. /\ storage.taken[p] * price \in Nat /\ a.making * price \in Nat
            /\ storage.due[p] * n \in Nat /\ owed * n \in Nat
        BY <1>4, <1>7, <2>3, <2>4
      <4> QED BY <1>5, <4>1, <4>2
    <3>4. storage.due[p] * Terms[p].makingAmount + c.taken[p] * LowestAt(p, now)
            <= c.due[p] * Terms[p].makingAmount + storage.taken[p] * LowestAt(p, now)
      BY <2>5, <3>3 DEF n, price
    <3>5. ~DeadAt(storage, p, now)
      BY <1>2, <2>5
    <3> HIDE DEF price, n
    <3> QED BY <2>5, <3>1, <3>2, <3>4, <3>5 DEF FollowsFor, c
  <2>6. CASE p # o
    <3>1. c.taken[p] = storage.taken[p] /\ c.due[p] = storage.due[p]
      BY <2>1, <2>3, <2>6
    <3>2. /\ storage.due[p] * Terms[p].makingAmount \in Nat
          /\ storage.taken[p] * LowestAt(p, now) \in Nat
      BY <2>3
    <3>3. Left(c, p) <= Left(storage, p) /\ (DeadAt(storage, p, now) => DeadAt(c, p, now))
      BY <1>11, <2>2, <2>3, <2>6
    <3>4. storage.due[p] * Terms[p].makingAmount + c.taken[p] * LowestAt(p, now)
            <= c.due[p] * Terms[p].makingAmount + storage.taken[p] * LowestAt(p, now)
      BY <3>1, <3>2
    <3>5. c.taken[p] + Left(c, p) <= storage.taken[p] + Left(storage, p)
          /\ storage.taken[p] <= c.taken[p]
      BY <2>2, <2>3, <3>1, <3>3
    <3> QED BY <3>1, <3>3, <3>4, <3>5 DEF FollowsFor, c
  <2> QED BY <2>5, <2>6
<1>16. Follows(storage, Completed(f, storage'), now)
  BY <1>15 DEF Follows
<1>17. f.order = o /\ f.stage = "invalidated" /\ f.before = before
  OBVIOUS
<1>18. ASSUME NEW p \in Order, DeadAt(storage, p, now)
       PROVE  p # o /\ DeadAt(storage', p, now)
  BY <1>2, <1>11, <1>18
<1> HIDE DEF f
<1> QED BY <1>6, <1>8, <1>9, <1>14, <1>16, <1>17, <1>18 DEF Filled

-----------------------------------------------------------------------------
(* The steps.                                                               *)

\* What keeps its rate keeps it by going on.
LEMMA RateGrows ==
  ASSUME NEW s \in Storage, NEW t \in Storage, NEW time \in Nat,
         RateIn(s, time), Follows(s, t, time)
  PROVE  RateIn(t, time)
<1> SUFFICES ASSUME NEW o \in Order
             PROVE  t.taken[o] * LowestAt(o, time) <= t.due[o] * Terms[o].makingAmount
  BY DEF RateIn
<1>1. s.taken[o] * LowestAt(o, time) <= s.due[o] * Terms[o].makingAmount
  BY DEF RateIn
<1>2. s.due[o] * Terms[o].makingAmount + t.taken[o] * LowestAt(o, time)
        <= t.due[o] * Terms[o].makingAmount + s.taken[o] * LowestAt(o, time)
  BY DEF Follows, FollowsFor
<1>3. /\ s.taken[o] \in Nat /\ s.due[o] \in Nat /\ t.taken[o] \in Nat /\ t.due[o] \in Nat
      /\ LowestAt(o, time) \in Nat /\ Terms[o].makingAmount \in Nat
  BY StorageFacts, PriceFacts, OrderFacts
<1>4. /\ s.taken[o] * LowestAt(o, time) \in Nat /\ t.taken[o] * LowestAt(o, time) \in Nat
      /\ s.due[o] * Terms[o].makingAmount \in Nat /\ t.due[o] * Terms[o].makingAmount \in Nat
  BY <1>3
<1> QED BY <1>1, <1>2, <1>4

\* Entries may be closed at any time.
LEMMA ClosedFollows ==
  ASSUME NEW s \in Storage, NEW t \in Storage, NEW time \in Nat, NEW signers, NEW F,
         StorageOK(s, F, signers), t.taken = s.taken, t.due = s.due, t.ids = s.ids,
         \A o \in Order : /\ Left(t, o) = Left(s, o) \/ Left(t, o) = 0
                          /\ DeadAt(s, o, time) => DeadAt(t, o, time)
                          /\ s.bits[Terms[o].maker] \subseteq t.bits[Terms[o].maker]
  PROVE  /\ Follows(s, t, time)
         /\ StorageOK(t, F, signers)
<1>1. ASSUME NEW o \in Order PROVE FollowsFor(s, t, o, time) /\ EntryOK(t, F, o, signers)
  <2>1. /\ s.taken[o] \in Nat /\ s.due[o] \in Nat /\ Left(s, o) \in Nat
        /\ LowestAt(o, time) \in Nat /\ Terms[o].makingAmount \in Nat
    BY StorageFacts, PriceFacts, OrderFacts
  <2>2. s.due[o] * Terms[o].makingAmount \in Nat /\ s.taken[o] * LowestAt(o, time) \in Nat
    BY <2>1
  <2>3. EntryOK(s, F, o, signers)
    BY DEF StorageOK
  <2>4. Left(t, o) = Left(s, o) \/ Left(t, o) = 0
    OBVIOUS
  <2>5. FollowsFor(s, t, o, time)
    <3>1. t.taken[o] = s.taken[o] /\ t.due[o] = s.due[o]
      OBVIOUS
    <3>2. s.due[o] * Terms[o].makingAmount + t.taken[o] * LowestAt(o, time)
            <= t.due[o] * Terms[o].makingAmount + s.taken[o] * LowestAt(o, time)
      BY <2>2, <3>1
    <3>3. t.taken[o] + Left(t, o) <= s.taken[o] + Left(s, o) /\ s.taken[o] <= t.taken[o]
      BY <2>1, <2>4, <3>1
    <3> QED BY <3>1, <3>2, <3>3 DEF FollowsFor
  <2>6. t.taken[o] + Left(t, o) <= Terms[o].makingAmount
    BY <2>1, <2>3, <2>4 DEF EntryOK
  <2>7. Left(t, o) \notin {0, Terms[o].makingAmount} => o \in signers
    BY <2>3, <2>4 DEF EntryOK
  <2>8. EntryOK(t, F, o, signers)
    BY <2>3, <2>6, <2>7 DEF EntryOK, InUse
  <2> QED BY <2>5, <2>8
<1>2. \A o \in Order : InUse(t, F, o) => InUse(s, F, o)
  BY DEF InUse
<1> QED BY <1>1, <1>2 DEF Follows, StorageOK

\* The calls of a stack that fill an order.
FillingIn(p, o) == {k \in DOMAIN p : p[k].order = o /\ p[k].stage # "permit"}

\* Which calls fill an order, when another is made.
LEMMA FillingPushed ==
  ASSUME NEW p \in Seq(Frame), NEW f \in Frame, NEW o
  PROVE  /\ FillingIn(Append(p, f), o) \subseteq FillingIn(p, o) \union {Len(p) + 1}
         /\ f.order # o \/ f.stage = "permit" =>
              FillingIn(Append(p, f), o) \subseteq FillingIn(p, o)
<1>1. /\ Len(p) \in Nat /\ DOMAIN p = 1 .. Len(p)
      /\ DOMAIN Append(p, f) = 1 .. Len(p) + 1 /\ Append(p, f)[Len(p) + 1] = f
      /\ \A j \in 1 .. Len(p) : Append(p, f)[j] = p[j]
  OBVIOUS
<1>2. 1 .. Len(p) + 1 = 1 .. Len(p) \union {Len(p) + 1}
  BY <1>1
<1> QED BY <1>1, <1>2 DEF FillingIn

\* Which calls fill an order, when the topmost is over.
LEMMA FillingUnder ==
  ASSUME NEW p \in Seq(Frame), p # <<>>, NEW o
  PROVE  /\ FillingIn(Front(p), o) \subseteq FillingIn(p, o)
         /\ Last(p).order = o /\ Last(p).stage # "permit" => Len(p) \in FillingIn(p, o)
<1>1. /\ Len(p) \in Nat \ {0} /\ Last(p) = p[Len(p)] /\ DOMAIN p = 1 .. Len(p)
      /\ Front(p) \in Seq(Frame) /\ Len(Front(p)) = Len(p) - 1
      /\ \A j \in 1 .. Len(p) - 1 : Front(p)[j] = p[j]
  BY Under
<1>2. DOMAIN Front(p) = 1 .. Len(p) - 1
  BY <1>1
<1>3. 1 .. Len(p) - 1 \subseteq 1 .. Len(p) /\ Len(p) \in 1 .. Len(p)
  BY <1>1
<1> QED BY <1>1, <1>2, <1>3 DEF FillingIn

\* Nothing but a way to go on happens to what is seen from outside.
Onward == Follows(StorageAt(pending, storage, 0), StorageAt(pending', storage', 0), now)

\* What the dead are safe from: being filled, and being raised.
DeadLeftAlone ==
  \A o \in Order : DeadAt(storage, o, now) =>
    /\ DeadAt(storage', o, now')
    /\ FillingIn(pending', o) \subseteq FillingIn(pending, o)

\* What the levels say of the topmost.
LEMMA LevelAtTop ==
  ASSUME NEW p \in Seq(Frame), NEW s \in Storage, NEW time, NEW signers,
         Levels(p, s, time, signers)
  PROVE  StorageOK(s, OrdersOf(p, Len(p)), signers)
<1>1. Len(p) \in 0 .. Len(p) /\ ~(Len(p) < Len(p))
  OBVIOUS
<1>2. StorageAt(p, s, Len(p)) = s
  BY <1>1 DEF StorageAt
<1> QED BY <1>1, <1>2 DEF Levels

\* What the invariant says of the storage itself.
LEMMA StorageNow ==
  ASSUME IInv
  PROVE  /\ storage \in Storage /\ pending \in Seq(Frame) /\ now \in Nat
         /\ Len(pending) \in Nat
         /\ StorageOK(storage, OrdersOf(pending, Len(pending)), signed)
<1>1. storage \in Storage /\ pending \in Seq(Frame) /\ now \in Nat /\ Len(pending) \in Nat
  BY BoundsAssumption DEF IInv, TypeOK
<1> QED BY <1>1, LevelAtTop DEF IInv

\* Going on at the top of the stack keeps the rate.
LEMMA GrownInside ==
  ASSUME NEW p \in Seq(Frame), NEW s \in Storage, NEW t \in Storage,
         NEW time \in Nat, NEW signers, Levels(p, s, time, signers),
         RateIn(StorageAt(p, s, 0), time),
         Follows(s, t, time), StorageOK(t, OrdersOf(p, Len(p)), signers)
  PROVE  /\ Levels(p, t, time, signers) /\ RateIn(StorageAt(p, t, 0), time)
         /\ Follows(StorageAt(p, s, 0), StorageAt(p, t, 0), time)
<1>1. /\ Levels(p, t, time, signers)
      /\ p # <<>> => StorageAt(p, t, 0) = StorageAt(p, s, 0)
  BY LevelsGrown
<1>2. CASE p # <<>>
  <2>1. StorageAt(p, s, 0) \in Storage
    BY LevelFacts
  <2> QED BY <1>1, <1>2, <2>1, FollowsItself
<1>3. CASE p = <<>>
  <2>1. StorageAt(p, s, 0) = s /\ StorageAt(p, t, 0) = t
    BY <1>3 DEF StorageAt
  <2> QED BY <1>1, <2>1, RateGrows
<1> QED BY <1>2, <1>3

\* What is done to the storage between the calls of fills, or by other calls while
\* fills wait for them.
LEMMA GrownKeeps ==
  ASSUME IInv, storage' \in Storage, Follows(storage, storage', now),
         StorageOK(storage', OrdersOf(pending, Len(pending)), signed),
         UNCHANGED <<now, signed, pending>>, calls' \in 0 .. MaxCalls
  PROVE  IInv' /\ Onward /\ DeadLeftAlone
<1>1. TypeOK /\ Levels(pending, storage, now, signed) /\ RateIn(StorageAt(pending, storage, 0), now)
  BY DEF IInv
<1>2. storage \in Storage /\ pending \in Seq(Frame) /\ now \in Nat /\ Len(pending) \in Nat
  BY StorageNow
<1>3. /\ Levels(pending, storage', now, signed) /\ RateIn(StorageAt(pending, storage', 0), now)
      /\ Follows(StorageAt(pending, storage, 0), StorageAt(pending, storage', 0), now)
  BY <1>1, <1>2, GrownInside
<1>4. TypeOK'
  BY <1>1 DEF TypeOK
<1>5. DeadLeftAlone
  BY DEF DeadLeftAlone, Follows, FollowsFor
<1> QED BY <1>3, <1>4, <1>5 DEF IInv, Onward

\* BeginFill keeps the invariant.
LEMMA BeginFillKeeps ==
  ASSUME IInv, NEW o \in Order, NEW sender \in Account, NEW isMakingAmount \in BOOLEAN,
         NEW amount \in 1 .. MaxAmount, BeginFill(o, sender, isMakingAmount, amount)
  PROVE  IInv' /\ Onward /\ DeadLeftAlone
<1> DEFINE F == OrdersOf(pending, Len(pending))
<1>1. /\ storage \in Storage /\ pending \in Seq(Frame) /\ now \in Nat
      /\ StorageOK(storage, F, signed)
  BY StorageNow
<1>2. TypeOK /\ Levels(pending, storage, now, signed) /\ RateIn(StorageAt(pending, storage, 0), now)
  BY DEF IInv
<1>3. /\ Remaining(o) > 0 /\ CheckedSignature(o)
      /\ Fill(o, sender, Remaining(o), isMakingAmount, amount, pending, storage)
  BY DEF BeginFill
<1> HIDE DEF F
<1>4. o \in signed
  <2>1. Left(storage, o) = Remaining(o)
    BY <1>1, <1>2, <1>3, FillGuards DEF Fill
  <2>2. EntryOK(storage, F, o, signed)
    BY <1>1 DEF StorageOK
  <2>3. Left(storage, o) # 0
    BY <1>3, <2>1
  <2> QED BY <1>3, <2>1, <2>2, <2>3 DEF CheckedSignature, EntryOK
<1>5. PICK f \in Frame :
        /\ pending' = Append(pending, f)
        /\ f.order = o /\ f.stage = "invalidated" /\ f.before = storage
        /\ storage' \in Storage
        /\ StorageOK(storage', F \union {o}, signed)
        /\ Follows(storage, Completed(f, storage'), now)
        /\ \A p \in Order : DeadAt(storage, p, now) => p # o /\ DeadAt(storage', p, now)
  <2>1. Filled(o, pending, storage, F)
    BY <1>1, <1>2, <1>3, <1>4, FillKeeps
  <2> QED BY <2>1 DEF Filled
<1>6. FrameOK(f, storage', now, signed)
  BY <1>5 DEF FrameOK
<1>7. StorageOK(storage', F \union OrderOf(f), signed)
  <2>1. OrderOf(f) = {o}
    BY <1>5 DEF OrderOf
  <2> QED BY <1>5, <2>1
<1>8. /\ pending' \in Seq(Frame) /\ Levels(pending', storage', now, signed)
      /\ StorageAt(pending', storage', 0) = StorageAt(pending, storage, 0)
  BY <1>1, <1>2, <1>5, <1>6, <1>7, LevelsPushed DEF F
<1>9. UNCHANGED <<now, signed, calls>>
  BY <1>3 DEF Fill
<1>10. TypeOK'
  BY <1>2, <1>5, <1>8, <1>9 DEF TypeOK
<1>11. Onward
  <2>1. StorageAt(pending, storage, 0) \in Storage
    BY <1>1, LevelFacts
  <2> QED BY <1>1, <1>8, <2>1, FollowsItself DEF Onward
<1>12. DeadLeftAlone
  <2>1. ASSUME NEW p \in Order, DeadAt(storage, p, now)
        PROVE  /\ DeadAt(storage', p, now')
               /\ FillingIn(pending', p) \subseteq FillingIn(pending, p)
    <3>1. p # f.order /\ DeadAt(storage', p, now)
      BY <1>5, <2>1
    <3> QED BY <1>1, <1>5, <1>9, <3>1, FillingPushed
  <2> QED BY <2>1 DEF DeadLeftAlone
<1> QED BY <1>2, <1>8, <1>9, <1>10, <1>11, <1>12 DEF IInv, Onward

\* BeginPermit keeps the invariant.
LEMMA BeginPermitKeeps ==
  ASSUME IInv, NEW o \in Order, NEW sender \in Account, BeginPermit(o, sender)
  PROVE  IInv' /\ Onward /\ DeadLeftAlone
<1> DEFINE F == OrdersOf(pending, Len(pending))
           f == [order |-> o, sender |-> sender, stage |-> "permit", remaining |-> Remaining(o),
                 making |-> 0, taking |-> 0, before |-> storage]
<1>1. /\ storage \in Storage /\ pending \in Seq(Frame) /\ now \in Nat
      /\ StorageOK(storage, F, signed)
  BY StorageNow
<1>2. TypeOK /\ Levels(pending, storage, now, signed) /\ RateIn(StorageAt(pending, storage, 0), now)
  BY DEF IInv
<1>3. /\ Remaining(o) = Terms[o].makingAmount /\ o \in signed
      /\ pending' = Append(pending, f)
      /\ UNCHANGED <<now, signed, storage, calls>>
  BY DEF BeginPermit, CheckedSignature
<1>4. f \in Frame
  <2>1. Remaining(o) \in 0 .. MaxAmount /\ 0 \in 0 .. MaxAmount
    BY <1>3, OrderFacts
  <2> QED BY <1>1, <2>1 DEF Frame
<1>5. f.order = o /\ f.stage = "permit" /\ f.before = storage /\ f.remaining = Remaining(o)
  OBVIOUS
<1> HIDE DEF f, F
<1>6. FrameOK(f, storage, now, signed)
  <2>1. Follows(storage, storage, now)
    BY <1>1, FollowsItself
  <2> QED BY <1>3, <1>5, <2>1 DEF FrameOK, Completed
<1>7. F \union OrderOf(f) = F
  <2>1. OrderOf(f) = {}
    BY <1>5 DEF OrderOf
  <2> QED BY <2>1
<1>8. /\ pending' \in Seq(Frame) /\ Levels(pending', storage, now, signed)
      /\ StorageAt(pending', storage, 0) = StorageAt(pending, storage, 0)
  BY <1>1, <1>2, <1>3, <1>4, <1>5, <1>6, <1>7, LevelsPushed DEF F
<1>9. TypeOK'
  BY <1>2, <1>3, <1>8 DEF TypeOK
<1>10. Onward
  <2>1. StorageAt(pending, storage, 0) \in Storage
    BY <1>1, LevelFacts
  <2> QED BY <1>1, <1>3, <1>8, <2>1, FollowsItself DEF Onward
<1>11. DeadLeftAlone
  <2>1. \A p \in Order : FillingIn(pending', p) \subseteq FillingIn(pending, p)
    BY <1>1, <1>3, <1>4, <1>5, FillingPushed
  <2> QED BY <1>3, <2>1 DEF DeadLeftAlone
<1> QED BY <1>2, <1>3, <1>8, <1>9, <1>10, <1>11 DEF IInv, Onward

\* What the invariant says of the call at the top.
LEMMA TopFacts ==
  ASSUME IInv, pending # <<>>
  PROVE  /\ Top \in Frame /\ Top = Last(pending)
         /\ FrameOK(Top, storage, now, signed)
         /\ Top.before \in Storage /\ Front(pending) \in Seq(Frame)
         /\ Levels(Front(pending), Top.before, now, signed)
         /\ StorageAt(Front(pending), Top.before, 0) = StorageAt(pending, storage, 0)
         /\ OrdersOf(Front(pending), Len(Front(pending))) \subseteq OrdersOf(pending, Len(pending))
         /\ Top.stage # "permit" => Top.order \in OrdersOf(pending, Len(pending))
         /\ OrdersOf(pending, Len(pending))
              \subseteq OrdersOf(Front(pending), Len(Front(pending))) \union {Top.order}
<1>1. /\ storage \in Storage /\ pending \in Seq(Frame) /\ now \in Nat
      /\ Levels(pending, storage, now, signed)
  BY StorageNow DEF IInv
<1>2. /\ Len(pending) \in Nat \ {0} /\ Top = Last(pending) /\ Top = pending[Len(pending)]
      /\ Top \in Frame /\ Len(Front(pending)) = Len(pending) - 1
  BY <1>1, Under DEF Top
<1>3. FrameOK(Top, storage, now, signed)
  <2>1. Len(pending) \in 1 .. Len(pending) /\ ~(Len(pending) < Len(pending))
    BY <1>2
  <2>2. StorageAt(pending, storage, Len(pending)) = storage
    BY <2>1 DEF StorageAt
  <2> QED BY <1>1, <1>2, <2>1, <2>2 DEF Levels
<1>4. /\ Top.before \in Storage /\ Front(pending) \in Seq(Frame)
      /\ Levels(Front(pending), Top.before, now, signed)
      /\ StorageAt(Front(pending), Top.before, 0) = StorageAt(pending, storage, 0)
  BY <1>1, <1>2, LevelsPopped
<1> QED BY <1>1, <1>2, <1>3, <1>4, OrdersUnder

\* EndPermit keeps the invariant.
LEMMA EndPermitKeeps ==
  ASSUME IInv, NEW isMakingAmount \in BOOLEAN, NEW amount \in 1 .. MaxAmount,
         EndPermit(isMakingAmount, amount)
  PROVE  IInv' /\ Onward /\ DeadLeftAlone
<1> DEFINE F == OrdersOf(pending, Len(pending))
           G == OrdersOf(Front(pending), Len(Front(pending)))
           o == Top.order
           g == Top
<1>1. /\ storage \in Storage /\ pending \in Seq(Frame) /\ now \in Nat
      /\ StorageOK(storage, F, signed)
  BY StorageNow
<1>2. TypeOK /\ RateIn(StorageAt(pending, storage, 0), now)
  BY DEF IInv
<1>3. /\ pending # <<>> /\ g.stage = "permit"
      /\ UseBitInvalidator(o) \/ Raw(o) = 0
      /\ Fill(o, g.sender, g.remaining, isMakingAmount, amount, Front(pending), g.before)
  BY DEF EndPermit
<1>4. /\ g \in Frame /\ FrameOK(g, storage, now, signed)
      /\ g.before \in Storage /\ Front(pending) \in Seq(Frame)
      /\ Levels(Front(pending), g.before, now, signed)
      /\ StorageAt(Front(pending), g.before, 0) = StorageAt(pending, storage, 0)
      /\ G \subseteq F
  BY <1>3, TopFacts
<1> HIDE DEF F, G, g
<1>5. o \in Order /\ g.sender \in Account
  BY <1>4 DEF Frame, g
<1>6. /\ o \in signed /\ g.remaining = Terms[o].makingAmount
      /\ Follows(g.before, storage, now)
  BY <1>3, <1>4 DEF FrameOK, Completed, g
<1>7. g.remaining = Remaining(o) /\ g.remaining > 0
  <2>1. Remaining(o) = Terms[o].makingAmount
    BY <1>3 DEF Remaining
  <2>2. Terms[o].makingAmount \in Nat \ {0}
    BY <1>5, OrderFacts
  <2> QED BY <1>6, <2>1, <2>2
<1>8. StorageOK(storage, G, signed)
  BY <1>1, <1>4, FewerOrders
<1> HIDE DEF o
<1>9. PICK f \in Frame :
        /\ pending' = Append(Front(pending), f)
        /\ f.order = o /\ f.stage = "invalidated" /\ f.before = g.before
        /\ storage' \in Storage
        /\ StorageOK(storage', G \union {o}, signed)
        /\ Follows(storage, Completed(f, storage'), now)
        /\ \A p \in Order : DeadAt(storage, p, now) => p # o /\ DeadAt(storage', p, now)
  <2>1. Filled(o, Front(pending), g.before, G)
    BY <1>2, <1>3, <1>4, <1>5, <1>6, <1>7, <1>8, FillKeeps
  <2> QED BY <2>1 DEF Filled
<1>10. FrameOK(f, storage', now, signed)
  <2>1. Completed(f, storage') \in Storage
    BY <1>9, CompletedFacts
  <2>2. Follows(g.before, Completed(f, storage'), now)
    BY <1>1, <1>4, <1>6, <1>9, <2>1, FollowsOn
  <2> QED BY <1>9, <2>2 DEF FrameOK
<1>11. StorageOK(storage', G \union OrderOf(f), signed)
  <2>1. OrderOf(f) = {o}
    BY <1>9 DEF OrderOf
  <2> QED BY <1>9, <2>1
<1>12. /\ pending' \in Seq(Frame) /\ Levels(pending', storage', now, signed)
       /\ StorageAt(pending', storage', 0) = StorageAt(pending, storage, 0)
  BY <1>1, <1>4, <1>9, <1>10, <1>11, LevelsPushed DEF G
<1>13. UNCHANGED <<now, signed, calls>>
  BY <1>3 DEF Fill
<1>14. TypeOK'
  BY <1>2, <1>9, <1>12, <1>13 DEF TypeOK
<1>15. Onward
  <2>1. StorageAt(pending, storage, 0) \in Storage
    BY <1>1, LevelFacts
  <2> QED BY <1>1, <1>12, <2>1, FollowsItself DEF Onward
<1>16. DeadLeftAlone
  <2>1. ASSUME NEW p \in Order, DeadAt(storage, p, now)
        PROVE  /\ DeadAt(storage', p, now')
               /\ FillingIn(pending', p) \subseteq FillingIn(pending, p)
    <3>1. p # f.order /\ DeadAt(storage', p, now)
      BY <1>9, <2>1
    <3>2. FillingIn(pending', p) \subseteq FillingIn(Front(pending), p)
      BY <1>4, <1>9, <3>1, FillingPushed
    <3>3. FillingIn(Front(pending), p) \subseteq FillingIn(pending, p)
      BY <1>1, <1>3, FillingUnder
    <3> QED BY <1>13, <3>1, <3>2, <3>3
  <2> QED BY <2>1 DEF DeadLeftAlone
<1> QED BY <1>2, <1>12, <1>13, <1>14, <1>15, <1>16 DEF IInv, Onward

\* Transfer keeps the invariant.
LEMMA TransferKeeps ==
  ASSUME IInv, Transfer
  PROVE  IInv' /\ Onward /\ DeadLeftAlone
<1> DEFINE F == OrdersOf(pending, Len(pending))
           G == OrdersOf(Front(pending), Len(Front(pending)))
           g == Top
           f == [g EXCEPT !.stage = "transferred"]
           o == g.order
           b == g.before
           c == Completed(g, storage)
           d == Completed(f, storage')
           x == storage.taken[o] + g.making
           taken == [storage.taken EXCEPT ![o] = x]
<1>1. /\ storage \in Storage /\ pending \in Seq(Frame) /\ now \in Nat
      /\ StorageOK(storage, F, signed)
  BY StorageNow
<1>2. TypeOK /\ RateIn(StorageAt(pending, storage, 0), now)
  BY DEF IInv
<1>3. /\ pending # <<>> /\ g.stage = "invalidated"
      /\ storage' = [storage EXCEPT !.taken = taken]
      /\ pending' = Append(Front(pending), f)
      /\ UNCHANGED <<now, signed, calls>>
  BY DEF Transfer
<1>4. /\ g \in Frame /\ FrameOK(g, storage, now, signed)
      /\ b \in Storage /\ Front(pending) \in Seq(Frame)
      /\ Levels(Front(pending), b, now, signed)
      /\ StorageAt(Front(pending), b, 0) = StorageAt(pending, storage, 0)
      /\ o \in F /\ F \subseteq G \union {o} /\ G \subseteq F
  BY <1>3, TopFacts
<1> HIDE DEF F, G, g
<1>5. /\ f \in Frame /\ f.stage = "transferred" /\ f.order = o /\ f.before = b
      /\ f.making = g.making /\ f.sender = g.sender /\ f.taking = g.taking
  BY <1>4 DEF Frame
<1>6. o \in Order /\ g.making \in Nat /\ g.sender \in Account /\ g.taking \in Nat
  <2>1. o \in Order /\ g.making \in 0 .. MaxAmount /\ g.sender \in Account /\ g.taking \in Nat
    BY <1>4 DEF Frame
  <2> QED BY <2>1
<1> HIDE DEF f, o, b
<1>7. /\ taken \in [Order -> Nat] /\ taken[o] = storage.taken[o] + g.making
      /\ \A p \in Order : p # o => taken[p] = storage.taken[p]
  <2>1. storage.taken \in [Order -> Nat]
    BY <1>1 DEF Storage
  <2> QED BY <1>6, <2>1
<1> HIDE DEF taken
<1>8. /\ storage' \in Storage /\ storage'.taken = taken
      /\ storage'.raw = storage.raw /\ storage'.bits = storage.bits /\ storage'.ids = storage.ids
      /\ storage'.epoch = storage.epoch /\ storage'.due = storage.due
      /\ storage'.paused = storage.paused
  BY <1>1, <1>3, <1>7 DEF Storage
<1>9. \A p \in Order : Left(storage', p) = Left(storage, p)
  BY <1>1, <1>8, SameEntries
<1>10. /\ c \in Storage /\ c.raw = storage.raw /\ c.bits = storage.bits
       /\ c.epoch = storage.epoch
       /\ \A p \in Order :
            /\ c.taken[p] = storage.taken[p]
                 + IF p = g.order /\ g.stage = "invalidated" THEN g.making ELSE 0
            /\ c.due[p] = storage.due[p]
                 + IF p = g.order /\ g.stage # "permit"
                     THEN ToReceiver(Terms[p].fees, g.sender, g.taking) ELSE 0
  BY <1>1, <1>4, CompletedFacts
<1>11. /\ d \in Storage /\ d.raw = storage'.raw /\ d.bits = storage'.bits
       /\ d.epoch = storage'.epoch
       /\ \A p \in Order :
            /\ d.taken[p] = storage'.taken[p]
                 + IF p = f.order /\ f.stage = "invalidated" THEN f.making ELSE 0
            /\ d.due[p] = storage'.due[p]
                 + IF p = f.order /\ f.stage # "permit"
                     THEN ToReceiver(Terms[p].fees, f.sender, f.taking) ELSE 0
  BY <1>5, <1>8, CompletedFacts
<1> HIDE DEF c, d
<1>12. ASSUME NEW p \in Order PROVE c.taken[p] = d.taken[p] /\ c.due[p] = d.due[p]
  <2>1. storage.taken[p] \in Nat /\ storage.due[p] \in Nat /\ storage'.taken[p] \in Nat
    BY <1>1, <1>8, StorageFacts
  <2>2. c.due[p] = d.due[p]
    <3> DEFINE owed == ToReceiver(Terms[p].fees, g.sender, g.taking)
    <3>1. c.due[p] = storage.due[p] + IF p = o THEN owed ELSE 0
      BY <1>3, <1>10 DEF o
    <3>2. d.due[p] = storage'.due[p]
            + IF p = f.order /\ f.stage # "permit"
                THEN ToReceiver(Terms[p].fees, f.sender, f.taking) ELSE 0
      BY <1>11
    <3>3. d.due[p] = storage'.due[p] + IF p = o THEN owed ELSE 0
      BY <1>5, <3>2
    <3> HIDE DEF owed
    <3> QED BY <1>8, <3>1, <3>3
  <2>3. c.taken[p] = d.taken[p]
    <3>1. c.taken[p] = storage.taken[p] + IF p = o THEN g.making ELSE 0
      BY <1>3, <1>10 DEF o
    <3>2. d.taken[p] = storage'.taken[p] + 0
      BY <1>5, <1>11
    <3>3. storage'.taken[p] = storage.taken[p] + IF p = o THEN g.making ELSE 0
      BY <1>7, <1>8, <2>1
    <3> QED BY <2>1, <3>1, <3>2, <3>3
  <2> QED BY <2>2, <2>3
<1>13. Follows(b, c, now)
  BY <1>4 DEF FrameOK, b, c
<1>14. Follows(b, d, now)
  <2>1. \A p \in Order : Left(c, p) = Left(d, p) /\ (DeadAt(c, p, now) <=> DeadAt(d, p, now))
    BY <1>8, <1>10, <1>11, SameEntries
  <2>2. ASSUME NEW p \in Order PROVE FollowsFor(b, d, p, now)
    <3>1. FollowsFor(b, c, p, now)
      BY <1>13 DEF Follows
    <3> QED BY <1>12, <2>1, <3>1 DEF FollowsFor
  <2> QED BY <2>2 DEF Follows
<1>15. FrameOK(f, storage', now, signed)
  BY <1>5, <1>14 DEF FrameOK, d
<1>16. StorageOK(storage', F, signed)
  <2>1. ASSUME NEW p \in Order PROVE EntryOK(storage', F, p, signed)
    <3>1. EntryOK(storage, F, p, signed)
      BY <1>1 DEF StorageOK
    <3>2. /\ storage.taken[p] \in Nat /\ storage'.taken[p] \in Nat /\ Left(storage, p) \in Nat
          /\ b.taken[p] \in Nat /\ Left(b, p) \in Nat /\ Terms[p].makingAmount \in Nat
          /\ c.taken[p] \in Nat /\ Left(c, p) \in Nat
      BY <1>1, <1>4, <1>8, <1>10, StorageFacts, OrderFacts
    <3>3. storage'.taken[p] + Left(storage', p) <= Terms[p].makingAmount
      <4>1. EntryOK(b, G, p, signed)
        BY <1>4, LevelAtTop DEF StorageOK, G
      <4>2. FollowsFor(b, c, p, now)
        BY <1>13 DEF Follows
      <4>3. Left(c, p) = Left(storage, p)
        BY <1>1, <1>10, SameEntries
      <4>4. c.taken[p] = storage'.taken[p]
        <5>1. d.taken[p] = storage'.taken[p] + 0
          BY <1>5, <1>11
        <5> QED BY <1>12, <3>2, <5>1
      <4>5. c.taken[p] + Left(c, p) <= b.taken[p] + Left(b, p)
        BY <4>2 DEF FollowsFor
      <4>6. b.taken[p] + Left(b, p) <= Terms[p].makingAmount
        BY <4>1 DEF EntryOK
      <4> QED BY <1>9, <3>2, <4>3, <4>4, <4>5, <4>6
    <3>4. InUse(storage', F, p) => InUse(storage, F, p)
      BY <1>4, <1>7, <1>8 DEF InUse, o
    <3> QED BY <1>8, <1>9, <3>1, <3>3, <3>4 DEF EntryOK
  <2>2. \A p \in Order : InUse(storage', F, p) => InUse(storage, F, p)
    BY <1>4, <1>7, <1>8 DEF InUse, o
  <2> QED BY <1>1, <2>1, <2>2 DEF StorageOK
<1>17. StorageOK(storage', G \union OrderOf(f), signed)
  <2>1. G \union OrderOf(f) = F
    <3>1. OrderOf(f) = {o}
      BY <1>5 DEF OrderOf
    <3> QED BY <1>4, <3>1 DEF o
  <2> QED BY <1>16, <2>1
<1>18. /\ pending' \in Seq(Frame) /\ Levels(pending', storage', now, signed)
       /\ StorageAt(pending', storage', 0) = StorageAt(pending, storage, 0)
  BY <1>1, <1>3, <1>4, <1>5, <1>8, <1>15, <1>17, LevelsPushed DEF G, b
<1>19. TypeOK'
  BY <1>2, <1>3, <1>8, <1>18 DEF TypeOK
<1>20. Onward
  <2>1. StorageAt(pending, storage, 0) \in Storage
    BY <1>1, LevelFacts
  <2> QED BY <1>1, <1>18, <2>1, FollowsItself DEF Onward
<1>21. DeadLeftAlone
  <2>1. ASSUME NEW p \in Order PROVE FillingIn(pending', p) \subseteq FillingIn(pending, p)
    <3>1. /\ FillingIn(pending', p)
               \subseteq FillingIn(Front(pending), p) \union {Len(Front(pending)) + 1}
          /\ f.order # p => FillingIn(pending', p) \subseteq FillingIn(Front(pending), p)
      BY <1>3, <1>4, <1>5, FillingPushed
    <3>2. /\ FillingIn(Front(pending), p) \subseteq FillingIn(pending, p)
          /\ g.order = p => Len(pending) \in FillingIn(pending, p)
      BY <1>1, <1>3, <1>4, FillingUnder DEF g, Top
    <3>3. Len(Front(pending)) + 1 = Len(pending)
      BY <1>1, <1>3, Under
    <3> QED BY <1>5, <3>1, <3>2, <3>3 DEF o
  <2>2. \A p \in Order : DeadAt(storage, p, now) <=> DeadAt(storage', p, now)
    BY <1>1, <1>8, SameEntries
  <2> QED BY <1>3, <2>1, <2>2 DEF DeadLeftAlone
<1> QED BY <1>2, <1>3, <1>18, <1>19, <1>20, <1>21 DEF IInv, Onward

\* EndFill keeps the invariant.
LEMMA EndFillKeeps ==
  ASSUME IInv, EndFill
  PROVE  IInv' /\ Onward /\ DeadLeftAlone
<1> DEFINE F == OrdersOf(pending, Len(pending))
           G == OrdersOf(Front(pending), Len(Front(pending)))
           g == Top
           o == g.order
           c == Completed(g, storage)
<1>1. /\ storage \in Storage /\ pending \in Seq(Frame) /\ now \in Nat
      /\ StorageOK(storage, F, signed)
  BY StorageNow
<1>2. TypeOK /\ RateIn(StorageAt(pending, storage, 0), now)
  BY DEF IInv
<1>3. /\ pending # <<>> /\ g.stage = "transferred"
      /\ storage' = [storage EXCEPT !.due[o] = @ + ToReceiver(Terms[o].fees, g.sender, g.taking)]
      /\ pending' = Front(pending)
      /\ UNCHANGED <<now, signed, calls>>
  BY DEF EndFill
<1>4. /\ g \in Frame /\ FrameOK(g, storage, now, signed)
      /\ g.before \in Storage /\ Front(pending) \in Seq(Frame)
      /\ Levels(Front(pending), g.before, now, signed)
      /\ StorageAt(Front(pending), g.before, 0) = StorageAt(pending, storage, 0)
      /\ G \subseteq F
  BY <1>3, TopFacts
<1> HIDE DEF F, G, g
<1>5. storage' = c
  <2>1. o \in Order /\ storage.taken \in [Order -> Nat]
    BY <1>1, <1>4 DEF Frame, Storage
  <2>2. [storage.taken EXCEPT ![o] = storage.taken[o]] = storage.taken
    BY <2>1
  <2>3. c = [storage EXCEPT !.taken = [storage.taken EXCEPT ![o] = storage.taken[o]],
                            !.due[o] = @ + ToReceiver(Terms[o].fees, g.sender, g.taking)]
    BY <1>3 DEF Completed
  <2>4. [storage EXCEPT !.taken = storage.taken,
                        !.due[o] = @ + ToReceiver(Terms[o].fees, g.sender, g.taking)] = storage'
    BY <1>1, <1>3 DEF Storage
  <2> QED BY <2>2, <2>3, <2>4
<1>6. /\ c \in Storage /\ c.raw = storage.raw /\ c.bits = storage.bits /\ c.epoch = storage.epoch
      /\ \A p \in Order : c.taken[p] = storage.taken[p]
  <2>1. /\ c \in Storage /\ c.raw = storage.raw /\ c.bits = storage.bits
        /\ c.epoch = storage.epoch
        /\ \A p \in Order : c.taken[p] = storage.taken[p]
             + IF p = g.order /\ g.stage = "invalidated" THEN g.making ELSE 0
    BY <1>1, <1>4, CompletedFacts
  <2>2. \A p \in Order : storage.taken[p] \in Nat
    BY <1>1, StorageFacts
  <2> HIDE DEF c
  <2> QED BY <1>3, <2>1, <2>2
<1>7. c.ids = storage.ids
  BY <1>1, <1>3 DEF Completed, Storage
<1> HIDE DEF c, o
<1>8. Follows(g.before, c, now)
  BY <1>4 DEF FrameOK, c
<1>9. StorageOK(c, G, signed)
  <2>1. \A p \in Order : Left(c, p) = Left(storage, p)
    BY <1>1, <1>6, SameEntries
  <2>2. StorageOK(storage, G, signed)
    BY <1>1, <1>4, FewerOrders
  <2>3. \A p \in Order : InUse(c, G, p) <=> InUse(storage, G, p)
    BY <1>6 DEF InUse
  <2>4. ASSUME NEW p \in Order PROVE EntryOK(c, G, p, signed)
    <3>1. EntryOK(storage, G, p, signed)
      BY <2>2 DEF StorageOK
    <3> QED BY <1>6, <1>7, <2>1, <2>3, <3>1 DEF EntryOK
  <2> QED BY <2>2, <2>3, <2>4 DEF StorageOK
<1>10. /\ Levels(Front(pending), c, now, signed) /\ RateIn(StorageAt(Front(pending), c, 0), now)
       /\ Follows(StorageAt(Front(pending), g.before, 0), StorageAt(Front(pending), c, 0), now)
  BY <1>1, <1>2, <1>4, <1>6, <1>8, <1>9, GrownInside DEF G
<1>11. TypeOK'
  BY <1>2, <1>3, <1>4, <1>5, <1>6 DEF TypeOK
<1>12. Onward
  BY <1>3, <1>4, <1>5, <1>10 DEF Onward
<1>13. DeadLeftAlone
  <2>1. \A p \in Order : FillingIn(pending', p) \subseteq FillingIn(pending, p)
    BY <1>1, <1>3, FillingUnder
  <2>2. \A p \in Order : DeadAt(storage, p, now) <=> DeadAt(c, p, now)
    BY <1>1, <1>6, SameEntries
  <2> QED BY <1>3, <1>5, <2>1, <2>2 DEF DeadLeftAlone
<1> QED BY <1>3, <1>5, <1>10, <1>11, <1>12, <1>13 DEF IInv

\* RevertFill keeps the invariant.
LEMMA RevertFillKeeps ==
  ASSUME IInv, RevertFill
  PROVE  IInv' /\ Onward
<1>1. /\ pending # <<>> /\ storage' = Top.before /\ pending' = Front(pending)
      /\ UNCHANGED <<now, signed, calls>>
  BY DEF RevertFill
<1>2. /\ Top.before \in Storage /\ Front(pending) \in Seq(Frame)
      /\ Levels(Front(pending), Top.before, now, signed)
      /\ StorageAt(Front(pending), Top.before, 0) = StorageAt(pending, storage, 0)
  BY <1>1, TopFacts
<1>3. TypeOK'
  BY <1>1, <1>2 DEF IInv, TypeOK
<1>4. Onward
  <2>1. /\ storage \in Storage /\ pending \in Seq(Frame) /\ now \in Nat
    BY StorageNow
  <2>2. StorageAt(pending, storage, 0) \in Storage
    BY <2>1, LevelFacts
  <2> QED BY <1>1, <1>2, <2>1, <2>2, FollowsItself DEF Onward
<1> QED BY <1>1, <1>2, <1>3, <1>4 DEF IInv, Onward

\* Setting bits of a maker's is a way to go on, and keeps the invariant.
LEMMA BitsKeep ==
  ASSUME IInv, NEW caller \in Maker, NEW N \in SUBSET Nonce,
         storage' = [storage EXCEPT !.bits[caller] = @ \union N],
         UNCHANGED <<now, signed, pending>>, calls' \in 0 .. MaxCalls
  PROVE  IInv' /\ Onward /\ DeadLeftAlone
<1> DEFINE bits == [storage.bits EXCEPT ![caller] = @ \union N]
<1>1. /\ storage \in Storage /\ now \in Nat
      /\ StorageOK(storage, OrdersOf(pending, Len(pending)), signed)
  BY StorageNow
<1>2. /\ bits \in [Maker -> SUBSET Nonce]
      /\ \A m \in Maker : storage.bits[m] \subseteq bits[m]
  <2>1. storage.bits \in [Maker -> SUBSET Nonce]
    BY <1>1 DEF Storage
  <2> QED BY <2>1
<1>3. storage' = [storage EXCEPT !.bits = bits]
  BY <1>1 DEF Storage
<1> HIDE DEF bits
<1>4. /\ storage' \in Storage /\ storage'.bits = bits /\ storage'.raw = storage.raw
      /\ storage'.epoch = storage.epoch /\ storage'.taken = storage.taken
      /\ storage'.due = storage.due /\ storage'.ids = storage.ids
  BY <1>1, <1>2, <1>3 DEF Storage
<1>5. ASSUME NEW o \in Order
      PROVE  /\ Left(storage', o) = Left(storage, o) \/ Left(storage', o) = 0
             /\ DeadAt(storage, o, now) => DeadAt(storage', o, now)
             /\ storage.bits[Terms[o].maker] \subseteq storage'.bits[Terms[o].maker]
  <2>1. storage.bits[Terms[o].maker] \subseteq storage'.bits[Terms[o].maker]
    BY <1>2, <1>4, OrderFacts
  <2>2. Left(storage', o) = Left(storage, o) \/ Left(storage', o) = 0
    BY <1>4, <2>1 DEF Left
  <2>3. DeadAt(storage, o, now) => DeadAt(storage', o, now)
    BY <1>4, <2>1 DEF DeadAt
  <2> QED BY <2>1, <2>2, <2>3
<1>6. /\ Follows(storage, storage', now)
      /\ StorageOK(storage', OrdersOf(pending, Len(pending)), signed)
  BY <1>1, <1>4, <1>5, ClosedFollows
<1> QED BY <1>4, <1>6, GrownKeeps

\* So is cancelling what is left of an order.
LEMMA CancelOrderKeeps ==
  ASSUME IInv, NEW caller \in Maker, NEW p \in Order, NEW o \in Order, CancelOrder(caller, p, o)
  PROVE  IInv' /\ Onward /\ DeadLeftAlone
<1>1. /\ storage \in Storage /\ now \in Nat /\ TypeOK
      /\ StorageOK(storage, OrdersOf(pending, Len(pending)), signed)
  BY StorageNow DEF IInv
<1>2. UNCHANGED <<now, signed, pending>> /\ calls' \in 0 .. MaxCalls
  BY <1>1, BoundsAssumption DEF CancelOrder, Count, TypeOK
<1>3. CASE UseBitInvalidator(p)
  <2> DEFINE N == {Terms[p].nonceOrEpoch}
  <2>1. N \in SUBSET Nonce
    BY OrderFacts
  <2>2. storage' = [storage EXCEPT !.bits[caller] = @ \union N]
    BY <1>3 DEF CancelOrder
  <2> HIDE DEF N
  <2> QED BY <1>2, <2>1, <2>2, BitsKeep
<1>4. CASE ~UseBitInvalidator(p)
  <2> DEFINE y == [storage.raw[caller] EXCEPT ![o] = Word - 1]
             raw == [storage.raw EXCEPT ![caller] = y]
  <2>1. Word \in Nat /\ MaxAmount \in Nat /\ MaxAmount + 1 < Word
    BY OrderFacts
  <2>2. storage.raw \in [Maker -> [Order -> 0 .. Word - 1]]
    BY <1>1 DEF Storage
  <2>3. /\ y \in [Order -> 0 .. Word - 1] /\ y[o] = Word - 1
        /\ \A q \in Order : q # o => y[q] = storage.raw[caller][q]
    BY <2>1, <2>2
  <2>4. storage' = [storage EXCEPT !.raw = raw]
    BY <1>1, <1>4 DEF CancelOrder, Storage
  <2> HIDE DEF y
  <2>5. raw \in [Maker -> [Order -> 0 .. Word - 1]] /\ raw[caller] = y
        /\ \A m \in Maker : m # caller => raw[m] = storage.raw[m]
    BY <2>2, <2>3
  <2> HIDE DEF raw
  <2>6. /\ storage' \in Storage /\ storage'.raw = raw /\ storage'.bits = storage.bits
        /\ storage'.epoch = storage.epoch /\ storage'.taken = storage.taken
        /\ storage'.due = storage.due /\ storage'.ids = storage.ids
    BY <1>1, <2>4, <2>5 DEF Storage
  <2>7. ASSUME NEW q \in Order
        PROVE  /\ Left(storage', q) = Left(storage, q) \/ Left(storage', q) = 0
               /\ DeadAt(storage, q, now) => DeadAt(storage', q, now)
               /\ storage.bits[Terms[q].maker] \subseteq storage'.bits[Terms[q].maker]
    <3>1. \/ storage'.raw[Terms[q].maker][q] = storage.raw[Terms[q].maker][q]
          \/ storage'.raw[Terms[q].maker][q] = Word - 1
      BY <2>3, <2>5, <2>6, OrderFacts
    <3>2. Word - 1 # 0 /\ Not(Word - 1) = 0 /\ Not(0) = Word - 1
      BY <2>1 DEF Not
    <3>3. Left(storage', q) = Left(storage, q) \/ Left(storage', q) = 0
      <4>1. CASE storage'.raw[Terms[q].maker][q] = storage.raw[Terms[q].maker][q]
        BY <2>6, <4>1 DEF Left
      <4>2. CASE storage'.raw[Terms[q].maker][q] = Word - 1
        BY <2>6, <3>2, <4>2 DEF Left
      <4> QED BY <3>1, <4>1, <4>2
    <3>4. DeadAt(storage, q, now) => DeadAt(storage', q, now)
      BY <2>6, <3>1, <3>2 DEF DeadAt
    <3> QED BY <2>6, <3>3, <3>4
  <2>8. /\ Follows(storage, storage', now)
        /\ StorageOK(storage', OrdersOf(pending, Len(pending)), signed)
    BY <1>1, <2>6, <2>7, ClosedFollows
  <2> QED BY <1>2, <2>6, <2>8, GrownKeeps
<1> QED BY <1>3, <1>4

\* So is invalidating bits with a mask.
LEMMA BitsInvalidateKeeps ==
  ASSUME IInv, NEW caller \in Maker, NEW p \in Order, NEW others \in SUBSET Nonce,
         BitsInvalidateForOrder(caller, p, others)
  PROVE  IInv' /\ Onward /\ DeadLeftAlone
<1> DEFINE N == {Terms[p].nonceOrEpoch} \union others
<1>1. TypeOK
  BY DEF IInv
<1>2. UNCHANGED <<now, signed, pending>> /\ calls' \in 0 .. MaxCalls
  BY <1>1, BoundsAssumption DEF BitsInvalidateForOrder, Count, TypeOK
<1>3. N \in SUBSET Nonce
  BY OrderFacts
<1>4. storage' = [storage EXCEPT !.bits[caller] = @ \union N]
  <2>1. storage' = [storage EXCEPT !.bits[caller] =
                      @ \union {Terms[p].nonceOrEpoch} \union others]
    BY DEF BitsInvalidateForOrder
  <2>2. storage.bits[caller] \union {Terms[p].nonceOrEpoch} \union others
          = storage.bits[caller] \union N
    OBVIOUS
  <2> QED BY <2>1, <2>2
<1> HIDE DEF N
<1> QED BY <1>2, <1>3, <1>4, BitsKeep

\* So is advancing the epoch of a series.
LEMMA AdvanceEpochKeeps ==
  ASSUME IInv, NEW caller \in Maker, NEW series \in Series, NEW amount \in 1 .. MaxEpoch,
         AdvanceEpoch(caller, series, amount)
  PROVE  IInv' /\ Onward /\ DeadLeftAlone
<1> DEFINE x == storage.epoch[caller][series] + amount
           y == [storage.epoch[caller] EXCEPT ![series] = x]
           epoch == [storage.epoch EXCEPT ![caller] = y]
<1>1. /\ storage \in Storage /\ now \in Nat /\ TypeOK
      /\ StorageOK(storage, OrdersOf(pending, Len(pending)), signed)
  BY StorageNow DEF IInv
<1>2. UNCHANGED <<now, signed, pending>> /\ calls' \in 0 .. MaxCalls
  BY <1>1, BoundsAssumption DEF AdvanceEpoch, Count, TypeOK
<1>3. storage.epoch \in [Maker -> [Series -> Nat]] /\ amount \in Nat
  BY <1>1, BoundsAssumption DEF Storage
<1>4. /\ x \in Nat /\ x >= storage.epoch[caller][series]
      /\ storage.epoch[caller] \in [Series -> Nat]
  BY <1>3
<1>5. storage' = [storage EXCEPT !.epoch = epoch]
  BY <1>1 DEF AdvanceEpoch, Storage
<1> HIDE DEF x
<1>6. y \in [Series -> Nat] /\ \A s \in Series : y[s] >= storage.epoch[caller][s]
  BY <1>4
<1> HIDE DEF y
<1>7. /\ epoch \in [Maker -> [Series -> Nat]]
      /\ \A m \in Maker, s \in Series : epoch[m][s] >= storage.epoch[m][s]
  BY <1>3, <1>6
<1> HIDE DEF epoch
<1>8. /\ storage' \in Storage /\ storage'.raw = storage.raw /\ storage'.bits = storage.bits
      /\ storage'.epoch = epoch /\ storage'.taken = storage.taken
      /\ storage'.due = storage.due /\ storage'.ids = storage.ids
  BY <1>1, <1>5, <1>7 DEF Storage
<1>9. ASSUME NEW o \in Order
      PROVE  /\ Left(storage', o) = Left(storage, o) \/ Left(storage', o) = 0
             /\ DeadAt(storage, o, now) => DeadAt(storage', o, now)
             /\ storage.bits[Terms[o].maker] \subseteq storage'.bits[Terms[o].maker]
  <2>1. Left(storage', o) = Left(storage, o)
    BY <1>8 DEF Left
  <2>2. /\ Terms[o].maker \in Maker /\ Terms[o].series \in Series
        /\ Terms[o].nonceOrEpoch \in Nat
    BY OrderFacts
  <2>3. storage.epoch[Terms[o].maker][Terms[o].series] > Terms[o].nonceOrEpoch
          => storage'.epoch[Terms[o].maker][Terms[o].series] > Terms[o].nonceOrEpoch
    BY <1>3, <1>7, <1>8, <2>2
  <2>4. DeadAt(storage, o, now) => DeadAt(storage', o, now)
    BY <1>8, <2>3 DEF DeadAt
  <2> QED BY <1>8, <2>1, <2>4
<1>10. /\ Follows(storage, storage', now)
       /\ StorageOK(storage', OrdersOf(pending, Len(pending)), signed)
  BY <1>1, <1>8, <1>9, ClosedFollows
<1> QED BY <1>2, <1>8, <1>10, GrownKeeps

\* So is pausing the contract.
LEMMA PauseKeeps ==
  ASSUME IInv, Pause
  PROVE  IInv' /\ Onward /\ DeadLeftAlone
<1>1. /\ storage \in Storage /\ now \in Nat /\ TypeOK
      /\ StorageOK(storage, OrdersOf(pending, Len(pending)), signed)
  BY StorageNow DEF IInv
<1>2. UNCHANGED <<now, signed, pending>> /\ calls' \in 0 .. MaxCalls
  BY <1>1 DEF Pause, TypeOK
<1>3. /\ storage' \in Storage /\ storage'.raw = storage.raw /\ storage'.bits = storage.bits
      /\ storage'.epoch = storage.epoch /\ storage'.taken = storage.taken
      /\ storage'.due = storage.due /\ storage'.ids = storage.ids
  BY <1>1 DEF Pause, Storage
<1>4. \A o \in Order : /\ Left(storage', o) = Left(storage, o)
                       /\ DeadAt(storage, o, now) <=> DeadAt(storage', o, now)
  BY <1>1, <1>3, SameEntries
<1>5. /\ Follows(storage, storage', now)
      /\ StorageOK(storage', OrdersOf(pending, Len(pending)), signed)
  BY <1>1, <1>3, <1>4, ClosedFollows
<1> QED BY <1>2, <1>3, <1>5, GrownKeeps

\* The lowest price never rises.
LEMMA LowestFalls ==
  ASSUME NEW o \in Order, NEW time \in Nat
  PROVE  LowestAt(o, time + 1) <= LowestAt(o, time)
<1> DEFINE a == Terms[o].auction
<1>1. CASE a = NoAuction
  BY <1>1, OrderFacts DEF LowestAt, PriceAt
<1>2. CASE a # NoAuction
  <2>1. a \in Auction /\ a.startTime \in Nat
    BY <1>2, OrderFacts DEF Auction
  <2> DEFINE first == AuctionTakingAmount(a, a.startTime)
             p == AuctionTakingAmount(a, time)
             q == AuctionTakingAmount(a, time + 1)
  <2>2. CurrentTime(a, time) <= CurrentTime(a, time + 1)
    BY <2>1, AuctionClock
  <2>3. CurrentTime(a, a.startTime) <= CurrentTime(a, time)
    <3>1. CurrentTime(a, time) \in a.startTime .. a.endTime
      BY <2>1, AuctionClock
    <3>2. CurrentTime(a, a.startTime) = a.startTime
      BY <2>1 DEF CurrentTime, Auction
    <3> QED BY <2>1, <3>1, <3>2 DEF Auction
  <2>4. /\ p \in Nat \ {0} /\ q \in Nat \ {0} /\ first \in Nat \ {0}
        /\ a.takingAmountEnd <= a.takingAmountStart => q <= p
        /\ a.takingAmountStart <= a.takingAmountEnd => first <= p
    BY <2>1, <2>2, <2>3, AuctionMoves
  <2>5. a.takingAmountEnd <= a.takingAmountStart \/ a.takingAmountStart <= a.takingAmountEnd
    BY <2>1 DEF Auction
  <2>6. /\ LowestAt(o, time) = IF first < p THEN first ELSE p
        /\ LowestAt(o, time + 1) = IF first < q THEN first ELSE q
    BY <1>2 DEF LowestAt, PriceAt
  <2> HIDE DEF first, p, q
  <2> QED BY <2>4, <2>5, <2>6
<1> QED BY <1>1, <1>2

\* The clock keeps the invariant.
LEMMA TickKeeps ==
  ASSUME IInv, Tick
  PROVE  IInv' /\ Onward /\ DeadLeftAlone
<1>1. /\ storage \in Storage /\ now \in Nat /\ TypeOK
      /\ StorageOK(storage, OrdersOf(pending, Len(pending)), signed)
  BY StorageNow DEF IInv
<1>2. /\ pending = <<>> /\ now' = now + 1 /\ now < Horizon
      /\ UNCHANGED <<signed, storage, pending, calls>>
  BY DEF Tick
<1>3. StorageAt(pending, storage, 0) = storage /\ Len(pending) = 0
  BY <1>2 DEF StorageAt
<1>4. Levels(pending, storage, now', signed)
  BY <1>1, <1>3 DEF Levels
<1>5. RateIn(storage, now')
  <2>1. SUFFICES ASSUME NEW o \in Order
                 PROVE  storage.taken[o] * LowestAt(o, now + 1)
                          <= storage.due[o] * Terms[o].makingAmount
    BY <1>2 DEF RateIn
  <2>2. storage.taken[o] * LowestAt(o, now) <= storage.due[o] * Terms[o].makingAmount
    BY <1>3 DEF IInv, RateIn
  <2>3. /\ storage.taken[o] \in Nat /\ storage.due[o] \in Nat /\ Terms[o].makingAmount \in Nat
        /\ LowestAt(o, now) \in Nat /\ LowestAt(o, now + 1) \in Nat
    <3>1. now + 1 \in Nat
      BY <1>1
    <3> QED BY <1>1, <3>1, StorageFacts, OrderFacts, PriceFacts
  <2>4. storage.taken[o] * LowestAt(o, now + 1) <= storage.taken[o] * LowestAt(o, now)
    BY <1>1, <2>3, LowestFalls, Scaled
  <2>5. /\ storage.taken[o] * LowestAt(o, now + 1) \in Nat
        /\ storage.taken[o] * LowestAt(o, now) \in Nat
        /\ storage.due[o] * Terms[o].makingAmount \in Nat
    BY <2>3
  <2> QED BY <2>2, <2>4, <2>5
<1>6. TypeOK'
  BY <1>1, <1>2, BoundsAssumption DEF TypeOK
<1>7. Onward
  BY <1>1, <1>2, <1>3, FollowsItself DEF Onward
<1>8. DeadLeftAlone
  <2>1. ASSUME NEW o \in Order, DeadAt(storage, o, now) PROVE DeadAt(storage, o, now + 1)
    <3>1. Terms[o].expiration \in Nat
      BY OrderFacts
    <3>2. Terms[o].expiration < now => Terms[o].expiration < now + 1
      BY <1>1, <3>1
    <3> QED BY <2>1, <3>2 DEF DeadAt
  <2> QED BY <1>2, <2>1 DEF DeadLeftAlone
<1> QED BY <1>2, <1>3, <1>4, <1>5, <1>6, <1>7, <1>8 DEF IInv

-----------------------------------------------------------------------------
(* The theorems.                                                            *)

\* With no orders touched and no calls under way the invariant holds.
LEMMA InitIInv == Init => IInv
<1> SUFFICES ASSUME Init PROVE IInv
  OBVIOUS
<1>1. /\ now = 1 /\ signed \in SUBSET Order /\ pending = <<>> /\ calls = 0
      /\ storage = [raw    |-> [a \in Maker |-> [o \in Order |-> 0]],
                    bits   |-> [a \in Maker |-> {}],
                    epoch  |-> [a \in Maker |-> [s \in Series |-> 0]],
                    ids    |-> [a \in Maker |-> {}],
                    paused |-> FALSE,
                    taken  |-> [o \in Order |-> 0],
                    due    |-> [o \in Order |-> 0]]
  BY DEF Init
<1>2. storage \in Storage
  <2>1. Order = {} \/ 0 \in 0 .. Word - 1
    <3>1. ASSUME NEW o \in Order PROVE 0 \in 0 .. Word - 1
      BY OrderFacts
    <3> QED BY <3>1
  <2>2. [o \in Order |-> 0] \in [Order -> 0 .. Word - 1]
    BY <2>1
  <2> QED BY <1>1, <2>2 DEF Storage
<1>3. TypeOK
  <2>1. pending \in Seq(Frame)
    BY <1>1
  <2> QED BY <1>1, <1>2, <2>1, BoundsAssumption DEF TypeOK
<1>4. Len(pending) = 0 /\ StorageAt(pending, storage, 0) = storage /\ OrdersOf(pending, 0) = {}
  BY <1>1 DEF StorageAt, OrdersOf
<1>5. ASSUME NEW o \in Order
      PROVE  /\ storage.taken[o] = 0 /\ storage.due[o] = 0
             /\ Left(storage, o) = Terms[o].makingAmount
             /\ Terms[o].makingAmount \in Nat /\ LowestAt(o, now) \in Nat
  <2>1. /\ storage.taken[o] = 0 /\ storage.due[o] = 0
        /\ storage.raw[Terms[o].maker][o] = 0 /\ storage.bits[Terms[o].maker] = {}
    BY <1>1, OrderFacts
  <2>2. Terms[o].makingAmount \in Nat /\ LowestAt(o, now) \in Nat
    BY <1>1, OrderFacts, PriceFacts
  <2> QED BY <2>1, <2>2 DEF Left
<1>6. StorageOK(storage, {}, signed)
  <2>1. ASSUME NEW o \in Order PROVE ~InUse(storage, {}, o) /\ EntryOK(storage, {}, o, signed)
    BY <1>5 DEF InUse, EntryOK
  <2> QED BY <2>1 DEF StorageOK
<1>7. Levels(pending, storage, now, signed)
  <2>1. /\ 0 .. Len(pending) = {0} /\ 1 .. Len(pending) = {}
    BY <1>4
  <2>2. \A k \in {0} : StorageOK(StorageAt(pending, storage, k), OrdersOf(pending, k), signed)
    BY <1>4, <1>6
  <2> QED BY <2>1, <2>2 DEF Levels
<1>8. RateIn(storage, now)
  BY <1>5 DEF RateIn
<1> QED BY <1>3, <1>4, <1>7, <1>8 DEF IInv

\* Every step keeps the invariant, is a way to go on as seen from outside, and
\* leaves the dead alone unless it reverts a call.
LEMMA NextKeeps ==
  ASSUME IInv, [Next]_vars
  PROVE  IInv' /\ Onward /\ (DeadLeftAlone \/ RevertFill)
<1>1. CASE UNCHANGED vars
  <2>1. storage \in Storage /\ pending \in Seq(Frame) /\ now \in Nat
    BY StorageNow
  <2>2. UNCHANGED <<now, signed, storage, pending, calls>>
    BY <1>1 DEF vars
  <2>3. IInv'
    BY <2>2 DEF IInv, TypeOK
  <2>4. StorageAt(pending, storage, 0) \in Storage
    BY <2>1, LevelFacts
  <2>5. Onward
    BY <2>1, <2>2, <2>4, FollowsItself DEF Onward
  <2>6. DeadLeftAlone
    BY <2>2 DEF DeadLeftAlone
  <2> QED BY <2>3, <2>5, <2>6
<1>2. ASSUME NEW o \in Order, NEW sender \in Account, BeginPermit(o, sender)
      PROVE  IInv' /\ Onward /\ DeadLeftAlone
  BY <1>2, BeginPermitKeeps
<1>3. ASSUME NEW o \in Order, NEW sender \in Account, NEW isMakingAmount \in BOOLEAN,
             NEW amount \in 1 .. MaxAmount, BeginFill(o, sender, isMakingAmount, amount)
      PROVE  IInv' /\ Onward /\ DeadLeftAlone
  BY <1>3, BeginFillKeeps
<1>4. ASSUME NEW isMakingAmount \in BOOLEAN, NEW amount \in 1 .. MaxAmount,
             EndPermit(isMakingAmount, amount)
      PROVE  IInv' /\ Onward /\ DeadLeftAlone
  BY <1>4, EndPermitKeeps
<1>5. CASE Transfer
  BY <1>5, TransferKeeps
<1>6. CASE EndFill
  BY <1>6, EndFillKeeps
<1>7. CASE RevertFill
  BY <1>7, RevertFillKeeps
<1>8. ASSUME NEW caller \in Maker, NEW p \in Order, NEW o \in Order, CancelOrder(caller, p, o)
      PROVE  IInv' /\ Onward /\ DeadLeftAlone
  BY <1>8, CancelOrderKeeps
<1>9. ASSUME NEW caller \in Maker, NEW p \in Order, NEW others \in SUBSET Nonce,
             BitsInvalidateForOrder(caller, p, others)
      PROVE  IInv' /\ Onward /\ DeadLeftAlone
  BY <1>9, BitsInvalidateKeeps
<1>10. ASSUME NEW caller \in Maker, NEW series \in Series, NEW amount \in 1 .. MaxEpoch,
              AdvanceEpoch(caller, series, amount)
       PROVE  IInv' /\ Onward /\ DeadLeftAlone
  BY <1>10, AdvanceEpochKeeps
<1>11. CASE Pause
  BY <1>11, PauseKeeps
<1>12. CASE Tick
  BY <1>12, TickKeeps
<1> QED BY <1>1, <1>2, <1>3, <1>4, <1>5, <1>6, <1>7, <1>8, <1>9, <1>10, <1>11, <1>12 DEF Next

\* The invariant holds in every reachable state.
THEOREM Inductive == Spec => []IInv
<1>1. Init => IInv
  BY InitIInv
<1>2. IInv /\ [Next]_vars => IInv'
  BY NextKeeps
<1> QED BY <1>1, <1>2, PTL DEF Spec

\* Entries, frames and clocks are what they should be: no remainder wraps around
\* a word and no call takes more than an order is for.
THEOREM TypeCorrect == Spec => []TypeOK
<1>1. IInv => TypeOK
  BY DEF IInv
<1> QED BY <1>1, Inductive, PTL

\* What is in use at the top of the stack.
LEMMA UsedFacts ==
  ASSUME IInv, NEW o \in Order
  PROVE  /\ Used(o) <=> InUse(storage, OrdersOf(pending, Len(pending)), o)
         /\ Filling(o) = FillingIn(pending, o)
<1>1. pending \in Seq(Frame) /\ DOMAIN pending = 1 .. Len(pending)
  BY StorageNow
<1>2. Filling(o) # {} <=> o \in OrdersOf(pending, Len(pending))
  BY <1>1 DEF Filling, OrdersOf
<1> QED BY <1>2 DEF Used, InUse, Filling, FillingIn

\* OnlySigned, for any orders and fills nested to any depth.
THEOREM MakersConsent == Spec => []OnlySigned
<1>1. ASSUME IInv PROVE OnlySigned
  BY <1>1, StorageNow, UsedFacts DEF OnlySigned, StorageOK, EntryOK
<1> QED BY <1>1, Inductive, PTL

\* WithinOrder, for any orders and fills nested to any depth.
THEOREM NeverOverfilled == Spec => []WithinOrder
<1>1. ASSUME IInv PROVE WithinOrder
  <2>1. SUFFICES ASSUME NEW o \in Order
                 PROVE  /\ storage.taken[o] <= Terms[o].makingAmount
                        /\ ~UseBitInvalidator(o) =>
                             storage.taken[o] + Remaining(o) <= Terms[o].makingAmount
    BY DEF WithinOrder
  <2>2. /\ storage.taken[o] \in Nat /\ Left(storage, o) \in Nat
        /\ Terms[o].makingAmount \in Nat
    BY <1>1, StorageNow, StorageFacts, OrderFacts
  <2>3. storage.taken[o] + Left(storage, o) <= Terms[o].makingAmount
    BY <1>1, StorageNow DEF StorageOK, EntryOK
  <2>4. ~UseBitInvalidator(o) => Left(storage, o) = Remaining(o)
    BY DEF Left, Remaining, Raw
  <2> QED BY <2>2, <2>3, <2>4
<1> QED BY <1>1, Inductive, PTL

\* OnePerNonce, for any orders and fills nested to any depth.
THEOREM NoncesUsedOnce == Spec => []OnePerNonce
<1>1. ASSUME IInv PROVE OnePerNonce
  BY <1>1, StorageNow, UsedFacts DEF OnePerNonce, StorageOK, Exclusive
<1> QED BY <1>1, Inductive, PTL

\* What is seen from outside is the storage under the whole stack.
LEMMA SeenFromOutside ==
  ASSUME NEW p \in Seq(Frame), NEW s \in Storage, NEW time, NEW signers,
         Levels(p, s, time, signers)
  PROVE  /\ (IF p = <<>> THEN s ELSE Head(p).before) = StorageAt(p, s, 0)
         /\ StorageAt(p, s, 0) \in Storage
         /\ StorageOK(StorageAt(p, s, 0), {}, signers)
<1>1. (IF p = <<>> THEN s ELSE Head(p).before) = StorageAt(p, s, 0)
  <2>1. CASE p = <<>>
    BY <2>1 DEF StorageAt
  <2>2. CASE p # <<>>
    <3>1. 0 < Len(p) /\ Head(p) = p[1]
      BY <2>2
    <3> QED BY <2>2, <3>1 DEF StorageAt
  <2> QED BY <2>1, <2>2
<1>2. 0 \in 0 .. Len(p) /\ OrdersOf(p, 0) = {}
  BY DEF OrdersOf
<1>3. StorageOK(StorageAt(p, s, 0), OrdersOf(p, 0), signers)
  BY <1>2 DEF Levels
<1> QED BY <1>1, <1>2, <1>3, LevelFacts

\* The same of the state of the protocol.
LEMMA VisibleFacts ==
  ASSUME IInv
  PROVE  /\ Visible = StorageAt(pending, storage, 0) /\ Visible \in Storage
         /\ StorageOK(Visible, {}, signed)
<1>1. /\ storage \in Storage /\ pending \in Seq(Frame)
      /\ Levels(pending, storage, now, signed)
  BY StorageNow DEF IInv
<1> QED BY <1>1, SeenFromOutside DEF Visible

\* RateKept: at any price, with any fees and discounts, in any number of parts.
THEOREM MakersPaid == Spec => []RateKept
<1>1. ASSUME IInv PROVE RateKept
  <2>1. SUFFICES ASSUME NEW o \in Order
                 PROVE  Visible.due[o] * Terms[o].makingAmount >= Visible.taken[o] * LowestPrice(o)
    BY DEF RateKept
  <2>2. Visible.taken[o] * LowestAt(o, now) <= Visible.due[o] * Terms[o].makingAmount
    BY <1>1, VisibleFacts DEF IInv, RateIn
  <2>3. /\ Visible.taken[o] \in Nat /\ Visible.due[o] \in Nat /\ Terms[o].makingAmount \in Nat
        /\ LowestAt(o, now) \in Nat
    BY <1>1, VisibleFacts, StorageNow, StorageFacts, OrderFacts, PriceFacts
  <2>4. /\ Visible.taken[o] * LowestAt(o, now) \in Nat
        /\ Visible.due[o] * Terms[o].makingAmount \in Nat
    BY <2>3
  <2> QED BY <2>2, <2>4, AtNow
<1> QED BY <1>1, Inductive, PTL

\* DeadStaysDead, whoever cancels what while which calls are under way.
THEOREM CancellationHolds == Spec => DeadStaysDead
<1>1. ASSUME IInv, [Next]_vars
      PROVE  [\A o \in Order : Dead(o) => /\ Dead(o)' \/ Reverted
                                          /\ Filling(o)' \subseteq Filling(o)]_vars
  <2>1. IInv' /\ (DeadLeftAlone \/ RevertFill)
    BY <1>1, NextKeeps
  <2>2. ASSUME NEW o \in Order, Dead(o)
        PROVE  (Dead(o)' \/ Reverted) /\ Filling(o)' \subseteq Filling(o)
    <3>1. DeadAt(storage, o, now)
      BY <2>2, AtNow DEF Dead
    <3>2. Filling(o) = FillingIn(pending, o)
      BY <1>1, UsedFacts
    <3>3. Filling(o)' = FillingIn(pending', o)
      BY DEF Filling, FillingIn
    <3>4. Dead(o)' <=> DeadAt(storage', o, now')
      BY DEF Dead, DeadIn, DeadAt, Expired
    <3>5. CASE DeadLeftAlone
      BY <3>1, <3>2, <3>3, <3>4, <3>5 DEF DeadLeftAlone
    <3>6. CASE RevertFill
      <4>1. pending # <<>> /\ storage' = Top.before /\ pending' = Front(pending)
        BY <3>6 DEF RevertFill
      <4>2. pending \in Seq(Frame)
        BY <1>1, StorageNow
      <4>3. FillingIn(pending', o) \subseteq FillingIn(pending, o)
        BY <4>1, <4>2, FillingUnder
      <4> QED BY <3>2, <3>3, <4>1, <4>3 DEF Reverted
    <3> QED BY <2>1, <3>5, <3>6
  <2> QED BY <2>2
<1> QED BY <1>1, Inductive, PTL DEF Spec, DeadStaysDead

\* The clock never goes back, and nobody signs or unsigns meanwhile.
LEMMA ClockFacts ==
  ASSUME IInv, [Next]_vars
  PROVE  now' \in Nat /\ now <= now' /\ signed' = signed
<1>1. now \in Nat
  BY StorageNow
<1>2. (now' = now \/ now' = now + 1) /\ signed' = signed
  <2>1. ASSUME NEW o, NEW sender, NEW remaining, NEW isMakingAmount, NEW amount,
               NEW below, NEW before,
               Fill(o, sender, remaining, isMakingAmount, amount, below, before)
        PROVE  now' = now /\ signed' = signed
    <3>1. UNCHANGED <<now, signed, calls>>
      BY <2>1 DEF Fill
    <3> QED BY <3>1
  <2>2. ASSUME NEW o \in Order, NEW sender \in Account, BeginPermit(o, sender)
        PROVE  now' = now /\ signed' = signed
    BY <2>2 DEF BeginPermit
  <2>3. ASSUME NEW o \in Order, NEW sender \in Account, NEW isMakingAmount \in BOOLEAN,
               NEW amount \in 1 .. MaxAmount, BeginFill(o, sender, isMakingAmount, amount)
        PROVE  now' = now /\ signed' = signed
    BY <2>1, <2>3 DEF BeginFill
  <2>4. ASSUME NEW isMakingAmount \in BOOLEAN, NEW amount \in 1 .. MaxAmount,
               EndPermit(isMakingAmount, amount)
        PROVE  now' = now /\ signed' = signed
    BY <2>1, <2>4 DEF EndPermit
  <2>5. CASE Transfer \/ EndFill \/ RevertFill \/ Pause
    BY <2>5 DEF Transfer, EndFill, RevertFill, Pause
  <2>6. ASSUME NEW caller \in Maker,
               \/ \E p, o \in Order : CancelOrder(caller, p, o)
               \/ \E p \in Order, others \in SUBSET Nonce :
                    BitsInvalidateForOrder(caller, p, others)
               \/ \E series \in Series, amount \in 1 .. MaxEpoch :
                    AdvanceEpoch(caller, series, amount)
        PROVE  now' = now /\ signed' = signed
    BY <2>6 DEF CancelOrder, BitsInvalidateForOrder, AdvanceEpoch
  <2>7. CASE Tick
    BY <2>7 DEF Tick
  <2>8. CASE UNCHANGED vars
    BY <2>8 DEF vars
  <2> QED BY <2>2, <2>3, <2>4, <2>5, <2>6, <2>7, <2>8 DEF Next
<1> QED BY <1>1, <1>2

\* What is still dead when it is later.
LEMMA DeadLater ==
  ASSUME NEW s \in Storage, NEW o \in Order, NEW time \in Nat, NEW later \in Nat,
         time <= later, DeadAt(s, o, time)
  PROVE  DeadAt(s, o, later)
<1>1. Terms[o].expiration \in Nat
  BY OrderFacts
<1>2. Terms[o].expiration < time => Terms[o].expiration < later
  BY <1>1
<1> QED BY <1>2 DEF DeadAt

\* A way for the storage to go on takes from live and signed orders only, within
\* their limit, and leaves those dead that can be taken from no more.
LEMMA FollowsIsTransaction ==
  ASSUME NEW v \in Storage, NEW w \in Storage, NEW time \in Nat, NEW later \in Nat,
         NEW signers, time <= later, Follows(v, w, time), StorageOK(w, {}, signers),
         NEW o \in Order
  PROVE  /\ DeadAt(v, o, time) => DeadAt(w, o, later)
         /\ w.taken[o] # v.taken[o] =>
              /\ o \in signers
              /\ ~DeadAt(v, o, time)
              /\ w.taken[o] > v.taken[o]
              /\ w.taken[o] <= Terms[o].makingAmount
              /\ UseBitInvalidator(o) \/ w.taken[o] = Terms[o].makingAmount
                   => DeadAt(w, o, later)
<1>1. FollowsFor(v, w, o, time) /\ EntryOK(w, {}, o, signers)
  BY DEF Follows, StorageOK
<1>2. DeadAt(v, o, time) => DeadAt(w, o, time) /\ w.taken[o] = v.taken[o]
  BY <1>1 DEF FollowsFor
<1>3. /\ v.taken[o] \in Nat /\ w.taken[o] \in Nat /\ Left(w, o) \in Nat
      /\ Terms[o].makingAmount \in Nat \ {0} /\ Word \in Nat
      /\ w.raw[Terms[o].maker][o] \in 0 .. Word - 1
  BY StorageFacts, OrderFacts
<1>4. v.taken[o] <= w.taken[o] /\ w.taken[o] + Left(w, o) <= Terms[o].makingAmount
  BY <1>1 DEF FollowsFor, EntryOK
<1>5. ASSUME w.taken[o] # v.taken[o]
      PROVE  /\ o \in signers
             /\ ~DeadAt(v, o, time)
             /\ w.taken[o] > v.taken[o]
             /\ w.taken[o] <= Terms[o].makingAmount
             /\ UseBitInvalidator(o) \/ w.taken[o] = Terms[o].makingAmount
                  => DeadAt(w, o, later)
  <2>1. w.taken[o] > v.taken[o] /\ w.taken[o] > 0 /\ w.taken[o] <= Terms[o].makingAmount
    BY <1>3, <1>4, <1>5
  <2>2. /\ o \in signers
        /\ UseBitInvalidator(o) => Terms[o].nonceOrEpoch \in w.bits[Terms[o].maker]
    BY <1>1, <2>1 DEF EntryOK, InUse
  <2>3. UseBitInvalidator(o) => DeadAt(w, o, later)
    BY <2>2 DEF DeadAt
  <2>4. ASSUME ~UseBitInvalidator(o), w.taken[o] = Terms[o].makingAmount
        PROVE  DeadAt(w, o, later)
    <3>1. Left(w, o) = 0
      BY <1>3, <1>4, <2>4
    <3>2. w.raw[Terms[o].maker][o] # 0 /\ Not(w.raw[Terms[o].maker][o]) = 0
      BY <1>3, <2>4, <3>1 DEF Left
    <3>3. w.raw[Terms[o].maker][o] = Not(0)
      BY <1>3, <3>2 DEF Not
    <3> QED BY <2>4, <3>3 DEF DeadAt
  <2> QED BY <1>2, <1>5, <2>1, <2>2, <2>3, <2>4
<1> QED BY <1>2, <1>5, DeadLater

\* A step of the protocol is a transaction of the book, or nothing to it.
LEMMA StepIsTransaction ==
  ASSUME IInv, [Next]_vars
  PROVE  Book!Transaction
<1>1. IInv' /\ Onward
  BY NextKeeps
<1>2. Visible = StorageAt(pending, storage, 0) /\ Visible \in Storage
  BY VisibleFacts
<1>3. /\ Visible' = StorageAt(pending', storage', 0) /\ Visible' \in Storage
      /\ StorageOK(Visible', {}, signed')
  <2>1. /\ storage' \in Storage /\ pending' \in Seq(Frame)
        /\ Levels(pending', storage', now', signed')
    BY <1>1 DEF IInv, TypeOK
  <2>2. Visible' = IF pending' = <<>> THEN storage' ELSE Head(pending').before
    BY DEF Visible
  <2> QED BY <2>1, <2>2, SeenFromOutside
<1>4. Follows(Visible, Visible', now)
  BY <1>1, <1>2, <1>3 DEF Onward
<1>5. now \in Nat /\ now' \in Nat /\ now <= now' /\ signed' = signed
  BY StorageNow, ClockFacts
<1>6. ASSUME NEW o \in Order
      PROVE  /\ DeadIn(Visible, o) <=> DeadAt(Visible, o, now)
             /\ DeadIn(Visible, o)' <=> DeadAt(Visible', o, now')
  BY DEF DeadIn, DeadAt, Expired
<1>7. ASSUME NEW o \in Order
      PROVE  /\ DeadIn(Visible, o) => DeadIn(Visible, o)'
             /\ Visible'.taken[o] # Visible.taken[o] =>
                  /\ o \in signed
                  /\ ~DeadIn(Visible, o)
                  /\ Visible'.taken[o] > Visible.taken[o]
                  /\ Visible'.taken[o] <= Terms[o].makingAmount
                  /\ UseBitInvalidator(o) \/ Visible'.taken[o] = Terms[o].makingAmount
                       => DeadIn(Visible, o)'
  BY <1>2, <1>3, <1>4, <1>5, <1>6, FollowsIsTransaction
<1>8. Visible'.taken \in [Order -> Nat]
  BY <1>3 DEF Storage
<1> QED BY <1>5, <1>7, <1>8 DEF Book!Transaction, Book!Taken

\* FillsAreTransactions: however calls nest and revert, the protocol implements
\* the abstract order book.
THEOREM FillsImplementBook == Spec => FillsAreTransactions
<1>1. Init => Book!Init
  <2> SUFFICES ASSUME Init PROVE Book!Init
    OBVIOUS
  <2>1. signed \in SUBSET Order /\ Visible.taken = [o \in Order |-> 0]
    BY DEF Init, Visible
  <2> QED BY <2>1 DEF Book!Init
<1>2. IInv /\ [Next]_vars => [Book!Transaction]_(Book!bookVars)
  BY StepIsTransaction
<1> QED BY <1>1, <1>2, Inductive, PTL DEF Spec, FillsAreTransactions, Book!Spec
=============================================================================
