--------------------------- MODULE ETHOrdersProofs ---------------------------
(***************************************************************************)
(* Proofs about ETHOrders, for any orders, deposits, premiums and fees, and *)
(* for fills nested to any depth.                                          *)
(*                                                                         *)
(* A call that reverts brings back the storage of the protocol and the     *)
(* vault of the contract as they were when it began.  So the invariant     *)
(* speaks of every level of the stack, and the books of a level are those  *)
(* of the level under it plus what the call between them has moved and not *)
(* yet reported: a transfer comes before the post-interaction that takes   *)
(* it off the books, with foreign code in between.  The same goes for the  *)
(* one balance that stands behind the books of all orders; what they add   *)
(* up to is a fold over a set, and is proved to be the number of units on  *)
(* them.                                                                   *)
(***************************************************************************)
EXTENDS ETHOrders, FiniteSetTheorems, SequenceTheorems, TLAPS

-----------------------------------------------------------------------------
(* Arithmetic, auctions and fees.                                           *)

\* What a quotient is.
LEMMA Quotient ==
  ASSUME NEW a \in Nat, NEW n \in Nat \ {0}
  PROVE  /\ a \div n \in Nat
         /\ n * (a \div n) <= a
         /\ a < n * ((a \div n) + 1)
  OBVIOUS

\* Factors keep an order.
LEMMA Scaled ==
  ASSUME NEW a \in Nat, NEW b \in Nat, NEW n \in Nat, a <= b
  PROVE  n * a <= n * b /\ a * n <= b * n /\ n * a \in Nat /\ n * b \in Nat
<1>1. PICK d \in Nat : b = a + d
  <2>1. b - a \in Nat
    OBVIOUS
  <2> QED BY <2>1
<1>2. n * b = n * a + n * d /\ b * n = a * n + d * n
  BY <1>1
<1>3. n * a \in Nat /\ n * b \in Nat /\ n * d \in Nat /\ a * n \in Nat /\ d * n \in Nat
  OBVIOUS
<1> QED BY <1>2, <1>3

\* A positive factor can be taken off an order.
LEMMA Unscaled ==
  ASSUME NEW a \in Int, NEW b \in Int, NEW n \in Nat \ {0}, n * a <= n * b
  PROVE  a <= b
<1> SUFFICES ASSUME b + 1 <= a PROVE FALSE
  OBVIOUS
<1>1. PICK d \in Nat : a = (b + 1) + d
  <2>1. a - (b + 1) \in Nat
    OBVIOUS
  <2> QED BY <2>1
<1>2. n * a = n * b + n + n * d
  BY <1>1
<1>3. n * a \in Int /\ n * b \in Int /\ n * d \in Nat
  OBVIOUS
<1> QED BY <1>2, <1>3

\* What a quotient that is rounded up is.
LEMMA Ceiling ==
  ASSUME NEW a \in Nat, NEW n \in Nat \ {0}
  PROVE  /\ LOP!CeilDiv(a, n) \in Nat
         /\ a <= n * LOP!CeilDiv(a, n)
<1> DEFINE b == a + n - 1
           q == b \div n
<1>1. b \in Nat /\ q = LOP!CeilDiv(a, n)
  BY DEF LOP!CeilDiv
<1>2. q \in Nat /\ b < n * (q + 1)
  BY <1>1, Quotient
<1> HIDE DEF q
<1>3. n * (q + 1) = n * q + n /\ n * q \in Nat
  BY <1>2
<1>4. a <= n * q
  BY <1>2, <1>3
<1> QED BY <1>1, <1>2, <1>4

\* What a fee of an order is.
LEMMA Fees ==
  ASSUME NEW fees \in LOP!FeeData(Account), NEW taker \in Account
  PROVE  /\ LOP!ResolverFee(fees, taker) \in Nat
         /\ fees.integratorFee \in Nat
         /\ LOP!WithFee(fees, taker)
              = LOP!Base1E5 + fees.integratorFee + LOP!ResolverFee(fees, taker)
         /\ LOP!WithFee(fees, taker) \in Nat \ {0}
         /\ LOP!Base1E5 \in Nat \ {0} /\ LOP!Base1E2 \in Nat \ {0}
         /\ fees.integratorShare \in Nat
<1>1. /\ fees.resolverFee \in Nat /\ fees.whitelistDiscountNumerator \in Nat
      /\ fees.integratorFee \in Nat /\ fees.integratorShare \in Nat
      /\ LOP!Base1E5 \in Nat \ {0} /\ LOP!Base1E2 \in Nat \ {0}
  <2>1. /\ fees.resolverFee \in 0 .. LOP!MaxFee /\ fees.integratorFee \in 0 .. LOP!MaxFee
        /\ fees.whitelistDiscountNumerator \in 0 .. LOP!Base1E2
        /\ fees.integratorShare \in 0 .. LOP!Base1E2
    BY DEF LOP!FeeData
  <2>2. LOP!Base1E5 \in Nat \ {0} /\ LOP!Base1E2 \in Nat \ {0}
    BY DEF LOP!Base1E5, LOP!Base1E2
  <2> QED BY <2>1, <2>2
<1>2. LOP!ResolverFee(fees, taker) \in Nat
  <2>1. fees.resolverFee * fees.whitelistDiscountNumerator \in Nat
    BY <1>1
  <2>2. (fees.resolverFee * fees.whitelistDiscountNumerator) \div LOP!Base1E2 \in Nat
    BY <1>1, <2>1, Quotient
  <2> QED BY <1>1, <2>2 DEF LOP!ResolverFee
<1> QED BY <1>1, <1>2 DEF LOP!WithFee

\* FeeTaker takes from the maker's receiver no more than the share of the fees.
LEMMA ReceiverGets ==
  ASSUME NEW fees \in LOP!FeeData(Account), NEW taker \in Account, NEW taking \in Nat
  PROVE  /\ LOP!ToReceiver(fees, taker, taking) \in Nat
         /\ LOP!Base1E5 * taking <= LOP!WithFee(fees, taker) * LOP!ToReceiver(fees, taker, taking)
<1> DEFINE w == LOP!WithFee(fees, taker)
           i == fees.integratorFee
           r == LOP!ResolverFee(fees, taker)
           x == (taking * i) \div w
           y == (taking * r) \div w
           share == (x * fees.integratorShare) \div LOP!Base1E2
           z == taking - x - y
<1>1. /\ i \in Nat /\ r \in Nat /\ w \in Nat \ {0} /\ w = LOP!Base1E5 + i + r
      /\ LOP!Base1E5 \in Nat \ {0}
  BY Fees
<1>2. taking * i \in Nat /\ taking * r \in Nat
  BY <1>1
<1> HIDE DEF w, i, r
<1>3. x \in Nat /\ w * x <= taking * i
  BY <1>1, <1>2, Quotient
<1>4. y \in Nat /\ w * y <= taking * r
  BY <1>1, <1>2, Quotient
<1>5. share \in Nat
  <2>1. fees.integratorShare \in Nat /\ LOP!Base1E2 \in Nat \ {0}
    BY Fees
  <2>2. x * fees.integratorShare \in Nat
    BY <1>3, <2>1
  <2> QED BY <2>1, <2>2, Quotient
<1>6. LOP!ToReceiver(fees, taker, taking) = taking - share - (y + x - share)
  BY DEF LOP!ToReceiver, LOP!GetFeeAmounts, w, i, r
<1> HIDE DEF x, y, share
<1>7. LOP!ToReceiver(fees, taker, taking) = z
  BY <1>3, <1>4, <1>5, <1>6
<1>8. z \in Int
  BY <1>3, <1>4
<1>9. w * z = w * taking - w * x - w * y
  BY <1>1, <1>3, <1>4
<1>10. w * taking = LOP!Base1E5 * taking + taking * i + taking * r
  BY <1>1
<1>11. /\ w * x \in Nat /\ w * y \in Nat /\ w * taking \in Nat /\ LOP!Base1E5 * taking \in Nat
       /\ w * z \in Int
  BY <1>1, <1>3, <1>4, <1>8
<1> HIDE DEF z
<1>12. LOP!Base1E5 * taking <= w * z
  BY <1>2, <1>3, <1>4, <1>9, <1>10, <1>11
<1>13. 0 <= z
  <2>1. w * 0 <= w * z
    BY <1>1, <1>11, <1>12
  <2> QED BY <1>1, <1>8, <2>1, Unscaled
<1> QED BY <1>7, <1>8, <1>12, <1>13 DEF w

\* What an auction asks for is never nothing.
LEMMA AuctionAsks ==
  ASSUME NEW a \in LOP!Auction, NEW timestamp \in Nat
  PROVE  LOP!AuctionTakingAmount(a, timestamp) \in Nat \ {0}
<1> DEFINE s == a.takingAmountStart
           e == a.takingAmountEnd
           x == IF timestamp < a.startTime THEN a.startTime
                ELSE IF timestamp > a.endTime THEN a.endTime ELSE timestamp
           length == a.endTime - a.startTime
           num == s * (a.endTime - x) + e * (x - a.startTime)
<1>1. /\ s \in Nat \ {0} /\ e \in Nat \ {0} /\ length \in Nat \ {0}
      /\ a.startTime \in Nat /\ a.endTime \in Nat
  BY DEF LOP!Auction
<1>2. x \in a.startTime .. a.endTime
  BY <1>1
<1>3. LOP!AuctionTakingAmount(a, timestamp) = num \div length
  BY DEF LOP!AuctionTakingAmount
<1> HIDE DEF s, e, x
<1>4. num \in Nat /\ length <= num
  <2>1. PICK m \in Nat, n \in Nat : m = a.endTime - x /\ n = x - a.startTime
    BY <1>1, <1>2
  <2>2. length = m + n
    BY <1>1, <1>2, <2>1
  <2>3. 1 * m <= s * m /\ 1 * n <= e * n /\ s * m \in Nat /\ e * n \in Nat
    BY <1>1, Scaled
  <2> QED BY <2>1, <2>2, <2>3
<1> HIDE DEF num, length
<1>5. num \div length \in Nat /\ num < length * ((num \div length) + 1)
  BY <1>1, <1>4, Quotient
<1>6. num \div length = 0 => length * ((num \div length) + 1) = length
  BY <1>1
<1> QED BY <1>1, <1>3, <1>4, <1>5, <1>6

-----------------------------------------------------------------------------
(* Orders and fills.                                                        *)

\* What an order is made of.
LEMMA OrderFacts ==
  ASSUME NEW o \in Order
  PROVE  /\ Terms[o].maker = this
         /\ Terms[o].makingAmount \in 1 .. MaxAmount /\ Terms[o].makingAmount \in Nat \ {0}
         /\ Terms[o].takingAmount \in Nat \ {0}
         /\ Terms[o].fees \in LOP!FeeData(Account) /\ Terms[o].allowedSender \in SUBSET Account
         /\ Terms[o].auction \in LOP!Auction \union {LOP!NoAuction}
         /\ Terms[o].nonceOrEpoch \in Nonce /\ Terms[o].expiration \in Nat
         /\ Word \in Nat /\ MaxAmount \in Nat /\ MaxAmount + 1 < Word
<1>1. /\ Terms[o] \in LOP!OrderTerms
      /\ MaxAmount \in Nat /\ Word \in Nat /\ MaxAmount * (MaxAmount + 1) < Word
  BY ProtocolAssumption
<1>2. /\ Terms[o].maker = this
      /\ Terms[o].nonceOrEpoch \in Nonce
      /\ Terms[o].makingAmount \in 1 .. MaxAmount /\ Terms[o].takingAmount \in 1 .. MaxAmount
      /\ Terms[o].fees \in LOP!FeeData(Account) /\ Terms[o].allowedSender \in SUBSET Account
      /\ Terms[o].auction \in LOP!Auction \union {LOP!NoAuction}
      /\ Terms[o].expiration \in Nat
  BY <1>1 DEF LOP!OrderTerms
<1>3. MaxAmount \in Nat \ {0}
  BY <1>1, <1>2
<1>4. 1 * (MaxAmount + 1) <= MaxAmount * (MaxAmount + 1) /\ MaxAmount * (MaxAmount + 1) \in Nat
  <2>1. 1 <= MaxAmount /\ MaxAmount + 1 \in Nat
    BY <1>3
  <2> QED BY <1>3, <2>1, Scaled
<1>5. MaxAmount + 1 < Word
  BY <1>1, <1>3, <1>4
<1>6. Terms[o].makingAmount \in Nat \ {0} /\ Terms[o].takingAmount \in Nat \ {0}
  BY <1>2, <1>3
<1> QED BY <1>1, <1>2, <1>5, <1>6

\* The price of an order is never nothing.
LEMMA PriceFacts ==
  ASSUME NEW o \in Order, now \in Nat
  PROVE  LOP!Price(o) \in Nat \ {0}
<1>1. CASE Terms[o].auction = LOP!NoAuction
  BY <1>1, OrderFacts DEF LOP!Price
<1>2. CASE Terms[o].auction # LOP!NoAuction
  <2>1. Terms[o].auction \in LOP!Auction
    BY <1>2, OrderFacts
  <2>2. LOP!AuctionTakingAmount(Terms[o].auction, now) \in Nat \ {0}
    BY <2>1, AuctionAsks
  <2> QED BY <1>2, <2>2 DEF LOP!Price
<1> QED BY <1>1, <1>2

\* A fill takes no more than remains.
LEMMA AmountsOfFill ==
  ASSUME NEW o \in Order, NEW sender \in Account, NEW remaining \in Nat,
         NEW isMakingAmount \in BOOLEAN, NEW amount \in Nat, now \in Nat
  PROVE  LET a == LOP!Amounts(o, sender, remaining, isMakingAmount, amount)
         IN  a.making \in 0 .. remaining /\ a.taking \in Nat
<1> DEFINE a == LOP!Amounts(o, sender, remaining, isMakingAmount, amount)
           most == LOP!GetMakingAmount(o, sender, amount)
           n == Terms[o].makingAmount
           fees == Terms[o].fees
           price == LOP!Price(o)
           w == LOP!WithFee(fees, sender)
<1>1. /\ n \in Nat \ {0} /\ price \in Nat \ {0} /\ w \in Nat \ {0}
      /\ LOP!Base1E5 \in Nat \ {0}
  BY OrderFacts, PriceFacts, Fees
<1>2. most \in Nat
  <2> DEFINE q == (amount * n) \div price
  <2>1. amount * n \in Nat
    BY <1>1
  <2>2. q \in Nat
    BY <1>1, <2>1, Quotient
  <2>3. most = (q * LOP!Base1E5) \div w
    BY DEF LOP!GetMakingAmount, LOP!MakingAmountWithFee
  <2> HIDE DEF q, w, most
  <2>4. q * LOP!Base1E5 \in Nat
    BY <1>1, <2>2
  <2> QED BY <1>1, <2>3, <2>4, Quotient
<1>3. ASSUME NEW making \in Nat
      PROVE  LOP!GetTakingAmount(o, sender, making) \in Nat
  <2> DEFINE z == LOP!CeilDiv(making * price, n)
  <2>1. making * price \in Nat
    BY <1>1
  <2>2. z \in Nat
    BY <1>1, <2>1, Ceiling
  <2>3. LOP!GetTakingAmount(o, sender, making) = LOP!CeilDiv(z * w, LOP!Base1E5)
    BY DEF LOP!GetTakingAmount, LOP!TakingAmountWithFee
  <2> HIDE DEF z, w
  <2>4. z * w \in Nat
    BY <1>1, <2>2
  <2> QED BY <1>1, <2>3, <2>4, Ceiling
<1>4. /\ a.making = IF isMakingAmount THEN (IF amount < remaining THEN amount ELSE remaining)
                    ELSE IF most > remaining THEN remaining ELSE most
      /\ a.taking = IF isMakingAmount \/ most > remaining
                      THEN LOP!GetTakingAmount(o, sender, a.making) ELSE amount
  BY DEF LOP!Amounts
<1> HIDE DEF a, most
<1>5. a.making \in 0 .. remaining /\ a.making \in Nat
  BY <1>2, <1>4
<1>6. a.taking \in Nat
  BY <1>3, <1>4, <1>5
<1> QED BY <1>5, <1>6 DEF a

-----------------------------------------------------------------------------
(* The inductive invariant.                                                 *)

\* What the calls of the stack `p` go back to when all but `k` of them revert.
StorageAt(p, s, k) == IF k < Len(p) THEN p[k + 1].before ELSE s

\* The vault that goes with it.
VaultAt(w, v, k) == IF k < Len(w) THEN w[k + 1] ELSE v

\* No entry stands for more than an order is for.
Entries(s) ==
  /\ s \in LOP!Storage
  /\ \A o \in Order : s.raw[this][o] # 0 => Word - 1 - s.raw[this][o] <= MaxAmount

\* Nothing is on the books of an order that was never deposited.
Books(v) ==
  /\ v \in Vault
  /\ \A o \in Order : v.orders[o].maker = Nobody => v.orders[o].balance = 0

\* A storage and the vault that goes with it.
Sound(s, v) == Entries(s) /\ Books(v)

\* What a deposit for `o` has put in, by its entry in the books.
Stake(entry, o) == IF entry.maker # Nobody THEN Terms[o].makingAmount ELSE 0

\* What has been put in for `o`.
PutIn(v, o) == Stake(v.orders[o], o)

\* What `o` has on its books and has been paid out, over what was put in.
Excess(s, v, o) ==
  v.orders[o].balance + s.taken[o] + v.refunds[o] + v.rewards[o] - PutIn(v, o)

\* What the call `f` has moved of `o` without having reported it.
Moved(f, o) == IF f.order = o /\ f.stage = "transferred" THEN f.making ELSE 0

\* The books of the stack of calls `p`, which began with the vaults `w`.
Accounted(p, w, s, v) ==
  /\ \A k \in 0 .. Len(p) : Sound(StorageAt(p, s, k), VaultAt(w, v, k))
  /\ \A o \in Order : Excess(StorageAt(p, s, 0), VaultAt(w, v, 0), o) = 0
  /\ \A k \in 1 .. Len(p), o \in Order :
       Excess(StorageAt(p, s, k), VaultAt(w, v, k), o)
         = Excess(StorageAt(p, s, k - 1), VaultAt(w, v, k - 1), o) + Moved(p[k], o)

\* The invariant.
IInv == TypeOK /\ Accounted(pending, saved, storage, vault)

-----------------------------------------------------------------------------
(* The stack of calls.                                                      *)

\* What lies under the top of a stack.
LEMMA Under ==
  ASSUME NEW S, NEW p \in Seq(S), p # <<>>
  PROVE  /\ Len(p) \in Nat \ {0} /\ Last(p) = p[Len(p)] /\ Last(p) \in S
         /\ Front(p) \in Seq(S) /\ Len(Front(p)) = Len(p) - 1
         /\ \A k \in 1 .. Len(p) - 1 : Front(p)[k] = p[k]
         /\ LOP!Last(p) = Last(p) /\ LOP!Front(p) = Front(p)
<1> DEFINE n == Len(p)
<1>1. n \in Nat \ {0} /\ \A k \in 1 .. n : p[k] \in S
  OBVIOUS
<1>2. n - 1 \in Nat /\ \A k \in 1 .. n - 1 : k \in 1 .. n
  BY <1>1
<1> HIDE DEF n
<1>3. /\ SubSeq(p, 1, n - 1) \in Seq(S)
      /\ Len(SubSeq(p, 1, n - 1)) = n - 1
      /\ \A k \in 1 .. n - 1 : SubSeq(p, 1, n - 1)[k] = p[k]
  BY <1>1, <1>2, SubSeqProperties
<1>4. LOP!Last(p) = Last(p) /\ LOP!Front(p) = Front(p)
  BY DEF LOP!Last, LOP!Front, Last, Front
<1> QED BY <1>1, <1>2, <1>3, <1>4 DEF Last, Front, n

\* The books of a call that begins are those of the call it is nested in, and
\* what it moves at once.
LEMMA AccountedPushed ==
  ASSUME NEW p \in Seq(LOP!Frame), NEW w \in Seq(Vault), Len(w) = Len(p),
         NEW s, NEW t, NEW v \in Vault, NEW u, NEW f \in LOP!Frame,
         Accounted(p, w, s, v), f.before = s, Sound(t, u),
         \A o \in Order : Excess(t, u, o) = Excess(s, v, o) + Moved(f, o)
  PROVE  /\ Append(p, f) \in Seq(LOP!Frame) /\ Append(w, v) \in Seq(Vault)
         /\ Len(Append(w, v)) = Len(Append(p, f))
         /\ Accounted(Append(p, f), Append(w, v), t, u)
<1> DEFINE q == Append(p, f)
           x == Append(w, v)
           n == Len(p)
<1>1. /\ n \in Nat /\ q \in Seq(LOP!Frame) /\ Len(q) = n + 1 /\ q[n + 1] = f
      /\ \A k \in 1 .. n : q[k] = p[k]
  OBVIOUS
<1>2. /\ x \in Seq(Vault) /\ Len(x) = n + 1 /\ x[n + 1] = v
      /\ \A k \in 1 .. n : x[k] = w[k]
  OBVIOUS
<1> HIDE DEF q, x, n
<1>3. ASSUME NEW k \in 0 .. n
      PROVE  StorageAt(q, t, k) = StorageAt(p, s, k) /\ VaultAt(x, u, k) = VaultAt(w, v, k)
  <2>1. CASE k = n
    BY <1>1, <1>2, <2>1 DEF StorageAt, VaultAt, n
  <2>2. CASE k # n
    <3>1. k < n /\ k < n + 1 /\ k + 1 \in 1 .. n
      BY <1>1, <2>2
    <3> QED BY <1>1, <1>2, <3>1 DEF StorageAt, VaultAt, n
  <2> QED BY <2>1, <2>2
<1>4. StorageAt(q, t, n + 1) = t /\ VaultAt(x, u, n + 1) = u
  BY <1>1, <1>2 DEF StorageAt, VaultAt
<1>5. StorageAt(p, s, n) = s /\ VaultAt(w, v, n) = v
  BY <1>1 DEF StorageAt, VaultAt, n
<1>6. ASSUME NEW k \in 0 .. n + 1 PROVE Sound(StorageAt(q, t, k), VaultAt(x, u, k))
  <2>1. CASE k = n + 1
    BY <1>4, <2>1
  <2>2. CASE k # n + 1
    <3>1. k \in 0 .. n
      BY <1>1, <2>2
    <3> QED BY <1>3, <3>1 DEF Accounted, n
  <2> QED BY <2>1, <2>2
<1>7. \A o \in Order : Excess(StorageAt(q, t, 0), VaultAt(x, u, 0), o) = 0
  <2>1. 0 \in 0 .. n
    BY <1>1
  <2> QED BY <1>3, <2>1 DEF Accounted
<1>8. ASSUME NEW k \in 1 .. n + 1, NEW o \in Order
      PROVE  Excess(StorageAt(q, t, k), VaultAt(x, u, k), o)
               = Excess(StorageAt(q, t, k - 1), VaultAt(x, u, k - 1), o) + Moved(q[k], o)
  <2>1. CASE k = n + 1
    <3>1. k - 1 = n /\ n \in 0 .. n
      BY <1>1, <2>1
    <3>2. StorageAt(q, t, k - 1) = s /\ VaultAt(x, u, k - 1) = v
      BY <1>3, <1>5, <3>1
    <3> QED BY <1>1, <1>4, <2>1, <3>2
  <2>2. CASE k # n + 1
    <3>1. k \in 1 .. n /\ k \in 0 .. n /\ k - 1 \in 0 .. n
      BY <1>1, <2>2
    <3>2. Excess(StorageAt(p, s, k), VaultAt(w, v, k), o)
            = Excess(StorageAt(p, s, k - 1), VaultAt(w, v, k - 1), o) + Moved(p[k], o)
      BY <3>1 DEF Accounted, n
    <3> QED BY <1>1, <1>3, <3>1, <3>2
  <2> QED BY <2>1, <2>2
<1>9. Accounted(q, x, t, u)
  BY <1>1, <1>6, <1>7, <1>8 DEF Accounted
<1> QED BY <1>1, <1>2, <1>9 DEF q, x

\* When the call at the top is undone, the books are those of the call it is
\* nested in.
LEMMA AccountedPopped ==
  ASSUME NEW p \in Seq(LOP!Frame), NEW w \in Seq(Vault), Len(w) = Len(p), p # <<>>,
         NEW s, NEW v, Accounted(p, w, s, v)
  PROVE  /\ Front(p) \in Seq(LOP!Frame) /\ Front(w) \in Seq(Vault)
         /\ Len(Front(w)) = Len(Front(p))
         /\ Last(p) \in LOP!Frame /\ Last(w) \in Vault
         /\ Sound(Last(p).before, Last(w))
         /\ Accounted(Front(p), Front(w), Last(p).before, Last(w))
         /\ \A o \in Order :
              Excess(s, v, o) = Excess(Last(p).before, Last(w), o) + Moved(Last(p), o)
<1> DEFINE q == Front(p)
           x == Front(w)
           n == Len(p)
           t == Last(p).before
           u == Last(w)
<1>1. /\ n \in Nat \ {0} /\ q \in Seq(LOP!Frame) /\ Len(q) = n - 1
      /\ \A k \in 1 .. n - 1 : q[k] = p[k]
      /\ Last(p) = p[n] /\ Last(p) \in LOP!Frame
  BY Under
<1>2. /\ x \in Seq(Vault) /\ Len(x) = n - 1
      /\ \A k \in 1 .. n - 1 : x[k] = w[k]
      /\ u = w[n] /\ u \in Vault
  <2>1. w # <<>>
    BY <1>1
  <2> QED BY <2>1, Under
<1> HIDE DEF q, x, n
<1>3. ASSUME NEW k \in 0 .. n - 1
      PROVE  StorageAt(q, t, k) = StorageAt(p, s, k) /\ VaultAt(x, u, k) = VaultAt(w, v, k)
  <2>1. CASE k = n - 1
    <3>1. k < n /\ k + 1 = n /\ ~(k < n - 1)
      BY <1>1, <2>1
    <3> QED BY <1>1, <1>2, <3>1 DEF StorageAt, VaultAt, n
  <2>2. CASE k # n - 1
    <3>1. k < n /\ k < n - 1 /\ k + 1 \in 1 .. n - 1
      BY <1>1, <2>2
    <3> QED BY <1>1, <1>2, <3>1 DEF StorageAt, VaultAt, n
  <2> QED BY <2>1, <2>2
<1>4. StorageAt(p, s, n) = s /\ VaultAt(w, v, n) = v
  BY <1>1 DEF StorageAt, VaultAt, n
<1>5. StorageAt(p, s, n - 1) = t /\ VaultAt(w, v, n - 1) = u
  <2>1. n - 1 < n /\ (n - 1) + 1 = n
    BY <1>1
  <2> QED BY <1>1, <1>2, <2>1 DEF StorageAt, VaultAt, n
<1>6. ASSUME NEW k \in 0 .. n - 1 PROVE Sound(StorageAt(q, t, k), VaultAt(x, u, k))
  <2>1. k \in 0 .. n
    BY <1>1
  <2> QED BY <1>3, <2>1 DEF Accounted, n
<1>7. \A o \in Order : Excess(StorageAt(q, t, 0), VaultAt(x, u, 0), o) = 0
  <2>1. 0 \in 0 .. n - 1
    BY <1>1
  <2> QED BY <1>3, <2>1 DEF Accounted
<1>8. ASSUME NEW k \in 1 .. n - 1, NEW o \in Order
      PROVE  Excess(StorageAt(q, t, k), VaultAt(x, u, k), o)
               = Excess(StorageAt(q, t, k - 1), VaultAt(x, u, k - 1), o) + Moved(q[k], o)
  <2>1. k \in 1 .. n /\ k \in 0 .. n - 1 /\ k - 1 \in 0 .. n - 1
    BY <1>1
  <2>2. Excess(StorageAt(p, s, k), VaultAt(w, v, k), o)
          = Excess(StorageAt(p, s, k - 1), VaultAt(w, v, k - 1), o) + Moved(p[k], o)
    BY <2>1 DEF Accounted, n
  <2> QED BY <1>1, <1>3, <2>1, <2>2
<1>9. Accounted(q, x, t, u)
  BY <1>1, <1>6, <1>7, <1>8 DEF Accounted
<1>10. Sound(t, u)
  <2>1. n - 1 \in 0 .. n
    BY <1>1
  <2>2. Sound(StorageAt(p, s, n - 1), VaultAt(w, v, n - 1))
    BY <2>1 DEF Accounted, n
  <2> QED BY <1>5, <2>2
<1>11. ASSUME NEW o \in Order PROVE Excess(s, v, o) = Excess(t, u, o) + Moved(Last(p), o)
  <2>1. n \in 1 .. n
    BY <1>1
  <2>2. Excess(StorageAt(p, s, n), VaultAt(w, v, n), o)
          = Excess(StorageAt(p, s, n - 1), VaultAt(w, v, n - 1), o) + Moved(p[n], o)
    BY <2>1 DEF Accounted, n
  <2> QED BY <1>1, <1>4, <1>5, <2>2
<1> QED BY <1>1, <1>2, <1>9, <1>10, <1>11 DEF q, x

\* What changes neither what was put in nor what came of it leaves the books of
\* the stack as they are.
LEMMA AccountedChanged ==
  ASSUME NEW p \in Seq(LOP!Frame), NEW w \in Seq(Vault), Len(w) = Len(p),
         NEW s, NEW t, NEW v, NEW u, Accounted(p, w, s, v), Sound(t, u),
         \A o \in Order : Excess(t, u, o) = Excess(s, v, o)
  PROVE  Accounted(p, w, t, u)
<1> DEFINE n == Len(p)
<1>1. n \in Nat /\ n = Len(w)
  OBVIOUS
<1>2. /\ StorageAt(p, s, n) = s /\ VaultAt(w, v, n) = v
      /\ StorageAt(p, t, n) = t /\ VaultAt(w, u, n) = u
  BY <1>1 DEF StorageAt, VaultAt
<1> HIDE DEF n
<1>3. ASSUME NEW k \in 0 .. n, k # n
      PROVE  StorageAt(p, t, k) = StorageAt(p, s, k) /\ VaultAt(w, u, k) = VaultAt(w, v, k)
  <2>1. k < n
    BY <1>1, <1>3
  <2> QED BY <1>1, <2>1 DEF StorageAt, VaultAt, n
<1>4. ASSUME NEW k \in 0 .. n
      PROVE  /\ Sound(StorageAt(p, t, k), VaultAt(w, u, k))
             /\ \A o \in Order : Excess(StorageAt(p, t, k), VaultAt(w, u, k), o)
                                   = Excess(StorageAt(p, s, k), VaultAt(w, v, k), o)
  <2>1. CASE k = n
    BY <1>2, <2>1
  <2>2. CASE k # n
    <3>1. Sound(StorageAt(p, s, k), VaultAt(w, v, k))
      BY DEF Accounted, n
    <3> QED BY <1>3, <2>2, <3>1
  <2> QED BY <2>1, <2>2
<1>5. \A o \in Order : Excess(StorageAt(p, t, 0), VaultAt(w, u, 0), o) = 0
  <2>1. 0 \in 0 .. n
    BY <1>1
  <2> QED BY <1>4, <2>1 DEF Accounted
<1>6. ASSUME NEW k \in 1 .. n, NEW o \in Order
      PROVE  Excess(StorageAt(p, t, k), VaultAt(w, u, k), o)
               = Excess(StorageAt(p, t, k - 1), VaultAt(w, u, k - 1), o) + Moved(p[k], o)
  <2>1. k \in 0 .. n /\ k - 1 \in 0 .. n
    BY <1>1
  <2>2. Excess(StorageAt(p, s, k), VaultAt(w, v, k), o)
          = Excess(StorageAt(p, s, k - 1), VaultAt(w, v, k - 1), o) + Moved(p[k], o)
    BY DEF Accounted, n
  <2> QED BY <1>4, <2>1, <2>2
<1> QED BY <1>4, <1>5, <1>6 DEF Accounted, n

\* The storage and the vault as they are now are the top of the stack.
LEMMA Now ==
  ASSUME IInv
  PROVE  /\ Sound(storage, vault) /\ storage \in LOP!Storage /\ vault \in Vault
         /\ pending \in Seq(LOP!Frame) /\ saved \in Seq(Vault) /\ Len(saved) = Len(pending)
         /\ now \in Nat /\ now \in 1 .. Horizon
<1>1. /\ pending \in Seq(LOP!Frame) /\ saved \in Seq(Vault) /\ Len(saved) = Len(pending)
      /\ storage \in LOP!Storage /\ vault \in Vault /\ now \in 1 .. Horizon
  BY DEF IInv, TypeOK, LOP!TypeOK
<1>2. Len(pending) \in 0 .. Len(pending)
  BY <1>1
<1>3. Sound(StorageAt(pending, storage, Len(pending)), VaultAt(saved, vault, Len(pending)))
  BY <1>2 DEF IInv, Accounted
<1>4. /\ StorageAt(pending, storage, Len(pending)) = storage
      /\ VaultAt(saved, vault, Len(pending)) = vault
  BY <1>1 DEF StorageAt, VaultAt
<1> QED BY <1>1, <1>3, <1>4, ProtocolAssumption

-----------------------------------------------------------------------------
(* What is stored.                                                          *)

\* What the storage and the vault hold of an order.
LEMMA Held ==
  ASSUME NEW s, NEW v, Sound(s, v), NEW o \in Order
  PROVE  /\ s \in LOP!Storage /\ v \in Vault
         /\ s.raw[this][o] \in 0 .. Word - 1 /\ s.taken[o] \in Nat /\ s.due[o] \in Nat
         /\ s.raw[this][o] # 0 => LOP!Not(s.raw[this][o]) \in 0 .. MaxAmount
         /\ v.orders[o] \in ETHOrder /\ v.orders[o].balance \in 0 .. MaxAmount
         /\ v.orders[o].balance \in Nat
         /\ v.orders[o].maker = Nobody => v.orders[o].balance = 0
         /\ v.weth \in Nat /\ v.refunds[o] \in Nat /\ v.rewards[o] \in Nat
         /\ PutIn(v, o) \in Nat
<1>1. s \in LOP!Storage /\ v \in Vault
  BY DEF Sound, Entries, Books
<1>2. /\ s.raw \in [{this} -> [Order -> 0 .. Word - 1]]
      /\ s.taken \in [Order -> Nat] /\ s.due \in [Order -> Nat]
  BY <1>1 DEF LOP!Storage
<1>3. s.raw[this][o] \in 0 .. Word - 1 /\ s.taken[o] \in Nat /\ s.due[o] \in Nat
  BY <1>2
<1>4. s.raw[this][o] # 0 => LOP!Not(s.raw[this][o]) \in 0 .. MaxAmount
  <2>1. Word \in Nat /\ MaxAmount \in Nat
    BY ProtocolAssumption
  <2> QED BY <1>3, <2>1 DEF Sound, Entries, Books, LOP!Not
<1>5. /\ v.orders[o] \in ETHOrder /\ v.weth \in Nat /\ v.refunds[o] \in Nat
      /\ v.rewards[o] \in Nat
  BY <1>1 DEF Vault
<1>6. v.orders[o].balance \in 0 .. MaxAmount
  BY <1>5 DEF ETHOrder
<1>7. PutIn(v, o) \in Nat
  BY OrderFacts DEF PutIn, Stake
<1>8. v.orders[o].maker = Nobody => v.orders[o].balance = 0
  BY DEF Sound, Entries, Books
<1> QED BY <1>1, <1>3, <1>4, <1>5, <1>6, <1>7, <1>8

\* The excess is a number.
LEMMA ExcessFacts ==
  ASSUME NEW s, NEW v, Sound(s, v), NEW o \in Order
  PROVE  /\ Excess(s, v, o) \in Int
         /\ Excess(s, v, o) = v.orders[o].balance + s.taken[o] + v.refunds[o] + v.rewards[o]
                                - PutIn(v, o)
<1>1. /\ v.orders[o].balance \in Nat /\ s.taken[o] \in Nat /\ v.refunds[o] \in Nat
      /\ v.rewards[o] \in Nat /\ PutIn(v, o) \in Nat
  BY Held
<1>2. Excess(s, v, o) = v.orders[o].balance + s.taken[o] + v.refunds[o] + v.rewards[o]
                          - PutIn(v, o)
  BY DEF Excess
<1> QED BY <1>1, <1>2

\* The vault `v` with other books of `o`.
Booked(v, o, entry, weth, refund, reward) ==
  [orders |-> [v.orders EXCEPT ![o] = entry], weth |-> weth,
   refunds |-> [v.refunds EXCEPT ![o] = refund], rewards |-> [v.rewards EXCEPT ![o] = reward]]

\* The books of other orders are left alone.
LEMMA BookedFacts ==
  ASSUME NEW v \in Vault, NEW o \in Order, NEW entry \in ETHOrder, NEW weth \in Nat,
         NEW refund \in Nat, NEW reward \in Nat
  PROVE  LET u == Booked(v, o, entry, weth, refund, reward)
         IN  /\ u \in Vault
             /\ \A p \in Order :
                  /\ u.orders[p] = IF p = o THEN entry ELSE v.orders[p]
                  /\ u.refunds[p] = IF p = o THEN refund ELSE v.refunds[p]
                  /\ u.rewards[p] = IF p = o THEN reward ELSE v.rewards[p]
<1> DEFINE orders == [v.orders EXCEPT ![o] = entry]
           refunds == [v.refunds EXCEPT ![o] = refund]
           rewards == [v.rewards EXCEPT ![o] = reward]
           u == Booked(v, o, entry, weth, refund, reward)
<1>1. /\ v.orders \in [Order -> ETHOrder] /\ v.refunds \in [Order -> Nat]
      /\ v.rewards \in [Order -> Nat]
  BY DEF Vault
<1>2. /\ orders \in [Order -> ETHOrder]
      /\ \A p \in Order : orders[p] = IF p = o THEN entry ELSE v.orders[p]
  BY <1>1
<1>3. /\ refunds \in [Order -> Nat]
      /\ \A p \in Order : refunds[p] = IF p = o THEN refund ELSE v.refunds[p]
  BY <1>1
<1>4. /\ rewards \in [Order -> Nat]
      /\ \A p \in Order : rewards[p] = IF p = o THEN reward ELSE v.rewards[p]
  BY <1>1
<1>5. u = [orders |-> orders, weth |-> weth, refunds |-> refunds, rewards |-> rewards]
  BY DEF Booked
<1> HIDE DEF orders, refunds, rewards, u
<1>6. u \in Vault /\ u.orders = orders /\ u.refunds = refunds /\ u.rewards = rewards
  BY <1>2, <1>3, <1>4, <1>5 DEF Vault
<1> QED BY <1>2, <1>3, <1>4, <1>6 DEF u

\* Booking what adds up keeps the books, if the storage is kept as far as they go.
LEMMA BookedSound ==
  ASSUME NEW t, Entries(t), NEW v, Books(v),
         NEW o \in Order, NEW entry \in ETHOrder, NEW weth \in Nat,
         NEW refund \in Nat, NEW reward \in Nat,
         entry.maker = Nobody => entry.balance = 0,
         NEW u, u = Booked(v, o, entry, weth, refund, reward)
  PROVE  /\ Sound(t, u)
         /\ \A p \in Order : p # o => Excess(t, u, p) = Excess(t, v, p)
         /\ Excess(t, u, o)
              = entry.balance + t.taken[o] + refund + reward - Stake(entry, o)
<1>1. v \in Vault
  BY DEF Books
<1>2. /\ u \in Vault
      /\ \A p \in Order :
           /\ u.orders[p] = IF p = o THEN entry ELSE v.orders[p]
           /\ u.refunds[p] = IF p = o THEN refund ELSE v.refunds[p]
           /\ u.rewards[p] = IF p = o THEN reward ELSE v.rewards[p]
  BY <1>1, BookedFacts
<1>3. Sound(t, u)
  BY <1>2 DEF Sound, Entries, Books
<1>4. \A p \in Order : p # o => Excess(t, u, p) = Excess(t, v, p)
  BY <1>2 DEF Excess, PutIn
<1>5. Excess(t, u, o) = entry.balance + t.taken[o] + refund + reward - Stake(entry, o)
  BY <1>2 DEF Excess, PutIn
<1> QED BY <1>3, <1>4, <1>5

\* The storage once `o` has been invalidated with `r` of it left.
Claimed(o, r) ==
  LET t == Terms[o]
  IN  [(IF LOP!UseBitInvalidator(o)
          THEN [storage EXCEPT !.bits[t.maker] = @ \union {t.nonceOrEpoch}]
          ELSE [storage EXCEPT !.raw[t.maker][o] = LOP!Not(r)]) EXCEPT
        !.ids[t.maker] = IF t.orderId = 0 THEN @ ELSE @ \union {o}]

\* What invalidating an order does to the entries.
LEMMA EntriesOfFill ==
  ASSUME storage \in LOP!Storage, NEW o \in Order, NEW r \in 0 .. MaxAmount
  PROVE  /\ Claimed(o, r) \in LOP!Storage
         /\ Claimed(o, r).taken = storage.taken
         /\ \A p \in Order : \/ Claimed(o, r).raw[this][p] = storage.raw[this][p]
                             \/ Claimed(o, r).raw[this][p] = LOP!Not(r)
<1> DEFINE t == Terms[o]
           raw == IF LOP!UseBitInvalidator(o) THEN storage.raw
                  ELSE [storage.raw EXCEPT ![t.maker] = [@ EXCEPT ![o] = LOP!Not(r)]]
           bits == IF LOP!UseBitInvalidator(o)
                     THEN [storage.bits EXCEPT ![t.maker] = @ \union {t.nonceOrEpoch}]
                     ELSE storage.bits
           ids == [storage.ids EXCEPT ![t.maker] = IF t.orderId = 0 THEN @ ELSE @ \union {o}]
<1>1. /\ t.maker = this /\ t.nonceOrEpoch \in Nonce
      /\ Word \in Nat /\ MaxAmount \in Nat /\ MaxAmount + 1 < Word
  BY OrderFacts
<1>2. /\ storage.raw \in [{this} -> [Order -> 0 .. Word - 1]]
      /\ storage.bits \in [{this} -> SUBSET Nonce]
      /\ storage.ids \in [{this} -> SUBSET Order]
  BY DEF LOP!Storage
<1>3. LOP!Not(r) \in 0 .. Word - 1
  BY <1>1 DEF LOP!Not
<1>4. /\ raw \in [{this} -> [Order -> 0 .. Word - 1]]
      /\ \A p \in Order : raw[this][p] = storage.raw[this][p] \/ raw[this][p] = LOP!Not(r)
  <2>1. CASE LOP!UseBitInvalidator(o)
    BY <1>2, <2>1
  <2>2. CASE ~LOP!UseBitInvalidator(o)
    <3> DEFINE x == LOP!Not(r)
               y == [storage.raw[this] EXCEPT ![o] = x]
    <3>1. y \in [Order -> 0 .. Word - 1] /\ y[o] = x
          /\ \A p \in Order : p # o => y[p] = storage.raw[this][p]
      BY <1>1, <1>2, <1>3
    <3>2. raw = [storage.raw EXCEPT ![this] = y]
      BY <1>1, <2>2
    <3> HIDE DEF x, y, raw
    <3>3. raw \in [{this} -> [Order -> 0 .. Word - 1]] /\ raw[this] = y
      BY <1>1, <1>2, <3>1, <3>2
    <3> QED BY <1>1, <2>2, <3>1, <3>3 DEF x
  <2> QED BY <2>1, <2>2
<1>5. bits \in [{this} -> SUBSET Nonce]
  BY <1>1, <1>2
<1>6. ids \in [{this} -> SUBSET Order]
  BY <1>1, <1>2
<1> DEFINE s == Claimed(o, r)
<1>7. s = [storage EXCEPT !.raw = raw, !.bits = bits, !.ids = ids]
  BY DEF LOP!Storage, Claimed
<1> HIDE DEF raw, bits, ids, s
<1>8. s \in LOP!Storage
  BY <1>4, <1>5, <1>6, <1>7 DEF LOP!Storage
<1>9. s.taken = storage.taken /\ s.raw = raw
  BY <1>7 DEF LOP!Storage
<1> QED BY <1>4, <1>8, <1>9 DEF s

\* What cancelling an order does to the entries.
LEMMA EntriesOfCancel ==
  ASSUME IInv, NEW p \in Order, NEW o \in Order, LOP!CancelOrder(this, p, o)
  PROVE  /\ storage' \in LOP!Storage /\ storage'.taken = storage.taken
         /\ \A q \in Order :
              storage'.raw[this][q] # 0 => Word - 1 - storage'.raw[this][q] <= MaxAmount
         /\ UNCHANGED <<now, signed, pending>> /\ calls' \in 0 .. MaxCalls
<1>1. /\ storage \in LOP!Storage /\ Sound(storage, vault) /\ calls \in 0 .. MaxCalls
      /\ MaxCalls \in Nat
  BY Now, ProtocolAssumption DEF IInv, TypeOK, LOP!TypeOK
<1>2. UNCHANGED <<now, signed, pending>> /\ calls' \in 0 .. MaxCalls
  BY <1>1 DEF LOP!CancelOrder, LOP!Count
<1>3. /\ Word \in Nat /\ MaxAmount \in Nat /\ MaxAmount + 1 < Word
      /\ Terms[p].nonceOrEpoch \in Nonce
  BY OrderFacts
<1>4. /\ storage.raw \in [{this} -> [Order -> 0 .. Word - 1]]
      /\ storage.bits \in [{this} -> SUBSET Nonce]
  BY <1>1 DEF LOP!Storage
<1>5. CASE LOP!UseBitInvalidator(p)
  <2> DEFINE bits == [storage.bits EXCEPT ![this] = @ \union {Terms[p].nonceOrEpoch}]
  <2>1. bits \in [{this} -> SUBSET Nonce]
    BY <1>3, <1>4
  <2>2. storage' = [storage EXCEPT !.bits = bits]
    BY <1>1, <1>5 DEF LOP!CancelOrder, LOP!Storage
  <2> HIDE DEF bits
  <2>3. /\ storage' \in LOP!Storage /\ storage'.taken = storage.taken
        /\ storage'.raw = storage.raw
    BY <1>1, <2>1, <2>2 DEF LOP!Storage
  <2> QED BY <1>1, <1>2, <2>3 DEF Sound, Entries, Books
<1>6. CASE ~LOP!UseBitInvalidator(p)
  <2> DEFINE y == [storage.raw[this] EXCEPT ![o] = Word - 1]
             raw == [storage.raw EXCEPT ![this] = y]
  <2>1. /\ y \in [Order -> 0 .. Word - 1] /\ y[o] = Word - 1
        /\ \A q \in Order : q # o => y[q] = storage.raw[this][q]
    BY <1>3, <1>4
  <2>2. storage' = [storage EXCEPT !.raw = raw]
    BY <1>1, <1>6 DEF LOP!CancelOrder, LOP!Storage
  <2> HIDE DEF y
  <2>3. raw \in [{this} -> [Order -> 0 .. Word - 1]] /\ raw[this] = y
    BY <1>4, <2>1
  <2> HIDE DEF raw
  <2>4. /\ storage' \in LOP!Storage /\ storage'.taken = storage.taken
        /\ storage'.raw[this] = y
    BY <1>1, <2>2, <2>3 DEF LOP!Storage
  <2>5. \A q \in Order : y[q] # 0 => Word - 1 - y[q] <= MaxAmount
    BY <1>1, <1>3, <2>1 DEF Sound, Entries, Books
  <2> QED BY <1>2, <2>4, <2>5
<1> QED BY <1>5, <1>6

-----------------------------------------------------------------------------
(* The steps.                                                               *)

\* What happens outside of the calls under way keeps the invariant if it books
\* what adds up.
LEMMA ChangedKeeps ==
  ASSUME IInv, UNCHANGED <<signed, pending, saved>>, now' \in 1 .. Horizon,
         calls' \in 0 .. MaxCalls, Sound(storage', vault'),
         \A o \in Order : Excess(storage', vault', o) = Excess(storage, vault, o)
  PROVE  IInv'
<1>1. Accounted(pending, saved, storage', vault')
  BY Now, AccountedChanged DEF IInv
<1>2. TypeOK'
  <2>1. storage' \in LOP!Storage /\ vault' \in Vault
    BY DEF Sound, Entries, Books
  <2>2. LOP!TypeOK'
    BY <2>1 DEF IInv, TypeOK, LOP!TypeOK
  <2> QED BY <2>1, <2>2 DEF IInv, TypeOK
<1> QED BY <1>1, <1>2 DEF IInv

\* A deposit is put in and on the books.
LEMMA DepositKeeps ==
  ASSUME IInv, NEW o \in Order, NEW premium \in Premium, NEW duration \in AuctionDuration,
         EthOrderDeposit(o, premium, duration)
  PROVE  IInv'
<1> DEFINE making == Terms[o].makingAmount
           entry == [maker |-> Depositor[o], balance |-> making,
                     maximumPremium |-> premium, auctionDuration |-> duration]
           weth == vault.weth + making
<1>1. /\ vault.orders[o].maker = Nobody /\ UNCHANGED <<now, signed, storage, pending, calls, saved>>
      /\ vault' = [vault EXCEPT !.orders[o] = entry, !.weth = weth]
  BY DEF EthOrderDeposit, Deposited, lopVars
<1>2. /\ Sound(storage, vault) /\ storage \in LOP!Storage /\ vault \in Vault
      /\ vault.orders[o].balance = 0
      /\ vault.weth \in Nat /\ vault.refunds[o] \in Nat /\ vault.rewards[o] \in Nat
      /\ storage.taken[o] \in Nat
  BY <1>1, Now, Held
<1>3. making \in 0 .. MaxAmount /\ making \in Nat
  BY OrderFacts
<1>4. entry.maker = Depositor[o] /\ entry.balance = making
  OBVIOUS
<1>5. Depositor[o] \in Account /\ Depositor[o] # Nobody
  BY DepositorAssumption
<1>6. entry \in ETHOrder
  BY <1>3, <1>5 DEF ETHOrder
<1>7. weth \in Nat
  BY <1>2, <1>3
<1> HIDE DEF entry, weth
<1>8. vault' = Booked(vault, o, entry, weth, vault.refunds[o], vault.rewards[o])
  <2>1. /\ vault.orders \in [Order -> ETHOrder] /\ vault.refunds \in [Order -> Nat]
        /\ vault.rewards \in [Order -> Nat]
    BY <1>2 DEF Vault
  <2>2. /\ [vault.refunds EXCEPT ![o] = vault.refunds[o]] = vault.refunds
        /\ [vault.rewards EXCEPT ![o] = vault.rewards[o]] = vault.rewards
    BY <2>1
  <2> QED BY <1>1, <1>2, <2>2 DEF Booked, Vault
<1>9. \A p \in Order :
        storage.raw[this][p] # 0 => Word - 1 - storage.raw[this][p] <= MaxAmount
  BY <1>2 DEF Sound, Entries, Books
<1>10. /\ Sound(storage, vault')
       /\ \A p \in Order : p # o => Excess(storage, vault', p) = Excess(storage, vault, p)
       /\ Excess(storage, vault', o)
            = making + storage.taken[o] + vault.refunds[o] + vault.rewards[o] - making
  <2>1. entry.maker # Nobody /\ entry.balance = Terms[o].makingAmount
    BY <1>4, <1>5
  <2> HIDE DEF making
  <2>2. /\ Sound(storage, vault')
        /\ \A p \in Order : p # o => Excess(storage, vault', p) = Excess(storage, vault, p)
        /\ Excess(storage, vault', o)
             = entry.balance + storage.taken[o] + vault.refunds[o] + vault.rewards[o]
                 - Stake(entry, o)
    <3>1. entry.maker = Nobody => entry.balance = 0
      BY <2>1
    <3>2. Entries(storage) /\ Books(vault)
      BY <1>2 DEF Sound
    <3>3. /\ o \in Order /\ entry \in ETHOrder /\ weth \in Nat
          /\ vault.refunds[o] \in Nat /\ vault.rewards[o] \in Nat
      BY <1>2, <1>6, <1>7
    <3> QED BY <1>8, <3>1, <3>2, <3>3, BookedSound
  <2> QED BY <2>1, <2>2 DEF making, Stake
<1>11. Excess(storage, vault, o) = storage.taken[o] + vault.refunds[o] + vault.rewards[o]
  BY <1>1, <1>2 DEF Excess, PutIn, Stake
<1>12. Excess(storage, vault', o) = Excess(storage, vault, o)
  BY <1>2, <1>3, <1>10, <1>11
<1>13. now' \in 1 .. Horizon /\ calls' \in 0 .. MaxCalls
  BY <1>1 DEF IInv, TypeOK, LOP!TypeOK
<1> QED BY <1>1, <1>10, <1>12, <1>13, ChangedKeeps

\* A gift is on nobody's books.
LEMMA GiftKeeps ==
  ASSUME IInv, NEW amount \in 1 .. MaxWeth, GiveWeth(amount)
  PROVE  IInv'
<1>1. UNCHANGED <<now, signed, storage, pending, calls, saved>> /\ amount \in Nat
  BY WethAssumption DEF GiveWeth, lopVars
<1>2. Sound(storage, vault) /\ vault \in Vault
  BY Now
<1>3. /\ vault' \in Vault /\ vault'.orders = vault.orders
      /\ vault'.refunds = vault.refunds /\ vault'.rewards = vault.rewards
  BY <1>1, <1>2 DEF GiveWeth, Vault
<1>4. Sound(storage', vault')
  BY <1>1, <1>2, <1>3 DEF Sound, Entries, Books
<1>5. \A o \in Order : Excess(storage', vault', o) = Excess(storage, vault, o)
  BY <1>1, <1>3 DEF Excess, PutIn
<1>6. now' \in 1 .. Horizon /\ calls' \in 0 .. MaxCalls
  BY <1>1 DEF IInv, TypeOK, LOP!TypeOK
<1> QED BY <1>1, <1>4, <1>5, <1>6, ChangedKeeps

\* What is taken off the books is paid out, in whatever shares.
LEMMA PaidOutKeeps ==
  ASSUME IInv, NEW p \in Order, NEW o \in Order, LOP!CancelOrder(this, p, o), saved' = saved,
         NEW refund \in Nat, NEW reward \in Nat, refund + reward = vault.orders[o].balance,
         vault.weth >= vault.orders[o].balance,
         vault' = Booked(vault, o, [vault.orders[o] EXCEPT !.balance = 0],
                         vault.weth - vault.orders[o].balance,
                         vault.refunds[o] + refund, vault.rewards[o] + reward)
  PROVE  IInv'
<1> DEFINE entry == [vault.orders[o] EXCEPT !.balance = 0]
           balance == vault.orders[o].balance
           weth == vault.weth - balance
<1>1. /\ Sound(storage, vault) /\ vault \in Vault /\ vault.orders[o] \in ETHOrder
      /\ balance \in Nat /\ vault.weth \in Nat /\ vault.refunds[o] \in Nat
      /\ vault.rewards[o] \in Nat /\ storage.taken[o] \in Nat
      /\ PutIn(vault, o) \in Nat
  BY Now, Held
<1>2. /\ storage' \in LOP!Storage /\ storage'.taken = storage.taken
      /\ \A q \in Order :
           storage'.raw[this][q] # 0 => Word - 1 - storage'.raw[this][q] <= MaxAmount
      /\ UNCHANGED <<now, signed, pending>> /\ calls' \in 0 .. MaxCalls
  BY EntriesOfCancel
<1>3. entry \in ETHOrder /\ entry.balance = 0 /\ entry.maker = vault.orders[o].maker
  <2>1. MaxAmount \in Nat
    BY OrderFacts
  <2>2. 0 \in 0 .. MaxAmount
    BY <2>1
  <2> QED BY <1>1, <2>2 DEF ETHOrder
<1>4. /\ weth \in Nat /\ vault.refunds[o] + refund \in Nat /\ vault.rewards[o] + reward \in Nat
  BY <1>1
<1> HIDE DEF entry, weth
<1>5. /\ Sound(storage', vault')
      /\ \A q \in Order : q # o => Excess(storage', vault', q) = Excess(storage', vault, q)
      /\ Excess(storage', vault', o)
           = 0 + storage'.taken[o] + (vault.refunds[o] + refund) + (vault.rewards[o] + reward)
               - PutIn(vault, o)
  <2>1. vault' = Booked(vault, o, entry, weth, vault.refunds[o] + refund,
                        vault.rewards[o] + reward)
    BY DEF entry, weth
  <2>2. entry.maker = Nobody => entry.balance = 0
    BY <1>3
  <2>3. /\ Sound(storage', vault')
        /\ \A q \in Order : q # o => Excess(storage', vault', q) = Excess(storage', vault, q)
        /\ Excess(storage', vault', o)
             = entry.balance + storage'.taken[o] + (vault.refunds[o] + refund)
                 + (vault.rewards[o] + reward) - Stake(entry, o)
    <3>1. Entries(storage') /\ Books(vault)
      BY <1>1, <1>2 DEF Sound, Entries
    <3>2. /\ o \in Order /\ entry \in ETHOrder /\ weth \in Nat
          /\ vault.refunds[o] + refund \in Nat /\ vault.rewards[o] + reward \in Nat
      BY <1>3, <1>4
    <3> DEFINE x == vault.refunds[o] + refund
               y == vault.rewards[o] + reward
    <3>3. x \in Nat /\ y \in Nat /\ vault' = Booked(vault, o, entry, weth, x, y)
      BY <2>1, <3>2
    <3> HIDE DEF x, y
    <3>4. /\ Sound(storage', vault')
          /\ \A q \in Order : q # o => Excess(storage', vault', q) = Excess(storage', vault, q)
          /\ Excess(storage', vault', o)
               = entry.balance + storage'.taken[o] + x + y - Stake(entry, o)
      BY <2>2, <3>1, <3>2, <3>3, BookedSound
    <3> QED BY <3>4 DEF x, y
  <2>4. Stake(entry, o) = PutIn(vault, o)
    BY <1>3 DEF Stake, PutIn
  <2> QED BY <1>3, <2>3, <2>4
<1>6. Excess(storage', vault', o)
        = storage.taken[o] + vault.refunds[o] + refund + vault.rewards[o] + reward
            - PutIn(vault, o)
  BY <1>1, <1>2, <1>5
<1>7. Excess(storage, vault, o)
        = balance + storage.taken[o] + vault.refunds[o] + vault.rewards[o] - PutIn(vault, o)
  BY DEF Excess
<1>8. Excess(storage', vault', o) = Excess(storage, vault, o)
  BY <1>1, <1>6, <1>7
<1>9. \A q \in Order : Excess(storage', vault, q) = Excess(storage, vault, q)
  BY <1>2 DEF Excess
<1>10. now' \in 1 .. Horizon
  BY <1>2, Now
<1> QED BY <1>2, <1>5, <1>8, <1>9, <1>10, ChangedKeeps

\* A maker gets what its order has left.
LEMMA CancelOrderKeeps ==
  ASSUME IInv, NEW caller \in Account, NEW p \in Order, NEW o \in Order,
         CancelOrder(caller, p, o)
  PROVE  IInv'
<1> DEFINE balance == vault.orders[o].balance
           entry == [vault.orders[o] EXCEPT !.balance = 0]
<1>1. /\ LOP!CancelOrder(this, p, o) /\ saved' = saved /\ vault.weth >= balance
      /\ vault' = [vault EXCEPT !.orders[o].balance = 0, !.weth = @ - balance,
                                !.refunds[o] = @ + balance]
  BY DEF CancelOrder
<1>2. /\ vault \in Vault /\ balance \in Nat /\ vault.rewards[o] \in Nat
      /\ vault.refunds[o] \in Nat
  BY Now, Held
<1>3. vault' = Booked(vault, o, entry, vault.weth - balance, vault.refunds[o] + balance,
                      vault.rewards[o] + 0)
  <2>1. /\ vault.orders \in [Order -> ETHOrder] /\ vault.refunds \in [Order -> Nat]
        /\ vault.rewards \in [Order -> Nat]
    BY <1>2 DEF Vault
  <2>2. [vault.rewards EXCEPT ![o] = vault.rewards[o] + 0] = vault.rewards
    BY <1>2, <2>1
  <2> QED BY <1>1, <1>2, <2>1, <2>2 DEF Booked, Vault
<1>4. balance + 0 = balance /\ 0 \in Nat
  BY <1>2
<1> QED BY <1>1, <1>2, <1>3, <1>4, PaidOutKeeps

\* A premium is not negative.
LEMMA PremiumFacts ==
  ASSUME now \in Nat, NEW order \in ETHOrder, NEW expiration \in Nat
  PROVE  CurrentPremium(order, expiration) \in Nat
<1> DEFINE elapsed == now - expiration
<1>1. order.maximumPremium \in Nat /\ order.auctionDuration \in Nat
  <2>1. /\ order.maximumPremium \in Premium \union {0}
        /\ order.auctionDuration \in AuctionDuration \union {0}
    BY DEF ETHOrder
  <2>2. (Premium \union {0}) \subseteq Nat /\ (AuctionDuration \union {0}) \subseteq Nat
    <3>1. 0 \in Nat /\ Premium \subseteq Nat /\ AuctionDuration \subseteq Nat
      BY PremiumAssumption
    <3> QED BY <3>1, Zenon
  <2> QED BY <2>1, <2>2, Zenon
<1>2. elapsed \in Int
  OBVIOUS
<1>3. CurrentPremium(order, expiration)
        = IF elapsed <= 0 THEN 0
          ELSE IF elapsed >= order.auctionDuration THEN order.maximumPremium
          ELSE (elapsed * order.maximumPremium) \div order.auctionDuration
  BY DEF CurrentPremium
<1> HIDE DEF elapsed
<1>4. CASE elapsed > 0 /\ elapsed < order.auctionDuration
  <2>1. elapsed * order.maximumPremium \in Nat /\ order.auctionDuration \in Nat \ {0}
    BY <1>1, <1>2, <1>4
  <2> QED BY <1>1, <1>2, <1>3, <1>4, <2>1, Quotient
<1>5. CASE ~(elapsed > 0 /\ elapsed < order.auctionDuration)
  BY <1>1, <1>2, <1>3, <1>5
<1> QED BY <1>4, <1>5

\* A resolver gets its reward of what an order has left, and the maker the rest.
LEMMA CancelOrderByResolverKeeps ==
  ASSUME IInv, NEW caller \in Account, NEW p \in Order, NEW o \in Order, NEW fee \in Fee,
         CancelOrderByResolver(caller, p, o, fee)
  PROVE  IInv'
<1> DEFINE order == vault.orders[o]
           balance == order.balance
           premium == CurrentPremium(order, Terms[p].expiration)
           reward == (fee * (PremiumBase + premium)) \div PremiumBase
           refund == balance - reward
           entry == [order EXCEPT !.balance = 0]
<1>1. /\ LOP!CancelOrder(this, p, o) /\ saved' = saved /\ vault.weth >= balance
      /\ reward <= balance
      /\ vault' = [vault EXCEPT !.orders[o].balance = 0, !.weth = @ - balance,
                                !.rewards[o] = @ + reward,
                                !.refunds[o] = @ + balance - reward]
  BY DEF CancelOrderByResolver
<1>2. /\ vault \in Vault /\ order \in ETHOrder /\ balance \in Nat
      /\ vault.rewards[o] \in Nat /\ vault.refunds[o] \in Nat /\ now \in Nat
  BY Now, Held
<1>3. premium \in Nat
  BY <1>2, OrderFacts, PremiumFacts
<1>4. reward \in Nat
  <2>1. fee \in Nat /\ PremiumBase \in Nat \ {0}
    BY PremiumAssumption
  <2> HIDE DEF premium
  <2>2. fee * (PremiumBase + premium) \in Nat
    BY <1>3, <2>1
  <2> QED BY <2>1, <2>2, Quotient
<1> HIDE DEF reward
<1>5. refund \in Nat /\ refund + reward = balance
  BY <1>1, <1>2, <1>4
<1>6. vault.refunds[o] + balance - reward = vault.refunds[o] + refund
  BY <1>2, <1>4
<1>7. vault' = Booked(vault, o, entry, vault.weth - balance, vault.refunds[o] + refund,
                      vault.rewards[o] + reward)
  <2>1. /\ vault.orders \in [Order -> ETHOrder] /\ vault.refunds \in [Order -> Nat]
        /\ vault.rewards \in [Order -> Nat]
    BY <1>2 DEF Vault
  <2>2. vault' = [vault EXCEPT !.orders[o].balance = 0, !.weth = @ - balance,
                               !.rewards[o] = @ + reward,
                               !.refunds[o] = vault.refunds[o] + refund]
    BY <1>1, <1>6, <2>1
  <2> HIDE DEF refund
  <2> QED BY <1>2, <2>1, <2>2 DEF Booked, Vault
<1> HIDE DEF refund
<1> QED BY <1>1, <1>4, <1>5, <1>7, PaidOutKeeps

\* The pause and the clock have nothing to do with the books.
LEMMA PauseKeeps ==
  ASSUME IInv, Pause
  PROVE  IInv'
<1>1. /\ storage' = [storage EXCEPT !.paused = ~@]
      /\ UNCHANGED <<now, signed, pending, calls, vault, saved>>
  BY DEF Pause, LOP!Pause
<1>2. Sound(storage, vault) /\ storage \in LOP!Storage
  BY Now
<1>3. /\ storage' \in LOP!Storage /\ storage'.raw = storage.raw
      /\ storage'.taken = storage.taken
  <2>1. (~storage.paused) \in BOOLEAN
    OBVIOUS
  <2> QED BY <1>1, <1>2, <2>1 DEF LOP!Storage
<1>4. Sound(storage', vault')
  BY <1>1, <1>2, <1>3 DEF Sound, Entries, Books
<1>5. \A o \in Order : Excess(storage', vault', o) = Excess(storage, vault, o)
  BY <1>1, <1>3 DEF Excess
<1>6. now' \in 1 .. Horizon /\ calls' \in 0 .. MaxCalls
  BY <1>1 DEF IInv, TypeOK, LOP!TypeOK
<1> QED BY <1>1, <1>4, <1>5, <1>6, ChangedKeeps

\* Time passes between transactions.
LEMMA TickKeeps ==
  ASSUME IInv, Tick
  PROVE  IInv'
<1>1. /\ now < Horizon /\ now' = now + 1
      /\ UNCHANGED <<signed, storage, pending, calls, vault, saved>>
  BY DEF Tick, LOP!Tick
<1>2. Sound(storage, vault) /\ now \in 1 .. Horizon
  BY Now
<1>3. now' \in 1 .. Horizon /\ calls' \in 0 .. MaxCalls
  BY <1>1, <1>2, ProtocolAssumption DEF IInv, TypeOK, LOP!TypeOK
<1> QED BY <1>1, <1>2, <1>3, ChangedKeeps

\* What is known of the stack and its top while a call is under way.
LEMMA TopFacts ==
  ASSUME IInv, pending # <<>>
  PROVE  /\ LOP!Top = Last(pending) /\ LOP!Top \in LOP!Frame
         /\ LOP!Top.order \in Order /\ LOP!Top.sender \in Account
         /\ LOP!Top.making \in Nat /\ LOP!Top.taking \in Nat
         /\ LOP!Front(pending) = Front(pending)
         /\ Front(pending) \in Seq(LOP!Frame) /\ Front(saved) \in Seq(Vault)
         /\ Len(Front(saved)) = Len(Front(pending))
         /\ Last(saved) \in Vault
         /\ Append(Front(saved), Last(saved)) = saved
         /\ Sound(LOP!Top.before, Last(saved))
         /\ Accounted(Front(pending), Front(saved), LOP!Top.before, Last(saved))
         /\ \A o \in Order : Excess(storage, vault, o)
                               = Excess(LOP!Top.before, Last(saved), o) + Moved(LOP!Top, o)
<1>1. /\ pending \in Seq(LOP!Frame) /\ saved \in Seq(Vault) /\ Len(saved) = Len(pending)
      /\ Accounted(pending, saved, storage, vault)
  BY Now DEF IInv
<1>2. LOP!Top = Last(pending) /\ LOP!Front(pending) = Front(pending)
  BY <1>1, Under DEF LOP!Top
<1>3. /\ Front(pending) \in Seq(LOP!Frame) /\ Front(saved) \in Seq(Vault)
      /\ Len(Front(saved)) = Len(Front(pending))
      /\ Last(pending) \in LOP!Frame /\ Last(saved) \in Vault
      /\ Sound(Last(pending).before, Last(saved))
      /\ Accounted(Front(pending), Front(saved), Last(pending).before, Last(saved))
      /\ \A o \in Order : Excess(storage, vault, o)
                            = Excess(Last(pending).before, Last(saved), o) + Moved(Last(pending), o)
  BY <1>1, AccountedPopped
<1>4. Append(Front(saved), Last(saved)) = saved
  <2> DEFINE n == Len(saved)
             x == Front(saved)
             y == Append(x, Last(saved))
  <2>1. saved # <<>>
    BY <1>1
  <2>2. /\ n \in Nat \ {0} /\ x \in Seq(Vault) /\ Len(x) = n - 1
        /\ Last(saved) = saved[n] /\ \A k \in 1 .. n - 1 : x[k] = saved[k]
    BY <1>1, <2>1, Under
  <2> HIDE DEF x, n
  <2>3. /\ y \in Seq(Vault) /\ Len(y) = n /\ y[n] = saved[n]
        /\ \A k \in 1 .. n - 1 : y[k] = x[k]
    BY <1>3, <2>2
  <2> HIDE DEF y
  <2>4. \A k \in 1 .. n : y[k] = saved[k]
    <3>1. \A k \in 1 .. n : k = n \/ k \in 1 .. n - 1
      BY <2>2
    <3> QED BY <2>2, <2>3, <3>1
  <2>5. y = saved
    BY <1>1, <2>3, <2>4, SeqEqual DEF n
  <2> QED BY <2>5 DEF x, y
<1>5. /\ Last(pending).order \in Order /\ Last(pending).sender \in Account
      /\ Last(pending).making \in Nat /\ Last(pending).taking \in Nat
  <2>1. /\ Last(pending).order \in Order /\ Last(pending).sender \in Account
        /\ Last(pending).making \in 0 .. MaxAmount /\ Last(pending).taking \in Nat
    BY <1>3 DEF LOP!Frame
  <2> QED BY <2>1
<1> QED BY <1>2, <1>3, <1>4, <1>5

\* A fill invalidates what it takes before it takes it.
LEMMA BeginFillKeeps ==
  ASSUME IInv, NEW o \in Order, NEW sender \in Account, NEW isMakingAmount \in BOOLEAN,
         NEW amount \in 1 .. MaxAmount, BeginFill(o, sender, isMakingAmount, amount)
  PROVE  IInv'
<1> DEFINE remaining == LOP!Remaining(o)
           a == LOP!Amounts(o, sender, remaining, isMakingAmount, amount)
           r == remaining - a.making
           f == [order |-> o, sender |-> sender, stage |-> "invalidated",
                 remaining |-> remaining, making |-> a.making, taking |-> a.taking,
                 before |-> storage]
<1>1. /\ LOP!Fill(o, sender, remaining, isMakingAmount, amount, pending, storage)
      /\ saved' = Append(saved, vault) /\ vault' = vault
  BY DEF BeginFill, LOP!BeginFill
<1>2. /\ storage' = Claimed(o, r) /\ pending' = Append(pending, f)
      /\ UNCHANGED <<now, signed, calls>>
  BY <1>1 DEF LOP!Fill, LOP!Invalidated, Claimed
<1>3. /\ Sound(storage, vault) /\ storage \in LOP!Storage /\ vault \in Vault
      /\ pending \in Seq(LOP!Frame) /\ saved \in Seq(Vault) /\ Len(saved) = Len(pending)
      /\ now \in Nat
  BY Now
<1>4. MaxAmount \in Nat /\ Word \in Nat /\ MaxAmount + 1 < Word
  BY OrderFacts
<1>5. remaining \in 0 .. MaxAmount /\ remaining \in Nat
  <2>1. Terms[o].makingAmount \in 1 .. MaxAmount /\ Terms[o].maker = this
    BY OrderFacts
  <2>2. storage.raw[this][o] # 0 => LOP!Not(storage.raw[this][o]) \in 0 .. MaxAmount
    BY <1>3, Held
  <2> QED BY <1>4, <2>1, <2>2 DEF LOP!Remaining, LOP!Raw
<1> HIDE DEF remaining
<1>6. a.making \in 0 .. remaining /\ a.taking \in Nat
  <2>1. amount \in Nat
    BY <1>4
  <2> QED BY <1>3, <1>5, <2>1, AmountsOfFill
<1> HIDE DEF a
<1>7. a.making \in 0 .. MaxAmount /\ r \in 0 .. MaxAmount
  BY <1>4, <1>5, <1>6
<1>8. f \in LOP!Frame /\ f.order = o /\ f.stage = "invalidated" /\ f.before = storage
  BY <1>3, <1>5, <1>6, <1>7 DEF LOP!Frame
<1> HIDE DEF f, r
<1>9. /\ storage' \in LOP!Storage /\ storage'.taken = storage.taken
      /\ \A p \in Order : \/ storage'.raw[this][p] = storage.raw[this][p]
                          \/ storage'.raw[this][p] = LOP!Not(r)
  BY <1>2, <1>3, <1>7, EntriesOfFill
<1>10. Sound(storage', vault)
  <2>1. ASSUME NEW p \in Order, storage'.raw[this][p] # 0
        PROVE  Word - 1 - storage'.raw[this][p] <= MaxAmount
    <3>1. Word - 1 - LOP!Not(r) = r /\ r <= MaxAmount
      BY <1>4, <1>7 DEF LOP!Not
    <3>2. CASE storage'.raw[this][p] = storage.raw[this][p]
      BY <1>3, <2>1, <3>2 DEF Sound, Entries, Books
    <3>3. CASE storage'.raw[this][p] = LOP!Not(r)
      BY <3>1, <3>3
    <3> QED BY <1>9, <3>2, <3>3
  <2> QED BY <1>3, <1>9, <2>1 DEF Sound, Entries, Books
<1>11. ASSUME NEW p \in Order
       PROVE  Excess(storage', vault, p) = Excess(storage, vault, p) + Moved(f, p)
  <2>1. Excess(storage', vault, p) = Excess(storage, vault, p) /\ Moved(f, p) = 0
    BY <1>8, <1>9 DEF Excess, Moved
  <2>2. Excess(storage, vault, p) \in Int
    BY <1>3, ExcessFacts
  <2> QED BY <2>1, <2>2
<1>12. /\ pending' \in Seq(LOP!Frame) /\ saved' \in Seq(Vault) /\ Len(saved') = Len(pending')
       /\ Accounted(pending', saved', storage', vault)
  BY <1>1, <1>2, <1>3, <1>8, <1>10, <1>11, AccountedPushed DEF IInv
<1>13. TypeOK'
  BY <1>1, <1>2, <1>3, <1>9, <1>12 DEF IInv, TypeOK, LOP!TypeOK
<1> QED BY <1>1, <1>12, <1>13 DEF IInv

\* Until it is reported, what was taken is owed by the call that took it.
LEMMA TransferKeeps ==
  ASSUME IInv, Transfer
  PROVE  IInv'
<1> DEFINE g == LOP!Top
           f == [g EXCEPT !.stage = "transferred"]
           o == g.order
           x == storage.taken[o] + g.making
           taken == [storage.taken EXCEPT ![o] = x]
<1>1. /\ pending # <<>> /\ g.stage = "invalidated"
      /\ storage' = [storage EXCEPT !.taken = taken]
      /\ pending' = Append(LOP!Front(pending), f)
      /\ DrawWeth \/ UNCHANGED vault
      /\ UNCHANGED <<now, signed, calls, saved>>
  BY DEF Transfer, LOP!Transfer
<1>2. /\ Sound(storage, vault) /\ storage \in LOP!Storage /\ vault \in Vault
  BY Now
<1>3. /\ g \in LOP!Frame /\ o \in Order /\ g.making \in Nat
      /\ LOP!Front(pending) = Front(pending)
      /\ Front(pending) \in Seq(LOP!Frame) /\ Front(saved) \in Seq(Vault)
      /\ Len(Front(saved)) = Len(Front(pending))
      /\ Last(saved) \in Vault
      /\ Append(Front(saved), Last(saved)) = saved
      /\ Sound(g.before, Last(saved))
      /\ Accounted(Front(pending), Front(saved), g.before, Last(saved))
      /\ \A p \in Order : Excess(storage, vault, p)
                            = Excess(g.before, Last(saved), p) + Moved(g, p)
  BY <1>1, TopFacts
<1> HIDE DEF g
<1>4. /\ f \in LOP!Frame /\ f.stage = "transferred" /\ f.order = o /\ f.before = g.before
      /\ f.making = g.making
  BY <1>3 DEF LOP!Frame
<1> HIDE DEF f, o
<1>5. storage.taken \in [Order -> Nat]
  BY <1>2 DEF LOP!Storage
<1>6. /\ taken \in [Order -> Nat]
      /\ \A p \in Order : taken[p] = storage.taken[p] + IF p = o THEN g.making ELSE 0
  <2>1. x \in Nat
    BY <1>3, <1>5
  <2>2. /\ taken \in [Order -> Nat] /\ taken[o] = x
        /\ \A p \in Order : p # o => taken[p] = storage.taken[p]
    BY <1>3, <1>5, <2>1
  <2> QED BY <1>5, <2>2
<1> HIDE DEF taken
<1>7. /\ storage' \in LOP!Storage /\ storage'.taken = taken /\ storage'.raw = storage.raw
  BY <1>1, <1>2, <1>6 DEF LOP!Storage
<1>9. /\ vault' \in Vault /\ vault'.orders = vault.orders /\ vault'.refunds = vault.refunds
      /\ vault'.rewards = vault.rewards
  <2>1. CASE DrawWeth
    <3>1. vault.weth - g.making \in Nat
      BY <1>2, <1>3, <2>1 DEF DrawWeth, Vault, g
    <3>2. vault' = [vault EXCEPT !.weth = vault.weth - g.making]
      BY <2>1 DEF DrawWeth, g
    <3> QED BY <1>2, <3>1, <3>2 DEF Vault
  <2>2. CASE UNCHANGED vault
    BY <1>2, <2>2
  <2> QED BY <1>1, <2>1, <2>2
<1>10. Sound(storage', vault')
  BY <1>2, <1>7, <1>9 DEF Sound, Entries, Books
<1>11. ASSUME NEW p \in Order
       PROVE  Excess(storage', vault', p) = Excess(g.before, Last(saved), p) + Moved(f, p)
  <2>1. Excess(g.before, Last(saved), p) \in Int
    BY <1>3, ExcessFacts
  <2>2. Excess(storage, vault, p) = Excess(g.before, Last(saved), p)
    <3>1. Moved(g, p) = 0
      BY <1>1 DEF Moved
    <3> QED BY <1>3, <2>1, <3>1
  <2>3. Moved(f, p) = IF p = o THEN g.making ELSE 0
    BY <1>4 DEF Moved
  <2>4. Excess(storage', vault', p) = Excess(storage, vault, p) + Moved(f, p)
    <3>1. /\ vault.orders[p].balance \in Nat /\ vault.refunds[p] \in Nat
          /\ vault.rewards[p] \in Nat /\ storage.taken[p] \in Nat /\ PutIn(vault, p) \in Nat
      BY <1>2, Held
    <3>2. PutIn(vault', p) = PutIn(vault, p)
      BY <1>9 DEF PutIn
    <3>3. storage'.taken[p] = storage.taken[p] + Moved(f, p) /\ Moved(f, p) \in Nat
      BY <1>3, <1>6, <1>7, <2>3
    <3> QED BY <1>9, <3>1, <3>2, <3>3 DEF Excess
  <2> QED BY <2>2, <2>4
<1>12. /\ pending' \in Seq(LOP!Frame) /\ Len(saved') = Len(pending')
       /\ Accounted(pending', saved', storage', vault')
  <2>1. /\ Front(pending) \in Seq(LOP!Frame) /\ Front(saved) \in Seq(Vault)
        /\ Len(Front(saved)) = Len(Front(pending))
        /\ Last(saved) \in Vault
        /\ Accounted(Front(pending), Front(saved), g.before, Last(saved))
    BY <1>3
  <2>2. f \in LOP!Frame /\ f.before = g.before
    BY <1>4
  <2>3. /\ Append(Front(pending), f) \in Seq(LOP!Frame)
        /\ Len(Append(Front(saved), Last(saved))) = Len(Append(Front(pending), f))
        /\ Accounted(Append(Front(pending), f), Append(Front(saved), Last(saved)),
                     storage', vault')
    BY <1>10, <1>11, <2>1, <2>2, AccountedPushed
  <2>4. pending' = Append(Front(pending), f) /\ saved' = Append(Front(saved), Last(saved))
    BY <1>1, <1>3
  <2> QED BY <2>3, <2>4
<1>13. TypeOK'
  BY <1>1, <1>7, <1>9, <1>12 DEF IInv, TypeOK, LOP!TypeOK
<1> QED BY <1>12, <1>13 DEF IInv

\* The report takes off the books what the call has taken: no more than is on them.
LEMMA EndFillKeeps ==
  ASSUME IInv, EndFill
  PROVE  IInv'
<1> DEFINE g == LOP!Top
           o == g.order
           entry == [vault.orders[o] EXCEPT !.balance = @ - g.making]
           y == storage.due[o] + LOP!ToReceiver(Terms[o].fees, g.sender, g.taking)
           due == [storage.due EXCEPT ![o] = y]
<1>1. /\ pending # <<>> /\ g.stage = "transferred"
      /\ storage' = [storage EXCEPT !.due = due]
      /\ pending' = LOP!Front(pending)
      /\ vault.orders[o].balance >= g.making
      /\ vault' = [vault EXCEPT !.orders[o].balance = @ - g.making]
      /\ saved' = Front(saved)
      /\ UNCHANGED <<now, signed, calls>>
  BY DEF EndFill, LOP!EndFill, PostInteraction
<1>2. /\ Sound(storage, vault) /\ storage \in LOP!Storage /\ vault \in Vault
  BY Now
<1>3. /\ g \in LOP!Frame /\ o \in Order /\ g.making \in Nat /\ g.sender \in Account
      /\ g.taking \in Nat
      /\ LOP!Front(pending) = Front(pending)
      /\ Front(pending) \in Seq(LOP!Frame) /\ Front(saved) \in Seq(Vault)
      /\ Len(Front(saved)) = Len(Front(pending))
      /\ Sound(g.before, Last(saved))
      /\ Accounted(Front(pending), Front(saved), g.before, Last(saved))
      /\ \A p \in Order : Excess(storage, vault, p)
                            = Excess(g.before, Last(saved), p) + Moved(g, p)
  BY <1>1, TopFacts
<1> HIDE DEF g
<1>4. /\ vault.orders[o] \in ETHOrder /\ vault.orders[o].balance \in 0 .. MaxAmount
      /\ vault.weth \in Nat /\ vault.refunds[o] \in Nat /\ vault.rewards[o] \in Nat
      /\ vault.orders[o].maker = Nobody => vault.orders[o].balance = 0
      /\ storage.taken[o] \in Nat /\ PutIn(vault, o) \in Nat
      /\ vault.orders[o].balance \in Nat /\ o \in Order
  BY <1>2, <1>3, Held
<1> HIDE DEF o
<1>5. /\ storage' \in LOP!Storage /\ storage'.taken = storage.taken
      /\ storage'.raw = storage.raw
  <2>1. storage.due \in [Order -> Nat]
    BY <1>2 DEF LOP!Storage
  <2>2. y \in Nat
    <3>1. LOP!ToReceiver(Terms[o].fees, g.sender, g.taking) \in Nat
      BY <1>3, OrderFacts, ReceiverGets DEF o
    <3>2. storage.due[o] \in Nat
      BY <1>3, <2>1 DEF o
    <3> QED BY <3>1, <3>2
  <2> HIDE DEF y
  <2>3. due \in [Order -> Nat]
    BY <1>4, <2>1, <2>2
  <2> HIDE DEF due
  <2> QED BY <1>1, <1>2, <2>3 DEF LOP!Storage
<1>6. entry = [vault.orders[o] EXCEPT !.balance = vault.orders[o].balance - g.making]
  BY <1>4 DEF ETHOrder
<1>7. /\ entry \in ETHOrder /\ entry.maker = vault.orders[o].maker
      /\ entry.balance = vault.orders[o].balance - g.making
  <2> HIDE DEF entry
  <2> DEFINE z == vault.orders[o].balance - g.making
  <2>1. z \in 0 .. MaxAmount
    BY <1>1, <1>3, <1>4, ProtocolAssumption
  <2>2. entry = [vault.orders[o] EXCEPT !.balance = z]
    BY <1>6
  <2> HIDE DEF z
  <2>3. entry \in ETHOrder /\ entry.maker = vault.orders[o].maker /\ entry.balance = z
    BY <1>4, <2>1, <2>2 DEF ETHOrder
  <2> QED BY <2>3 DEF z
<1>8. entry.maker = Nobody => entry.balance = 0
  BY <1>1, <1>3, <1>4, <1>7
<1>9. vault' = Booked(vault, o, entry, vault.weth, vault.refunds[o], vault.rewards[o])
  <2>1. /\ vault.orders \in [Order -> ETHOrder] /\ vault.refunds \in [Order -> Nat]
        /\ vault.rewards \in [Order -> Nat]
    BY <1>2 DEF Vault
  <2>2. /\ [vault.refunds EXCEPT ![o] = vault.refunds[o]] = vault.refunds
        /\ [vault.rewards EXCEPT ![o] = vault.rewards[o]] = vault.rewards
    BY <1>3, <2>1
  <2>3. vault' = [vault EXCEPT !.orders = [vault.orders EXCEPT ![o] = entry]]
    BY <1>1
  <2> HIDE DEF entry
  <2> QED BY <1>2, <2>2, <2>3 DEF Booked, Vault
<1> HIDE DEF entry
<1>10. \A p \in Order :
         storage'.raw[this][p] # 0 => Word - 1 - storage'.raw[this][p] <= MaxAmount
  BY <1>2, <1>5 DEF Sound, Entries, Books
<1>11. /\ Sound(storage', vault')
       /\ \A p \in Order : p # o => Excess(storage', vault', p) = Excess(storage', vault, p)
       /\ Excess(storage', vault', o)
            = entry.balance + storage'.taken[o] + vault.refunds[o] + vault.rewards[o]
                - Stake(entry, o)
  <2>1. Entries(storage') /\ Books(vault)
    BY <1>2, <1>5, <1>10 DEF Sound, Entries
  <2>2. /\ o \in Order /\ entry \in ETHOrder /\ vault.weth \in Nat
        /\ vault.refunds[o] \in Nat /\ vault.rewards[o] \in Nat
    BY <1>4, <1>7
  <2> QED BY <1>8, <1>9, <2>1, <2>2, BookedSound
<1>12. ASSUME NEW p \in Order
       PROVE  Excess(storage', vault', p) = Excess(g.before, Last(saved), p)
  <2>1. Excess(g.before, Last(saved), p) \in Int
    BY <1>3, ExcessFacts
  <2>2. Excess(storage, vault, p) = Excess(g.before, Last(saved), p) + Moved(g, p)
    BY <1>3
  <2>3. CASE p = o
    <3> DEFINE x == vault.orders[o].balance
               z == storage.taken[o] + vault.refunds[o] + vault.rewards[o] - PutIn(vault, o)
    <3>1. Moved(g, p) = g.making
      BY <1>1, <2>3 DEF Moved, o
    <3>2. Excess(storage, vault, o)
            = vault.orders[o].balance + storage.taken[o] + vault.refunds[o]
                + vault.rewards[o] - PutIn(vault, o)
      BY DEF Excess
    <3>3. Excess(storage', vault', o)
            = vault.orders[o].balance - g.making + storage.taken[o] + vault.refunds[o]
                + vault.rewards[o] - PutIn(vault, o)
      <4>1. Stake(entry, o) = PutIn(vault, o)
        BY <1>7 DEF Stake, PutIn
      <4> QED BY <1>5, <1>7, <1>11, <4>1
    <3>4. x \in Int /\ z \in Int /\ g.making \in Int
      <4>1. /\ storage.taken[o] \in Nat /\ vault.refunds[o] \in Nat /\ vault.rewards[o] \in Nat
            /\ PutIn(vault, o) \in Nat /\ vault.orders[o].balance \in Nat
        BY <1>4
      <4>2. g.making \in Nat
        BY <1>3
      <4> QED BY <4>1, <4>2
    <3>5. /\ Excess(storage, vault, o) = x + z
          /\ Excess(storage', vault', o) = x - g.making + z
      <4>1. /\ storage.taken[o] \in Nat /\ vault.refunds[o] \in Nat /\ vault.rewards[o] \in Nat
            /\ PutIn(vault, o) \in Nat /\ vault.orders[o].balance \in Nat
        BY <1>4
      <4>2. g.making \in Nat
        BY <1>3
      <4> QED BY <3>2, <3>3, <4>1, <4>2
    <3> HIDE DEF x, z
    <3> QED BY <2>1, <2>2, <2>3, <3>1, <3>4, <3>5
  <2>4. CASE p # o
    <3>1. Moved(g, p) = 0
      BY <2>4 DEF Moved, o
    <3>2. Excess(storage', vault', p) = Excess(storage, vault, p)
      BY <1>5, <1>11, <2>4 DEF Excess
    <3> QED BY <2>1, <2>2, <3>1, <3>2
  <2> QED BY <2>3, <2>4
<1>13. Accounted(pending', saved', storage', vault')
  <2>1. /\ Front(pending) \in Seq(LOP!Frame) /\ Front(saved) \in Seq(Vault)
        /\ Len(Front(saved)) = Len(Front(pending))
        /\ Accounted(Front(pending), Front(saved), g.before, Last(saved))
        /\ Sound(storage', vault')
    BY <1>3, <1>11
  <2>2. Accounted(Front(pending), Front(saved), storage', vault')
    BY <1>12, <2>1, AccountedChanged
  <2> QED BY <1>1, <1>3, <2>2
<1>14. TypeOK'
  <2>1. vault' \in Vault
    BY <1>11 DEF Sound, Entries, Books
  <2> QED BY <1>1, <1>3, <1>5, <2>1 DEF IInv, TypeOK, LOP!TypeOK
<1> QED BY <1>13, <1>14 DEF IInv

\* A call that reverts takes its books with it.
LEMMA RevertFillKeeps ==
  ASSUME IInv, RevertFill
  PROVE  IInv'
<1>1. /\ pending # <<>> /\ storage' = LOP!Top.before /\ pending' = LOP!Front(pending)
      /\ vault' = Last(saved) /\ saved' = Front(saved)
      /\ UNCHANGED <<now, signed, calls>>
  BY DEF RevertFill, LOP!RevertFill
<1>2. /\ LOP!Front(pending) = Front(pending)
      /\ Front(pending) \in Seq(LOP!Frame) /\ Front(saved) \in Seq(Vault)
      /\ Len(Front(saved)) = Len(Front(pending))
      /\ Sound(LOP!Top.before, Last(saved))
      /\ Accounted(Front(pending), Front(saved), LOP!Top.before, Last(saved))
  BY <1>1, TopFacts
<1>3. storage' \in LOP!Storage /\ vault' \in Vault
  BY <1>1, <1>2 DEF Sound, Entries, Books
<1>4. TypeOK'
  BY <1>1, <1>2, <1>3 DEF IInv, TypeOK, LOP!TypeOK
<1>5. Accounted(pending', saved', storage', vault')
  BY <1>1, <1>2
<1> QED BY <1>4, <1>5 DEF IInv

-----------------------------------------------------------------------------
(* The invariant and what follows from it.                                  *)

\* To begin with nothing is touched and nothing is put in.
LEMMA InitIInv ==
  ASSUME Init
  PROVE  IInv
<1> DEFINE s == [raw |-> [a \in {this} |-> [o \in Order |-> 0]],
                 bits |-> [a \in {this} |-> {}],
                 epoch |-> [a \in {this} |-> [e \in Series |-> 0]],
                 ids |-> [a \in {this} |-> {}],
                 paused |-> FALSE,
                 taken |-> [o \in Order |-> 0],
                 due |-> [o \in Order |-> 0]]
           entry == [maker |-> Nobody, balance |-> 0, maximumPremium |-> 0,
                     auctionDuration |-> 0]
           v == [orders |-> [o \in Order |-> entry], weth |-> 0,
                 refunds |-> [o \in Order |-> 0], rewards |-> [o \in Order |-> 0]]
<1>1. /\ now = 1 /\ signed \in SUBSET Order /\ storage = s /\ pending = <<>> /\ calls = 0
      /\ vault = v /\ saved = <<>>
  BY DEF Init, LOP!Init
<1>2. /\ Word \in Nat /\ MaxAmount \in Nat /\ MaxAmount * (MaxAmount + 1) < Word
      /\ MaxCalls \in Nat /\ Horizon \in Nat \ {0}
  BY ProtocolAssumption
<1>3. 0 \in 0 .. Word - 1
  <2>1. MaxAmount * (MaxAmount + 1) \in Nat
    BY <1>2
  <2> QED BY <1>2, <2>1
<1>4. /\ s \in LOP!Storage /\ \A o \in Order : s.raw[this][o] = 0 /\ s.taken[o] = 0
  <2>1. /\ s.raw \in [{this} -> [Order -> 0 .. Word - 1]] /\ s.bits \in [{this} -> SUBSET Nonce]
        /\ s.epoch \in [{this} -> [Series -> Nat]] /\ s.ids \in [{this} -> SUBSET Order]
        /\ s.paused \in BOOLEAN /\ s.taken \in [Order -> Nat] /\ s.due \in [Order -> Nat]
    BY <1>3
  <2> QED BY <2>1 DEF LOP!Storage
<1>5. entry \in ETHOrder /\ entry.balance = 0 /\ entry.maker = Nobody
  <2>1. 0 \in 0 .. MaxAmount
    BY <1>2
  <2> QED BY <2>1 DEF ETHOrder
<1> HIDE DEF s, entry
<1>6. /\ v \in Vault
      /\ \A o \in Order : v.orders[o] = entry /\ v.refunds[o] = 0 /\ v.rewards[o] = 0
  BY <1>5 DEF Vault
<1> HIDE DEF v
<1>7. Sound(s, v)
  BY <1>4, <1>5, <1>6 DEF Sound, Entries, Books
<1>8. \A o \in Order : Excess(s, v, o) = 0
  BY <1>4, <1>5, <1>6 DEF Excess, PutIn, Stake
<1>9. /\ Len(pending) = 0 /\ Len(saved) = 0
      /\ pending \in Seq(LOP!Frame) /\ saved \in Seq(Vault)
  BY <1>1
<1>10. StorageAt(pending, storage, 0) = s /\ VaultAt(saved, vault, 0) = v
  BY <1>1, <1>9 DEF StorageAt, VaultAt
<1>11. Accounted(pending, saved, storage, vault)
  <2>1. 0 .. Len(pending) = {0} /\ 1 .. Len(pending) = {}
    BY <1>9
  <2> QED BY <1>7, <1>8, <1>10, <2>1 DEF Accounted
<1>12. TypeOK
  BY <1>1, <1>2, <1>4, <1>6, <1>9 DEF TypeOK, LOP!TypeOK
<1> QED BY <1>11, <1>12 DEF IInv

\* Every step keeps the invariant.
LEMMA NextKeeps ==
  ASSUME IInv, [Next]_vars
  PROVE  IInv'
<1>1. CASE UNCHANGED vars
  BY <1>1 DEF vars, lopVars, IInv, TypeOK, LOP!TypeOK
<1>2. ASSUME NEW o \in Order, NEW premium \in Premium, NEW duration \in AuctionDuration,
             EthOrderDeposit(o, premium, duration)
      PROVE  IInv'
  BY <1>2, DepositKeeps
<1>3. ASSUME NEW o \in Order, NEW sender \in Account, NEW isMakingAmount \in BOOLEAN,
             NEW amount \in 1 .. MaxAmount, BeginFill(o, sender, isMakingAmount, amount)
      PROVE  IInv'
  BY <1>3, BeginFillKeeps
<1>4. ASSUME NEW o \in Order, NEW p \in Order, NEW caller \in Account, CancelOrder(caller, p, o)
      PROVE  IInv'
  BY <1>4, CancelOrderKeeps
<1>5. ASSUME NEW o \in Order, NEW p \in Order, NEW caller \in Account, NEW fee \in Fee,
             CancelOrderByResolver(caller, p, o, fee)
      PROVE  IInv'
  BY <1>5, CancelOrderByResolverKeeps
<1>6. CASE Transfer
  BY <1>6, TransferKeeps
<1>7. CASE EndFill
  BY <1>7, EndFillKeeps
<1>8. CASE RevertFill
  BY <1>8, RevertFillKeeps
<1>9. CASE Pause
  BY <1>9, PauseKeeps
<1>10. CASE Tick
  BY <1>10, TickKeeps
<1>11. ASSUME NEW amount \in 1 .. MaxWeth, GiveWeth(amount)
       PROVE  IInv'
  BY <1>11, GiftKeeps
<1> QED BY <1>1, <1>2, <1>3, <1>4, <1>5, <1>6, <1>7, <1>8, <1>9, <1>10, <1>11 DEF Next

\* The invariant holds in every reachable state.
THEOREM Inductive == Spec => []IInv
<1>1. Init => IInv
  BY InitIInv
<1>2. IInv /\ [Next]_vars => IInv'
  BY NextKeeps
<1> QED BY <1>1, <1>2, PTL DEF Spec

\* Books, balances and what the protocol remembers of native orders are what they
\* should be: no amount on the books wraps around, and every call under way has
\* its vault to go back to.
THEOREM TypeCorrect == Spec => []TypeOK
<1>1. IInv => TypeOK
  BY DEF IInv
<1> QED BY <1>1, Inductive, PTL

\* OutOfOwnDeposit: whatever is filled, nested, reverted and cancelled, and whoever
\* names which traits, an order is never paid for with a neighbour's deposit.
THEOREM DepositsAreSeparate == Spec => []OutOfOwnDeposit
<1>1. ASSUME IInv PROVE OutOfOwnDeposit
  <2>1. SUFFICES ASSUME pending = <<>>, NEW o \in Order
                 PROVE  vault.orders[o].balance + storage.taken[o] + vault.refunds[o]
                          + vault.rewards[o]
                          = IF Deposited(o) THEN Terms[o].makingAmount ELSE 0
    BY DEF OutOfOwnDeposit
  <2>2. Len(pending) = 0 /\ Len(saved) = 0
    BY <1>1, <2>1, Now
  <2>3. StorageAt(pending, storage, 0) = storage /\ VaultAt(saved, vault, 0) = vault
    BY <2>2 DEF StorageAt, VaultAt
  <2>4. Excess(storage, vault, o) = 0
    BY <1>1, <2>3 DEF IInv, Accounted
  <2>5. /\ vault.orders[o].balance \in Nat /\ vault.refunds[o] \in Nat
        /\ vault.rewards[o] \in Nat /\ storage.taken[o] \in Nat /\ PutIn(vault, o) \in Nat
    BY <1>1, Now, Held
  <2>6. PutIn(vault, o) = IF Deposited(o) THEN Terms[o].makingAmount ELSE 0
    BY DEF PutIn, Stake, Deposited
  <2>7. Excess(storage, vault, o)
          = vault.orders[o].balance + storage.taken[o] + vault.refunds[o] + vault.rewards[o]
              - PutIn(vault, o)
    BY <1>1, Now, ExcessFacts
  <2>8. vault.orders[o].balance + storage.taken[o] + vault.refunds[o] + vault.rewards[o]
          = PutIn(vault, o)
    BY <2>4, <2>5, <2>7
  <2> QED BY <2>6, <2>8
<1> QED BY <1>1, Inductive, PTL

-----------------------------------------------------------------------------
(* What the books of all orders add up to.                                  *)

\* What the contract owes on its books.
Owed(v) == MapThenSumSet(LAMBDA o : v.orders[o].balance, Order)

\* The units of currency on the books of the orders of `S`, one by one.
Units(v, S) == {unit \in S \X (1 .. MaxAmount) : unit[2] <= v.orders[unit[1]].balance}

\* Sets of orders are finite, and so are the units on their books.
LEMMA UnitsFinite ==
  ASSUME NEW v, NEW S \in SUBSET Order
  PROVE  IsFiniteSet(Units(v, S)) /\ Cardinality(Units(v, S)) \in Nat
<1>1. IsFiniteSet(S)
  BY OrdersAssumption, FS_Subset
<1>2. MaxAmount \in Int /\ IsFiniteSet(1 .. MaxAmount)
  BY ProtocolAssumption, FS_Interval
<1>3. IsFiniteSet(S \X (1 .. MaxAmount))
  BY <1>1, <1>2, FS_Product
<1>4. Units(v, S) \in SUBSET (S \X (1 .. MaxAmount))
  BY DEF Units
<1> QED BY <1>3, <1>4, FS_Subset, FS_CardinalityType

\* The units on the books of one order are as many as it has.
LEMMA UnitsOfOne ==
  ASSUME NEW v \in Vault, NEW o \in Order
  PROVE  Cardinality(Units(v, {o})) = v.orders[o].balance
<1> DEFINE b == v.orders[o].balance
           one == [n \in 1 .. b |-> <<o, n>>]
           U == Units(v, {o})
<1>1. b \in 0 .. MaxAmount /\ MaxAmount \in Nat /\ b \in Nat
  <2>1. v.orders[o] \in ETHOrder
    BY DEF Vault
  <2> QED BY <2>1, ProtocolAssumption DEF ETHOrder
<1>2. U = {<<o, n>> : n \in 1 .. b}
  <2>1. ASSUME NEW u \in U PROVE u \in {<<o, n>> : n \in 1 .. b}
    <3>1. u \in {o} \X (1 .. MaxAmount) /\ u[2] <= v.orders[u[1]].balance
      BY DEF Units
    <3>2. u = <<o, u[2]>> /\ u[2] \in 1 .. MaxAmount /\ u[1] = o
      BY <3>1
    <3>3. u[2] \in 1 .. b
      BY <1>1, <3>1, <3>2
    <3> QED BY <3>2, <3>3
  <2>2. ASSUME NEW n \in 1 .. b PROVE <<o, n>> \in U
    <3>1. n \in 1 .. MaxAmount /\ n <= b
      BY <1>1
    <3> QED BY <3>1 DEF Units
  <2>3. U \subseteq {<<o, n>> : n \in 1 .. b}
    BY <2>1, Zenon
  <2>4. {<<o, n>> : n \in 1 .. b} \subseteq U
    BY <2>2
  <2> QED BY <2>3, <2>4, Zenon
<1> HIDE DEF b, U
<1>3. one \in Bijection(1 .. b, U)
  <2>1. one \in [1 .. b -> U]
    BY <1>2
  <2>2. \A m, n \in 1 .. b : one[m] = one[n] => m = n
    OBVIOUS
  <2>3. \A u \in U : \E n \in 1 .. b : one[n] = u
    BY <1>2
  <2> HIDE DEF one
  <2> QED BY <2>1, <2>2, <2>3 DEF Bijection, Injection, Surjection, IsInjective
<1>4. ExistsBijection(1 .. b, U)
  BY <1>3 DEF ExistsBijection
<1>5. IsFiniteSet(1 .. b) /\ Cardinality(1 .. b) = b
  BY <1>1, FS_Interval
<1>6. Cardinality(U) = Cardinality(1 .. b)
  BY <1>4, <1>5, FS_Bijection
<1> QED BY <1>5, <1>6 DEF b, U

\* The units of a set of orders are those of one of them and those of the others.
LEMMA UnitsSplit ==
  ASSUME NEW v \in Vault, NEW S \in SUBSET Order, NEW o \in S
  PROVE  Cardinality(Units(v, S)) = v.orders[o].balance + Cardinality(Units(v, S \ {o}))
<1>1. /\ {o} \in SUBSET Order /\ S \ {o} \in SUBSET Order /\ o \in Order
  OBVIOUS
<1>2. Units(v, S) = Units(v, {o}) \union Units(v, S \ {o})
  BY DEF Units
<1>3. Units(v, {o}) \intersect Units(v, S \ {o}) = {}
  BY DEF Units
<1>4. Cardinality(Units(v, {o}) \intersect Units(v, S \ {o})) = 0
  BY <1>3, FS_EmptySet
<1>5. /\ IsFiniteSet(Units(v, {o})) /\ IsFiniteSet(Units(v, S \ {o}))
      /\ Cardinality(Units(v, {o})) \in Nat /\ Cardinality(Units(v, S \ {o})) \in Nat
  BY <1>1, UnitsFinite
<1>6. Cardinality(Units(v, S)) = Cardinality(Units(v, {o})) + Cardinality(Units(v, S \ {o})) - 0
  BY <1>2, <1>4, <1>5, FS_Union
<1>7. Cardinality(Units(v, {o})) = v.orders[o].balance
  BY <1>1, UnitsOfOne
<1> QED BY <1>5, <1>6, <1>7

\* What the contract owes is the number of the units on its books.
LEMMA OwedIsCounted ==
  ASSUME NEW v \in Vault
  PROVE  Owed(v) = Cardinality(Units(v, Order))
<1> DEFINE pick(s) == CHOOSE x \in s : TRUE
           step(f) == [s \in SUBSET Order |->
                         IF s = {} THEN 0 ELSE v.orders[pick(s)].balance + f[s \ {pick(s)}]]
           iter == CHOOSE f : f = step(f)
           count == [s \in SUBSET Order |-> Cardinality(Units(v, s))]
<1>1. Owed(v) = iter[Order]
  BY DEF Owed, MapThenSumSet, MapThenFoldSet
<1>2. count = step(count)
  <2>1. ASSUME NEW s \in SUBSET Order
        PROVE  count[s] = IF s = {} THEN 0
                          ELSE v.orders[pick(s)].balance + count[s \ {pick(s)}]
    <3>1. CASE s = {}
      <4>1. Units(v, s) = {}
        BY <3>1 DEF Units
      <4> QED BY <3>1, <4>1, FS_EmptySet
    <3>2. CASE s # {}
      <4>1. pick(s) \in s
        BY <3>2
      <4>2. s \ {pick(s)} \in SUBSET Order
        OBVIOUS
      <4> HIDE DEF pick
      <4> QED BY <3>2, <4>1, <4>2, UnitsSplit
    <3> QED BY <3>1, <3>2
  <2> QED BY <2>1
<1>3. iter = step(iter)
  <2> HIDE DEF step, count
  <2> QED BY <1>2
<1>4. \A s \in SUBSET Order : iter[s] = count[s]
  <2> DEFINE T == {s \in SUBSET Order : iter[s] # count[s]}
             R == StrictSubsetOrdering(Order)
  <2> SUFFICES ASSUME T # {} PROVE FALSE
    OBVIOUS
  <2> HIDE DEF iter, count
  <2>1. IsWellFoundedOn(R, SUBSET Order)
    BY OrdersAssumption, FS_FiniteSubsetsOfFinite, FS_StrictSubsetOrderingWellFounded
  <2>2. PICK s \in T : \A y \in T : ~(<<y, s>> \in R)
    <3>1. T \subseteq SUBSET Order
      OBVIOUS
    <3> HIDE DEF T, R
    <3> QED BY <2>1, <3>1, WFMin
  <2>3. s \in SUBSET Order /\ iter[s] # count[s]
    OBVIOUS
  <2>4. iter[s] = step(iter)[s] /\ count[s] = step(count)[s]
    <3> HIDE DEF step
    <3> QED BY <1>2, <1>3
  <2>5. s # {}
    BY <2>3, <2>4
  <2> DEFINE r == s \ {pick(s)}
  <2>6. pick(s) \in s /\ r \in SUBSET Order /\ r \subseteq s /\ r # s
    BY <2>3, <2>5
  <2>7. <<r, s>> \in R
    <3> HIDE DEF r
    <3> QED BY <2>3, <2>6 DEF StrictSubsetOrdering
  <2>8. iter[r] = count[r]
    <3> HIDE DEF R
    <3> QED BY <2>2, <2>6, <2>7
  <2> QED BY <2>3, <2>4, <2>5, <2>8
<1> HIDE DEF iter
<1> QED BY <1>1, <1>4

\* What is owed is a number.
LEMMA OwedFacts ==
  ASSUME NEW v \in Vault
  PROVE  Owed(v) \in Nat
BY OwedIsCounted, UnitsFinite

\* Nothing on the books is nothing owed.
LEMMA NothingOwed ==
  ASSUME NEW v \in Vault, \A o \in Order : v.orders[o].balance = 0
  PROVE  Owed(v) = 0
<1>1. Units(v, Order) = {}
  BY DEF Units
<1> QED BY <1>1, OwedIsCounted, FS_EmptySet

\* The books of one order change what is owed by as much.
LEMMA OwedChanged ==
  ASSUME NEW v \in Vault, NEW u \in Vault, NEW o \in Order,
         \A p \in Order : p # o => u.orders[p].balance = v.orders[p].balance
  PROVE  Owed(u) = Owed(v) + u.orders[o].balance - v.orders[o].balance
<1> DEFINE rest == Order \ {o}
<1>1. Units(u, rest) = Units(v, rest)
  BY DEF Units
<1>2. /\ Owed(u) = u.orders[o].balance + Cardinality(Units(u, rest))
      /\ Owed(v) = v.orders[o].balance + Cardinality(Units(v, rest))
  BY OwedIsCounted, UnitsSplit
<1>3. Cardinality(Units(v, rest)) \in Nat
  BY UnitsFinite
<1>4. u.orders[o].balance \in Int /\ v.orders[o].balance \in Int
  BY ProtocolAssumption DEF Vault, ETHOrder
<1> QED BY <1>1, <1>2, <1>3, <1>4

\* The same books owe the same.
LEMMA OwedSame ==
  ASSUME NEW v, NEW u, u.orders = v.orders
  PROVE  Owed(u) = Owed(v)
BY DEF Owed

-----------------------------------------------------------------------------
(* What the contract holds against what it owes.                            *)

\* What the contract owes over what it holds.
Gap(v) == Owed(v) - v.weth

\* What the call `f` has drawn and not yet taken off the books.
Unreported(f) == IF f.stage = "transferred" THEN f.making ELSE 0

\* No level of the stack owes more than the one under it owes and the call between
\* them has drawn; the lowest holds what it owes.
Covered(p, w, v) ==
  /\ Gap(VaultAt(w, v, 0)) <= 0
  /\ \A k \in 1 .. Len(p) :
       Gap(VaultAt(w, v, k)) <= Gap(VaultAt(w, v, k - 1)) + Unreported(p[k])

\* The balance of the contract, by the calls under way.
Backed == Covered(pending, saved, vault)

\* The gap is a number.
LEMMA GapFacts ==
  ASSUME NEW v \in Vault
  PROVE  Gap(v) \in Int /\ Owed(v) \in Nat /\ v.weth \in Nat
<1>1. Owed(v) \in Nat
  BY OwedFacts
<1>2. v.weth \in Nat
  BY DEF Vault
<1> QED BY <1>1, <1>2 DEF Gap

\* The vault and the calls of the next state are well typed too.
LEMMA NowNext ==
  ASSUME IInv'
  PROVE  vault' \in Vault /\ pending' \in Seq(LOP!Frame)
BY DEF IInv, TypeOK, LOP!TypeOK

\* A call that begins goes on top.
LEMMA CoveredPushed ==
  ASSUME NEW p \in Seq(LOP!Frame), NEW w \in Seq(Vault), Len(w) = Len(p),
         NEW v \in Vault, NEW u, NEW f \in LOP!Frame,
         Covered(p, w, v), Gap(u) <= Gap(v) + Unreported(f)
  PROVE  Covered(Append(p, f), Append(w, v), u)
<1> DEFINE q == Append(p, f)
           x == Append(w, v)
           n == Len(p)
<1>1. /\ n \in Nat /\ Len(q) = n + 1 /\ q[n + 1] = f
      /\ \A k \in 1 .. n : q[k] = p[k]
  OBVIOUS
<1>2. /\ Len(x) = n + 1 /\ x[n + 1] = v
      /\ \A k \in 1 .. n : x[k] = w[k]
  OBVIOUS
<1> HIDE DEF q, x, n
<1>3. ASSUME NEW k \in 0 .. n
      PROVE  VaultAt(x, u, k) = VaultAt(w, v, k)
  <2>1. CASE k = n
    BY <1>1, <1>2, <2>1 DEF VaultAt, n
  <2>2. CASE k # n
    <3>1. k < n /\ k < n + 1 /\ k + 1 \in 1 .. n
      BY <1>1, <2>2
    <3> QED BY <1>2, <3>1 DEF VaultAt, n
  <2> QED BY <2>1, <2>2
<1>4. VaultAt(x, u, n + 1) = u /\ VaultAt(w, v, n) = v
  BY <1>1, <1>2 DEF VaultAt, n
<1>5. Gap(VaultAt(x, u, 0)) <= 0
  <2>1. 0 \in 0 .. n
    BY <1>1
  <2> QED BY <1>3, <2>1 DEF Covered
<1>6. ASSUME NEW k \in 1 .. n + 1
      PROVE  Gap(VaultAt(x, u, k)) <= Gap(VaultAt(x, u, k - 1)) + Unreported(q[k])
  <2>1. CASE k = n + 1
    <3>1. k - 1 = n /\ n \in 0 .. n
      BY <1>1, <2>1
    <3>2. VaultAt(x, u, k - 1) = v
      BY <1>3, <1>4, <3>1
    <3> QED BY <1>1, <1>4, <2>1, <3>2
  <2>2. CASE k # n + 1
    <3>1. k \in 1 .. n /\ k \in 0 .. n /\ k - 1 \in 0 .. n
      BY <1>1, <2>2
    <3>2. Gap(VaultAt(w, v, k)) <= Gap(VaultAt(w, v, k - 1)) + Unreported(p[k])
      BY <3>1 DEF Covered, n
    <3> QED BY <1>1, <1>3, <3>1, <3>2
  <2> QED BY <2>1, <2>2
<1> QED BY <1>1, <1>5, <1>6 DEF Covered, q, x

\* A call that ends, or is undone, leaves what lies under it.
LEMMA CoveredPopped ==
  ASSUME NEW p \in Seq(LOP!Frame), NEW w \in Seq(Vault), Len(w) = Len(p), p # <<>>,
         NEW v, Covered(p, w, v)
  PROVE  /\ Covered(Front(p), Front(w), Last(w))
         /\ Gap(v) <= Gap(Last(w)) + Unreported(Last(p))
<1> DEFINE q == Front(p)
           x == Front(w)
           n == Len(p)
           u == Last(w)
<1>1. /\ n \in Nat \ {0} /\ Len(q) = n - 1 /\ Last(p) = p[n]
      /\ \A k \in 1 .. n - 1 : q[k] = p[k]
  BY Under
<1>2. /\ Len(x) = n - 1 /\ u = w[n]
      /\ \A k \in 1 .. n - 1 : x[k] = w[k]
  <2>1. w # <<>>
    BY <1>1
  <2> QED BY <2>1, Under
<1> HIDE DEF q, x, n
<1>3. ASSUME NEW k \in 0 .. n - 1
      PROVE  VaultAt(x, u, k) = VaultAt(w, v, k)
  <2>1. CASE k = n - 1
    <3>1. k < n /\ k + 1 = n /\ ~(k < n - 1)
      BY <1>1, <2>1
    <3> QED BY <1>2, <3>1 DEF VaultAt, n
  <2>2. CASE k # n - 1
    <3>1. k < n /\ k < n - 1 /\ k + 1 \in 1 .. n - 1
      BY <1>1, <2>2
    <3> QED BY <1>2, <3>1 DEF VaultAt, n
  <2> QED BY <2>1, <2>2
<1>4. Gap(VaultAt(x, u, 0)) <= 0
  <2>1. 0 \in 0 .. n - 1
    BY <1>1
  <2> QED BY <1>3, <2>1 DEF Covered
<1>5. ASSUME NEW k \in 1 .. n - 1
      PROVE  Gap(VaultAt(x, u, k)) <= Gap(VaultAt(x, u, k - 1)) + Unreported(q[k])
  <2>1. k \in 1 .. n /\ k \in 0 .. n - 1 /\ k - 1 \in 0 .. n - 1
    BY <1>1
  <2>2. Gap(VaultAt(w, v, k)) <= Gap(VaultAt(w, v, k - 1)) + Unreported(p[k])
    BY <2>1 DEF Covered, n
  <2> QED BY <1>1, <1>3, <2>1, <2>2
<1>6. Gap(v) <= Gap(u) + Unreported(Last(p))
  <2>1. n \in 1 .. n /\ n - 1 < n /\ (n - 1) + 1 = n
    BY <1>1
  <2>2. VaultAt(w, v, n) = v /\ VaultAt(w, v, n - 1) = u
    BY <1>2, <2>1 DEF VaultAt, n
  <2>3. Gap(VaultAt(w, v, n)) <= Gap(VaultAt(w, v, n - 1)) + Unreported(p[n])
    BY <2>1 DEF Covered, n
  <2> QED BY <1>1, <2>2, <2>3
<1> QED BY <1>1, <1>4, <1>5, <1>6 DEF Covered, q, x

\* What brings the gap no higher leaves the balance covered.
LEMMA CoveredChanged ==
  ASSUME NEW p \in Seq(LOP!Frame), NEW w \in Seq(Vault), Len(w) = Len(p),
         NEW v \in Vault, NEW u \in Vault, Covered(p, w, v), Gap(u) <= Gap(v)
  PROVE  Covered(p, w, u)
<1> DEFINE n == Len(p)
<1>1. n \in Nat /\ n = Len(w)
  OBVIOUS
<1>2. \A k \in 1 .. n : Unreported(p[k]) \in Int
  <2>1. \A k \in 1 .. n : p[k] \in LOP!Frame
    OBVIOUS
  <2> QED BY <2>1 DEF LOP!Frame, Unreported
<1> HIDE DEF n
<1>3. ASSUME NEW k \in 0 .. n
      PROVE  /\ VaultAt(w, v, k) \in Vault
             /\ k # n => VaultAt(w, u, k) = VaultAt(w, v, k)
             /\ k = n => VaultAt(w, u, k) = u /\ VaultAt(w, v, k) = v
  BY <1>1 DEF VaultAt
<1>4. Gap(u) \in Int /\ Gap(v) \in Int
  BY GapFacts
<1>5. \A k \in 0 .. n : Gap(VaultAt(w, v, k)) \in Int
  BY <1>3, GapFacts
<1>6. Gap(VaultAt(w, u, 0)) <= 0
  <2>1. 0 \in 0 .. n /\ Gap(VaultAt(w, v, 0)) <= 0
    BY <1>1 DEF Covered
  <2>2. CASE n = 0
    BY <1>3, <1>4, <2>1, <2>2
  <2>3. CASE n # 0
    BY <1>3, <2>1, <2>3
  <2> QED BY <2>2, <2>3
<1>7. ASSUME NEW k \in 1 .. n
      PROVE  Gap(VaultAt(w, u, k)) <= Gap(VaultAt(w, u, k - 1)) + Unreported(p[k])
  <2>1. k \in 0 .. n /\ k - 1 \in 0 .. n /\ k - 1 # n
    BY <1>1
  <2>2. Gap(VaultAt(w, v, k)) <= Gap(VaultAt(w, v, k - 1)) + Unreported(p[k])
    BY DEF Covered, n
  <2>3. VaultAt(w, u, k - 1) = VaultAt(w, v, k - 1)
    BY <1>3, <2>1
  <2>4. CASE k # n
    <3>1. VaultAt(w, u, k) = VaultAt(w, v, k)
      BY <1>3, <2>1, <2>4
    <3> QED BY <2>2, <2>3, <3>1
  <2>5. CASE k = n
    <3>1. VaultAt(w, u, k) = u /\ VaultAt(w, v, k) = v
      BY <1>3, <2>1, <2>5
    <3>2. Gap(v) <= Gap(VaultAt(w, v, k - 1)) + Unreported(p[k])
      BY <2>2, <3>1
    <3>3. Gap(VaultAt(w, v, k - 1)) \in Int /\ Unreported(p[k]) \in Int
      BY <1>2, <1>5, <2>1 DEF n
    <3>4. Gap(u) <= Gap(VaultAt(w, v, k - 1)) + Unreported(p[k])
      BY <1>4, <3>2, <3>3
    <3> QED BY <2>3, <3>1, <3>4
  <2> QED BY <2>4, <2>5
<1> QED BY <1>6, <1>7 DEF Covered, n

\* What leaves the calls under way as they were and the gap no higher.
LEMMA BackedChanged ==
  ASSUME IInv, Backed, UNCHANGED <<pending, saved>>, vault' \in Vault,
         Gap(vault') <= Gap(vault)
  PROVE  Backed'
BY Now, CoveredChanged DEF Backed

\* A gift is held and not owed.
LEMMA GiftBacked ==
  ASSUME IInv, Backed, IInv', NEW amount \in 1 .. MaxWeth, GiveWeth(amount)
  PROVE  Backed'
<1>1. vault \in Vault /\ vault' \in Vault /\ amount \in Nat
  BY Now, NowNext, WethAssumption
<1>2. /\ vault'.orders = vault.orders /\ vault'.weth = vault.weth + amount
      /\ UNCHANGED <<pending, saved>>
  BY <1>1 DEF GiveWeth, Vault, lopVars
<1>3. Owed(vault') = Owed(vault)
  BY <1>2, OwedSame
<1>4. Owed(vault) \in Nat /\ vault.weth \in Nat
  BY <1>1, GapFacts
<1>5. Gap(vault') <= Gap(vault)
  BY <1>1, <1>2, <1>3, <1>4 DEF Gap
<1> QED BY <1>1, <1>2, <1>5, BackedChanged

\* A deposit is owed and held.
LEMMA DepositBacked ==
  ASSUME IInv, Backed, IInv', NEW o \in Order, NEW premium \in Premium,
         NEW duration \in AuctionDuration, EthOrderDeposit(o, premium, duration)
  PROVE  Backed'
<1> DEFINE making == Terms[o].makingAmount
           entry == [maker |-> Depositor[o], balance |-> making,
                     maximumPremium |-> premium, auctionDuration |-> duration]
<1>1. /\ vault.orders[o].maker = Nobody /\ UNCHANGED <<pending, saved>>
      /\ vault' = [vault EXCEPT !.orders[o] = entry, !.weth = @ + making]
  BY DEF EthOrderDeposit, Deposited, lopVars
<1>2. /\ vault \in Vault /\ vault' \in Vault /\ vault.orders \in [Order -> ETHOrder]
  BY Now, NowNext DEF Vault
<1>3. vault.orders[o].balance = 0 /\ vault.weth \in Nat
  BY <1>1, Now, Held
<1>4. entry.balance = making /\ making \in Nat
  BY OrderFacts
<1> HIDE DEF entry, making
<1>5. /\ vault'.orders[o] = entry /\ vault'.weth = vault.weth + making
      /\ \A p \in Order : p # o => vault'.orders[p].balance = vault.orders[p].balance
  BY <1>1, <1>2 DEF Vault
<1>6. Owed(vault') = Owed(vault) + making - 0
  BY <1>2, <1>3, <1>4, <1>5, OwedChanged
<1>7. Owed(vault) \in Nat
  BY <1>2, OwedFacts
<1>8. Gap(vault') <= Gap(vault)
  BY <1>3, <1>4, <1>5, <1>6, <1>7 DEF Gap
<1> QED BY <1>1, <1>2, <1>8, BackedChanged

\* What is refunded or rewarded comes off the books and out of the balance.
LEMMA PaidOutBacked ==
  ASSUME IInv, Backed, IInv', NEW o \in Order, UNCHANGED <<pending, saved>>,
         vault'.weth = vault.weth - vault.orders[o].balance,
         vault'.orders = [vault.orders EXCEPT ![o].balance = 0]
  PROVE  Backed'
<1> DEFINE b == vault.orders[o].balance
           entry == [vault.orders[o] EXCEPT !.balance = 0]
<1>1. /\ vault \in Vault /\ vault' \in Vault /\ vault.orders \in [Order -> ETHOrder]
  BY Now, NowNext DEF Vault
<1>2. b \in Nat /\ vault.weth \in Nat
  BY Now, Held
<1>3. entry.balance = 0
  BY <1>1 DEF ETHOrder
<1>4. vault'.orders = [vault.orders EXCEPT ![o] = entry]
  OBVIOUS
<1> HIDE DEF entry
<1>5. /\ vault'.orders[o].balance = 0
      /\ \A p \in Order : p # o => vault'.orders[p].balance = vault.orders[p].balance
  BY <1>1, <1>3, <1>4
<1>6. Owed(vault') = Owed(vault) + 0 - b
  BY <1>1, <1>5, OwedChanged
<1>7. Owed(vault) \in Nat
  BY <1>1, OwedFacts
<1>8. Gap(vault') <= Gap(vault)
  BY <1>2, <1>6, <1>7 DEF Gap
<1> QED BY <1>1, <1>8, BackedChanged

\* A fill that begins draws nothing.
LEMMA BeginFillBacked ==
  ASSUME IInv, Backed, IInv', NEW o \in Order, NEW sender \in Account,
         NEW isMakingAmount \in BOOLEAN, NEW amount \in 1 .. MaxAmount,
         BeginFill(o, sender, isMakingAmount, amount)
  PROVE  Backed'
<1> DEFINE f == Last(pending')
           remaining == LOP!Remaining(o)
           a == LOP!Amounts(o, sender, remaining, isMakingAmount, amount)
           g == [order |-> o, sender |-> sender, stage |-> "invalidated",
                 remaining |-> remaining, making |-> a.making, taking |-> a.taking,
                 before |-> storage]
<1>1. /\ pending' = Append(pending, g) /\ g.stage = "invalidated"
      /\ saved' = Append(saved, vault) /\ vault' = vault
  BY DEF BeginFill, LOP!BeginFill, LOP!Fill
<1> HIDE DEF g
<1>2. /\ pending \in Seq(LOP!Frame) /\ saved \in Seq(Vault) /\ Len(saved) = Len(pending)
      /\ vault \in Vault /\ pending' \in Seq(LOP!Frame)
  BY Now, NowNext
<1>3. g \in LOP!Frame
  <2>1. Len(pending) + 1 \in 1 .. Len(pending') /\ pending'[Len(pending) + 1] = g
    BY <1>1, <1>2
  <2> QED BY <1>2, <2>1
<1>4. Gap(vault') <= Gap(vault) + Unreported(g)
  <2>1. Gap(vault) \in Int /\ Unreported(g) = 0
    BY <1>1, <1>2, <1>3, GapFacts DEF Unreported
  <2> QED BY <1>1, <2>1
<1> QED BY <1>1, <1>2, <1>3, <1>4, CoveredPushed DEF Backed

\* What a call draws is what it has to report.
LEMMA TransferBacked ==
  ASSUME IInv, Backed, IInv', Transfer
  PROVE  Backed'
<1> DEFINE g == LOP!Top
           f == [g EXCEPT !.stage = "transferred"]
<1>1. /\ pending # <<>> /\ g.stage = "invalidated"
      /\ pending' = Append(LOP!Front(pending), f) /\ saved' = saved
      /\ DrawWeth \/ UNCHANGED vault
  BY DEF Transfer, LOP!Transfer
<1>2. /\ g = Last(pending) /\ g \in LOP!Frame /\ g.making \in Nat
      /\ LOP!Front(pending) = Front(pending)
      /\ Front(pending) \in Seq(LOP!Frame) /\ Front(saved) \in Seq(Vault)
      /\ Len(Front(saved)) = Len(Front(pending)) /\ Last(saved) \in Vault
      /\ Append(Front(saved), Last(saved)) = saved
  BY <1>1, TopFacts
<1> HIDE DEF g
<1>3. f \in LOP!Frame /\ Unreported(f) = g.making /\ Unreported(g) = 0
  <2>1. f \in LOP!Frame /\ f.stage = "transferred" /\ f.making = g.making
    BY <1>2 DEF LOP!Frame
  <2> QED BY <1>1, <2>1 DEF Unreported
<1> HIDE DEF f
<1>4. /\ Covered(Front(pending), Front(saved), Last(saved))
      /\ Gap(vault) <= Gap(Last(saved)) + Unreported(g)
  BY <1>1, <1>2, Now, CoveredPopped DEF Backed
<1>5. /\ vault \in Vault /\ vault'.orders = vault.orders
      /\ vault'.weth = vault.weth - g.making \/ vault'.weth = vault.weth
  BY <1>1, Now DEF DrawWeth, Vault, g
<1>6. Gap(vault') <= Gap(Last(saved)) + Unreported(f)
  <2>1. /\ Gap(Last(saved)) \in Int /\ Owed(vault) \in Nat /\ vault.weth \in Nat
    BY <1>2, <1>5, GapFacts
  <2>2. Owed(vault') = Owed(vault)
    BY <1>5, OwedSame
  <2> QED BY <1>2, <1>3, <1>4, <1>5, <2>1, <2>2 DEF Gap
<1>7. Covered(Append(Front(pending), f), Append(Front(saved), Last(saved)), vault')
  BY <1>2, <1>3, <1>4, <1>6, CoveredPushed
<1> QED BY <1>1, <1>2, <1>7 DEF Backed

\* The report takes what was drawn off the books.
LEMMA EndFillBacked ==
  ASSUME IInv, Backed, IInv', EndFill
  PROVE  Backed'
<1> DEFINE g == LOP!Top
           o == g.order
           b == vault.orders[o].balance - g.making
           entry == [vault.orders[o] EXCEPT !.balance = @ - g.making]
<1>1. /\ pending # <<>> /\ g.stage = "transferred"
      /\ pending' = LOP!Front(pending) /\ saved' = Front(saved)
      /\ vault' = [vault EXCEPT !.orders[o].balance = @ - g.making]
  BY DEF EndFill, LOP!EndFill, PostInteraction
<1>2. /\ g = Last(pending) /\ g \in LOP!Frame /\ g.making \in Nat /\ o \in Order
      /\ LOP!Front(pending) = Front(pending)
      /\ Front(pending) \in Seq(LOP!Frame) /\ Front(saved) \in Seq(Vault)
      /\ Len(Front(saved)) = Len(Front(pending)) /\ Last(saved) \in Vault
  BY <1>1, TopFacts
<1> HIDE DEF g
<1>3. /\ Covered(Front(pending), Front(saved), Last(saved))
      /\ Gap(vault) <= Gap(Last(saved)) + g.making
  BY <1>1, <1>2, Now, CoveredPopped DEF Backed, Unreported
<1> HIDE DEF o
<1>4. /\ vault \in Vault /\ vault' \in Vault /\ vault.orders \in [Order -> ETHOrder]
      /\ vault.orders[o].balance \in Nat /\ vault.weth \in Nat
  BY <1>2, Now, NowNext, Held DEF Vault
<1>5. entry.balance = b
  BY <1>2, <1>4 DEF ETHOrder
<1>6. vault' = [vault EXCEPT !.orders = [vault.orders EXCEPT ![o] = entry]]
  BY <1>1
<1> HIDE DEF entry
<1>7. /\ vault'.weth = vault.weth /\ vault'.orders[o].balance = b
      /\ \A p \in Order : p # o => vault'.orders[p].balance = vault.orders[p].balance
  BY <1>2, <1>4, <1>5, <1>6 DEF Vault
<1>8. Owed(vault') = Owed(vault) + b - vault.orders[o].balance
  BY <1>2, <1>4, <1>7, OwedChanged
<1>9. Gap(Last(saved)) \in Int /\ Owed(vault) \in Nat
  BY <1>2, <1>4, GapFacts
<1>10. Gap(vault') <= Gap(Last(saved))
  <2>1. Owed(vault') = Owed(vault) - g.making
    BY <1>2, <1>4, <1>8, <1>9
  <2>2. Gap(vault') = Owed(vault) - g.making - vault.weth
    BY <1>7, <2>1 DEF Gap
  <2>3. Owed(vault) - vault.weth <= Gap(Last(saved)) + g.making
    BY <1>3 DEF Gap
  <2> QED BY <1>2, <1>4, <1>9, <2>2, <2>3
<1>11. Covered(Front(pending), Front(saved), vault')
  BY <1>2, <1>3, <1>4, <1>10, CoveredChanged
<1> QED BY <1>1, <1>2, <1>11 DEF Backed

\* A call that is undone gives back what it has drawn.
LEMMA RevertFillBacked ==
  ASSUME IInv, Backed, RevertFill
  PROVE  Backed'
<1>1. /\ pending # <<>> /\ pending' = LOP!Front(pending)
      /\ vault' = Last(saved) /\ saved' = Front(saved)
  BY DEF RevertFill, LOP!RevertFill
<1>2. LOP!Front(pending) = Front(pending)
  BY <1>1, TopFacts
<1>3. Covered(Front(pending), Front(saved), Last(saved))
  BY <1>1, Now, CoveredPopped DEF Backed
<1> QED BY <1>1, <1>2, <1>3 DEF Backed

\* To begin with nothing is owed and nothing is held.
LEMMA InitBacked ==
  ASSUME Init
  PROVE  Backed
<1>1. /\ pending = <<>> /\ saved = <<>> /\ vault.weth = 0
      /\ \A o \in Order : vault.orders[o].balance = 0
  BY DEF Init, LOP!Init
<1>2. vault \in Vault
  BY InitIInv, Now
<1>3. Owed(vault) = 0
  BY <1>1, <1>2, NothingOwed
<1>4. Gap(vault) = 0 /\ VaultAt(saved, vault, 0) = vault
  BY <1>1, <1>3 DEF Gap, VaultAt
<1>5. Gap(VaultAt(saved, vault, 0)) <= 0
  BY <1>4
<1> QED BY <1>1, <1>5 DEF Backed, Covered

\* Every step keeps the balance covered.
LEMMA NextBacked ==
  ASSUME IInv, Backed, IInv', [Next]_vars
  PROVE  Backed'
<1>1. CASE UNCHANGED vars
  BY <1>1 DEF vars, lopVars, Backed
<1>2. ASSUME NEW o \in Order, NEW premium \in Premium, NEW duration \in AuctionDuration,
             EthOrderDeposit(o, premium, duration)
      PROVE  Backed'
  BY <1>2, DepositBacked
<1>3. ASSUME NEW o \in Order, NEW sender \in Account, NEW isMakingAmount \in BOOLEAN,
             NEW amount \in 1 .. MaxAmount, BeginFill(o, sender, isMakingAmount, amount)
      PROVE  Backed'
  BY <1>3, BeginFillBacked
<1>4. ASSUME NEW o \in Order, NEW p \in Order, NEW caller \in Account, CancelOrder(caller, p, o)
      PROVE  Backed'
  <2>1. /\ UNCHANGED <<pending, saved>>
        /\ vault' = [vault EXCEPT !.orders[o].balance = 0,
                                  !.weth = @ - vault.orders[o].balance,
                                  !.refunds[o] = @ + vault.orders[o].balance]
    BY <1>4 DEF CancelOrder, LOP!CancelOrder
  <2>2. /\ vault'.weth = vault.weth - vault.orders[o].balance
        /\ vault'.orders = [vault.orders EXCEPT ![o].balance = 0]
    BY <2>1, Now DEF Vault
  <2> QED BY <2>1, <2>2, PaidOutBacked
<1>5. ASSUME NEW o \in Order, NEW p \in Order, NEW caller \in Account, NEW fee \in Fee,
             CancelOrderByResolver(caller, p, o, fee)
      PROVE  Backed'
  <2>1. PICK reward :
          /\ UNCHANGED <<pending, saved>>
          /\ vault' = [vault EXCEPT !.orders[o].balance = 0,
                                    !.weth = @ - vault.orders[o].balance,
                                    !.rewards[o] = @ + reward,
                                    !.refunds[o] = @ + vault.orders[o].balance - reward]
    BY <1>5 DEF CancelOrderByResolver, LOP!CancelOrder
  <2>2. /\ vault'.weth = vault.weth - vault.orders[o].balance
        /\ vault'.orders = [vault.orders EXCEPT ![o].balance = 0]
    BY <2>1, Now DEF Vault
  <2> QED BY <2>1, <2>2, PaidOutBacked
<1>6. CASE Transfer
  BY <1>6, TransferBacked
<1>7. CASE EndFill
  BY <1>7, EndFillBacked
<1>8. CASE RevertFill
  BY <1>8, RevertFillBacked
<1>9. CASE Pause
  <2>1. UNCHANGED <<pending, saved, vault>>
    BY <1>9 DEF Pause, LOP!Pause
  <2> QED BY <2>1 DEF Backed
<1>10. CASE Tick
  <2>1. UNCHANGED <<pending, saved, vault>>
    BY <1>10 DEF Tick, LOP!Tick
  <2> QED BY <2>1 DEF Backed
<1>11. ASSUME NEW amount \in 1 .. MaxWeth, GiveWeth(amount)
       PROVE  Backed'
  BY <1>11, GiftBacked
<1> QED BY <1>1, <1>2, <1>3, <1>4, <1>5, <1>6, <1>7, <1>8, <1>9, <1>10, <1>11 DEF Next

\* Solvent: between transactions the contract holds what its books owe to the makers
\* of all orders, however their fills were nested, reverted and cancelled, and
\* wherever the takers had the tokens sent.
THEOREM HoldsWhatItOwes == Spec => []Solvent
<1>1. Init => IInv /\ Backed
  BY InitIInv, InitBacked
<1>2. IInv /\ Backed /\ [Next]_vars => (IInv /\ Backed)'
  BY NextKeeps, NextBacked
<1>3. ASSUME IInv, Backed PROVE Solvent
  <2> SUFFICES ASSUME pending = <<>>
               PROVE  vault.weth >= MapThenSumSet(LAMBDA o : vault.orders[o].balance, Order)
    BY DEF Solvent
  <2>1. vault \in Vault /\ Len(saved) = 0
    BY <1>3, Now
  <2>2. VaultAt(saved, vault, 0) = vault
    BY <2>1 DEF VaultAt
  <2>3. Gap(vault) <= 0
    BY <1>3, <2>2 DEF Backed, Covered
  <2>4. vault.weth >= Owed(vault)
    BY <2>1, <2>3, GapFacts DEF Gap
  <2> QED BY <2>4 DEF Owed
<1> QED BY <1>1, <1>2, <1>3, PTL DEF Spec
=============================================================================
