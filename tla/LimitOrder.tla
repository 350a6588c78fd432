----------------------------- MODULE LimitOrder -----------------------------
(***************************************************************************)
(* The limit order protocol (OrderMixin.sol): makers sign orders off the   *)
(* chain, anybody fills them.  What stops an order from being filled twice *)
(* is an entry of its maker's: a bit per nonce for orders that are filled  *)
(* once, the remaining amount for the others.  Makers cancel by the same   *)
(* entries, or all orders of an epoch at once.                             *)
(*                                                                         *)
(* Fills hand control to foreign code: the token of the maker's permit,    *)
(* the maker's pre-interaction, the token that is transferred, the taker's *)
(* interaction and the maker's post-interaction.  That code may call the   *)
(* protocol again.  A call that reverts takes back whatever was done since *)
(* it began, and its caller may go on.                                     *)
(***************************************************************************)
EXTENDS AmountGetters, Sequences, SequencesExt

CONSTANTS
  Order,         \* hashes of orders
  Terms,         \* the orders themselves
  Account,       \* accounts that fill orders
  Maker,         \* accounts that make orders
  AccessToken,   \* accounts that hold FeeTaker's access token
  Nonce,         \* nonces and epochs share a field of the maker traits
  Series,
  SlotSize,      \* nonces that share a word of the bit invalidator: 256
  Word,          \* number of values of a word: 2^256
  MaxAmount,     \* bound on the amounts of a call
  MaxEpoch,      \* bound on the epochs
  MaxDepth,      \* bound on the nesting of calls
  MaxCalls,      \* bound on the calls that cancel orders
  Horizon        \* bound on the clock

VARIABLES
  now,           \* block.timestamp
  signed,        \* the orders their makers have signed
  storage,       \* what the contract and the tokens remember
  pending,       \* stack of the calls that are waiting for foreign code
  calls          \* calls of the kind that MaxCalls bounds, so far

vars == <<now, signed, storage, pending, calls>>

OrderTerms ==
  [maker : Maker, makingAmount : 1 .. MaxAmount, takingAmount : 1 .. MaxAmount,
   allowPartialFills : BOOLEAN, allowMultipleFills : BOOLEAN, nonceOrEpoch : Nonce,
   needCheckEpochManager : BOOLEAN, series : Series, expiration : Nat,
   allowedSender : SUBSET Account, makerPermit : BOOLEAN,
   auction : Auction \union {NoAuction}, fees : FeeData(Account), orderId : Nat]

ASSUME TermsAssumption == Terms \in [Order -> OrderTerms]
ASSUME AccessTokenAssumption == AccessToken \subseteq Account
ASSUME NonceAssumption == Nonce \subseteq Nat /\ SlotSize \in Nat \ {0}
ASSUME BoundsAssumption ==
  /\ MaxAmount \in Nat /\ Word \in Nat
  /\ MaxAmount * (MaxAmount + 1) < Word       \* products of amounts fit a word
  /\ MaxEpoch \in Nat /\ MaxDepth \in Nat
  /\ MaxCalls \in Nat /\ Horizon \in Nat \ {0}

\* raw, bits, epoch and ids are keyed by maker; taken and due are the amounts that
\* fills have moved from the maker and those they owe it in return.
Storage ==
  [raw : [Maker -> [Order -> 0 .. Word - 1]], bits : [Maker -> SUBSET Nonce],
   epoch : [Maker -> [Series -> Nat]], ids : [Maker -> SUBSET Order], paused : BOOLEAN,
   taken : [Order -> Nat], due : [Order -> Nat]]

Frame ==
  [order : Order, sender : Account, stage : {"permit", "invalidated", "transferred"},
   remaining : 0 .. MaxAmount, making : 0 .. MaxAmount, taking : Nat,
   before : Storage]

Init ==
  /\ now = 1
  /\ signed \in SUBSET Order
  /\ storage = [raw    |-> [a \in Maker |-> [o \in Order |-> 0]],
                bits   |-> [a \in Maker |-> {}],
                epoch  |-> [a \in Maker |-> [s \in Series |-> 0]],
                ids    |-> [a \in Maker |-> {}],
                paused |-> FALSE,
                taken  |-> [o \in Order |-> 0],
                due    |-> [o \in Order |-> 0]]
  /\ pending = <<>>
  /\ calls = 0

-----------------------------------------------------------------------------
(* Invalidators.                                                            *)

UseBitInvalidator(o) == ~Terms[o].allowPartialFills \/ ~Terms[o].allowMultipleFills

\* Mutant: the number is negated instead of its bits.
MinusNot(word) == Word - word

\* 0 stands for an order nobody has touched; otherwise the complement of what
\* remains is stored, so that an order filled to the last unit is told apart.
Not(word) == Word - 1 - word

Raw(o) == storage.raw[Terms[o].maker][o]

Remaining(o) ==
  IF UseBitInvalidator(o) \/ Raw(o) = 0 THEN Terms[o].makingAmount ELSE Not(Raw(o))

Slot(n) == {k \in Nonce : k \div SlotSize = n \div SlotSize}

\* Mutant: only orders filled as a whole are looked up.
NotInvalidatedWhole(o) ==
  ~Terms[o].allowPartialFills => Terms[o].nonceOrEpoch \notin storage.bits[Terms[o].maker]

\* checkAndInvalidate: the maker's bit must not be set.
NotInvalidated(o) ==
  UseBitInvalidator(o) => Terms[o].nonceOrEpoch \notin storage.bits[Terms[o].maker]

\* Mutant: what remains is stored as it is.
InvalidatedPlain(o, remaining, making) ==
  LET t == Terms[o]
  IN  IF UseBitInvalidator(o)
        THEN [storage EXCEPT !.bits[t.maker] = @ \union {t.nonceOrEpoch}]
        ELSE [storage EXCEPT !.raw[t.maker][o] = remaining - making]

Invalidated(o, remaining, making) ==
  LET t == Terms[o]
  IN  IF UseBitInvalidator(o)
        THEN [storage EXCEPT !.bits[t.maker] = @ \union {t.nonceOrEpoch}]
        ELSE [storage EXCEPT !.raw[t.maker][o] = Not(remaining - making)]

-----------------------------------------------------------------------------
(* Amounts: linear in the taking amount of the whole order, which an auction *)
(* may set, and rounded for the maker; with fees on top.                    *)

Price(o) ==
  LET t == Terms[o]
  IN  IF t.auction = NoAuction THEN t.takingAmount ELSE AuctionTakingAmount(t.auction, now)

GetMakingAmount(o, taker, taking) ==
  MakingAmountWithFee(Terms[o].fees, taker, (taking * Terms[o].makingAmount) \div Price(o))

GetTakingAmount(o, taker, making) ==
  TakingAmountWithFee(Terms[o].fees, taker, CeilDiv(making * Price(o), Terms[o].makingAmount))

\* What a fill may move, by the amount the taker names on either side.  Its
\* threshold only narrows this: 0 stands for none.
Amounts(o, taker, remaining, isMakingAmount, amount) ==
  LET most == GetMakingAmount(o, taker, amount)
      making == IF isMakingAmount THEN (IF amount < remaining THEN amount ELSE remaining)
                                  ELSE (IF most > remaining THEN remaining ELSE most)
      taking == IF isMakingAmount \/ most > remaining THEN GetTakingAmount(o, taker, making)
                                                      ELSE amount
  IN  [making |-> making, taking |-> taking]

-----------------------------------------------------------------------------

Top == Last(pending)

Expired(o) == Terms[o].expiration # 0 /\ Terms[o].expiration < now

\* Mutant: orders of bygone epochs are taken, too.
WrongEpochAhead(o) ==
  LET t == Terms[o]
  IN  t.needCheckEpochManager
        /\ (UseBitInvalidator(o) \/ storage.epoch[t.maker][t.series] < t.nonceOrEpoch)

WrongEpoch(o) ==
  LET t == Terms[o]
  IN  t.needCheckEpochManager
        /\ (UseBitInvalidator(o) \/ storage.epoch[t.maker][t.series] # t.nonceOrEpoch)

\* OrderIdInvalidator, as the pre-interaction of orders with an id: the first
\* order of a maker that is filled under an id is the only one that is.
OrderIdFree(o) ==
  LET t == Terms[o]
  IN  t.orderId # 0 => \A p \in storage.ids[t.maker] : Terms[p].orderId = t.orderId => p = o

\* _fill, from its validation to the invalidation of the order, with the
\* pre-interaction of an order id.  `below` are the calls the fill is nested in,
\* `before` what a revert goes back to.
Fill(o, sender, remaining, isMakingAmount, amount, below, before) ==
  LET t == Terms[o]
      a == Amounts(o, sender, remaining, isMakingAmount, amount)
  IN  /\ ~storage.paused
      /\ sender \in t.allowedSender
      /\ ~Expired(o)
      /\ ~WrongEpoch(o)
      /\ ~isMakingAmount => a.taking <= amount
      /\ t.allowPartialFills \/ a.making = t.makingAmount
      /\ a.making > 0 /\ a.taking > 0
      /\ NotInvalidated(o)
      /\ OrderIdFree(o)
      /\ storage' = [Invalidated(o, remaining, a.making) EXCEPT
                       !.ids[t.maker] = IF t.orderId = 0 THEN @ ELSE @ \union {o}]
      /\ pending' = Append(below,
           [order |-> o, sender |-> sender, stage |-> "invalidated",
            remaining |-> remaining, making |-> a.making, taking |-> a.taking,
            before |-> before])
      /\ UNCHANGED <<now, signed, calls>>

\* Mutant: orders that are filled once need no signature.
CheckedSignatureOfMultiple(o) ==
  ~UseBitInvalidator(o) /\ Remaining(o) = Terms[o].makingAmount => o \in signed

\* The signature is looked at as long as nothing of the order was taken.
CheckedSignature(o) == Remaining(o) = Terms[o].makingAmount => o \in signed

\* fillOrder and fillContractOrder, without a permit to carry out.
BeginFill(o, sender, isMakingAmount, amount) ==
  /\ Len(pending) < MaxDepth
  /\ Remaining(o) > 0
  /\ CheckedSignature(o)
  /\ Fill(o, sender, Remaining(o), isMakingAmount, amount, pending, storage)

\* fillOrder, up to the call of the token that the maker's permit names.
BeginPermit(o, sender) ==
  /\ Len(pending) < MaxDepth
  /\ Terms[o].makerPermit
  /\ Remaining(o) = Terms[o].makingAmount
  /\ CheckedSignature(o)
  /\ pending' = Append(pending,
       [order |-> o, sender |-> sender, stage |-> "permit", remaining |-> Remaining(o),
        making |-> 0, taking |-> 0, before |-> storage])
  /\ UNCHANGED <<now, signed, storage, calls>>

\* Mutant: the order is not looked at again.
EndPermitBlindly(isMakingAmount, amount) ==
  /\ pending # <<>>
  /\ Top.stage = "permit"
  /\ Fill(Top.order, Top.sender, Top.remaining, isMakingAmount, amount, Front(pending), Top.before)

\* The rest of fillOrder: an order that the permit's token has had filled or
\* cancelled meanwhile must not be filled from the amount read before.
EndPermit(isMakingAmount, amount) ==
  /\ pending # <<>>
  /\ Top.stage = "permit"
  /\ UseBitInvalidator(Top.order) \/ Raw(Top.order) = 0
  /\ Fill(Top.order, Top.sender, Top.remaining, isMakingAmount, amount, Front(pending), Top.before)

\* The maker's tokens go to the target of the taker.
Transfer ==
  /\ pending # <<>>
  /\ Top.stage = "invalidated"
  /\ storage' = [storage EXCEPT !.taken[Top.order] = @ + Top.making]
  /\ pending' = Append(Front(pending), [Top EXCEPT !.stage = "transferred"])
  /\ UNCHANGED <<now, signed, calls>>

\* The interactions have returned and the call with them.  FeeTaker, as the
\* post-interaction of orders with fees, turns away takers it does not know.
EndFill ==
  LET fees == Terms[Top.order].fees
  IN  /\ pending # <<>>
      /\ Top.stage = "transferred"
      /\ fees # NoFees => Top.sender \in fees.whitelist \union AccessToken
      /\ storage' = [storage EXCEPT !.due[Top.order] = @ + ToReceiver(fees, Top.sender, Top.taking)]
      /\ pending' = Front(pending)
      /\ UNCHANGED <<now, signed, calls>>

\* A call reverts, for whatever reason, once its nested calls are over.
RevertFill ==
  /\ pending # <<>>
  /\ storage' = Top.before
  /\ pending' = Front(pending)
  /\ UNCHANGED <<now, signed, calls>>

-----------------------------------------------------------------------------
(* Cancellation.  These calls trust their caller to name the right traits.   *)
(* What an account that makes no orders cancels is nobody's.                 *)

Count == calls < MaxCalls /\ calls' = calls + 1

\* cancelOrder, with the traits of `p` and the hash of `o`.
CancelOrder(caller, p, o) ==
  /\ storage' = IF UseBitInvalidator(p)
                  THEN [storage EXCEPT !.bits[caller] = @ \union {Terms[p].nonceOrEpoch}]
                  ELSE [storage EXCEPT !.raw[caller][o] = Word - 1]
  /\ Count
  /\ UNCHANGED <<now, signed, pending>>

\* bitsInvalidateForOrder, with any mask over the slot of the nonce.
BitsInvalidateForOrder(caller, p, others) ==
  /\ UseBitInvalidator(p)
  /\ others \subseteq Slot(Terms[p].nonceOrEpoch)
  /\ storage' = [storage EXCEPT !.bits[caller] = @ \union {Terms[p].nonceOrEpoch} \union others]
  /\ Count
  /\ UNCHANGED <<now, signed, pending>>

AdvanceEpoch(caller, series, amount) ==
  /\ amount \in 1 .. 255
  /\ storage.epoch[caller][series] + amount <= MaxEpoch
  /\ storage' = [storage EXCEPT !.epoch[caller][series] = @ + amount]
  /\ Count
  /\ UNCHANGED <<now, signed, pending>>

Pause ==
  /\ storage' = [storage EXCEPT !.paused = ~@]
  /\ UNCHANGED <<now, signed, pending, calls>>

Tick ==
  /\ pending = <<>>
  /\ now < Horizon
  /\ now' = now + 1
  /\ UNCHANGED <<signed, storage, pending, calls>>

Next ==
  \/ \E o \in Order, sender \in Account :
       \/ BeginPermit(o, sender)
       \/ \E isMakingAmount \in BOOLEAN, amount \in 1 .. MaxAmount :
            BeginFill(o, sender, isMakingAmount, amount)
  \/ \E isMakingAmount \in BOOLEAN, amount \in 1 .. MaxAmount :
       EndPermit(isMakingAmount, amount)
  \/ Transfer
  \/ EndFill
  \/ RevertFill
  \/ \E caller \in Maker :
       \/ \E p, o \in Order : CancelOrder(caller, p, o)
       \/ \E p \in Order, others \in SUBSET Nonce : BitsInvalidateForOrder(caller, p, others)
       \/ \E series \in Series, amount \in 1 .. MaxEpoch : AdvanceEpoch(caller, series, amount)
  \/ Pause
  \/ Tick

Spec == Init /\ [][Next]_vars

-----------------------------------------------------------------------------

\* Entries are words, amounts of calls are bounded, and no frame is malformed.
TypeOK ==
  /\ now \in 1 .. Horizon
  /\ signed \in SUBSET Order
  /\ storage \in Storage
  /\ pending \in Seq(Frame)
  /\ calls \in 0 .. MaxCalls

\* The calls under way that have invalidated `o`.
Filling(o) == {k \in DOMAIN pending : pending[k].order = o /\ pending[k].stage # "permit"}

Used(o) == storage.taken[o] > 0 \/ Filling(o) # {}

\* Nothing of an order is taken without the maker's signature, though later
\* fills do not look at it.
OnlySigned == \A o \in Order : Used(o) => o \in signed

\* What is taken of an order and what remains of it do not exceed the order,
\* however fills are nested.
WithinOrder ==
  \A o \in Order :
    /\ storage.taken[o] <= Terms[o].makingAmount
    /\ ~UseBitInvalidator(o) /\ Used(o) =>
         storage.taken[o] + Remaining(o) <= Terms[o].makingAmount

\* Of the orders of a maker that share a nonce or an id one is filled, however
\* fills are nested and reverted.
OnePerNonce ==
  \A o, p \in Order :
    /\ Terms[o].maker = Terms[p].maker
    /\ \/ /\ UseBitInvalidator(o) /\ UseBitInvalidator(p)
          /\ Terms[o].nonceOrEpoch = Terms[p].nonceOrEpoch
       \/ Terms[o].orderId # 0 /\ Terms[o].orderId = Terms[p].orderId
    /\ Used(o) /\ Used(p)
    => o = p

\* Filled up, cancelled, of a bygone epoch or out of time.
DeadIn(s, o) ==
  LET t == Terms[o]
  IN  \/ UseBitInvalidator(o) /\ t.nonceOrEpoch \in s.bits[t.maker]
      \/ ~UseBitInvalidator(o) /\ s.raw[t.maker][o] = Not(0)
      \/ t.needCheckEpochManager /\ s.epoch[t.maker][t.series] > t.nonceOrEpoch
      \/ Expired(o)

Dead(o) == DeadIn(storage, o)

Reverted == pending # <<>> /\ storage' = Top.before

\* An order that is dead stays so unless the call that killed it reverts, and no
\* fill of it gets past its invalidation: a cancellation made while a permit is
\* carried out is not overwritten.
DeadStaysDead ==
  [][\A o \in Order : Dead(o) => /\ Dead(o)' \/ Reverted
                                 /\ Filling(o)' \subseteq Filling(o)]_vars

\* What the rest of the world sees: transactions, whole or not at all.
Visible == IF pending = <<>> THEN storage ELSE Head(pending).before

\* The least that a whole order has asked for up to now.
LowestPrice(o) ==
  LET t == Terms[o]
      first == AuctionTakingAmount(t.auction, t.auction.startTime)
  IN  IF t.auction # NoAuction /\ first < Price(o) THEN first ELSE Price(o)

\* When all fees are taken off what the fills of an order report, the maker is
\* owed the rate it signed, or that of its auction, in however many parts and
\* at whatever times the order is filled.
RateKept ==
  \A o \in Order :
    Visible.due[o] * Terms[o].makingAmount >= Visible.taken[o] * LowestPrice(o)

Book == INSTANCE OrderBook WITH
  Limit <- [o \in Order |-> Terms[o].makingAmount],
  Single <- {o \in Order : UseBitInvalidator(o)},
  taken <- Visible.taken,
  dead <- {o \in Order : DeadIn(Visible, o)}

\* Seen from outside of the outermost call, the entries and the calls of the
\* protocol amount to the order book of the abstract specification.
FillsAreTransactions == Book!Spec
=============================================================================
