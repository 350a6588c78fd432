-------------------------- MODULE EscrowSrcProofs --------------------------
(***************************************************************************)
(* Proofs about the escrows of the source chain, for any number of clones  *)
(* on any terms, any balances and any clock.                               *)
(***************************************************************************)
EXTENDS EscrowSrc, TLAPS

\* What every address holds of every asset.
Balances == [Asset -> [Address -> Nat]]

\* A clone is on the terms that its order names, and ERC20 tokens are what the
\* order protocol moves.
TermsKept(deployed) == \A c \in Clone : deployed[c] # 0 => Terms[c].token # Native

\* The inductive invariant behind the types and the reasons for an outflow.
IInv == ChainTypeOK /\ TermsKept(deployedAt)

\* What the SDK's constructors assert of the windows of the source.
WindowsOrdered ==
  \A c \in Clone :
    LET delay == Terms[c].timelocks.delay
    IN  /\ delay["SrcWithdrawal"] <= delay["SrcPublicWithdrawal"]
        /\ 0 < delay["SrcCancellation"]
        /\ delay["SrcCancellation"] <= delay["SrcPublicCancellation"]

-----------------------------------------------------------------------------
(* Terms and transfers.                                                     *)

\* Dating the immutables changes their deployment time only, and windows start
\* their delays after it.
LEMMA Dates ==
  ASSUME NEW c \in Clone, NEW t \in 0 .. Horizon
  PROVE  LET im == Dated(c, t)
         IN  /\ im.hashlock = Terms[c].hashlock
             /\ im.maker = Terms[c].maker /\ im.maker \in Account
             /\ im.taker = Terms[c].taker /\ im.taker \in Account
             /\ im.token = Terms[c].token /\ im.token \in Asset
             /\ im.amount = Terms[c].amount /\ im.amount \in Nat
             /\ im.safetyDeposit = Terms[c].safetyDeposit /\ im.safetyDeposit \in Nat
             /\ \A stage \in Stage :
                  /\ Terms[c].timelocks.delay[stage] \in Nat
                  /\ Starts(im, stage) = t + Terms[c].timelocks.delay[stage]
                  /\ Starts(im, stage) \in Nat
<1> DEFINE lock == Terms[c].timelocks
<1>1. Terms[c] \in Immutables /\ lock \in [deployedAt : Field, delay : [Stage -> Field]]
  BY TermsAssumption DEF Immutables, Timelock
<1>2. t % FieldRange = t
  BY HorizonAssumption, FieldRangeAssumption
<1>3. Dated(c, t) = [Terms[c] EXCEPT !.timelocks = [lock EXCEPT !.deployedAt = t]]
  BY <1>2 DEF Dated, SetDeployedAt
<1>4. \A stage \in Stage : lock.delay[stage] \in Nat
  BY <1>1, FieldRangeAssumption DEF Field
<1>5. t \in Nat
  BY HorizonAssumption
<1> QED BY <1>1, <1>3, <1>4, <1>5 DEF Immutables, Starts, StageStart

\* n of an asset has gone from one address to another, or to where it was.
Moved(b, paid, asset, from, to, n) ==
  /\ paid \in Balances
  /\ \A a \in Asset, p \in Address :
       paid[a][p] = IF a # asset \/ from = to THEN b[a][p]
                    ELSE IF p = from THEN b[a][p] - n
                    ELSE IF p = to THEN b[a][p] + n ELSE b[a][p]

\* A transfer moves what it says and nothing else, and overdraws nobody.
LEMMA Pays ==
  ASSUME NEW b \in Balances, NEW asset \in Asset, NEW from \in Address,
         NEW to \in Address, NEW n \in Nat, CanPay(b, asset, from, to, n)
  PROVE  Moved(b, Pay(b, asset, from, to, n), asset, from, to, n)
<1> DEFINE taken == [b[asset] EXCEPT ![from] = @ - n]
           row == [taken EXCEPT ![to] = @ + n]
<1>1. b[asset] \in [Address -> Nat] /\ b[asset][from] >= n
  BY DEF CanPay, Balances
<1>2. /\ row \in [Address -> Nat]
      /\ \A p \in Address :
           row[p] = IF from = to THEN b[asset][p]
                    ELSE IF p = from THEN b[asset][p] - n
                    ELSE IF p = to THEN b[asset][p] + n ELSE b[asset][p]
  <2>1. /\ taken \in [Address -> Nat]
        /\ \A p \in Address : taken[p] = IF p = from THEN b[asset][p] - n ELSE b[asset][p]
    BY <1>1
  <2> HIDE DEF taken
  <2> QED BY <1>1, <2>1
<1>3. Pay(b, asset, from, to, n) = [b EXCEPT ![asset] = row]
  BY DEF Pay
<1> HIDE DEF row
<1>4. /\ [b EXCEPT ![asset] = row] \in Balances
      /\ [b EXCEPT ![asset] = row][asset] = row
      /\ \A a \in Asset : a # asset => [b EXCEPT ![asset] = row][a] = b[a]
  BY <1>2 DEF Balances
<1> QED BY <1>2, <1>3, <1>4 DEF Moved

\* Clones and accounts are addresses, and different ones.
LEMMA Addresses ==
  /\ \A c \in Clone : c \in Address
  /\ \A a \in Account : a \in Address
  /\ \A c \in Clone, a \in Account : c # a
  /\ \A a \in Donor \union Caller : a \in Account
  /\ \A a \in Caller : a \notin Donor
  /\ Native \in Asset
  BY ClonesAssumption, DonorAssumption, NativeAssumption DEF Address, Caller

\* One event of one clone is counted.
Logged(c, event) ==
  /\ log' \in [Clone -> [Event -> Nat]]
  /\ \A d \in Clone, e \in Event :
       log'[d][e] = IF d = c /\ e = event THEN log[d][e] + 1 ELSE log[d][e]

\* Emitting an event counts it, and no other.
LEMMA Emits ==
  ASSUME ChainTypeOK, NEW c \in Clone, NEW event \in Event, Emit(c, event)
  PROVE  Logged(c, event)
<1> DEFINE row == [log[c] EXCEPT ![event] = @ + 1]
<1>1. log \in [Clone -> [Event -> Nat]]
  BY DEF ChainTypeOK
<1>2. /\ row \in [Event -> Nat]
      /\ \A e \in Event : row[e] = IF e = event THEN log[c][e] + 1 ELSE log[c][e]
  BY <1>1
<1>3. log' = [log EXCEPT ![c] = row]
  BY DEF Emit
<1> HIDE DEF row
<1>4. log' \in [Clone -> [Event -> Nat]] /\ \A d \in Clone : log'[d] = IF d = c THEN row ELSE log[d]
  BY <1>1, <1>2, <1>3
<1> QED BY <1>2, <1>4 DEF Logged

-----------------------------------------------------------------------------
(* What the calls do.                                                       *)

\* The clone pays its amount to one address, which may be its own, and its
\* deposit to an account.
PaidOut(c, to, caller) ==
  /\ Deployed(c)
  /\ UNCHANGED <<now, deployedAt>>
  /\ bal' \in Balances
  /\ bal[Terms[c].token][c] >= Terms[c].amount
  /\ Terms[c].token # Native => bal[Native][c] >= Terms[c].safetyDeposit
  /\ Terms[c].token # Native =>
       \A a \in Asset, p \in Address :
         bal'[a][p] =
           IF a = Terms[c].token
             THEN IF to = c THEN bal[a][p]
                  ELSE IF p = c THEN bal[a][p] - Terms[c].amount
                  ELSE IF p = to THEN bal[a][p] + Terms[c].amount ELSE bal[a][p]
           ELSE IF a = Native
             THEN IF p = c THEN bal[a][p] - Terms[c].safetyDeposit
                  ELSE IF p = caller THEN bal[a][p] + Terms[c].safetyDeposit ELSE bal[a][p]
           ELSE bal[a][p]

\* Every settling call checks the immutables and pays twice.
LEMMA PaysOut ==
  ASSUME ChainTypeOK, NEW c \in Clone, NEW im, NEW to \in Address, NEW caller \in Account,
         OnlyValidImmutables(c, im), CanPay(bal, im.token, c, to, im.amount),
         PayDeposit(Pay(bal, im.token, c, to, im.amount), c, im, caller),
         UNCHANGED <<now, deployedAt>>
  PROVE  im = ImmutablesOf(c) /\ PaidOut(c, to, caller)
<1> DEFINE half == Pay(bal, im.token, c, to, im.amount)
<1>1. /\ bal \in Balances /\ deployedAt[c] \in 0 .. Horizon
      /\ Deployed(c) /\ im = ImmutablesOf(c)
  BY DEF ChainTypeOK, Balances, OnlyValidImmutables
<1>2. /\ im.token = Terms[c].token /\ im.token \in Asset
      /\ im.amount = Terms[c].amount /\ im.amount \in Nat
      /\ im.safetyDeposit = Terms[c].safetyDeposit /\ im.safetyDeposit \in Nat
  BY <1>1, Dates DEF ImmutablesOf
<1>3. /\ c \in Address /\ to \in Address /\ caller \in Address
      /\ c # caller /\ Native \in Asset
  BY Addresses
<1>4. Moved(bal, half, im.token, c, to, im.amount) /\ bal[im.token][c] >= im.amount
  BY <1>1, <1>2, <1>3, Pays DEF CanPay
<1>5. half \in Balances
  BY <1>4 DEF Moved
<1>6. /\ CanPay(half, Native, c, caller, im.safetyDeposit)
      /\ bal' = Pay(half, Native, c, caller, im.safetyDeposit)
  BY DEF PayDeposit
<1> HIDE DEF half
<1>7. Moved(half, bal', Native, c, caller, im.safetyDeposit)
  BY <1>2, <1>3, <1>5, <1>6, Pays
<1>8. ASSUME im.token # Native
      PROVE  half[Native][c] = bal[Native][c] /\ half[Native][c] >= im.safetyDeposit
  BY <1>3, <1>4, <1>6, <1>8 DEF Moved, CanPay
<1>9. CASE to = c
  BY <1>1, <1>2, <1>3, <1>4, <1>7, <1>8, <1>9 DEF PaidOut, Moved
<1>10. CASE to # c
  BY <1>1, <1>2, <1>3, <1>4, <1>7, <1>8, <1>10 DEF PaidOut, Moved
<1> QED BY <1>9, <1>10

\* Paid out inside the withdrawal window, or from the cancellation on; in the
\* private windows the call is the taker's.
WithdrawnBy(c, to, caller) ==
  /\ PaidOut(c, to, caller)
  /\ Logged(c, "Withdrawal")
  /\ now < Starts(ImmutablesOf(c), "SrcCancellation")
  /\ now < Starts(ImmutablesOf(c), "SrcPublicWithdrawal") => caller = Terms[c].taker
  /\ WindowsOrdered => now >= Starts(ImmutablesOf(c), "SrcWithdrawal")

\* Cancelled, for the maker; while the window is private, by the taker.
CancelledBy(c, caller) ==
  /\ PaidOut(c, Terms[c].maker, caller)
  /\ Logged(c, "EscrowCancelled")
  /\ now < Starts(ImmutablesOf(c), "SrcPublicCancellation") => caller = Terms[c].taker
  /\ WindowsOrdered => now >= Starts(ImmutablesOf(c), "SrcCancellation")

\* A settling call withdraws or cancels.
LEMMA Settles ==
  ASSUME ChainTypeOK, NEW c \in Clone, Settle(c, Secret, Address)
  PROVE  \E caller \in Caller :
           \/ CancelledBy(c, caller)
           \/ \E to \in Address : WithdrawnBy(c, to, caller)
<1> DEFINE own == ImmutablesOf(c)
<1>1. PICK im \in {ImmutablesOf(d) : d \in Clone}, caller \in Caller :
        \/ \E x \in Secret, target \in Address : WithdrawTo(c, im, caller, x, target)
        \/ \E x \in Secret : PublicWithdraw(c, im, caller, x)
        \/ Cancel(c, im, caller)
        \/ PublicCancel(c, im, caller)
  BY DEF Settle
<1>2. /\ now \in Nat /\ deployedAt[c] \in 0 .. Horizon /\ caller \in Account
      /\ own.taker = Terms[c].taker /\ own.taker \in Address
      /\ own.maker = Terms[c].maker /\ own.maker \in Address
  BY Dates, Addresses, HorizonAssumption DEF ChainTypeOK, ImmutablesOf
<1>3. /\ WindowsOrdered =>
           /\ Starts(own, "SrcWithdrawal") <= Starts(own, "SrcPublicWithdrawal")
           /\ Starts(own, "SrcCancellation") <= Starts(own, "SrcPublicCancellation")
      /\ Starts(own, "SrcWithdrawal") \in Nat /\ Starts(own, "SrcPublicWithdrawal") \in Nat
      /\ Starts(own, "SrcCancellation") \in Nat /\ Starts(own, "SrcPublicCancellation") \in Nat
  BY <1>2, Dates DEF ImmutablesOf, WindowsOrdered, Stage
<1>4. ASSUME NEW x, NEW target \in Address, PayWithdrawal(c, im, caller, x, target)
      PROVE  im = own /\ PaidOut(c, target, caller) /\ Logged(c, "Withdrawal")
  BY <1>2, <1>4, PaysOut, Emits DEF PayWithdrawal, Event
<1>5. ASSUME NEW target \in Address, im.maker = target, PayCancellation(c, im, caller)
      PROVE  im = own /\ PaidOut(c, target, caller) /\ Logged(c, "EscrowCancelled")
  BY <1>2, <1>5, PaysOut, Emits DEF PayCancellation, Event
<1>6. OnlyValidImmutables(c, im) => im = own
  BY DEF OnlyValidImmutables
<1> HIDE DEF own
<1>7. ASSUME NEW x, NEW target \in Address, WithdrawTo(c, im, caller, x, target)
      PROVE  WithdrawnBy(c, target, caller)
  <2>1. im = own /\ PaidOut(c, target, caller) /\ Logged(c, "Withdrawal")
    BY <1>4, <1>7, Addresses DEF WithdrawTo
  <2> QED BY <1>2, <1>7, <2>1 DEF WithdrawnBy, WithdrawTo, OnlyTaker, OnlyAfter, OnlyBefore, own
<1>8. ASSUME NEW x, PublicWithdraw(c, im, caller, x)
      PROVE  WithdrawnBy(c, Terms[c].taker, caller)
  <2>1. im = own
    BY <1>6, <1>8 DEF PublicWithdraw, PayWithdrawal
  <2>2. PaidOut(c, Terms[c].taker, caller) /\ Logged(c, "Withdrawal")
    BY <1>2, <1>4, <1>8, <2>1 DEF PublicWithdraw
  <2>3. now >= Starts(own, "SrcPublicWithdrawal") /\ now < Starts(own, "SrcCancellation")
    BY <1>8, <2>1 DEF PublicWithdraw, OnlyAfter, OnlyBefore
  <2>4. /\ WindowsOrdered => now >= Starts(own, "SrcWithdrawal")
        /\ ~(now < Starts(own, "SrcPublicWithdrawal"))
    BY <1>2, <1>3, <2>3
  <2> QED BY <2>2, <2>3, <2>4 DEF WithdrawnBy, own
<1>9. ASSUME Cancel(c, im, caller) PROVE CancelledBy(c, caller)
  <2>1. im = own
    BY <1>6, <1>9 DEF Cancel, PayCancellation
  <2>2. PaidOut(c, Terms[c].maker, caller) /\ Logged(c, "EscrowCancelled")
    BY <1>2, <1>5, <1>9, <2>1 DEF Cancel
  <2> QED BY <1>2, <1>9, <2>1, <2>2 DEF CancelledBy, Cancel, OnlyTaker, OnlyAfter, own
<1>10. ASSUME PublicCancel(c, im, caller) PROVE CancelledBy(c, caller)
  <2>1. im = own
    BY <1>6, <1>10 DEF PublicCancel, PayCancellation
  <2>2. PaidOut(c, Terms[c].maker, caller) /\ Logged(c, "EscrowCancelled")
    BY <1>2, <1>5, <1>10, <2>1 DEF PublicCancel
  <2>3. now >= Starts(own, "SrcPublicCancellation")
    BY <1>10, <2>1 DEF PublicCancel, OnlyAfter
  <2>4. /\ WindowsOrdered => now >= Starts(own, "SrcCancellation")
        /\ ~(now < Starts(own, "SrcPublicCancellation"))
    BY <1>2, <1>3, <2>3
  <2> QED BY <2>2, <2>4 DEF CancelledBy, own
<1>11. ASSUME NEW x \in Secret, NEW target \in Address, WithdrawTo(c, im, caller, x, target)
       PROVE  \E to \in Address : WithdrawnBy(c, to, caller)
  BY <1>7, <1>11
<1>12. ASSUME NEW x \in Secret, PublicWithdraw(c, im, caller, x)
       PROVE  \E to \in Address : WithdrawnBy(c, to, caller)
  BY <1>2, <1>8, <1>12
<1> QED BY <1>1, <1>9, <1>10, <1>11, <1>12

\* A rescue pays the taker, late.
RescuedFrom(c, asset, n) ==
  /\ n \in Nat
  /\ UNCHANGED <<now, deployedAt>>
  /\ Moved(bal, bal', asset, c, Terms[c].taker, n)
  /\ Terms[c].taker \notin Donor
  /\ Logged(c, "FundsRescued")
  /\ now >= RescueStart(ImmutablesOf(c).timelocks, RescueDelay)

\* A rescue is one of some asset, as said.
LEMMA Rescues ==
  ASSUME ChainTypeOK, NEW c \in Clone, Rescue(c)
  PROVE  \E asset \in Asset, n \in Nat : RescuedFrom(c, asset, n)
<1>1. PICK im \in {ImmutablesOf(d) : d \in Clone}, caller \in Caller, asset \in Asset :
        \E n \in 1 .. bal[asset][c] : RescueFunds(c, im, caller, asset, n)
  BY DEF Rescue
<1>2. /\ bal \in Balances /\ bal[asset][c] \in Nat
      /\ c \in Address /\ caller \in Address /\ c # caller /\ caller \notin Donor
  BY Addresses DEF ChainTypeOK, Balances
<1>3. PICK n \in Nat : RescueFunds(c, im, caller, asset, n)
  BY <1>1, <1>2
<1>4. /\ im = ImmutablesOf(c) /\ deployedAt[c] \in 0 .. Horizon
      /\ caller = im.taker
      /\ now >= RescueStart(im.timelocks, RescueDelay)
      /\ CanPay(bal, asset, c, caller, n)
      /\ bal' = Pay(bal, asset, c, caller, n)
      /\ Emit(c, "FundsRescued")
      /\ UNCHANGED <<now, deployedAt>>
  BY <1>3 DEF RescueFunds, OnlyTaker, OnlyAfter, OnlyValidImmutables, ChainTypeOK
<1>5. caller = Terms[c].taker
  BY <1>4, Dates DEF ImmutablesOf
<1>6. Moved(bal, bal', asset, c, caller, n)
  BY <1>2, <1>4, Pays
<1>7. Logged(c, "FundsRescued")
  BY <1>4, Emits DEF Event
<1> QED BY <1>2, <1>4, <1>5, <1>6, <1>7 DEF RescuedFrom

\* The fill brings the amount from the maker and a deposit from the payer.
DeployedFor(c, sent) ==
  /\ sent \in Nat /\ sent <= Terms[c].safetyDeposit
  /\ ~Deployed(c) /\ Terms[c].token # Native
  /\ deployedAt' = [deployedAt EXCEPT ![c] = now]
  /\ UNCHANGED <<now, log>>
  /\ bal' \in Balances
  /\ \A a \in Asset, p \in Address :
       bal'[a][p] =
         IF a = Terms[c].token
           THEN IF p = c THEN bal[a][p] + Terms[c].amount
                ELSE IF p = Terms[c].maker THEN bal[a][p] - Terms[c].amount ELSE bal[a][p]
         ELSE IF a = Native
           THEN IF p = c THEN bal[a][p] + sent
                ELSE IF p = Terms[c].taker THEN bal[a][p] - sent ELSE bal[a][p]
         ELSE bal[a][p]

\* The fill that creates a clone is a deployment.
LEMMA Deploys ==
  ASSUME ChainTypeOK, NEW c \in Clone, NEW sent \in {0, Terms[c].safetyDeposit},
         DeploySrc(c, Terms[c].taker, sent)
  PROVE  DeployedFor(c, sent)
<1> DEFINE t == Terms[c]
           b1 == Pay(bal, Native, t.taker, c, sent)
<1>1. bal \in Balances /\ now \in 0 .. Horizon
  BY DEF ChainTypeOK, Balances
<1>2. /\ Dated(c, now).token = t.token /\ t.token \in Asset
      /\ Dated(c, now).maker = t.maker /\ t.maker \in Account /\ t.taker \in Account
      /\ Dated(c, now).amount = t.amount /\ t.amount \in Nat
      /\ t.safetyDeposit \in Nat
  BY <1>1, Dates
<1>3. /\ c \in Address /\ t.maker \in Address /\ t.taker \in Address
      /\ c # t.maker /\ c # t.taker /\ Native \in Asset /\ sent \in Nat
  BY <1>2, Addresses
<1>4. /\ ~Deployed(c) /\ t.token # Native
      /\ CanPay(bal, Native, t.taker, c, sent)
      /\ CanPay(b1, t.token, t.maker, c, t.amount)
      /\ deployedAt' = [deployedAt EXCEPT ![c] = now]
      /\ bal' = Pay(b1, t.token, t.maker, c, t.amount)
      /\ UNCHANGED <<now, log>>
  BY <1>2 DEF DeploySrc
<1>5. Moved(bal, b1, Native, t.taker, c, sent)
  BY <1>1, <1>3, <1>4, Pays
<1>6. b1 \in Balances
  BY <1>5 DEF Moved
<1> HIDE DEF b1
<1>7. Moved(b1, bal', t.token, t.maker, c, t.amount)
  BY <1>2, <1>3, <1>4, <1>6, Pays
<1>8. sent <= t.safetyDeposit
  BY <1>2
<1> HIDE DEF t
<1>9. \A a \in Asset, p \in Address :
        bal'[a][p] =
          IF a = t.token
            THEN IF p = c THEN bal[a][p] + t.amount
                 ELSE IF p = t.maker THEN bal[a][p] - t.amount ELSE bal[a][p]
          ELSE IF a = Native
            THEN IF p = c THEN bal[a][p] + sent
                 ELSE IF p = t.taker THEN bal[a][p] - sent ELSE bal[a][p]
          ELSE bal[a][p]
  BY <1>3, <1>4, <1>5, <1>7 DEF Moved
<1> QED BY <1>3, <1>4, <1>7, <1>8, <1>9 DEF DeployedFor, Moved, t

\* A gift.
Given(from, c, asset) ==
  /\ UNCHANGED <<now, deployedAt, log>>
  /\ Moved(bal, bal', asset, from, c, 1)

\* A donation is a gift of one unit.
LEMMA Gives ==
  ASSUME ChainTypeOK, NEW from \in Donor, NEW c \in Clone, NEW asset \in Asset,
         Donate(from, c, asset, 1)
  PROVE  Given(from, c, asset)
<1>1. bal \in Balances /\ from \in Address /\ c \in Address /\ c # from
  BY Addresses DEF ChainTypeOK, Balances
<1> QED BY <1>1, Pays DEF Donate, Given

-----------------------------------------------------------------------------
(* The theorems.                                                            *)

\* What a step of the chain can be.
LEMMA Steps ==
  ASSUME ChainTypeOK, [Next]_chainVars
  PROVE  \/ UNCHANGED chainVars
         \/ Tick
         \/ \E c \in Clone :
              \/ \E sent \in Nat : DeployedFor(c, sent)
              \/ \E caller \in Caller :
                   \/ CancelledBy(c, caller)
                   \/ \E to \in Address : WithdrawnBy(c, to, caller)
              \/ \E asset \in Asset, n \in Nat : RescuedFrom(c, asset, n)
              \/ \E from \in Donor, asset \in Asset : Given(from, c, asset)
<1>1. ASSUME NEW c \in Clone, NEW sent \in {0, Terms[c].safetyDeposit},
             DeploySrc(c, Terms[c].taker, sent)
      PROVE  sent \in Nat /\ DeployedFor(c, sent)
  BY <1>1, Deploys DEF DeployedFor
<1>2. ASSUME NEW c \in Clone, Settle(c, Secret, Address)
      PROVE  \E caller \in Caller :
               \/ CancelledBy(c, caller)
               \/ \E to \in Address : WithdrawnBy(c, to, caller)
  BY <1>2, Settles
<1>3. ASSUME NEW c \in Clone, Rescue(c)
      PROVE  \E asset \in Asset, n \in Nat : RescuedFrom(c, asset, n)
  BY <1>3, Rescues
<1>4. ASSUME NEW c \in Clone, NEW from \in Donor, NEW asset \in Asset,
             Donate(from, c, asset, 1)
      PROVE  Given(from, c, asset)
  BY <1>4, Gives
<1> QED BY <1>1, <1>2, <1>3, <1>4 DEF Next

\* The chain starts in the invariant.
LEMMA InitIInv == ChainInit => IInv
<1> SUFFICES ASSUME ChainInit PROVE IInv
  OBVIOUS
<1>1. 0 \in 0 .. Horizon /\ 1 \in 1 .. Horizon
  BY HorizonAssumption
<1>2. ChainTypeOK
  BY <1>1, EndowmentAssumption DEF ChainInit, ChainTypeOK
<1>3. TermsKept(deployedAt)
  BY DEF ChainInit, TermsKept
<1> QED BY <1>2, <1>3 DEF IInv

\* Every step keeps the invariant.
LEMMA NextIInv ==
  ASSUME IInv, [Next]_chainVars
  PROVE  IInv'
<1>1. /\ ChainTypeOK /\ TermsKept(deployedAt)
      /\ now \in 1 .. Horizon /\ now # 0 /\ now \in 0 .. Horizon
      /\ deployedAt \in [Clone -> 0 .. Horizon] /\ bal \in Balances
      /\ log \in [Clone -> [Event -> Nat]]
  BY HorizonAssumption DEF IInv, ChainTypeOK, Balances
<1>2. CASE UNCHANGED chainVars
  BY <1>1, <1>2 DEF chainVars, IInv, ChainTypeOK
<1>3. CASE Tick
  <2>1. now' \in 1 .. Horizon /\ UNCHANGED <<deployedAt, bal, log>>
    BY <1>1, <1>3, HorizonAssumption DEF Tick
  <2> QED BY <1>1, <2>1 DEF IInv, ChainTypeOK, Balances
<1>4. ASSUME NEW c \in Clone, NEW sent \in Nat, DeployedFor(c, sent)
      PROVE  IInv'
  <2>1. /\ deployedAt' \in [Clone -> 0 .. Horizon] /\ UNCHANGED <<now, log>>
        /\ bal' \in Balances
    BY <1>1, <1>4 DEF DeployedFor
  <2>2. TermsKept(deployedAt')
    BY <1>1, <1>4 DEF DeployedFor, TermsKept
  <2> QED BY <1>1, <2>1, <2>2 DEF IInv, ChainTypeOK, Balances
<1>5. ASSUME UNCHANGED <<now, deployedAt>>, bal' \in Balances,
             log' \in [Clone -> [Event -> Nat]]
      PROVE  IInv'
  BY <1>1, <1>5 DEF IInv, ChainTypeOK, Balances
<1>6. ASSUME NEW c \in Clone, NEW caller \in Caller,
             \/ CancelledBy(c, caller)
             \/ \E to \in Address : WithdrawnBy(c, to, caller)
      PROVE  IInv'
  BY <1>5, <1>6 DEF CancelledBy, WithdrawnBy, PaidOut, Logged
<1>7. ASSUME NEW c \in Clone, NEW asset \in Asset, NEW n \in Nat, RescuedFrom(c, asset, n)
      PROVE  IInv'
  BY <1>5, <1>7 DEF RescuedFrom, Moved, Logged
<1>8. ASSUME NEW c \in Clone, NEW from \in Donor, NEW asset \in Asset, Given(from, c, asset)
      PROVE  IInv'
  BY <1>1, <1>5, <1>8 DEF Given, Moved
<1> QED BY <1>1, <1>2, <1>3, <1>4, <1>6, <1>7, <1>8, Steps

\* The invariant holds in every reachable state.
THEOREM Inductive == Spec => []IInv
<1>1. ChainInit => IInv
  BY InitIInv
<1>2. IInv /\ [Next]_chainVars => IInv'
  BY NextIInv
<1> QED BY <1>1, <1>2, PTL DEF Spec

\* ChainTypeOK: no transfer overdraws an account, and no clone is dated ahead.
THEOREM TypeCorrect == Spec => []ChainTypeOK
<1>1. IInv => ChainTypeOK
  BY DEF IInv
<1> QED BY <1>1, Inductive, PTL

\* Whose tokens a step takes, and why.
LEMMA StepJustified ==
  ASSUME IInv, WindowsOrdered, [Next]_chainVars, NEW c \in Clone, Lost(c) > 0
  PROVE  \/ Withdrawn(c, ImmutablesOf(c))
         \/ Refunded(c, ImmutablesOf(c))
         \/ Rescued(c, ImmutablesOf(c))
<1> DEFINE im == ImmutablesOf(c)
           token == Terms[c].token
<1>1. /\ ChainTypeOK /\ bal \in Balances /\ deployedAt[c] \in 0 .. Horizon
      /\ deployedAt[c] # 0 => token # Native
  BY DEF IInv, ChainTypeOK, Balances, TermsKept
<1>2. /\ im.token = token /\ token \in Asset
      /\ im.maker = Terms[c].maker /\ im.maker \in Account
      /\ im.taker = Terms[c].taker /\ im.taker \in Account
      /\ im.amount = Terms[c].amount /\ im.amount \in Nat
      /\ im.safetyDeposit = Terms[c].safetyDeposit /\ im.safetyDeposit \in Nat
  BY <1>1, Dates DEF ImmutablesOf
<1>3. /\ c \in Address /\ im.maker \in Address /\ im.taker \in Address
      /\ c # im.maker /\ c # im.taker /\ Native \in Asset
  BY <1>2, Addresses
<1>4. \A a \in Asset, p \in Address : bal[a][p] \in Nat
  BY <1>1 DEF Balances
<1>5. bal[token][c] - bal'[token][c] > 0
  BY DEF Lost
<1> HIDE DEF im, token
<1>6. CASE UNCHANGED chainVars \/ Tick
  BY <1>2, <1>3, <1>4, <1>5, <1>6 DEF chainVars, Tick
<1>7. ASSUME NEW d \in Clone, NEW sent \in Nat, DeployedFor(d, sent)
      PROVE  FALSE
  <2>1. d \in Address /\ Terms[d].maker # c /\ Terms[d].taker # c /\ Terms[d].amount \in Nat
    BY <1>1, Dates, Addresses DEF ChainTypeOK, TermsAssumption
  <2>2. bal'[token][c] >= bal[token][c]
    BY <1>2, <1>3, <1>4, <1>7, <2>1 DEF DeployedFor
  <2> QED BY <1>2, <1>3, <1>4, <1>5, <2>2, <1>7 DEF DeployedFor, Balances
<1>8. ASSUME NEW d \in Clone, NEW to \in Address, NEW caller \in Account, PaidOut(d, to, caller)
      PROVE  /\ d = c
             /\ Lost(c) = im.amount
             /\ Gains(to, token, im.amount)
             /\ Gains(caller, Native, im.safetyDeposit)
  <2>1. /\ d \in Address /\ to \in Address /\ caller \in Address
        /\ c # caller /\ d # caller
    BY Addresses
  <2>2. Terms[d].token # Native
    BY <1>8 DEF PaidOut, IInv, TermsKept, Deployed
  <2>3. d = c
    <3>1. SUFFICES ASSUME d # c PROVE bal'[token][c] >= bal[token][c]
      BY <1>2, <1>3, <1>4, <1>5, <1>8 DEF PaidOut, Balances
    <3>2. Terms[d].amount \in Nat /\ Terms[d].safetyDeposit \in Nat
      BY TermsAssumption DEF Immutables
    <3> QED BY <1>2, <1>3, <1>4, <1>8, <2>1, <2>2, <3>1, <3>2 DEF PaidOut
  <2>4. token # Native /\ Terms[c].token = token
    BY <2>2, <2>3 DEF token
  <2>5. bal[token][c] >= im.amount
    BY <1>2, <1>8, <2>3, <2>4 DEF PaidOut
  <2>6. Lost(c) = im.amount /\ to # c
    BY <1>2, <1>3, <1>4, <1>8, <2>1, <2>3, <2>4 DEF PaidOut, Lost
  <2>7. Gains(to, token, im.amount)
    BY <2>6, <1>2, <1>3, <1>4, <1>8, <2>1, <2>3, <2>4 DEF PaidOut, Gains
  <2>8. Gains(caller, Native, im.safetyDeposit)
    BY <1>2, <1>3, <1>4, <1>8, <2>1, <2>3, <2>4 DEF PaidOut, Gains
  <2> QED BY <2>3, <2>6, <2>7, <2>8
<1>9. ASSUME NEW d \in Clone, NEW to \in Address, NEW caller \in Caller,
             WithdrawnBy(d, to, caller)
      PROVE  Withdrawn(c, im)
  <2>1. caller \in Account
    BY Addresses
  <2>2. d = c /\ Lost(c) = im.amount /\ Gains(caller, Native, im.safetyDeposit)
    BY <1>8, <1>9, <2>1 DEF WithdrawnBy
  <2> QED BY <1>2, <1>9, <2>2 DEF WithdrawnBy, Withdrawn, im
<1>10. ASSUME NEW d \in Clone, NEW caller \in Caller, CancelledBy(d, caller)
       PROVE  Refunded(c, im)
  <2>1. Terms[d].maker \in Address /\ caller \in Account
    BY Addresses, TermsAssumption DEF Immutables
  <2>2. /\ d = c /\ Lost(c) = im.amount /\ Gains(caller, Native, im.safetyDeposit)
        /\ Gains(Terms[d].maker, token, im.amount)
    BY <1>8, <1>10, <2>1 DEF CancelledBy
  <2> QED BY <1>2, <1>10, <2>2 DEF CancelledBy, Refunded, im
<1>11. ASSUME NEW d \in Clone, NEW asset \in Asset, NEW n \in Nat, RescuedFrom(d, asset, n)
       PROVE  Rescued(c, im)
  <2>1. d \in Address /\ Terms[d].taker \in Address /\ c # Terms[d].taker
    BY Addresses, TermsAssumption DEF Immutables
  <2>2. d = c /\ asset = token /\ Lost(c) = n
    BY <1>2, <1>3, <1>4, <1>5, <1>11, <2>1 DEF RescuedFrom, Moved, Lost, token
  <2>3. Gains(im.taker, token, n)
    BY <1>2, <1>3, <1>4, <1>11, <2>1, <2>2 DEF RescuedFrom, Moved, Gains
  <2> QED BY <1>2, <1>11, <2>2, <2>3 DEF RescuedFrom, Rescued, im
<1>12. ASSUME NEW d \in Clone, NEW from \in Donor, NEW asset \in Asset, Given(from, d, asset)
       PROVE  FALSE
  <2>1. d \in Address /\ from \in Address /\ c # from
    BY Addresses
  <2> QED BY <1>2, <1>3, <1>4, <1>5, <1>12, <2>1 DEF Given, Moved
<1> QED BY <1>1, <1>6, <1>7, <1>9, <1>10, <1>11, <1>12, Steps DEF im

\* OutflowJustified, for clones on any terms whose windows are in order: whatever
\* is sent to a clone unasked, its tokens move for the three reasons only.
THEOREM OutflowsAreJustified ==
  ASSUME WindowsOrdered
  PROVE  Spec => OutflowJustified
<1>1. IInv /\ [Next]_chainVars =>
        [\A c \in Clone : Lost(c) > 0 =>
           LET im == ImmutablesOf(c)
           IN  Withdrawn(c, im) \/ Refunded(c, im) \/ Rescued(c, im)]_chainVars
  BY StepJustified
<1> QED BY <1>1, Inductive, PTL DEF Spec, OutflowJustified

-----------------------------------------------------------------------------
(* A clone has no memory but its balances, and pays whenever they suffice.  *)
(* Its tokens may come back: they can be withdrawn to the clone itself, or  *)
(* from one clone to another.  The safety deposit leaves for good, so a     *)
(* clone is a hash timelock as long as nobody makes up for its deposit.     *)

\* Those who give to clones, taken as one, cannot make up for a safety deposit.
GiftsAreSmall(donor) ==
  /\ Donor = {donor}
  /\ \A c \in Clone :
       Endowment[Native][c] + Endowment[Native][donor] < Terms[c].safetyDeposit

\* Funded, and not settled yet.
Open(c) == Deployed(c) /\ log[c]["Withdrawal"] = 0 /\ log[c]["EscrowCancelled"] = 0

\* The native currency in a clone and what may be given to it exceed what there
\* was at first by its deposit at most, and not at all once it is settled.
Budget(donor) ==
  \A c \in Clone :
    /\ bal[Native][c] + bal[Native][donor]
         <= Endowment[Native][c] + Endowment[Native][donor]
              + (IF Open(c) THEN Terms[c].safetyDeposit ELSE 0)
    /\ ~Deployed(c) => log[c]["Withdrawal"] = 0 /\ log[c]["EscrowCancelled"] = 0

\* What the types say, spelt out.
LEMMA Numbers ==
  ASSUME ChainTypeOK
  PROVE  /\ bal \in Balances
         /\ \A a \in Asset, p \in Address : bal[a][p] \in Nat /\ Endowment[a][p] \in Nat
         /\ \A c \in Clone : /\ deployedAt[c] \in 0 .. Horizon
                              /\ log[c]["Withdrawal"] \in Nat
                              /\ log[c]["EscrowCancelled"] \in Nat
                              /\ Native \in Asset /\ Terms[c].safetyDeposit \in Nat
                              /\ Terms[c].maker \in Account /\ Terms[c].taker \in Account
         /\ now \in 1 .. Horizon /\ now \in Nat \ {0}
<1>1. now \in 1 .. Horizon /\ now \in Nat \ {0}
  BY HorizonAssumption DEF ChainTypeOK
<1>2. \A c \in Clone : /\ Native \in Asset /\ Terms[c].safetyDeposit \in Nat
                       /\ Terms[c].maker \in Account /\ Terms[c].taker \in Account
  BY TermsAssumption, NativeAssumption DEF Immutables
<1> QED BY <1>1, <1>2, EndowmentAssumption DEF ChainTypeOK, Balances, Event

\* A clone that is paid out was open, and is not any more.
LEMMA PaidOnce ==
  ASSUME IInv, NEW donor, GiftsAreSmall(donor), Budget(donor), NEW c \in Clone,
         NEW to \in Address, NEW caller \in Account, caller # donor,
         PaidOut(c, to, caller), NEW event \in {"Withdrawal", "EscrowCancelled"},
         Logged(c, event)
  PROVE  Open(c) /\ Budget(donor)'
<1> DEFINE gifts(d) == Endowment[Native][d] + Endowment[Native][donor]
           held(d) == bal[Native][d] + bal[Native][donor]
<1>1. ChainTypeOK /\ Terms[c].token # Native
  BY DEF IInv, TermsKept, PaidOut, Deployed
<1>2. /\ donor \in Account /\ donor \in Address /\ c # caller
      /\ \A d \in Clone : /\ d \in Address /\ d # caller /\ d # donor
                          /\ gifts(d) \in Nat /\ held(d) \in Nat
                          /\ bal[Native][donor] \in Nat
                          /\ gifts(d) < Terms[d].safetyDeposit /\ Terms[d].safetyDeposit \in Nat
  BY <1>1, Numbers, Addresses, DonorAssumption DEF GiftsAreSmall
<1>3. held(c) <= gifts(c) + (IF Open(c) THEN Terms[c].safetyDeposit ELSE 0)
  BY DEF Budget
<1>4. bal[Native][c] >= Terms[c].safetyDeposit
  BY <1>1 DEF PaidOut
<1>5. Open(c)
  <2>1. SUFFICES ASSUME ~Open(c) PROVE FALSE
    OBVIOUS
  <2>2. held(c) <= gifts(c)
    BY <1>2, <1>3, <2>1
  <2>3. held(c) >= Terms[c].safetyDeposit
    BY <1>1, <1>2, <1>4, Numbers
  <2> QED BY <1>2, <2>2, <2>3
<1>6. ASSUME NEW d \in Clone
      PROVE  /\ bal'[Native][d] + bal'[Native][donor]
                  <= gifts(d) + (IF Open(d)' THEN Terms[d].safetyDeposit ELSE 0)
             /\ ~Deployed(d)' => log'[d]["Withdrawal"] = 0 /\ log'[d]["EscrowCancelled"] = 0
  <2>1. /\ deployedAt' = deployedAt /\ Deployed(c) /\ Deployed(d)' = Deployed(d)
        /\ ~Deployed(d) => log[d]["Withdrawal"] = 0 /\ log[d]["EscrowCancelled"] = 0
        /\ held(d) <= gifts(d) + (IF Open(d) THEN Terms[d].safetyDeposit ELSE 0)
    BY <1>1, Numbers DEF PaidOut, Deployed, Budget
  <2>2. bal'[Native][donor] = bal[Native][donor]
    BY <1>1, <1>2, <2>1, NativeAssumption DEF PaidOut
  <2>3. CASE d = c
    <3>1. bal'[Native][c] = bal[Native][c] - Terms[c].safetyDeposit
      BY <1>1, <1>2, <2>1, <2>3, NativeAssumption DEF PaidOut
    <3>2. held(c) - Terms[c].safetyDeposit <= gifts(c)
      BY <1>2, <1>3, <1>5
    <3>3. ~Open(c)'
      BY <1>1, <1>5, Numbers DEF Logged, Open, Event
    <3> QED BY <1>1, <1>2, <2>1, <2>2, <2>3, <3>1, <3>2, <3>3, Numbers
  <2>4. CASE d # c
    <3>1. bal'[Native][d] = bal[Native][d]
      BY <1>1, <1>2, <2>1, <2>4, NativeAssumption DEF PaidOut
    <3>2. /\ log'[d]["Withdrawal"] = log[d]["Withdrawal"]
          /\ log'[d]["EscrowCancelled"] = log[d]["EscrowCancelled"]
      BY <2>4 DEF Logged, Event
    <3>3. Open(d)' <=> Open(d)
      BY <2>1, <3>2 DEF Open
    <3> QED BY <2>1, <2>2, <3>1, <3>2, <3>3
  <2> QED BY <2>3, <2>4
<1>7. Budget(donor)'
  BY <1>6 DEF Budget
<1> QED BY <1>5, <1>7

\* Settled once more than not at all: the clone pays for the event, and then no
\* more.
LEMMA SettledOnce ==
  ASSUME IInv, NEW donor, GiftsAreSmall(donor), Budget(donor), NEW c \in Clone,
         NEW caller \in Caller
  PROVE  /\ CancelledBy(c, caller) => Open(c) /\ Budget(donor)'
         /\ \A to \in Address :
              WithdrawnBy(c, to, caller) => Open(c) /\ Budget(donor)'
<1>1. /\ Terms[c].maker \in Address
      /\ \A a \in Caller : a \in Account /\ a # donor
  BY Numbers, Addresses DEF GiftsAreSmall, IInv
<1> QED BY <1>1, PaidOnce DEF CancelledBy, WithdrawnBy

\* Every step keeps to the budget of the clones.
LEMMA BudgetKept ==
  ASSUME IInv, NEW donor, GiftsAreSmall(donor), Budget(donor), [Next]_chainVars
  PROVE  Budget(donor)'
<1>1. /\ ChainTypeOK /\ donor \in Donor /\ donor \in Account /\ donor \in Address
      /\ \A a \in Donor : a = donor
  BY Addresses, DonorAssumption DEF IInv, GiftsAreSmall
<1>2. ASSUME NEW c \in Clone
      PROVE  /\ c \in Address /\ c # donor /\ Native \in Asset
             /\ Terms[c].safetyDeposit \in Nat
             /\ Terms[c].maker # c /\ Terms[c].taker # c
             /\ Terms[c].maker \in Account /\ Terms[c].taker \in Account
             /\ Terms[c].maker \in Address /\ Terms[c].taker \in Address
             /\ bal[Native][c] \in Nat /\ bal[Native][donor] \in Nat
             /\ Endowment[Native][c] \in Nat /\ Endowment[Native][donor] \in Nat
             /\ bal[Native][c] + bal[Native][donor]
                  <= Endowment[Native][c] + Endowment[Native][donor]
                       + (IF Open(c) THEN Terms[c].safetyDeposit ELSE 0)
             /\ ~Deployed(c) => log[c]["Withdrawal"] = 0 /\ log[c]["EscrowCancelled"] = 0
  BY <1>1, Numbers, Addresses DEF GiftsAreSmall, Budget
<1>3. ASSUME UNCHANGED <<deployedAt, bal, log>> PROVE Budget(donor)'
  BY <1>3 DEF Budget, Open, Deployed
<1>4. CASE UNCHANGED chainVars \/ Tick
  BY <1>3, <1>4 DEF chainVars, Tick
<1>5. ASSUME NEW c \in Clone, NEW sent \in Nat, DeployedFor(c, sent) PROVE Budget(donor)'
  <2>1. SUFFICES ASSUME NEW d \in Clone
                 PROVE  /\ bal'[Native][d] + bal'[Native][donor]
                             <= Endowment[Native][d] + Endowment[Native][donor]
                                  + (IF Open(d)' THEN Terms[d].safetyDeposit ELSE 0)
                        /\ ~Deployed(d)' => /\ log'[d]["Withdrawal"] = 0
                                            /\ log'[d]["EscrowCancelled"] = 0
    BY DEF Budget
  <2>2. bal'[Native][donor] \in Nat /\ bal'[Native][donor] <= bal[Native][donor]
    <3>1. bal'[Native][donor] \in Nat
      BY <1>1, <1>2, <1>5 DEF DeployedFor, Balances
    <3> QED BY <1>1, <1>2, <1>5, <3>1 DEF DeployedFor
  <2>3. log' = log
    BY <1>5 DEF DeployedFor
  <2>4. CASE d = c
    <3>1. bal'[Native][c] \in Nat /\ bal'[Native][c] <= bal[Native][c] + Terms[c].safetyDeposit
      BY <1>2, <1>5 DEF DeployedFor, Balances
    <3>2. ~Open(c) /\ Open(c)' /\ Deployed(c)'
      <4>1. ~Deployed(c) /\ deployedAt'[c] = now /\ now # 0
        BY <1>1, <1>5, Numbers DEF DeployedFor, ChainTypeOK
      <4> QED BY <1>2, <2>3, <4>1 DEF Open, Deployed
    <3> QED BY <1>2, <2>2, <2>4, <3>1, <3>2
  <2>5. CASE d # c
    <3>0. d # Terms[c].maker /\ d # Terms[c].taker
      BY <1>2, Addresses
    <3>1. bal'[Native][d] = bal[Native][d]
      BY <1>2, <1>5, <2>5, <3>0 DEF DeployedFor
    <3>2. deployedAt'[d] = deployedAt[d]
      BY <1>5, <2>5 DEF DeployedFor
    <3>3. (Open(d)' <=> Open(d)) /\ (Deployed(d)' <=> Deployed(d))
      BY <2>3, <3>2 DEF Open, Deployed
    <3> QED BY <1>2, <2>2, <2>3, <3>1, <3>3
  <2> QED BY <2>4, <2>5
<1>6. ASSUME UNCHANGED deployedAt,
             \A d \in Clone : /\ log'[d]["Withdrawal"] = log[d]["Withdrawal"]
                             /\ log'[d]["EscrowCancelled"] = log[d]["EscrowCancelled"]
                             /\ bal'[Native][d] + bal'[Native][donor]
                                  <= bal[Native][d] + bal[Native][donor],
             bal' \in Balances
      PROVE  Budget(donor)'
  <2>1. SUFFICES ASSUME NEW d \in Clone
                 PROVE  /\ bal'[Native][d] + bal'[Native][donor]
                             <= Endowment[Native][d] + Endowment[Native][donor]
                                  + (IF Open(d)' THEN Terms[d].safetyDeposit ELSE 0)
                        /\ ~Deployed(d)' => /\ log'[d]["Withdrawal"] = 0
                                            /\ log'[d]["EscrowCancelled"] = 0
    BY DEF Budget
  <2>2. (Open(d)' <=> Open(d)) /\ (Deployed(d)' <=> Deployed(d))
    BY <1>6 DEF Open, Deployed
  <2>3. bal'[Native][d] \in Nat /\ bal'[Native][donor] \in Nat
    BY <1>1, <1>2, <1>6 DEF Balances
  <2> QED BY <1>2, <1>6, <2>2, <2>3
<1>7. ASSUME NEW c \in Clone, NEW asset \in Asset, NEW n \in Nat, RescuedFrom(c, asset, n)
      PROVE  Budget(donor)'
  <2>1. /\ UNCHANGED deployedAt /\ bal' \in Balances
        /\ \A d \in Clone : /\ log'[d]["Withdrawal"] = log[d]["Withdrawal"]
                            /\ log'[d]["EscrowCancelled"] = log[d]["EscrowCancelled"]
    BY <1>7 DEF RescuedFrom, Moved, Logged, Event
  <2>2. ASSUME NEW d \in Clone
        PROVE  bal'[Native][d] + bal'[Native][donor]
                 <= bal[Native][d] + bal[Native][donor]
    <3>1. bal'[Native][donor] = bal[Native][donor]
      BY <1>1, <1>2, <1>7 DEF RescuedFrom, Moved
    <3>2. bal'[Native][d] <= bal[Native][d]
      <4>1. d # Terms[c].taker
        BY <1>2, Addresses
      <4> QED BY <1>2, <1>7, <4>1 DEF RescuedFrom, Moved
    <3>3. bal'[Native][d] \in Nat
      BY <1>2, <2>1 DEF Balances
    <3> QED BY <1>2, <3>1, <3>2, <3>3
  <2> QED BY <1>6, <2>1, <2>2
<1>8. ASSUME NEW c \in Clone, NEW from \in Donor, NEW asset \in Asset, Given(from, c, asset)
      PROVE  Budget(donor)'
  <2>1. from = donor /\ UNCHANGED <<deployedAt, log>> /\ bal' \in Balances
    BY <1>1, <1>8 DEF Given, Moved
  <2>2. ASSUME NEW d \in Clone
        PROVE  bal'[Native][d] + bal'[Native][donor]
                 <= bal[Native][d] + bal[Native][donor]
    BY <1>1, <1>2, <1>8, <2>1 DEF Given, Moved
  <2> QED BY <1>6, <2>1, <2>2
<1> QED BY <1>1, <1>4, <1>5, <1>7, <1>8, Steps, SettledOnce

\* Nothing is deployed or settled at first.
LEMMA InitBudget ==
  ASSUME NEW donor, GiftsAreSmall(donor), ChainInit
  PROVE  Budget(donor)
<1>1. IInv /\ donor \in Address
  BY InitIInv, Addresses, DonorAssumption DEF GiftsAreSmall
<1>2. ASSUME NEW c \in Clone
      PROVE  /\ c \in Address /\ Native \in Asset
             /\ Endowment[Native][c] \in Nat /\ Endowment[Native][donor] \in Nat
             /\ bal = Endowment /\ log[c]["Withdrawal"] = 0 /\ log[c]["EscrowCancelled"] = 0
             /\ ~Open(c)
  BY <1>1, Numbers, Addresses DEF IInv, ChainInit, Event, Open, Deployed
<1> QED BY <1>2 DEF Budget

-----------------------------------------------------------------------------

\* The clones that the abstraction takes for expired.
Expired(c) == Deployed(c) /\ now >= Starts(ImmutablesOf(c), "SrcCancellation")

\* A step of the chain is a step of the abstract legs, or nothing to them.
LEMMA StepOfLegs ==
  ASSUME WindowsOrdered, IInv, NEW donor, GiftsAreSmall(donor), Budget(donor),
         [Next]_chainVars
  PROVE  [Leg!Next]_(Leg!legVars)
<1> DEFINE locked == {c \in Clone : Deployed(c)}
           expired == {c \in Clone : Expired(c)}
           claims == [c \in Clone |-> log[c]["Withdrawal"]]
           refunds == [c \in Clone |-> log[c]["EscrowCancelled"]]
<1>1. /\ ChainTypeOK /\ now \in Nat \ {0} /\ now \in 0 .. Horizon
      /\ deployedAt \in [Clone -> 0 .. Horizon]
      /\ \A c \in Clone, t \in 0 .. Horizon :
           /\ Starts(Dated(c, t), "SrcCancellation")
                = t + Terms[c].timelocks.delay["SrcCancellation"]
           /\ Terms[c].timelocks.delay["SrcCancellation"] \in Nat \ {0}
  BY Numbers, Dates DEF IInv, ChainTypeOK, WindowsOrdered, Stage
<1>2. ASSUME UNCHANGED <<now, deployedAt>>
      PROVE  locked' = locked /\ expired' = expired
  BY <1>2 DEF Deployed, Expired, ImmutablesOf
<1>3. ASSUME UNCHANGED <<now, deployedAt>>, claims' = claims, refunds' = refunds
      PROVE  UNCHANGED Leg!legVars
  BY <1>2, <1>3 DEF Leg!legVars, Expired
<1>4. CASE UNCHANGED chainVars
  BY <1>3, <1>4 DEF chainVars
<1>5. CASE Tick
  <2>1. now' = now + 1 /\ UNCHANGED <<deployedAt, log>>
    BY <1>5 DEF Tick
  <2>2. locked' = locked /\ claims' = claims /\ refunds' = refunds
    BY <2>1 DEF Deployed
  <2>3. ASSUME NEW c \in Clone, Expired(c) PROVE Expired(c)'
    <3>1. Starts(ImmutablesOf(c), "SrcCancellation") \in Nat
      BY <1>1 DEF ImmutablesOf
    <3> QED BY <1>1, <2>1, <2>3, <3>1 DEF Expired, Deployed, ImmutablesOf
  <2>4. expired' = expired \union expired' /\ expired' \in SUBSET locked
    BY <2>2, <2>3 DEF Expired
  <2>5. Leg!Expire
    BY <2>2, <2>4 DEF Leg!Expire, Expired
  <2> QED BY <2>5 DEF Leg!Next
<1>6. ASSUME NEW c \in Clone, NEW sent \in Nat, DeployedFor(c, sent)
      PROVE  Leg!Lock(c)
  <2>1. /\ deployedAt[c] = 0 /\ deployedAt' = [deployedAt EXCEPT ![c] = now]
        /\ now' = now /\ log' = log
    BY <1>6 DEF DeployedFor, Deployed
  <2>2. c \notin locked /\ claims' = claims /\ refunds' = refunds
    BY <2>1 DEF Deployed
  <2>3. locked' = locked \union {c}
    BY <1>1, <2>1 DEF Deployed
  <2>4. ASSUME NEW d \in Clone PROVE Expired(d)' <=> Expired(d)
    <3>1. CASE d # c
      BY <2>1, <3>1 DEF Expired, Deployed, ImmutablesOf
    <3>2. CASE d = c
      <4>1. ImmutablesOf(c)' = Dated(c, now)
        BY <1>1, <2>1 DEF ImmutablesOf
      <4>2. Starts(Dated(c, now), "SrcCancellation") > now
        BY <1>1
      <4>3. ~Expired(c) /\ ~Expired(c)'
        <5>1. ~Expired(c)
          BY <2>1 DEF Expired, Deployed
        <5>2. Expired(c)' <=> Deployed(c)' /\ now' >= Starts(ImmutablesOf(c)', "SrcCancellation")
          BY DEF Expired, Starts
        <5>3. Starts(Dated(c, now), "SrcCancellation") \in Nat
          BY <1>1
        <5> QED BY <1>1, <2>1, <4>1, <4>2, <5>1, <5>2, <5>3
      <4> QED BY <3>2, <4>3
    <3> QED BY <3>1, <3>2
  <2>5. expired' = expired
    BY <2>4
  <2> QED BY <2>2, <2>3, <2>5 DEF Leg!Lock, Expired
<1>7. ASSUME NEW c \in Clone, NEW caller \in Caller,
             NEW to \in Address, WithdrawnBy(c, to, caller)
      PROVE  Leg!Claim(c)
  <2>1. Open(c) /\ UNCHANGED <<now, deployedAt>> /\ Logged(c, "Withdrawal")
    BY <1>7, SettledOnce DEF WithdrawnBy, PaidOut
  <2>2. c \in locked /\ claims[c] = 0 /\ refunds[c] = 0
    BY <2>1 DEF Open
  <2>3. c \notin expired
    <3>1. now < Starts(ImmutablesOf(c), "SrcCancellation")
      BY <1>7 DEF WithdrawnBy
    <3>2. Starts(ImmutablesOf(c), "SrcCancellation") \in Nat
      BY <1>1 DEF ImmutablesOf
    <3> QED BY <1>1, <3>1, <3>2 DEF Expired
  <2>4. claims' = [claims EXCEPT ![c] = 1]
    <3>1. \A d \in Clone : log'[d]["Withdrawal"] = IF d = c THEN 1 ELSE log[d]["Withdrawal"]
      BY <2>1 DEF Logged, Open, Event
    <3> QED BY <3>1
  <2>5. refunds' = refunds
    BY <2>1 DEF Logged, Event
  <2> QED BY <1>2, <2>1, <2>2, <2>3, <2>4, <2>5 DEF Leg!Claim, Leg!Unsettled, Expired
<1>8. ASSUME NEW c \in Clone, NEW caller \in Caller, CancelledBy(c, caller)
      PROVE  Leg!Refund(c)
  <2>1. Open(c) /\ UNCHANGED <<now, deployedAt>> /\ Logged(c, "EscrowCancelled")
    BY <1>8, SettledOnce DEF CancelledBy, PaidOut
  <2>2. c \in locked /\ claims[c] = 0 /\ refunds[c] = 0
    BY <2>1 DEF Open
  <2>3. c \in expired
    BY <1>8, <2>1 DEF CancelledBy, Expired, Open
  <2>4. refunds' = [refunds EXCEPT ![c] = 1]
    <3>1. \A d \in Clone :
            log'[d]["EscrowCancelled"] = IF d = c THEN 1 ELSE log[d]["EscrowCancelled"]
      BY <2>1 DEF Logged, Open, Event
    <3> QED BY <3>1
  <2>5. claims' = claims
    BY <2>1 DEF Logged, Event
  <2> QED BY <1>2, <2>1, <2>2, <2>3, <2>4, <2>5 DEF Leg!Refund, Leg!Unsettled, Expired
<1>9. ASSUME NEW c \in Clone, NEW asset \in Asset, NEW n \in Nat, RescuedFrom(c, asset, n)
      PROVE  UNCHANGED Leg!legVars
  <2>1. UNCHANGED <<now, deployedAt>> /\ claims' = claims /\ refunds' = refunds
    BY <1>9 DEF RescuedFrom, Logged, Event
  <2> QED BY <1>3, <2>1
<1>10. ASSUME NEW c \in Clone, NEW from \in Donor, NEW asset \in Asset, Given(from, c, asset)
       PROVE  UNCHANGED Leg!legVars
  BY <1>3, <1>10 DEF Given
<1> HIDE DEF locked, expired, claims, refunds
<1> QED BY <1>1, <1>4, <1>5, <1>6, <1>7, <1>8, <1>9, <1>10, Steps DEF Leg!Next

\* SettlesAsHashTimelock: as long as gifts are small, a clone pays out once, to
\* the withdrawing side before its cancellation or to the maker from then on.
THEOREM ImplementsHashTimelock ==
  ASSUME WindowsOrdered, NEW donor, GiftsAreSmall(donor)
  PROVE  Spec => SettlesAsHashTimelock
<1>1. ChainInit => Budget(donor) /\ Leg!Init
  <2>1. ChainInit => Leg!Init
    BY DEF ChainInit, Leg!Init, Deployed, Event
  <2> QED BY <2>1, InitBudget
<1>2. IInv /\ Budget(donor) /\ [Next]_chainVars => Budget(donor)' /\ [Leg!Next]_(Leg!legVars)
  BY BudgetKept, StepOfLegs
<1> QED BY <1>1, <1>2, Inductive, PTL DEF Spec, SettlesAsHashTimelock, Leg!Spec
=============================================================================
