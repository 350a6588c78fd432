-------------------------- MODULE EscrowDstProofs --------------------------
(***************************************************************************)
(* Proofs about the escrows of the destination chain, for any number of    *)
(* clones on any terms, any balances and any clock.                        *)
(*                                                                         *)
(* A clone has no memory but its balance.  Where amount and deposit are    *)
(* both native currency a second withdrawal pays as long as a deposit is   *)
(* left, so that two things are shown together: an open clone holds both   *)
(* until its cancellation, and a settled one holds less than a deposit.    *)
(***************************************************************************)
EXTENDS EscrowDst, TLAPS

\* What every address holds of every asset.
Balances == [Asset -> [Address -> Nat]]

\* What the SDK's constructors assert of the windows of the destination, and what
\* deployments choose the rescue delay by.
WindowsOrdered ==
  \A c \in Clone :
    LET delay == Terms[c].timelocks.delay
    IN  /\ delay["DstWithdrawal"] <= delay["DstPublicWithdrawal"]
        /\ 0 < delay["DstCancellation"]
        /\ delay["DstCancellation"] <= RescueDelay

\* What a deployment brings to a clone in its token.
Due(c) ==
  Terms[c].amount + IF Terms[c].token = Native THEN Terms[c].safetyDeposit ELSE 0

\* Those who give to clones, taken as one, cannot make up for a payment.
GiftsAreSmall(donor) ==
  /\ Donor = {donor}
  /\ \A c \in Clone : Terms[c].maker # donor /\ Terms[c].taker # donor
  /\ \A c \in Accepted :
       LET t == Terms[c]
       IN  Endowment[t.token][c] + Endowment[t.token][donor]
             < IF t.token = Native THEN t.safetyDeposit ELSE t.amount

\* Funded, and not settled yet.
Open(c) == Deployed(c) /\ log[c]["Withdrawal"] = 0 /\ log[c]["EscrowCancelled"] = 0

\* An unsettled clone holds what is due until its cancellation.
Held(c) ==
  Open(c) /\ now < Starts(ImmutablesOf(c), "DstCancellation")
    => bal[Terms[c].token][c] >= Due(c)

\* What is in a clone and what may be given to it exceed what there was at first
\* by what is due at most, and not at all once it is settled.
Budget(c, donor) ==
  LET t == Terms[c]
  IN  /\ bal[t.token][c] + bal[t.token][donor]
           <= Endowment[t.token][c] + Endowment[t.token][donor]
                + (IF Open(c) THEN Due(c) ELSE 0)
      /\ ~Deployed(c) => log[c]["Withdrawal"] = 0 /\ log[c]["EscrowCancelled"] = 0

\* The invariant of the clones whose maker takes what it is owed.
Balanced(donor) == \A c \in Accepted : Held(c) /\ Budget(c, donor)

-----------------------------------------------------------------------------
(* Terms and transfers.                                                     *)

\* Dating the immutables changes their deployment time only, and windows start
\* their delays after it.
LEMMA Dates ==
  ASSUME NEW c \in Clone, NEW t \in 0 .. Horizon
  PROVE  LET im == Dated(c, t)
         IN  /\ im.hashlock = Terms[c].hashlock
             /\ im.maker = Terms[c].maker /\ im.maker \in Account
             /\ im.taker = Terms[c].taker /\ im.taker \in Account
             /\ im.token = Terms[c].token /\ im.token \in Asset
             /\ im.amount = Terms[c].amount /\ im.amount \in Nat
             /\ im.safetyDeposit = Terms[c].safetyDeposit /\ im.safetyDeposit \in Nat
             /\ \A stage \in Stage :
                  /\ Terms[c].timelocks.delay[stage] \in Nat
                  /\ Starts(im, stage) = t + Terms[c].timelocks.delay[stage]
                  /\ Starts(im, stage) \in Nat
<1> DEFINE lock == Terms[c].timelocks
<1>1. Terms[c] \in Immutables /\ lock \in [deployedAt : Field, delay : [Stage -> Field]]
  BY TermsAssumption DEF Immutables, Timelock
<1>2. t % FieldRange = t
  BY HorizonAssumption, FieldRangeAssumption
<1>3. Dated(c, t) = [Terms[c] EXCEPT !.timelocks = [lock EXCEPT !.deployedAt = t]]
  BY <1>2 DEF Dated, SetDeployedAt
<1>4. \A stage \in Stage : lock.delay[stage] \in Nat
  BY <1>1, FieldRangeAssumption DEF Field
<1>5. t \in Nat
  BY HorizonAssumption
<1> QED BY <1>1, <1>3, <1>4, <1>5 DEF Immutables, Starts, StageStart

\* n of an asset has gone from one address to another.
Moved(b, paid, asset, from, to, n) ==
  /\ paid \in Balances
  /\ \A a \in Asset, p \in Address :
       paid[a][p] = IF a # asset THEN b[a][p]
                    ELSE IF p = from THEN b[a][p] - n
                    ELSE IF p = to THEN b[a][p] + n ELSE b[a][p]

\* A transfer moves what it says and nothing else, and overdraws nobody.
LEMMA Pays ==
  ASSUME NEW b \in Balances, NEW asset \in Asset, NEW from \in Address,
         NEW to \in Address, NEW n \in Nat, from # to, CanPay(b, asset, from, to, n)
  PROVE  Moved(b, Pay(b, asset, from, to, n), asset, from, to, n)
<1> DEFINE row == [b[asset] EXCEPT ![from] = @ - n, ![to] = @ + n]
<1>1. b[asset] \in [Address -> Nat] /\ b[asset][from] >= n
  BY DEF CanPay, Balances
<1>2. /\ row \in [Address -> Nat]
      /\ row[from] = b[asset][from] - n
      /\ row[to] = b[asset][to] + n
      /\ \A p \in Address \ {from, to} : row[p] = b[asset][p]
  BY <1>1
<1>3. Pay(b, asset, from, to, n) = [b EXCEPT ![asset] = row]
  BY DEF Pay
<1> HIDE DEF row
<1>4. /\ [b EXCEPT ![asset] = row] \in Balances
      /\ [b EXCEPT ![asset] = row][asset] = row
      /\ \A a \in Asset : a # asset => [b EXCEPT ![asset] = row][a] = b[a]
  BY <1>2 DEF Balances
<1> QED BY <1>2, <1>3, <1>4 DEF Moved

\* Clones and accounts are addresses, and different ones.
LEMMA Addresses ==
  /\ \A c \in Clone : c \in Address
  /\ \A a \in Account : a \in Address
  /\ \A c \in Clone, a \in Account : c # a
  /\ \A a \in Donor \union Caller : a \in Account
  /\ \A a \in Caller : a \notin Donor
  /\ Native \in Asset
  BY ClonesAssumption, DonorAssumption, NativeAssumption DEF Address, Caller

\* One event of one clone is counted.
Logged(c, event) ==
  /\ log' \in [Clone -> [Event -> Nat]]
  /\ \A d \in Clone, e \in Event :
       log'[d][e] = IF d = c /\ e = event THEN log[d][e] + 1 ELSE log[d][e]

\* Emitting an event counts it, and no other.
LEMMA Emits ==
  ASSUME ChainTypeOK, NEW c \in Clone, NEW event \in Event, Emit(c, event)
  PROVE  Logged(c, event)
<1> DEFINE row == [log[c] EXCEPT ![event] = @ + 1]
<1>1. log \in [Clone -> [Event -> Nat]]
  BY DEF ChainTypeOK
<1>2. /\ row \in [Event -> Nat]
      /\ \A e \in Event : row[e] = IF e = event THEN log[c][e] + 1 ELSE log[c][e]
  BY <1>1
<1>3. log' = [log EXCEPT ![c] = row]
  BY DEF Emit
<1> HIDE DEF row
<1>4. log' \in [Clone -> [Event -> Nat]] /\ \A d \in Clone : log'[d] = IF d = c THEN row ELSE log[d]
  BY <1>1, <1>2, <1>3
<1> QED BY <1>2, <1>4 DEF Logged

\* What the types say, spelt out.
LEMMA Numbers ==
  ASSUME ChainTypeOK
  PROVE  /\ bal \in Balances
         /\ \A a \in Asset, p \in Address : bal[a][p] \in Nat /\ Endowment[a][p] \in Nat
         /\ \A c \in Clone : /\ deployedAt[c] \in 0 .. Horizon
                              /\ log[c]["Withdrawal"] \in Nat
                              /\ log[c]["EscrowCancelled"] \in Nat
         /\ now \in 1 .. Horizon /\ now \in 0 .. Horizon /\ now \in Nat \ {0}
<1>1. now \in 1 .. Horizon /\ now \in Nat \ {0}
  BY HorizonAssumption DEF ChainTypeOK
<1> QED BY <1>1, EndowmentAssumption DEF ChainTypeOK, Balances, Event

\* What the terms say, spelt out.
LEMMA Parties ==
  ASSUME NEW c \in Clone
  PROVE  /\ Terms[c].token \in Asset /\ Terms[c].amount \in Nat
         /\ Terms[c].safetyDeposit \in Nat /\ Due(c) \in Nat
         /\ Terms[c].amount <= Due(c)
         /\ Terms[c].token = Native =>
              Due(c) = Terms[c].amount + Terms[c].safetyDeposit
                /\ Terms[c].safetyDeposit <= Due(c)
         /\ Terms[c].token # Native => Due(c) = Terms[c].amount
         /\ Terms[c].maker \in Account /\ Terms[c].taker \in Account
         /\ c \in Address /\ Terms[c].maker \in Address /\ Terms[c].taker \in Address
         /\ \A d \in Clone : d # Terms[c].maker /\ d # Terms[c].taker
<1>1. /\ Terms[c].token \in Asset /\ Terms[c].amount \in Nat
      /\ Terms[c].safetyDeposit \in Nat
      /\ Terms[c].maker \in Account /\ Terms[c].taker \in Account
  BY TermsAssumption DEF Immutables
<1> QED BY <1>1, Addresses DEF Due

-----------------------------------------------------------------------------
(* What the calls do.                                                       *)

\* An address has n more of an asset, or better.
Gained(p, asset, n) == bal'[asset][p] >= bal[asset][p] + n

\* The clone pays its amount to one account and its deposit to another.
PaidOut(c, to, caller) ==
  /\ Deployed(c)
  /\ UNCHANGED <<now, deployedAt>>
  /\ bal' \in Balances
  /\ Accepts(Terms[c].token, to)
  /\ bal[Terms[c].token][c] >= Due(c)
  /\ bal'[Terms[c].token][c] = bal[Terms[c].token][c] - Due(c)
  /\ Gained(to, Terms[c].token, Terms[c].amount)
  /\ Gained(caller, Native, Terms[c].safetyDeposit)
  /\ \A a \in Asset, p \in Address :
       /\ p # c => bal'[a][p] >= bal[a][p]
       /\ p \notin {c, to, caller} => bal'[a][p] = bal[a][p]

\* A call that checks the immutables and pays twice pays the clone out.
LEMMA PaysOut ==
  ASSUME ChainTypeOK, NEW c \in Clone, NEW to \in Account, NEW caller \in Account,
         Deployed(c), CanPay(bal, Terms[c].token, c, to, Terms[c].amount),
         CanPay(Pay(bal, Terms[c].token, c, to, Terms[c].amount),
                Native, c, caller, Terms[c].safetyDeposit),
         bal' = Pay(Pay(bal, Terms[c].token, c, to, Terms[c].amount),
                    Native, c, caller, Terms[c].safetyDeposit),
         UNCHANGED <<now, deployedAt>>
  PROVE  PaidOut(c, to, caller)
<1> DEFINE t == Terms[c]
           half == Pay(bal, t.token, c, to, t.amount)
<1>1. /\ bal \in Balances /\ \A a \in Asset, p \in Address : bal[a][p] \in Nat
  BY Numbers
<1>2. /\ t.token \in Asset /\ t.amount \in Nat /\ t.safetyDeposit \in Nat
      /\ t.token = Native => Due(c) = t.amount + t.safetyDeposit
      /\ t.token # Native => Due(c) = t.amount
  BY Parties
<1>3. /\ c \in Address /\ to \in Address /\ caller \in Address
      /\ c # to /\ c # caller /\ Native \in Asset
  BY Addresses
<1>4. /\ Moved(bal, half, t.token, c, to, t.amount) /\ bal[t.token][c] >= t.amount
      /\ Accepts(t.token, to)
  BY <1>1, <1>2, <1>3, Pays DEF CanPay
<1>5. half \in Balances
  BY <1>4 DEF Moved
<1>6. half[Native][c] >= t.safetyDeposit
  BY DEF CanPay
<1>7. Moved(half, bal', Native, c, caller, t.safetyDeposit)
  BY <1>2, <1>3, <1>5, Pays
<1> HIDE DEF half
<1>8. bal' \in Balances
  BY <1>7 DEF Moved
<1>9. /\ bal[t.token][c] >= Due(c)
      /\ bal'[t.token][c] = bal[t.token][c] - Due(c)
  BY <1>1, <1>2, <1>3, <1>4, <1>6, <1>7 DEF Moved
<1>10. ASSUME NEW a \in Asset, NEW p \in Address
       PROVE  /\ p # c => bal'[a][p] >= bal[a][p]
              /\ p \notin {c, to, caller} => bal'[a][p] = bal[a][p]
              /\ p = to /\ a = t.token => bal'[a][p] >= bal[a][p] + t.amount
              /\ p = caller /\ a = Native => bal'[a][p] >= bal[a][p] + t.safetyDeposit
  BY <1>1, <1>2, <1>3, <1>4, <1>7 DEF Moved
<1> QED BY <1>2, <1>3, <1>4, <1>8, <1>9, <1>10 DEF PaidOut, Gained

\* Only the deposit is paid, because the maker does not get the native currency
\* it is owed.
PaidDeposit(c, caller) ==
  /\ Deployed(c)
  /\ UNCHANGED <<now, deployedAt>>
  /\ Terms[c].token = Native
  /\ ~CanPay(bal, Native, c, Terms[c].maker, Terms[c].amount)
  /\ bal[Native][c] >= Terms[c].safetyDeposit
  /\ Moved(bal, bal', Native, c, caller, Terms[c].safetyDeposit)

\* Withdrawn inside the window; in the private one the call is the taker's.
WithdrawnBy(c, caller) ==
  /\ PaidOut(c, Terms[c].maker, caller) \/ PaidDeposit(c, caller)
  /\ Logged(c, "Withdrawal")
  /\ now < Starts(ImmutablesOf(c), "DstCancellation")
  /\ now < Starts(ImmutablesOf(c), "DstPublicWithdrawal") => caller = Terms[c].taker
  /\ WindowsOrdered => now >= Starts(ImmutablesOf(c), "DstWithdrawal")

\* Cancelled by the taker, after the withdrawal window.
CancelledBy(c, caller) ==
  /\ PaidOut(c, Terms[c].taker, caller)
  /\ Logged(c, "EscrowCancelled")
  /\ caller = Terms[c].taker
  /\ now >= Starts(ImmutablesOf(c), "DstCancellation")

\* A settling call withdraws or cancels.
LEMMA Settles ==
  ASSUME ChainTypeOK, NEW c \in Clone, Settle(c, Secret)
  PROVE  \E caller \in Caller : WithdrawnBy(c, caller) \/ CancelledBy(c, caller)
<1> DEFINE own == ImmutablesOf(c)
<1>1. PICK im \in {ImmutablesOf(d) : d \in Clone}, caller \in Caller :
        \/ \E x \in Secret : Withdraw(c, im, caller, x) \/ PublicWithdraw(c, im, caller, x)
        \/ Cancel(c, im, caller)
  BY DEF Settle
<1>2. /\ now \in Nat /\ deployedAt[c] \in 0 .. Horizon /\ caller \in Account
      /\ own.taker = Terms[c].taker /\ own.taker \in Account
      /\ own.maker = Terms[c].maker /\ own.maker \in Account
      /\ own.token = Terms[c].token /\ own.token \in Asset
      /\ own.amount = Terms[c].amount /\ own.safetyDeposit = Terms[c].safetyDeposit
      /\ own.safetyDeposit \in Nat
  BY Numbers, Dates, Addresses DEF ImmutablesOf
<1>3. /\ WindowsOrdered => Starts(own, "DstWithdrawal") <= Starts(own, "DstPublicWithdrawal")
      /\ Starts(own, "DstWithdrawal") \in Nat /\ Starts(own, "DstPublicWithdrawal") \in Nat
      /\ Starts(own, "DstCancellation") \in Nat
  BY <1>2, Dates DEF ImmutablesOf, WindowsOrdered, Stage
<1> HIDE DEF own
<1>4. ASSUME NEW x, PayWithdrawal(c, im, caller, x)
      PROVE  /\ im = own
             /\ PaidOut(c, Terms[c].maker, caller) \/ PaidDeposit(c, caller)
             /\ Logged(c, "Withdrawal")
  <2>1. /\ im = own /\ Deployed(c) /\ UNCHANGED <<now, deployedAt>>
        /\ Emit(c, "Withdrawal")
        /\ own.token # Native => CanPay(bal, own.token, c, own.maker, own.amount)
        /\ CanPay(AfterMakerPaid(c, own), Native, c, caller, own.safetyDeposit)
        /\ bal' = Pay(AfterMakerPaid(c, own), Native, c, caller, own.safetyDeposit)
    BY <1>4 DEF PayWithdrawal, OnlyValidImmutables, PayDeposit, own
  <2>2. Logged(c, "Withdrawal")
    BY <2>1, Emits DEF Event
  <2>3. CASE own.token = Native /\ ~CanPay(bal, Native, c, own.maker, own.amount)
    <3>1. /\ CanPay(bal, Native, c, caller, own.safetyDeposit)
          /\ bal' = Pay(bal, Native, c, caller, own.safetyDeposit)
      BY <2>1, <2>3 DEF AfterMakerPaid
    <3>2. Moved(bal, bal', Native, c, caller, own.safetyDeposit)
      BY <1>2, <3>1, Pays, Numbers, Addresses
    <3> QED BY <1>2, <2>1, <2>2, <2>3, <3>1, <3>2 DEF PaidDeposit, CanPay
  <2>4. CASE ~(own.token = Native /\ ~CanPay(bal, Native, c, own.maker, own.amount))
    <3>1. /\ AfterMakerPaid(c, own) = Pay(bal, own.token, c, own.maker, own.amount)
          /\ CanPay(bal, own.token, c, own.maker, own.amount)
      BY <2>1, <2>4 DEF AfterMakerPaid
    <3> QED BY <1>2, <2>1, <2>2, <3>1, PaysOut
  <2> QED BY <2>3, <2>4
<1>5. ASSUME NEW x, Withdraw(c, im, caller, x) PROVE WithdrawnBy(c, caller)
  <2>1. im = own /\ (PaidOut(c, Terms[c].maker, caller) \/ PaidDeposit(c, caller))
          /\ Logged(c, "Withdrawal")
    BY <1>4, <1>5 DEF Withdraw
  <2> QED BY <1>2, <1>5, <2>1 DEF WithdrawnBy, Withdraw, OnlyTaker, OnlyAfter, OnlyBefore, own
<1>6. ASSUME NEW x, PublicWithdraw(c, im, caller, x) PROVE WithdrawnBy(c, caller)
  <2>1. im = own /\ (PaidOut(c, Terms[c].maker, caller) \/ PaidDeposit(c, caller))
          /\ Logged(c, "Withdrawal")
    BY <1>4, <1>6 DEF PublicWithdraw
  <2>2. now >= Starts(own, "DstPublicWithdrawal") /\ now < Starts(own, "DstCancellation")
    BY <1>6, <2>1 DEF PublicWithdraw, OnlyAfter, OnlyBefore
  <2>3. /\ WindowsOrdered => now >= Starts(own, "DstWithdrawal")
        /\ ~(now < Starts(own, "DstPublicWithdrawal"))
    BY <1>2, <1>3, <2>2
  <2> QED BY <2>1, <2>2, <2>3 DEF WithdrawnBy, own
<1>7. ASSUME Cancel(c, im, caller) PROVE CancelledBy(c, caller)
  <2>1. /\ im = own /\ Deployed(c) /\ UNCHANGED <<now, deployedAt>>
        /\ caller = own.taker /\ now >= Starts(own, "DstCancellation")
        /\ Emit(c, "EscrowCancelled")
        /\ CanPay(bal, own.token, c, own.taker, own.amount)
        /\ CanPay(Pay(bal, own.token, c, own.taker, own.amount),
                  Native, c, caller, own.safetyDeposit)
        /\ bal' = Pay(Pay(bal, own.token, c, own.taker, own.amount),
                      Native, c, caller, own.safetyDeposit)
    BY <1>7 DEF Cancel, OnlyTaker, OnlyAfter, OnlyValidImmutables, PayDeposit, own
  <2>2. Logged(c, "EscrowCancelled")
    BY <2>1, Emits DEF Event
  <2>3. PaidOut(c, Terms[c].taker, caller)
    BY <1>2, <2>1, PaysOut
  <2> QED BY <1>2, <2>1, <2>2, <2>3 DEF CancelledBy, own
<1> QED BY <1>1, <1>5, <1>6, <1>7

\* A rescue pays the taker, late.
RescuedFrom(c, asset, n) ==
  /\ n \in Nat
  /\ UNCHANGED <<now, deployedAt>>
  /\ Moved(bal, bal', asset, c, Terms[c].taker, n)
  /\ Terms[c].taker \notin Donor
  /\ Logged(c, "FundsRescued")
  /\ now >= RescueStart(ImmutablesOf(c).timelocks, RescueDelay)

\* A rescue is one of some asset, as said.
LEMMA Rescues ==
  ASSUME ChainTypeOK, NEW c \in Clone, Rescue(c)
  PROVE  \E asset \in Asset, n \in Nat : RescuedFrom(c, asset, n)
<1>1. PICK im \in {ImmutablesOf(d) : d \in Clone}, caller \in Caller, asset \in Asset :
        \E n \in 1 .. bal[asset][c] : RescueFunds(c, im, caller, asset, n)
  BY DEF Rescue
<1>2. /\ bal \in Balances /\ bal[asset][c] \in Nat
      /\ c \in Address /\ caller \in Address /\ c # caller /\ caller \notin Donor
  BY Addresses DEF ChainTypeOK, Balances
<1>3. PICK n \in Nat : RescueFunds(c, im, caller, asset, n)
  BY <1>1, <1>2
<1>4. /\ im = ImmutablesOf(c) /\ deployedAt[c] \in 0 .. Horizon
      /\ caller = im.taker
      /\ now >= RescueStart(im.timelocks, RescueDelay)
      /\ CanPay(bal, asset, c, caller, n)
      /\ bal' = Pay(bal, asset, c, caller, n)
      /\ Emit(c, "FundsRescued")
      /\ UNCHANGED <<now, deployedAt>>
  BY <1>3 DEF RescueFunds, OnlyTaker, OnlyAfter, OnlyValidImmutables, ChainTypeOK
<1>5. caller = Terms[c].taker
  BY <1>4, Dates DEF ImmutablesOf
<1>6. Moved(bal, bal', asset, c, caller, n)
  BY <1>2, <1>4, Pays
<1>7. Logged(c, "FundsRescued")
  BY <1>4, Emits DEF Event
<1> QED BY <1>2, <1>4, <1>5, <1>6, <1>7 DEF RescuedFrom

\* A deployment brings what is due, and the deposit, from the taker.
DeployedFor(c) ==
  /\ ~Deployed(c)
  /\ deployedAt' = [deployedAt EXCEPT ![c] = now]
  /\ UNCHANGED <<now, log>>
  /\ bal' \in Balances
  /\ bal'[Terms[c].token][c] = bal[Terms[c].token][c] + Due(c)
  /\ \A a \in Asset, p \in Address :
       /\ p # Terms[c].taker => bal'[a][p] >= bal[a][p]
       /\ p \notin {c, Terms[c].taker} => bal'[a][p] = bal[a][p]

\* createDstEscrow is a deployment.
LEMMA Deploys ==
  ASSUME ChainTypeOK, NEW c \in Clone, NEW time,
         CreateDstEscrow(c, Terms[c].taker, time)
  PROVE  DeployedFor(c)
<1> DEFINE t == Terms[c]
           b1 == Pay(bal, Native, t.taker, c, t.safetyDeposit)
<1>1. /\ bal \in Balances /\ now \in 0 .. Horizon
      /\ \A a \in Asset, p \in Address : bal[a][p] \in Nat
  BY Numbers
<1>2. /\ Dated(c, now).token = t.token /\ t.token \in Asset
      /\ Dated(c, now).amount = t.amount /\ t.amount \in Nat
      /\ Dated(c, now).safetyDeposit = t.safetyDeposit /\ t.safetyDeposit \in Nat
      /\ t.token = Native => Due(c) = t.amount + t.safetyDeposit
      /\ t.token # Native => Due(c) = t.amount
  BY <1>1, Dates, Parties
<1>3. c \in Address /\ t.taker \in Address /\ c # t.taker /\ Native \in Asset
  BY Parties, Addresses
<1>4. /\ ~Deployed(c)
      /\ CanPay(bal, Native, t.taker, c, t.safetyDeposit)
      /\ CanPay(b1, t.token, t.taker, c, t.amount)
      /\ deployedAt' = [deployedAt EXCEPT ![c] = now]
      /\ bal' = Pay(b1, t.token, t.taker, c, t.amount)
      /\ UNCHANGED <<now, log>>
  BY <1>2 DEF CreateDstEscrow
<1>5. Moved(bal, b1, Native, t.taker, c, t.safetyDeposit)
  BY <1>1, <1>2, <1>3, <1>4, Pays
<1>6. b1 \in Balances
  BY <1>5 DEF Moved
<1> HIDE DEF b1
<1>7. Moved(b1, bal', t.token, t.taker, c, t.amount)
  BY <1>2, <1>3, <1>4, <1>6, Pays
<1>8. bal' \in Balances /\ bal'[t.token][c] = bal[t.token][c] + Due(c)
  BY <1>1, <1>2, <1>3, <1>5, <1>7 DEF Moved
<1>9. ASSUME NEW a \in Asset, NEW p \in Address
      PROVE  /\ p # t.taker => bal'[a][p] >= bal[a][p]
             /\ p \notin {c, t.taker} => bal'[a][p] = bal[a][p]
  BY <1>1, <1>2, <1>3, <1>5, <1>7 DEF Moved
<1> QED BY <1>4, <1>8, <1>9 DEF DeployedFor

\* A gift.
Given(from, c, asset) ==
  /\ UNCHANGED <<now, deployedAt, log>>
  /\ Moved(bal, bal', asset, from, c, 1)

\* A donation is a gift of one unit.
LEMMA Gives ==
  ASSUME ChainTypeOK, NEW from \in Donor, NEW c \in Clone, NEW asset \in Asset,
         Donate(from, c, asset, 1)
  PROVE  Given(from, c, asset)
<1>1. bal \in Balances /\ from \in Address /\ c \in Address /\ c # from
  BY Addresses DEF ChainTypeOK, Balances
<1> QED BY <1>1, Pays DEF Donate, Given

\* What a step of the chain can be.
LEMMA Steps ==
  ASSUME ChainTypeOK, [Next]_chainVars
  PROVE  \/ UNCHANGED chainVars
         \/ Tick
         \/ \E c \in Clone :
              \/ DeployedFor(c)
              \/ \E caller \in Caller : WithdrawnBy(c, caller) \/ CancelledBy(c, caller)
              \/ \E asset \in Asset, n \in Nat : RescuedFrom(c, asset, n)
              \/ \E from \in Donor, asset \in Asset : Given(from, c, asset)
<1>1. ASSUME NEW c \in Clone, NEW time \in 1 .. Horizon,
             CreateDstEscrow(c, Terms[c].taker, time)
      PROVE  DeployedFor(c)
  BY <1>1, Deploys
<1>2. ASSUME NEW c \in Clone, Settle(c, Secret)
      PROVE  \E caller \in Caller : WithdrawnBy(c, caller) \/ CancelledBy(c, caller)
  BY <1>2, Settles
<1>3. ASSUME NEW c \in Clone, Rescue(c)
      PROVE  \E asset \in Asset, n \in Nat : RescuedFrom(c, asset, n)
  BY <1>3, Rescues
<1>4. ASSUME NEW c \in Clone, NEW from \in Donor, NEW asset \in Asset,
             Donate(from, c, asset, 1)
      PROVE  Given(from, c, asset)
  BY <1>4, Gives
<1> QED BY <1>1, <1>2, <1>3, <1>4 DEF Next

\* The dates that a deployment at a time fixes: no rescue starts before the
\* cancellation does.
DatedAt(c, t) ==
  /\ Starts(Dated(c, t), "DstCancellation") \in Nat
  /\ RescueStart(Dated(c, t).timelocks, RescueDelay) \in Nat
  /\ Starts(Dated(c, t), "DstCancellation")
       <= RescueStart(Dated(c, t).timelocks, RescueDelay)

\* The rescue delay is no shorter than that of the cancellation.
LEMMA RescueAfter ==
  ASSUME WindowsOrdered, NEW c \in Clone, NEW t \in 0 .. Horizon
  PROVE  DatedAt(c, t)
<1> DEFINE lock == Terms[c].timelocks
<1>1. Terms[c] \in Immutables /\ lock \in [deployedAt : Field, delay : [Stage -> Field]]
  BY TermsAssumption DEF Immutables, Timelock
<1>2. t % FieldRange = t /\ t \in Nat
  BY HorizonAssumption, FieldRangeAssumption
<1>3. Dated(c, t) = [Terms[c] EXCEPT !.timelocks = [lock EXCEPT !.deployedAt = t]]
  BY <1>2 DEF Dated, SetDeployedAt
<1>4. Dated(c, t).timelocks = [lock EXCEPT !.deployedAt = t]
  BY <1>1, <1>3 DEF Immutables
<1>5. Dated(c, t).timelocks.deployedAt = t /\ Dated(c, t).timelocks.delay = lock.delay
  BY <1>1, <1>4
<1>6. lock.delay["DstCancellation"] \in Nat /\ lock.delay["DstCancellation"] <= RescueDelay
  BY <1>1, FieldRangeAssumption DEF WindowsOrdered, Field, Stage
<1> QED BY <1>2, <1>5, <1>6, RescueDelayAssumption DEF DatedAt, Starts, StageStart, RescueStart

-----------------------------------------------------------------------------
(* Types.                                                                   *)

\* The chain starts well typed.
LEMMA InitTypes == ChainInit => ChainTypeOK
<1> SUFFICES ASSUME ChainInit PROVE ChainTypeOK
  OBVIOUS
<1>1. 0 \in 0 .. Horizon /\ 1 \in 1 .. Horizon
  BY HorizonAssumption
<1> QED BY <1>1, EndowmentAssumption DEF ChainInit, ChainTypeOK

\* Every step keeps the types.
LEMMA NextTypes ==
  ASSUME ChainTypeOK, [Next]_chainVars
  PROVE  ChainTypeOK'
<1>1. /\ now \in 1 .. Horizon /\ now \in 0 .. Horizon
      /\ deployedAt \in [Clone -> 0 .. Horizon] /\ bal \in Balances
      /\ log \in [Clone -> [Event -> Nat]]
  BY Numbers DEF ChainTypeOK
<1>2. CASE UNCHANGED chainVars
  BY <1>1, <1>2 DEF chainVars, ChainTypeOK
<1>3. CASE Tick
  <2>1. now' \in 1 .. Horizon /\ UNCHANGED <<deployedAt, bal, log>>
    BY <1>1, <1>3, HorizonAssumption DEF Tick
  <2> QED BY <1>1, <2>1 DEF ChainTypeOK, Balances
<1>4. ASSUME NEW c \in Clone, DeployedFor(c)
      PROVE  ChainTypeOK'
  <2>1. /\ deployedAt' \in [Clone -> 0 .. Horizon] /\ UNCHANGED <<now, log>>
        /\ bal' \in Balances
    BY <1>1, <1>4 DEF DeployedFor
  <2> QED BY <1>1, <2>1 DEF ChainTypeOK, Balances
<1>5. ASSUME UNCHANGED <<now, deployedAt>>, bal' \in Balances,
             log' \in [Clone -> [Event -> Nat]]
      PROVE  ChainTypeOK'
  BY <1>1, <1>5 DEF ChainTypeOK, Balances
<1>6. ASSUME NEW c \in Clone, NEW caller \in Caller,
             WithdrawnBy(c, caller) \/ CancelledBy(c, caller)
      PROVE  ChainTypeOK'
  BY <1>5, <1>6 DEF CancelledBy, WithdrawnBy, PaidOut, PaidDeposit, Moved, Logged
<1>7. ASSUME NEW c \in Clone, NEW asset \in Asset, NEW n \in Nat, RescuedFrom(c, asset, n)
      PROVE  ChainTypeOK'
  BY <1>5, <1>7 DEF RescuedFrom, Moved, Logged
<1>8. ASSUME NEW c \in Clone, NEW from \in Donor, NEW asset \in Asset, Given(from, c, asset)
      PROVE  ChainTypeOK'
  BY <1>1, <1>5, <1>8 DEF Given, Moved
<1> QED BY <1>2, <1>3, <1>4, <1>6, <1>7, <1>8, Steps

\* ChainTypeOK: no transfer overdraws an account, and no clone is dated ahead.
THEOREM TypeCorrect == Spec => []ChainTypeOK
<1>1. ChainInit => ChainTypeOK
  BY InitTypes
<1>2. ChainTypeOK /\ [Next]_chainVars => ChainTypeOK'
  BY NextTypes
<1> QED BY <1>1, <1>2, PTL DEF Spec

-----------------------------------------------------------------------------
(* Balances.                                                                *)

\* What the invariant speaks of, for one clone.
LEMMA Amounts ==
  ASSUME ChainTypeOK, NEW donor, GiftsAreSmall(donor), NEW c \in Accepted
  PROVE  LET t == Terms[c]
         IN  /\ c \in Clone /\ donor \in Account /\ donor \in Address /\ donor # c
             /\ \A a \in Donor : a = donor
             /\ \A d \in Clone : Terms[d].maker # donor /\ Terms[d].taker # donor /\ d # donor
             /\ bal[t.token][c] \in Nat /\ bal[t.token][donor] \in Nat
             /\ Endowment[t.token][c] + Endowment[t.token][donor] \in Nat
             /\ Endowment[t.token][c] + Endowment[t.token][donor] < Due(c)
             /\ t.token = Native =>
                  Endowment[t.token][c] + Endowment[t.token][donor] < t.safetyDeposit
             /\ Accepts(t.token, t.maker)
<1>1. /\ c \in Clone /\ donor \in Account /\ donor \in Address
      /\ Accepts(Terms[c].token, Terms[c].maker)
  BY Addresses, DonorAssumption DEF Accepted, GiftsAreSmall
<1>2. /\ bal[Terms[c].token][c] \in Nat /\ bal[Terms[c].token][donor] \in Nat
      /\ Endowment[Terms[c].token][c] \in Nat /\ Endowment[Terms[c].token][donor] \in Nat
  BY <1>1, Numbers, Parties
<1>3. /\ Endowment[Terms[c].token][c] + Endowment[Terms[c].token][donor] < Due(c)
      /\ Terms[c].token = Native =>
           Endowment[Terms[c].token][c] + Endowment[Terms[c].token][donor] < Terms[c].safetyDeposit
  BY <1>1, <1>2, Parties DEF GiftsAreSmall
<1> QED BY <1>1, <1>2, <1>3, Addresses DEF GiftsAreSmall

\* A clone that pays everything was open.
LEMMA PaidWhenOpen ==
  ASSUME ChainTypeOK, NEW donor, GiftsAreSmall(donor), Balanced(donor),
         NEW c \in Accepted, bal[Terms[c].token][c] >= Due(c)
  PROVE  Open(c)
<1>1. SUFFICES ASSUME ~Open(c) PROVE FALSE
  OBVIOUS
<1>2. bal[Terms[c].token][c] + bal[Terms[c].token][donor]
        <= Endowment[Terms[c].token][c] + Endowment[Terms[c].token][donor]
  BY <1>1, Amounts DEF Balanced, Budget
<1>3. Due(c) \in Nat
  BY Amounts, Parties
<1> QED BY <1>2, <1>3, Amounts

\* Inside its window a clone does not pay the deposit alone, unless its maker
\* refuses the rest.
LEMMA PaysMaker ==
  ASSUME ChainTypeOK, NEW donor, GiftsAreSmall(donor), Balanced(donor),
         NEW c \in Accepted, NEW caller, PaidDeposit(c, caller),
         now < Starts(ImmutablesOf(c), "DstCancellation")
  PROVE  FALSE
<1>1. /\ Terms[c].token = Native /\ bal[Native][c] < Terms[c].amount
      /\ bal[Native][c] >= Terms[c].safetyDeposit
  <2>1. /\ Terms[c].token = Native /\ ~CanPay(bal, Native, c, Terms[c].maker, Terms[c].amount)
        /\ bal[Native][c] >= Terms[c].safetyDeposit
    BY DEF PaidDeposit
  <2>2. Accepts(Native, Terms[c].maker) /\ bal[Native][c] \in Nat /\ Terms[c].amount \in Nat
    BY <2>1, Amounts, Parties
  <2> QED BY <2>1, <2>2 DEF CanPay
<1>2. Open(c)
  <2>1. SUFFICES ASSUME ~Open(c) PROVE FALSE
    OBVIOUS
  <2>2. bal[Native][c] + bal[Native][donor] <= Endowment[Native][c] + Endowment[Native][donor]
    BY <1>1, <2>1, Amounts DEF Balanced, Budget
  <2>3. Terms[c].safetyDeposit \in Nat
    BY Amounts, Parties
  <2> QED BY <1>1, <2>2, <2>3, Amounts
<1>3. bal[Native][c] >= Due(c)
  BY <1>1, <1>2 DEF Balanced, Held
<1> QED BY <1>1, <1>3, Amounts, Parties

\* A clone whose balance grows, or leaves the donor as much as it takes from it,
\* stays balanced.
LEMMA Bystander ==
  ASSUME ChainTypeOK, NEW donor, GiftsAreSmall(donor), Balanced(donor), NEW c \in Accepted,
         bal' \in Balances, now' \in Nat, now <= now', deployedAt'[c] = deployedAt[c],
         log'[c]["Withdrawal"] = log[c]["Withdrawal"],
         log'[c]["EscrowCancelled"] = log[c]["EscrowCancelled"],
         \/ bal'[Terms[c].token][c] >= bal[Terms[c].token][c]
         \/ now >= Starts(ImmutablesOf(c), "DstCancellation"),
         bal'[Terms[c].token][c] + bal'[Terms[c].token][donor]
           <= bal[Terms[c].token][c] + bal[Terms[c].token][donor]
  PROVE  Held(c)' /\ Budget(c, donor)'
<1>1. /\ Open(c)' = Open(c) /\ Deployed(c)' = Deployed(c) /\ Due(c)' = Due(c)
      /\ ImmutablesOf(c)' = ImmutablesOf(c)
      /\ Starts(ImmutablesOf(c), "DstCancellation")' = Starts(ImmutablesOf(c), "DstCancellation")
  BY DEF Open, Deployed, Due, ImmutablesOf, Starts
<1>2. /\ bal'[Terms[c].token][c] \in Nat /\ bal'[Terms[c].token][donor] \in Nat
      /\ Due(c) \in Nat /\ now \in Nat
      /\ Starts(ImmutablesOf(c), "DstCancellation") \in Nat
  BY Amounts, Parties, Numbers, Dates DEF Balances, ImmutablesOf, Stage
<1>3. Held(c) /\ Budget(c, donor)
  BY DEF Balanced
<1>4. Held(c)'
  <2>1. SUFFICES ASSUME Open(c), now' < Starts(ImmutablesOf(c), "DstCancellation")
                 PROVE  bal'[Terms[c].token][c] >= Due(c)
    BY <1>1 DEF Held
  <2>2. now < Starts(ImmutablesOf(c), "DstCancellation")
    BY <1>2, <2>1
  <2>3. bal'[Terms[c].token][c] >= bal[Terms[c].token][c] /\ bal[Terms[c].token][c] >= Due(c)
    BY <1>2, <1>3, <2>1, <2>2 DEF Held
  <2> QED BY <1>2, <2>3, Amounts
<1>5. Budget(c, donor)'
  <2>1. /\ bal'[Terms[c].token][c] + bal'[Terms[c].token][donor]
             <= Endowment[Terms[c].token][c] + Endowment[Terms[c].token][donor]
                  + (IF Open(c) THEN Due(c) ELSE 0)
        /\ ~Deployed(c) => log[c]["Withdrawal"] = 0 /\ log[c]["EscrowCancelled"] = 0
    BY <1>2, <1>3, Amounts DEF Budget
  <2> QED BY <1>1, <2>1 DEF Budget
<1> QED BY <1>4, <1>5

\* A settled clone, and only that, is paid out.
LEMMA SettledKeeps ==
  ASSUME ChainTypeOK, NEW donor, GiftsAreSmall(donor), Balanced(donor),
         NEW d \in Clone, NEW to \in Account, NEW caller \in Account,
         to # donor, caller # donor, PaidOut(d, to, caller),
         NEW event \in {"Withdrawal", "EscrowCancelled"}, Logged(d, event),
         NEW c \in Accepted
  PROVE  /\ d = c => Open(c)
         /\ Held(c)' /\ Budget(c, donor)'
<1>1. /\ UNCHANGED <<now, deployedAt>> /\ bal' \in Balances /\ now \in Nat /\ now <= now'
      /\ Deployed(d)
  BY Numbers DEF PaidOut
<1>2. /\ Terms[c].token \in Asset /\ c \in Address /\ c # to /\ c # caller
      /\ d # donor
  BY Amounts, Parties, Addresses
<1>3. bal'[Terms[c].token][donor] = bal[Terms[c].token][donor]
  BY <1>2, Amounts DEF PaidOut
<1>4. CASE d # c
  <2>1. bal'[Terms[c].token][c] = bal[Terms[c].token][c]
    BY <1>2, <1>4 DEF PaidOut
  <2>2. /\ log'[c]["Withdrawal"] = log[c]["Withdrawal"]
        /\ log'[c]["EscrowCancelled"] = log[c]["EscrowCancelled"]
    BY <1>4, Amounts DEF Logged, Event
  <2> QED BY <1>1, <1>3, <1>4, <2>1, <2>2, Bystander, Amounts
<1>5. CASE d = c
  <2>1. /\ bal[Terms[c].token][c] >= Due(c)
        /\ bal'[Terms[c].token][c] = bal[Terms[c].token][c] - Due(c)
    BY <1>5 DEF PaidOut
  <2>2. Open(c)
    BY <2>1, PaidWhenOpen
  <2>3. ~Open(c)' /\ Deployed(c)' /\ Due(c)' = Due(c) /\ Due(c) \in Nat
    BY <1>1, <1>5, <2>2, Numbers, Amounts, Parties DEF Logged, Open, Event, Deployed, Due
  <2>4. Held(c)'
    BY <2>3 DEF Held
  <2>5. bal[Terms[c].token][c] + bal[Terms[c].token][donor]
          <= Endowment[Terms[c].token][c] + Endowment[Terms[c].token][donor] + Due(c)
    BY <2>2 DEF Balanced, Budget
  <2>6. bal'[Terms[c].token][c] + bal'[Terms[c].token][donor]
          <= Endowment[Terms[c].token][c] + Endowment[Terms[c].token][donor]
    BY <1>3, <2>1, <2>3, <2>5, Amounts
  <2>7. Budget(c, donor)'
    BY <2>3, <2>6, Amounts DEF Budget
  <2> QED BY <2>2, <2>4, <2>7
<1> QED BY <1>4, <1>5

\* Every step keeps the clones balanced.
LEMMA BalancedKept ==
  ASSUME ChainTypeOK, WindowsOrdered, NEW donor, GiftsAreSmall(donor), Balanced(donor),
         [Next]_chainVars
  PROVE  Balanced(donor)'
<1>1. SUFFICES ASSUME NEW c \in Accepted PROVE Held(c)' /\ Budget(c, donor)'
  BY DEF Balanced, Accepted, Accepts
<1>2. /\ c \in Clone /\ c \in Address /\ donor \in Address /\ donor # c
      /\ Terms[c].token \in Asset /\ now \in Nat \ {0}
      /\ bal \in Balances
      /\ \A a \in Asset, p \in Address : bal[a][p] \in Nat
  BY Amounts, Parties, Numbers
<1>3. ASSUME NEW d \in Clone, DeployedFor(d) PROVE Held(c)' /\ Budget(c, donor)'
  <2>1. /\ now' = now /\ log' = log /\ bal' \in Balances /\ now <= now'
        /\ now' \in Nat
    BY <1>2, <1>3 DEF DeployedFor
  <2>2. bal'[Terms[c].token][donor] = bal[Terms[c].token][donor]
    BY <1>2, <1>3, Amounts DEF DeployedFor
  <2>3. CASE d # c
    <3>1. deployedAt'[c] = deployedAt[c]
      BY <1>3, <2>3 DEF DeployedFor
    <3>2. bal'[Terms[c].token][c] = bal[Terms[c].token][c]
      BY <1>2, <1>3, <2>3, Parties DEF DeployedFor
    <3> QED BY <1>2, <2>1, <2>2, <3>1, <3>2, Bystander
  <2>4. CASE d = c
    <3>1. bal'[Terms[c].token][c] = bal[Terms[c].token][c] + Due(c)
      BY <1>3, <2>4 DEF DeployedFor
    <3>2. ~Open(c) /\ ~Deployed(c) /\ log[c]["Withdrawal"] = 0 /\ log[c]["EscrowCancelled"] = 0
      BY <1>3, <2>4 DEF DeployedFor, Open, Balanced, Budget
    <3>3. deployedAt'[c] = now
      BY <1>2, <1>3, <2>4 DEF DeployedFor, ChainTypeOK
    <3>4. Open(c)' /\ Deployed(c)' /\ Due(c)' = Due(c) /\ Due(c) \in Nat
      BY <1>2, <2>1, <3>2, <3>3, Parties DEF Open, Deployed, Due
    <3>5. bal[Terms[c].token][c] + bal[Terms[c].token][donor]
            <= Endowment[Terms[c].token][c] + Endowment[Terms[c].token][donor]
      BY <3>2, Amounts DEF Balanced, Budget
    <3>6. /\ bal'[Terms[c].token][c] + bal'[Terms[c].token][donor]
               <= Endowment[Terms[c].token][c] + Endowment[Terms[c].token][donor] + Due(c)
          /\ bal'[Terms[c].token][c] >= Due(c)
      BY <2>2, <3>1, <3>4, <3>5, Amounts
    <3>7. Held(c)'
      BY <3>4, <3>6 DEF Held
    <3>8. Budget(c, donor)'
      BY <3>4, <3>6 DEF Budget
    <3> QED BY <3>7, <3>8
  <2> QED BY <2>3, <2>4
<1>4. ASSUME NEW d \in Clone, NEW caller \in Caller, WithdrawnBy(d, caller)
      PROVE  Held(c)' /\ Budget(c, donor)'
  <2>1. /\ caller \in Account /\ caller # donor /\ caller \in Address
        /\ Terms[d].maker \in Account /\ Terms[d].maker # donor
    BY Addresses, Amounts, Parties DEF GiftsAreSmall
  <2>2. CASE PaidOut(d, Terms[d].maker, caller)
    BY <1>4, <2>1, <2>2, SettledKeeps DEF WithdrawnBy
  <2>3. CASE PaidDeposit(d, caller)
    <3>1. d # c
      BY <1>4, <2>3, PaysMaker DEF WithdrawnBy
    <3>2. /\ now' = now /\ deployedAt' = deployedAt /\ bal' \in Balances
          /\ log'[c]["Withdrawal"] = log[c]["Withdrawal"]
          /\ log'[c]["EscrowCancelled"] = log[c]["EscrowCancelled"]
      BY <1>2, <1>4, <2>3, <3>1 DEF WithdrawnBy, PaidDeposit, Moved, Logged, Event
    <3>3. /\ bal'[Terms[c].token][c] = bal[Terms[c].token][c]
          /\ bal'[Terms[c].token][donor] = bal[Terms[c].token][donor]
      BY <1>2, <2>1, <2>3, <3>1, Amounts, Addresses DEF PaidDeposit, Moved
    <3> QED BY <1>2, <3>2, <3>3, Bystander
  <2> QED BY <1>4, <2>2, <2>3 DEF WithdrawnBy
<1>5. ASSUME NEW d \in Clone, NEW caller \in Caller, CancelledBy(d, caller)
      PROVE  Held(c)' /\ Budget(c, donor)'
  <2>1. /\ caller \in Account /\ caller # donor
        /\ Terms[d].taker \in Account /\ Terms[d].taker # donor
    BY Addresses, Amounts, Parties DEF GiftsAreSmall
  <2> QED BY <1>5, <2>1, SettledKeeps DEF CancelledBy
<1>6. ASSUME NEW d \in Clone, NEW asset \in Asset, NEW n \in Nat, RescuedFrom(d, asset, n)
      PROVE  Held(c)' /\ Budget(c, donor)'
  <2>1. /\ now' = now /\ deployedAt' = deployedAt /\ bal' \in Balances
        /\ log'[c]["Withdrawal"] = log[c]["Withdrawal"]
        /\ log'[c]["EscrowCancelled"] = log[c]["EscrowCancelled"]
    BY <1>2, <1>6 DEF RescuedFrom, Moved, Logged, Event
  <2>2. bal'[Terms[c].token][donor] = bal[Terms[c].token][donor]
    BY <1>2, <1>6, Amounts, Parties DEF RescuedFrom, Moved
  <2>3. bal'[Terms[c].token][c] <= bal[Terms[c].token][c] /\ bal'[Terms[c].token][c] \in Nat
    <3>1. bal'[Terms[c].token][c] \in Nat
      BY <1>2, <2>1 DEF Balances
    <3>2. c # Terms[d].taker /\ n \in Nat /\ Moved(bal, bal', asset, d, Terms[d].taker, n)
      BY <1>2, <1>6, Parties DEF RescuedFrom
    <3> QED BY <1>2, <3>1, <3>2 DEF Moved
  <2>4. CASE d # c
    <3>1. bal'[Terms[c].token][c] = bal[Terms[c].token][c]
      BY <1>2, <1>6, <2>4, Parties DEF RescuedFrom, Moved
    <3> QED BY <1>2, <2>1, <2>2, <3>1, Bystander
  <2>5. CASE d = c
    <3>1. now >= Starts(ImmutablesOf(c), "DstCancellation")
      <4>1. now >= RescueStart(ImmutablesOf(c).timelocks, RescueDelay)
        BY <1>6, <2>5 DEF RescuedFrom
      <4>2. /\ deployedAt[c] \in 0 .. Horizon
            /\ Starts(ImmutablesOf(c), "DstCancellation")
                 <= RescueStart(ImmutablesOf(c).timelocks, RescueDelay)
            /\ Starts(ImmutablesOf(c), "DstCancellation") \in Nat
        <5>1. deployedAt[c] \in 0 .. Horizon
          BY <1>2, Numbers
        <5>2. DatedAt(c, deployedAt[c])
          BY <1>2, <5>1, RescueAfter
        <5> QED BY <5>1, <5>2 DEF DatedAt, ImmutablesOf
      <4>3. RescueStart(ImmutablesOf(c).timelocks, RescueDelay) \in Nat
        BY <1>2, Numbers, RescueAfter DEF DatedAt, ImmutablesOf
      <4> QED BY <1>2, <4>1, <4>2, <4>3
    <3> QED BY <1>2, <2>1, <2>2, <2>3, <3>1, Bystander
  <2> QED BY <2>4, <2>5
<1>7. ASSUME NEW d \in Clone, NEW from \in Donor, NEW asset \in Asset, Given(from, d, asset)
      PROVE  Held(c)' /\ Budget(c, donor)'
  <2>1. /\ now' = now /\ deployedAt' = deployedAt /\ bal' \in Balances
        /\ log'[c]["Withdrawal"] = log[c]["Withdrawal"]
        /\ log'[c]["EscrowCancelled"] = log[c]["EscrowCancelled"]
        /\ from = donor
    BY <1>7, Amounts DEF Given, Moved
  <2>2. /\ bal'[Terms[c].token][c] >= bal[Terms[c].token][c]
        /\ bal'[Terms[c].token][c] + bal'[Terms[c].token][donor]
             <= bal[Terms[c].token][c] + bal[Terms[c].token][donor]
    BY <1>2, <1>7, <2>1, Amounts DEF Given, Moved
  <2> QED BY <1>2, <2>1, <2>2, Bystander
<1>8. CASE UNCHANGED chainVars \/ Tick
  <2>1. now' \in Nat /\ now <= now' /\ UNCHANGED <<deployedAt, bal, log>>
    BY <1>2, <1>8 DEF chainVars, Tick
  <2> QED BY <1>2, <2>1, Bystander
<1> QED BY <1>3, <1>4, <1>5, <1>6, <1>7, <1>8, Steps

\* Nothing is deployed or settled at first.
LEMMA InitBalanced ==
  ASSUME NEW donor, GiftsAreSmall(donor), ChainInit
  PROVE  Balanced(donor)
<1>1. ChainTypeOK
  BY InitTypes
<1>2. ASSUME NEW c \in Accepted
      PROVE  /\ c \in Clone /\ ~Deployed(c) /\ ~Open(c)
             /\ log[c]["Withdrawal"] = 0 /\ log[c]["EscrowCancelled"] = 0
             /\ bal = Endowment
             /\ Endowment[Terms[c].token][c] + Endowment[Terms[c].token][donor] \in Nat
  BY <1>1, Amounts DEF ChainInit, Deployed, Open, Event
<1> QED BY <1>2 DEF Balanced, Held, Budget

-----------------------------------------------------------------------------
(* The theorems.                                                            *)

\* Whose assets a step takes, and why.
LEMMA StepJustified ==
  ASSUME ChainTypeOK, WindowsOrdered, NEW donor, GiftsAreSmall(donor), Balanced(donor),
         [Next]_chainVars, NEW c \in Clone, NEW out \in Asset, Lost(c, out) > 0
  PROVE  \/ Withdrawn(c, ImmutablesOf(c))
         \/ Refunded(c, ImmutablesOf(c))
         \/ Rescued(c, ImmutablesOf(c))
<1> DEFINE im == ImmutablesOf(c)
<1>1. /\ im.token = Terms[c].token /\ im.token \in Asset
      /\ im.maker = Terms[c].maker /\ im.maker \in Account /\ im.maker \in Address
      /\ im.taker = Terms[c].taker /\ im.taker \in Account /\ im.taker \in Address
      /\ im.amount = Terms[c].amount /\ im.amount \in Nat
      /\ im.safetyDeposit = Terms[c].safetyDeposit /\ im.safetyDeposit \in Nat
  BY Numbers, Dates, Parties DEF ImmutablesOf
<1>2. /\ c \in Address /\ Native \in Asset /\ bal \in Balances
      /\ \A d \in Clone : d \in Address /\ c # Terms[d].maker /\ c # Terms[d].taker
      /\ \A a \in Asset, p \in Address : bal[a][p] \in Nat
  BY Numbers, Parties, Addresses
<1>3. bal'[out][c] \in Nat => bal'[out][c] < bal[out][c]
  BY <1>2 DEF Lost
<1> HIDE DEF im
<1>4. CASE UNCHANGED chainVars \/ Tick
  BY <1>2, <1>3, <1>4 DEF chainVars, Tick
<1>5. ASSUME NEW d \in Clone, DeployedFor(d) PROVE FALSE
  <2>1. bal'[out][c] >= bal[out][c] /\ bal'[out][c] \in Nat
    BY <1>2, <1>5 DEF DeployedFor, Balances
  <2> QED BY <1>2, <1>3, <2>1
<1>6. ASSUME NEW d \in Clone, NEW to, NEW caller, PaidOut(d, to, caller) PROVE d = c
  <2>1. d # c => bal'[out][c] >= bal[out][c] /\ bal'[out][c] \in Nat
    BY <1>2, <1>6 DEF PaidOut, Balances
  <2> QED BY <1>2, <1>3, <2>1
<1>7. ASSUME NEW d \in Clone, NEW asset \in Asset, NEW to \in Address, NEW n \in Nat,
             to # c, Moved(bal, bal', asset, d, to, n)
      PROVE  d = c /\ \A a \in Asset : Lost(c, a) = IF a = asset THEN n ELSE 0
  <2>1. bal'[out][c] \in Nat
    BY <1>2, <1>7 DEF Moved, Balances
  <2>2. d = c
    BY <1>2, <1>3, <1>7, <2>1 DEF Moved
  <2>3. ASSUME NEW a \in Asset PROVE Lost(c, a) = IF a = asset THEN n ELSE 0
    BY <1>2, <1>7, <2>2 DEF Moved, Lost
  <2> QED BY <2>2, <2>3
<1>8. ASSUME NEW d \in Clone, NEW caller \in Caller, WithdrawnBy(d, caller)
      PROVE  Withdrawn(c, im)
  <2>1. caller \in Address /\ c # caller /\ caller \in Account
    BY Addresses
  <2>2. d = c
    <3>1. CASE PaidDeposit(d, caller)
      BY <2>1, <3>1, <1>2, <1>7, Parties DEF PaidDeposit
    <3>2. CASE PaidOut(d, Terms[d].maker, caller)
      BY <3>2, <1>6
    <3> QED BY <1>8, <3>1, <3>2 DEF WithdrawnBy
  <2>3. Gains(caller, Native, im.safetyDeposit)
    <3>1. CASE PaidDeposit(c, caller)
      BY <1>1, <1>2, <2>1, <3>1 DEF PaidDeposit, Moved, Gains
    <3>2. CASE PaidOut(c, Terms[c].maker, caller)
      BY <1>1, <3>2 DEF PaidOut, Gains, Gained
    <3> QED BY <1>8, <2>2, <3>1, <3>2 DEF WithdrawnBy
  <2>4. IF Accepts(im.token, im.maker) THEN Gains(im.maker, im.token, im.amount)
                                       ELSE Lost(c, Native) <= im.safetyDeposit
    <3>1. CASE PaidDeposit(c, caller)
      <4>1. Lost(c, Native) = im.safetyDeposit
        BY <1>1, <1>2, <1>7, <2>1, <3>1 DEF PaidDeposit
      <4>2. ~Accepts(im.token, im.maker)
        <5>1. SUFFICES ASSUME Accepts(im.token, im.maker) PROVE FALSE
          OBVIOUS
        <5>2. c \in Accepted
          BY <1>1, <5>1 DEF Accepted
        <5> QED BY <1>8, <2>2, <3>1, <5>2, PaysMaker DEF WithdrawnBy
      <4> QED BY <1>1, <4>1, <4>2
    <3>2. CASE PaidOut(c, Terms[c].maker, caller)
      BY <1>1, <3>2 DEF PaidOut, Gains, Gained
    <3> QED BY <1>8, <2>2, <3>1, <3>2 DEF WithdrawnBy
  <2> QED BY <1>1, <1>8, <2>2, <2>3, <2>4 DEF WithdrawnBy, Withdrawn, im
<1>9. ASSUME NEW d \in Clone, NEW caller \in Caller, CancelledBy(d, caller)
      PROVE  Refunded(c, im)
  <2>1. d = c
    BY <1>6, <1>9 DEF CancelledBy
  <2>2. Gains(im.taker, im.token, im.amount) /\ Gains(im.taker, Native, im.safetyDeposit)
    BY <1>1, <1>9, <2>1 DEF CancelledBy, PaidOut, Gains, Gained
  <2> QED BY <1>9, <2>1, <2>2 DEF CancelledBy, Refunded, im
<1>10. ASSUME NEW d \in Clone, NEW asset \in Asset, NEW n \in Nat, RescuedFrom(d, asset, n)
       PROVE  Rescued(c, im)
  <2>1. /\ Moved(bal, bal', asset, d, Terms[d].taker, n)
        /\ Terms[d].taker \in Address /\ Terms[d].taker # c
    BY <1>2, <1>10, Parties DEF RescuedFrom
  <2>2. d = c /\ \A a \in Asset : Lost(c, a) = IF a = asset THEN n ELSE 0
    BY <1>7, <2>1
  <2>3. ASSUME NEW a \in Asset PROVE Gains(im.taker, a, Lost(c, a))
    BY <1>1, <1>2, <2>1, <2>2 DEF Moved, Gains
  <2> QED BY <1>10, <2>2, <2>3 DEF RescuedFrom, Rescued, im
<1>11. ASSUME NEW d \in Clone, NEW from \in Donor, NEW asset \in Asset, Given(from, d, asset)
       PROVE  FALSE
  <2>1. c # from /\ from \in Address /\ Moved(bal, bal', asset, from, d, 1)
    BY <1>11, Addresses DEF Given
  <2>2. bal'[out][c] \in Nat
    BY <1>2, <2>1 DEF Moved, Balances
  <2> QED BY <1>2, <1>3, <2>1, <2>2 DEF Moved
<1> QED BY <1>4, <1>5, <1>8, <1>9, <1>10, <1>11, Steps DEF im

\* OutflowJustified: as long as gifts are small, the assets in a clone move for the
\* three reasons only, and a maker that accepts its payment gets all of it.
THEOREM OutflowsAreJustified ==
  ASSUME WindowsOrdered, NEW donor, GiftsAreSmall(donor)
  PROVE  Spec => OutflowJustified
<1>1. ChainInit => ChainTypeOK /\ Balanced(donor)
  BY InitTypes, InitBalanced
<1>2. ChainTypeOK /\ Balanced(donor) /\ [Next]_chainVars => ChainTypeOK' /\ Balanced(donor)'
  BY NextTypes, BalancedKept
<1>3. ChainTypeOK /\ Balanced(donor) /\ [Next]_chainVars =>
        [\A c \in Clone : (\E asset \in Asset : Lost(c, asset) > 0) =>
           LET im == ImmutablesOf(c)
           IN  Withdrawn(c, im) \/ Refunded(c, im) \/ Rescued(c, im)]_chainVars
  BY StepJustified
<1> QED BY <1>1, <1>2, <1>3, PTL DEF Spec, OutflowJustified

-----------------------------------------------------------------------------

\* The clones that the abstraction takes for expired.
Expired(c) == Deployed(c) /\ now >= Starts(ImmutablesOf(c), "DstCancellation")

\* A step of the chain is a step of the abstract legs, or nothing to them.
LEMMA StepOfLegs ==
  ASSUME WindowsOrdered, ChainTypeOK, NEW donor, GiftsAreSmall(donor), Balanced(donor),
         [Next]_chainVars
  PROVE  [Leg!Next]_(Leg!legVars)
<1> DEFINE locked == {c \in Accepted : Deployed(c)}
           expired == {c \in Accepted : Expired(c)}
           claims == [c \in Accepted |-> log[c]["Withdrawal"]]
           refunds == [c \in Accepted |-> log[c]["EscrowCancelled"]]
<1>1. /\ now \in Nat \ {0} /\ now \in 0 .. Horizon
      /\ deployedAt \in [Clone -> 0 .. Horizon]
      /\ \A c \in Clone, t \in 0 .. Horizon :
           /\ Starts(Dated(c, t), "DstCancellation")
                = t + Terms[c].timelocks.delay["DstCancellation"]
           /\ Terms[c].timelocks.delay["DstCancellation"] \in Nat \ {0}
  BY Numbers, Dates DEF ChainTypeOK, WindowsOrdered, Stage
<1>2. /\ \A c \in Accepted : c \in Clone
      /\ Accepted' = Accepted
  BY DEF Accepted, Accepts
<1>3. ASSUME UNCHANGED <<now, deployedAt>>
      PROVE  locked' = locked /\ expired' = expired
  BY <1>2, <1>3 DEF Deployed, Expired, ImmutablesOf
<1>4. ASSUME UNCHANGED <<now, deployedAt>>, claims' = claims, refunds' = refunds
      PROVE  UNCHANGED Leg!legVars
  BY <1>3, <1>4 DEF Leg!legVars, Expired
<1>5. CASE UNCHANGED chainVars
  BY <1>2, <1>4, <1>5 DEF chainVars
<1>6. CASE Tick
  <2>1. now' = now + 1 /\ UNCHANGED <<deployedAt, log>>
    BY <1>6 DEF Tick
  <2>2. locked' = locked /\ claims' = claims /\ refunds' = refunds
    BY <1>2, <2>1 DEF Deployed
  <2>3. ASSUME NEW c \in Clone, Expired(c) PROVE Expired(c)'
    <3>1. Starts(ImmutablesOf(c), "DstCancellation") \in Nat
      BY <1>1 DEF ImmutablesOf
    <3> QED BY <1>1, <2>1, <2>3, <3>1 DEF Expired, Deployed, ImmutablesOf
  <2>4. expired' = expired \union expired' /\ expired' \in SUBSET locked
    BY <1>2, <2>2, <2>3 DEF Expired
  <2>5. Leg!Expire
    BY <2>2, <2>4 DEF Leg!Expire, Expired
  <2> QED BY <2>5 DEF Leg!Next
<1>7. ASSUME NEW c \in Clone, DeployedFor(c)
      PROVE  (c \in Accepted /\ Leg!Lock(c)) \/ UNCHANGED Leg!legVars
  <2>1. /\ deployedAt[c] = 0 /\ deployedAt' = [deployedAt EXCEPT ![c] = now]
        /\ now' = now /\ log' = log
    BY <1>7 DEF DeployedFor, Deployed
  <2>2. claims' = claims /\ refunds' = refunds
    BY <1>2, <2>1
  <2>3. ASSUME NEW d \in Clone PROVE Expired(d)' <=> Expired(d)
    <3>1. CASE d # c
      BY <2>1, <3>1 DEF Expired, Deployed, ImmutablesOf
    <3>2. CASE d = c
      <4>1. ImmutablesOf(c)' = Dated(c, now)
        BY <1>1, <2>1 DEF ImmutablesOf
      <4>2. Starts(Dated(c, now), "DstCancellation") > now
        BY <1>1
      <4>3. ~Expired(c) /\ ~Expired(c)'
        <5>1. ~Expired(c)
          BY <2>1 DEF Expired, Deployed
        <5>2. Expired(c)' <=> Deployed(c)' /\ now' >= Starts(ImmutablesOf(c)', "DstCancellation")
          BY DEF Expired, Starts
        <5>3. Starts(Dated(c, now), "DstCancellation") \in Nat
          BY <1>1
        <5> QED BY <1>1, <2>1, <4>1, <4>2, <5>1, <5>2, <5>3
      <4> QED BY <3>2, <4>3
    <3> QED BY <3>1, <3>2
  <2>4. expired' = expired
    BY <1>2, <2>3
  <2>5. CASE c \in Accepted
    <3>1. c \notin locked /\ locked' = locked \union {c}
      BY <1>1, <1>2, <2>1, <2>5 DEF Deployed
    <3> QED BY <2>2, <2>4, <2>5, <3>1 DEF Leg!Lock, Expired
  <2>6. CASE c \notin Accepted
    <3>1. locked' = locked
      BY <1>1, <1>2, <2>1, <2>6 DEF Deployed
    <3> QED BY <2>2, <2>4, <3>1 DEF Leg!legVars, Expired
  <2> QED BY <2>5, <2>6
<1>8. ASSUME NEW c \in Clone, c \notin Accepted, NEW event \in Event, Logged(c, event),
             UNCHANGED <<now, deployedAt>>
      PROVE  UNCHANGED Leg!legVars
  <2>1. \A d \in Accepted : /\ log'[d]["Withdrawal"] = log[d]["Withdrawal"]
                             /\ log'[d]["EscrowCancelled"] = log[d]["EscrowCancelled"]
    BY <1>2, <1>8 DEF Logged, Event
  <2>2. claims' = claims /\ refunds' = refunds
    BY <1>2, <2>1
  <2> QED BY <1>4, <1>8, <2>2
<1>9. ASSUME NEW c \in Clone, NEW caller \in Caller, WithdrawnBy(c, caller)
      PROVE  (c \in Accepted /\ Leg!Claim(c)) \/ UNCHANGED Leg!legVars
  <2>1. UNCHANGED <<now, deployedAt>> /\ Logged(c, "Withdrawal")
    BY <1>9 DEF WithdrawnBy, PaidOut, PaidDeposit
  <2>2. CASE c \notin Accepted
    BY <1>8, <2>1, <2>2 DEF Event
  <2>3. CASE c \in Accepted
    <3>1. Open(c)
      <4>1. PaidOut(c, Terms[c].maker, caller)
        BY <1>9, <2>3, PaysMaker DEF WithdrawnBy
      <4> QED BY <2>3, <4>1, PaidWhenOpen DEF PaidOut
    <3>2. c \in locked /\ claims[c] = 0 /\ refunds[c] = 0
      BY <2>3, <3>1 DEF Open
    <3>3. c \notin expired
      <4>1. now < Starts(ImmutablesOf(c), "DstCancellation")
        BY <1>9 DEF WithdrawnBy
      <4>2. Starts(ImmutablesOf(c), "DstCancellation") \in Nat
        BY <1>1 DEF ImmutablesOf
      <4> QED BY <1>1, <4>1, <4>2 DEF Expired
    <3>4. claims' = [claims EXCEPT ![c] = 1]
      <4>1. \A d \in Accepted : log'[d]["Withdrawal"] = IF d = c THEN 1 ELSE log[d]["Withdrawal"]
        BY <1>2, <2>1, <3>1 DEF Logged, Open, Event
      <4> QED BY <1>2, <4>1
    <3>5. refunds' = refunds
      BY <1>2, <2>1 DEF Logged, Event
    <3> QED BY <1>3, <2>1, <2>3, <3>2, <3>3, <3>4, <3>5 DEF Leg!Claim, Leg!Unsettled, Expired
  <2> QED BY <2>2, <2>3
<1>10. ASSUME NEW c \in Clone, NEW caller \in Caller, CancelledBy(c, caller)
       PROVE  (c \in Accepted /\ Leg!Refund(c)) \/ UNCHANGED Leg!legVars
  <2>1. UNCHANGED <<now, deployedAt>> /\ Logged(c, "EscrowCancelled")
    BY <1>10 DEF CancelledBy, PaidOut
  <2>2. CASE c \notin Accepted
    BY <1>8, <2>1, <2>2 DEF Event
  <2>3. CASE c \in Accepted
    <3>1. Open(c)
      BY <1>10, <2>3, PaidWhenOpen DEF CancelledBy, PaidOut
    <3>2. c \in locked /\ claims[c] = 0 /\ refunds[c] = 0
      BY <2>3, <3>1 DEF Open
    <3>3. c \in expired
      BY <1>10, <2>3, <3>1 DEF CancelledBy, Expired, Open
    <3>4. refunds' = [refunds EXCEPT ![c] = 1]
      <4>1. \A d \in Accepted :
              log'[d]["EscrowCancelled"] = IF d = c THEN 1 ELSE log[d]["EscrowCancelled"]
        BY <1>2, <2>1, <3>1 DEF Logged, Open, Event
      <4> QED BY <1>2, <4>1
    <3>5. claims' = claims
      BY <1>2, <2>1 DEF Logged, Event
    <3> QED BY <1>3, <2>1, <2>3, <3>2, <3>3, <3>4, <3>5 DEF Leg!Refund, Leg!Unsettled, Expired
  <2> QED BY <2>2, <2>3
<1>11. ASSUME NEW c \in Clone, NEW asset \in Asset, NEW n \in Nat, RescuedFrom(c, asset, n)
       PROVE  UNCHANGED Leg!legVars
  <2>1. UNCHANGED <<now, deployedAt>> /\ claims' = claims /\ refunds' = refunds
    BY <1>2, <1>11 DEF RescuedFrom, Logged, Event
  <2> QED BY <1>4, <2>1
<1>12. ASSUME NEW c \in Clone, NEW from \in Donor, NEW asset \in Asset, Given(from, c, asset)
       PROVE  UNCHANGED Leg!legVars
  BY <1>2, <1>4, <1>12 DEF Given
<1> HIDE DEF locked, expired, claims, refunds
<1> QED BY <1>5, <1>6, <1>7, <1>9, <1>10, <1>11, <1>12, Steps DEF Leg!Next

\* SettlesAsHashTimelock: as long as gifts are small, a clone whose maker takes its
\* payment pays out once, to the maker before its cancellation or back from then on.
THEOREM ImplementsHashTimelock ==
  ASSUME WindowsOrdered, NEW donor, GiftsAreSmall(donor)
  PROVE  Spec => SettlesAsHashTimelock
<1>1. ChainInit => ChainTypeOK /\ Balanced(donor) /\ Leg!Init
  <2>1. ChainInit => Leg!Init
    BY DEF ChainInit, Leg!Init, Deployed, Event, Accepted
  <2> QED BY <2>1, InitTypes, InitBalanced
<1>2. ChainTypeOK /\ Balanced(donor) /\ [Next]_chainVars =>
        ChainTypeOK' /\ Balanced(donor)' /\ [Leg!Next]_(Leg!legVars)
  BY NextTypes, BalancedKept, StepOfLegs
<1> QED BY <1>1, <1>2, PTL DEF Spec, SettlesAsHashTimelock, Leg!Spec
=============================================================================
