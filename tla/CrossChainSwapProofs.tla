------------------------ MODULE CrossChainSwapProofs ------------------------
(***************************************************************************)
(* Proofs that swaps are safe for either honest party, for any number of   *)
(* swaps, any amounts, delays and clocks that satisfy the assumptions of   *)
(* CrossChainSwap.                                                         *)
(***************************************************************************)
EXTENDS CrossChainSwap, TLAPS

Address == Swap \union Account
Balances == [Asset -> [Address -> Nat]]
Event == {"Withdrawal", "EscrowCancelled", "FundsRescued"}

Delay(s, stage) == SrcTerms[s].timelocks.delay[stage]

-----------------------------------------------------------------------------
(* The inductive invariant.                                                 *)

Clocks ==
  /\ srcNow - dstNow \in -Drift .. Drift
  /\ \A s \in Swap : srcDeployedAt[s] <= srcNow /\ dstDeployedAt[s] <= dstNow

\* Before its rescue time an unsettled source clone holds what it was given;
\* it is cancelled after its cancellation time and withdrawn with the secret.
SrcInv(s) ==
  /\ ~Src!Deployed(s) =>
       srcLog[s]["Withdrawal"] = 0 /\ srcLog[s]["EscrowCancelled"] = 0
  /\ srcLog[s]["EscrowCancelled"] > 0 => srcNow >= SrcStart(s, "SrcCancellation")
  /\ srcLog[s]["Withdrawal"] > 0 => Revealed(s)
  /\ SrcOpen(s) /\ srcNow < SrcRescueStart(s) =>
       srcBal[SrcTerms[s].token][s] >= SrcTerms[s].amount

\* Before its cancellation time an unsettled destination clone holds what it
\* was given; an honest taker's is to cancel no later than the source clone.
DstInv(s) ==
  /\ Dst!Deployed(s) => Src!Deployed(s)
  /\ ~Dst!Deployed(s) =>
       dstLog[s]["Withdrawal"] = 0 /\ dstLog[s]["EscrowCancelled"] = 0
  /\ dstLog[s]["Withdrawal"] > 0 => Revealed(s)
  /\ DstOpen(s) /\ dstNow < DstStart(s, "DstCancellation") =>
       dstBal[DstTerms[s].token][s] >= DstTerms[s].amount
  /\ taker \in honest /\ Dst!Deployed(s) =>
       DstStart(s, "DstCancellation") <= SrcStart(s, "SrcCancellation")

\* An honest maker that has revealed its secret is paid or can still be; one
\* that has not cancels before the taker can rescue.
MakerInv(s) ==
  maker \in honest =>
    /\ Revealed(s) => \/ dstLog[s]["Withdrawal"] > 0
                      \/ DstOpen(s) /\ dstNow < DstStart(s, "DstCancellation")
    /\ ~Revealed(s) /\ SrcOpen(s) => srcNow < SrcRescueStart(s)

\* An honest taker that has paid has been paid or can still be, if the swap
\* allows for the drift of the clocks.
TakerInv(s) ==
  taker \in honest /\ dstLog[s]["Withdrawal"] > 0 /\ CancelsInTime(s) =>
    \/ srcLog[s]["Withdrawal"] > 0
    \/ SrcOpen(s) /\ srcNow < SrcStart(s, "SrcCancellation")

SwapInv(s) == SrcInv(s) /\ DstInv(s) /\ MakerInv(s) /\ TakerInv(s)

IInv == TypeOK /\ Clocks /\ \A s \in Swap : SwapInv(s)

-----------------------------------------------------------------------------
(* The terms of both legs.                                                  *)

\* A number below the range of a field is stored as it is.
LEMMA Undated == ASSUME NEW x \in Nat, NEW n \in Nat, x < n PROVE x % n = x
  OBVIOUS

\* The immutables that the resolver derives from the event are well formed and
\* keep the hashlock and the timelocks of the source leg.
LEMMA SameTerms ==
  ASSUME NEW s \in Swap
  PROVE  /\ SrcTerms[s] \in Src!Immutables
         /\ DstTerms[s] \in Dst!Immutables
         /\ DstTerms[s].hashlock = SrcTerms[s].hashlock
         /\ DstTerms[s].timelocks = SrcTerms[s].timelocks
         /\ DstTerms[s].taker = taker
<1>1. SrcTerms[s] \in Src!Immutables /\ Src!Immutables = Dst!Immutables
  BY TermsAssumption
  DEF Src!Immutables, Dst!Immutables, Src!Timelock, Dst!Timelock, Src!Field, Dst!Field,
      Src!Stage, Dst!Stage, Src!Hash, Dst!Hash
<1>2. /\ Complement[s].maker \in Account /\ Complement[s].token \in Asset
      /\ Complement[s].amount \in Nat /\ Complement[s].safetyDeposit \in Nat
      /\ taker \in Account
  BY TermsAssumption, PartiesAssumption
<1> QED BY <1>1, <1>2 DEF DstTerms, Dst!Immutables

\* No timestamp up to the Horizon is truncated: a window starts its delay after
\* the deployment.
LEMMA SrcDates ==
  ASSUME NEW s \in Swap, NEW d \in 0 .. Horizon
  PROVE  LET im == Src!Dated(s, d)
         IN  /\ \A stage \in Stage :
                  /\ Delay(s, stage) \in Nat
                  /\ Src!Starts(im, stage) = d + Delay(s, stage)
             /\ RescueStart(im.timelocks, RescueDelaySrc) = d + RescueDelaySrc
             /\ Src!RescueStart(im.timelocks, RescueDelaySrc) = d + RescueDelaySrc
             /\ im.hashlock = SrcTerms[s].hashlock
             /\ im.maker = SrcTerms[s].maker /\ im.taker = SrcTerms[s].taker
             /\ im.token = SrcTerms[s].token /\ im.amount = SrcTerms[s].amount
             /\ im.safetyDeposit = SrcTerms[s].safetyDeposit
<1> DEFINE t == SrcTerms[s].timelocks
<1>1. /\ SrcTerms[s] \in Src!Immutables
      /\ t = SrcTerms[s].timelocks
      /\ t \in [deployedAt : Field, delay : [Stage -> Field]]
  BY TermsAssumption DEF Src!Immutables, Src!Timelock, Src!Field, Src!Stage, Field, Stage
<1>2. d % FieldRange = d
  BY Undated, TimeAssumption, FieldRangeAssumption
<1>3. Src!Dated(s, d) = [SrcTerms[s] EXCEPT !.timelocks = [t EXCEPT !.deployedAt = d]]
  BY <1>2 DEF Src!Dated, Src!SetDeployedAt
<1>4. \A stage \in Stage : Delay(s, stage) = t.delay[stage] /\ t.delay[stage] \in Nat
  BY <1>1, FieldRangeAssumption DEF Delay, Field
<1> QED
  BY <1>1, <1>3, <1>4
  DEF Src!Starts, Src!StageStart, RescueStart, Src!RescueStart, Src!Immutables

\* The same on the destination, whose cancellation starts by then.
LEMMA DstDates ==
  ASSUME NEW s \in Swap, NEW d \in 0 .. Horizon
  PROVE  LET im == Dst!Dated(s, d)
         IN  /\ \A stage \in Stage :
                  /\ Delay(s, stage) \in Nat
                  /\ Dst!Starts(im, stage) = d + Delay(s, stage)
             /\ Dst!RescueStart(im.timelocks, RescueDelayDst) = d + RescueDelayDst
             /\ im.hashlock = DstTerms[s].hashlock
             /\ im.maker = DstTerms[s].maker /\ im.taker = DstTerms[s].taker
             /\ im.token = DstTerms[s].token /\ im.amount = DstTerms[s].amount
             /\ im.safetyDeposit = DstTerms[s].safetyDeposit
<1> DEFINE t == DstTerms[s].timelocks
<1>1. /\ DstTerms[s] \in Dst!Immutables
      /\ t = SrcTerms[s].timelocks
      /\ t \in [deployedAt : Field, delay : [Stage -> Field]]
  BY TermsAssumption, SameTerms DEF Dst!Immutables, Dst!Timelock, Dst!Field, Dst!Stage, Field, Stage
<1>2. d % FieldRange = d
  BY Undated, TimeAssumption, FieldRangeAssumption
<1>3. Dst!Dated(s, d) = [DstTerms[s] EXCEPT !.timelocks = [t EXCEPT !.deployedAt = d]]
  BY <1>2 DEF Dst!Dated, Dst!SetDeployedAt
<1>4. \A stage \in Stage : Delay(s, stage) = t.delay[stage] /\ t.delay[stage] \in Nat
  BY <1>1, FieldRangeAssumption DEF Delay, Field
<1> QED
  BY <1>1, <1>3, <1>4
  DEF Dst!Starts, Dst!StageStart, RescueStart, Dst!RescueStart, Dst!Immutables

-----------------------------------------------------------------------------
(* Transfers and logs.                                                      *)

\* A transfer moves n from one address to another and nothing else; one from an
\* address to itself moves nothing.
LEMMA SrcPay ==
  ASSUME NEW b \in Balances, NEW asset \in Asset, NEW from \in Address,
         NEW to \in Address, NEW n \in Nat, Src!CanPay(b, asset, from, to, n)
  PROVE  LET paid == Src!Pay(b, asset, from, to, n)
         IN  /\ paid \in Balances
             /\ \A p \in Address :
                  paid[asset][p] = IF from = to THEN b[asset][p]
                                   ELSE IF p = from THEN b[asset][p] - n
                                   ELSE IF p = to THEN b[asset][p] + n ELSE b[asset][p]
             /\ \A a \in Asset \ {asset} : paid[a] = b[a]
<1> DEFINE taken == [b[asset] EXCEPT ![from] = @ - n]
           row == [taken EXCEPT ![to] = @ + n]
<1>1. b[asset] \in [Address -> Nat] /\ b[asset][from] >= n
  BY DEF Src!CanPay, Balances
<1>2. /\ row \in [Address -> Nat]
      /\ \A p \in Address :
           row[p] = IF from = to THEN b[asset][p]
                    ELSE IF p = from THEN b[asset][p] - n
                    ELSE IF p = to THEN b[asset][p] + n ELSE b[asset][p]
  <2>1. /\ taken \in [Address -> Nat]
        /\ \A p \in Address : taken[p] = IF p = from THEN b[asset][p] - n ELSE b[asset][p]
    BY <1>1
  <2> HIDE DEF taken
  <2> QED BY <1>1, <2>1
<1>3. Src!Pay(b, asset, from, to, n) = [b EXCEPT ![asset] = row]
  BY DEF Src!Pay
<1> HIDE DEF row
<1> QED BY <1>2, <1>3 DEF Balances

\* Both chains keep their accounts in the same way.
LEMMA SameTransfers ==
  ASSUME NEW b, NEW asset, NEW from, NEW to, NEW n
  PROVE  /\ Dst!Pay(b, asset, from, to, n) = Src!Pay(b, asset, from, to, n)
         /\ Dst!CanPay(b, asset, from, to, n) <=> Src!CanPay(b, asset, from, to, n)
  BY DEF Src!Pay, Dst!Pay, Src!CanPay, Dst!CanPay, Src!Accepts, Dst!Accepts

\* Payments out of one clone take nothing from the other clones.
LEMMA PaidOut ==
  ASSUME NEW b \in Balances, NEW s \in Swap, NEW asset \in Asset,
         NEW to \in Address, NEW n \in Nat, Src!CanPay(b, asset, s, to, n)
  PROVE  LET paid == Src!Pay(b, asset, s, to, n)
         IN  /\ paid \in Balances
             /\ \A u \in Swap \ {s}, a \in Asset : paid[a][u] >= b[a][u]
<1>1. s \in Address /\ to \in Address /\ \A u \in Swap : u \in Address
  BY DEF Address
<1>2. SUFFICES ASSUME NEW u \in Swap \ {s}, NEW a \in Asset
               PROVE  Src!Pay(b, asset, s, to, n)[a][u] >= b[a][u]
  BY <1>1, SrcPay
<1>3. b[a][u] \in Nat
  BY <1>1 DEF Balances
<1>4. CASE a = asset  BY <1>1, <1>3, <1>4, SrcPay
<1>5. CASE a # asset  BY <1>1, <1>3, <1>5, SrcPay
<1> QED BY <1>4, <1>5

\* The log counts one more of an event, and everything else stays.
Logs(log, logNext, s, event) ==
  /\ logNext \in [Swap -> [Event -> Nat]]
  /\ logNext[s][event] = log[s][event] + 1
  /\ \A u \in Swap, e \in Event : u # s \/ e # event => logNext[u][e] = log[u][e]

\* An event of one clone is counted for that clone only (the emit statements).
LEMMA Emitted ==
  ASSUME NEW log \in [Swap -> [Event -> Nat]], NEW s \in Swap, NEW event \in Event
  PROVE  Logs(log, [log EXCEPT ![s][event] = @ + 1], s, event)
<1> DEFINE row == [log[s] EXCEPT ![event] = @ + 1]
<1>1. /\ row \in [Event -> Nat] /\ row[event] = log[s][event] + 1
      /\ \A e \in Event : e # event => row[e] = log[s][e]
  OBVIOUS
<1>2. [log EXCEPT ![s][event] = @ + 1] = [log EXCEPT ![s] = row]
  OBVIOUS
<1> HIDE DEF row
<1>3. [log EXCEPT ![s] = row] \in [Swap -> [Event -> Nat]]  BY <1>1
<1>4. \A u \in Swap : [log EXCEPT ![s] = row][u] = IF u = s THEN row ELSE log[u]
  OBVIOUS
<1> QED BY <1>1, <1>2, <1>3, <1>4 DEF Logs

-----------------------------------------------------------------------------
(* What the actions do to what the invariant speaks of.                     *)

\* Every step keeps balances natural and clocks in their range: no transfer
\* overdraws an account (CanPay of every handler).
LEMMA Types ==
  TypeOK <=> /\ srcNow \in 1 .. Horizon /\ dstNow \in 1 .. Horizon
             /\ srcDeployedAt \in [Swap -> 0 .. Horizon]
             /\ dstDeployedAt \in [Swap -> 0 .. Horizon]
             /\ srcBal \in Balances /\ dstBal \in Balances
             /\ srcLog \in [Swap -> [Event -> Nat]]
             /\ dstLog \in [Swap -> [Event -> Nat]]
             /\ revealed \in SUBSET Secret
             /\ honest \in SUBSET {maker, taker}
  BY DEF TypeOK, Src!ChainTypeOK, Dst!ChainTypeOK, Balances, Address, Event,
         Src!Address, Dst!Address, Src!Event, Dst!Event

\* No clone but s pays.
Untouched(b, s) ==
  /\ b' \in Balances
  /\ \A u \in Swap \ {s}, a \in Asset : b'[a][u] >= b[a][u]

\* Two payments of a clone, as every withdrawal and cancellation makes them.
LEMMA PaidTwice ==
  ASSUME TypeOK, NEW s \in Swap, NEW to \in Address, NEW caller \in Account,
         NEW asset \in Asset, NEW n \in Nat, NEW m \in Nat, NEW b \in Balances,
         Src!CanPay(b, asset, s, to, n),
         Src!CanPay(Src!Pay(b, asset, s, to, n), Native, s, caller, m)
  PROVE  LET paid == Src!Pay(Src!Pay(b, asset, s, to, n), Native, s, caller, m)
         IN  /\ paid \in Balances
             /\ \A u \in Swap \ {s}, a \in Asset : paid[a][u] >= b[a][u]
<1> DEFINE half == Src!Pay(b, asset, s, to, n)
<1>1. half \in Balances /\ \A u \in Swap \ {s}, a \in Asset : half[a][u] >= b[a][u]
  BY PaidOut
<1>2. caller \in Address /\ \A u \in Swap : u \in Address
  BY DEF Address
<1> HIDE DEF half
<1>3. LET paid == Src!Pay(half, Native, s, caller, m)
      IN  /\ paid \in Balances
          /\ \A u \in Swap \ {s}, a \in Asset : paid[a][u] >= half[a][u]
  BY <1>1, <1>2, PaidOut, TermsAssumption DEF half
<1>4. Src!Pay(half, Native, s, caller, m) \in Balances
  BY <1>3
<1>5. ASSUME NEW u \in Swap \ {s}, NEW a \in Asset
      PROVE  Src!Pay(half, Native, s, caller, m)[a][u] >= b[a][u]
  <2>1. /\ Src!Pay(half, Native, s, caller, m)[a][u] \in Nat
        /\ half[a][u] \in Nat /\ b[a][u] \in Nat
    BY <1>1, <1>2, <1>4 DEF Balances
  <2> QED BY <1>1, <1>3, <2>1
<1> QED BY <1>4, <1>5 DEF half

SrcWithdrawn(s) ==
  /\ Revealed(s)
  /\ srcNow < SrcStart(s, "SrcCancellation")
  /\ Logs(srcLog, srcLog', s, "Withdrawal")

SrcCancelled(s) ==
  /\ srcNow >= SrcStart(s, "SrcCancellation")
  /\ Logs(srcLog, srcLog', s, "EscrowCancelled")

\* A settling call pays out of one clone, to the one side or to the other.
LEMMA SrcSettles ==
  ASSUME TypeOK, NEW s \in Swap, SettleSrc(s)
  PROVE  /\ Src!Deployed(s)
         /\ UNCHANGED <<srcNow, srcDeployedAt, dstVars, revealed, honest>>
         /\ Untouched(srcBal, s)
         /\ SrcWithdrawn(s) \/ SrcCancelled(s)
<1> USE DEF Src!Caller
<1> DEFINE im == Src!ImmutablesOf(s)
<1>0. /\ srcBal \in Balances /\ srcLog \in [Swap -> [Event -> Nat]]
      /\ srcDeployedAt[s] \in 0 .. Horizon /\ revealed \in SUBSET Secret
  BY Types
<1>1. /\ im.hashlock = SrcTerms[s].hashlock
      /\ im.maker \in Address /\ im.taker \in Address /\ im.token \in Asset
      /\ im.amount \in Nat /\ im.safetyDeposit \in Nat
  BY <1>0, SrcDates, SameTerms DEF Src!ImmutablesOf, Src!Immutables, Address
<1>2. PICK i \in {Src!ImmutablesOf(d) : d \in Swap}, caller \in Account :
        \/ \E x \in revealed, target \in Address : Src!WithdrawTo(s, i, caller, x, target)
        \/ \E x \in revealed : Src!PublicWithdraw(s, i, caller, x)
        \/ Src!Cancel(s, i, caller)
        \/ Src!PublicCancel(s, i, caller)
  BY DEF SettleSrc, Src!Settle, Targets, Address, Src!Address
<1>3. ASSUME NEW x \in revealed, NEW target \in Address,
             Src!PayWithdrawal(s, i, caller, x, target)
      PROVE  /\ Src!Deployed(s) /\ i = im
             /\ UNCHANGED <<srcNow, srcDeployedAt>>
             /\ Untouched(srcBal, s)
             /\ Revealed(s)
             /\ Logs(srcLog, srcLog', s, "Withdrawal")
  <2>1. Src!Deployed(s) /\ i = im /\ UNCHANGED <<srcNow, srcDeployedAt>>
    BY <1>3 DEF Src!PayWithdrawal, Src!OnlyValidImmutables
  <2>2. Revealed(s)
    BY <1>0, <1>1, <1>3, <2>1, SecretsAssumption
    DEF Src!PayWithdrawal, Src!OnlyValidSecret, Revealed
  <2>3. Logs(srcLog, srcLog', s, "Withdrawal")
    BY <1>0, <1>3, Emitted DEF Src!PayWithdrawal, Src!Emit, Event
  <2>4. Untouched(srcBal, s)
    BY <1>0, <1>1, <1>3, <2>1, PaidTwice DEF Src!PayWithdrawal, Src!PayDeposit, Untouched
  <2> QED BY <2>1, <2>2, <2>3, <2>4
<1>4. ASSUME Src!PayCancellation(s, i, caller)
      PROVE  /\ Src!Deployed(s) /\ i = im
             /\ UNCHANGED <<srcNow, srcDeployedAt>>
             /\ Untouched(srcBal, s)
             /\ Logs(srcLog, srcLog', s, "EscrowCancelled")
  <2>1. Src!Deployed(s) /\ i = im /\ UNCHANGED <<srcNow, srcDeployedAt>>
    BY <1>4 DEF Src!PayCancellation, Src!OnlyValidImmutables
  <2>2. Logs(srcLog, srcLog', s, "EscrowCancelled")
    BY <1>0, <1>4, Emitted DEF Src!PayCancellation, Src!Emit, Event
  <2>3. Untouched(srcBal, s)
    BY <1>0, <1>1, <1>4, <2>1, PaidTwice DEF Src!PayCancellation, Src!PayDeposit, Untouched
  <2> QED BY <2>1, <2>2, <2>3
<1>5. UNCHANGED <<dstVars, revealed, honest>>
  BY DEF SettleSrc
<1>6. ASSUME NEW x \in revealed, NEW target \in Address,
             Src!WithdrawTo(s, i, caller, x, target)
      PROVE  /\ Src!PayWithdrawal(s, i, caller, x, target)
             /\ i = im => srcNow < SrcStart(s, "SrcCancellation")
  BY <1>6 DEF Src!WithdrawTo, Src!OnlyBefore, SrcStart
<1>7. ASSUME NEW x \in revealed, Src!PublicWithdraw(s, i, caller, x)
      PROVE  /\ i = im => Src!PayWithdrawal(s, i, caller, x, im.taker)
             /\ Src!OnlyValidImmutables(s, i)
             /\ i = im => srcNow < SrcStart(s, "SrcCancellation")
  BY <1>7 DEF Src!PublicWithdraw, Src!PayWithdrawal, Src!OnlyBefore, SrcStart
<1>8. SrcTerms[s].timelocks.delay["SrcCancellation"] < SrcTerms[s].timelocks.delay["SrcPublicCancellation"]
  BY TermsAssumption DEF WellOrdered
<1>9. SrcStart(s, "SrcCancellation") <= SrcStart(s, "SrcPublicCancellation")
  BY <1>0, <1>8, SrcDates DEF Src!ImmutablesOf, SrcStart, Delay, Stage
<1>10. ASSUME Src!Cancel(s, i, caller) \/ Src!PublicCancel(s, i, caller)
       PROVE  /\ Src!PayCancellation(s, i, caller)
              /\ i = im => srcNow >= SrcStart(s, "SrcCancellation")
  <2>1. CASE Src!Cancel(s, i, caller)
    BY <2>1 DEF Src!Cancel, Src!OnlyAfter, SrcStart
  <2>2. CASE Src!PublicCancel(s, i, caller)
    <3>1. Src!PayCancellation(s, i, caller) /\ (i = im => srcNow >= SrcStart(s, "SrcPublicCancellation"))
      BY <2>2 DEF Src!PublicCancel, Src!OnlyAfter, SrcStart
    <3>2. /\ srcNow \in Int /\ SrcStart(s, "SrcCancellation") \in Int
          /\ SrcStart(s, "SrcPublicCancellation") \in Int
      BY <1>0, Types, SrcDates DEF Src!ImmutablesOf, SrcStart, Stage
    <3> QED BY <3>1, <3>2, <1>9
  <2> QED BY <1>10, <2>1, <2>2
<1> HIDE DEF im
<1>11. CASE \E x \in revealed, target \in Address : Src!WithdrawTo(s, i, caller, x, target)
  BY <1>3, <1>5, <1>6, <1>11 DEF SrcWithdrawn
<1>12. CASE \E x \in revealed : Src!PublicWithdraw(s, i, caller, x)
  BY <1>1, <1>3, <1>5, <1>7, <1>12 DEF SrcWithdrawn, Src!OnlyValidImmutables, im
<1>13. CASE Src!Cancel(s, i, caller) \/ Src!PublicCancel(s, i, caller)
  BY <1>4, <1>5, <1>10, <1>13 DEF SrcCancelled
<1> QED BY <1>2, <1>11, <1>12, <1>13

DstWithdrawn(s) ==
  /\ Revealed(s)
  /\ dstNow < DstStart(s, "DstCancellation")
  /\ Logs(dstLog, dstLog', s, "Withdrawal")

DstCancelled(s) ==
  /\ dstNow >= DstStart(s, "DstCancellation")
  /\ Logs(dstLog, dstLog', s, "EscrowCancelled")

\* The same on the destination.
LEMMA DstSettles ==
  ASSUME TypeOK, NEW s \in Swap, SettleDst(s)
  PROVE  /\ Dst!Deployed(s)
         /\ UNCHANGED <<dstNow, dstDeployedAt, srcVars, revealed, honest>>
         /\ Untouched(dstBal, s)
         /\ DstWithdrawn(s) \/ DstCancelled(s)
<1> USE DEF Dst!Caller
<1> DEFINE im == Dst!ImmutablesOf(s)
<1>0. /\ dstBal \in Balances /\ dstLog \in [Swap -> [Event -> Nat]]
      /\ dstDeployedAt[s] \in 0 .. Horizon /\ revealed \in SUBSET Secret
  BY Types
<1>1. /\ im.hashlock = SrcTerms[s].hashlock
      /\ im.maker \in Account /\ im.taker \in Account /\ im.token \in Asset
      /\ im.amount \in Nat /\ im.safetyDeposit \in Nat
  BY <1>0, DstDates, SameTerms DEF Dst!ImmutablesOf, Dst!Immutables
<1>2. PICK i \in {Dst!ImmutablesOf(d) : d \in Swap}, caller \in Account :
        \/ \E x \in revealed : Dst!Withdraw(s, i, caller, x)
        \/ \E x \in revealed : Dst!PublicWithdraw(s, i, caller, x)
        \/ Dst!Cancel(s, i, caller)
  BY DEF SettleDst, Dst!Settle
<1>3. UNCHANGED <<srcVars, revealed, honest>>
  BY DEF SettleDst
<1>4. ASSUME NEW x \in revealed, Dst!PayWithdrawal(s, i, caller, x)
      PROVE  /\ Dst!Deployed(s) /\ i = im
             /\ UNCHANGED <<dstNow, dstDeployedAt>>
             /\ Untouched(dstBal, s)
             /\ Revealed(s)
             /\ Logs(dstLog, dstLog', s, "Withdrawal")
  <2>1. Dst!Deployed(s) /\ i = im /\ UNCHANGED <<dstNow, dstDeployedAt>>
    BY <1>4 DEF Dst!PayWithdrawal, Dst!OnlyValidImmutables
  <2>2. Revealed(s)
    BY <1>0, <1>1, <1>4, <2>1, SecretsAssumption
    DEF Dst!PayWithdrawal, Dst!OnlyValidSecret, Revealed
  <2>3. Logs(dstLog, dstLog', s, "Withdrawal")
    BY <1>0, <1>4, Emitted DEF Dst!PayWithdrawal, Dst!Emit, Event
  <2>4. CASE im.token = Native /\ ~Dst!CanPay(dstBal, Native, s, im.maker, im.amount)
    <3>1. /\ Src!CanPay(dstBal, Native, s, caller, im.safetyDeposit)
          /\ dstBal' = Src!Pay(dstBal, Native, s, caller, im.safetyDeposit)
      BY <1>4, <2>1, <2>4, SameTransfers
      DEF Dst!PayWithdrawal, Dst!AfterMakerPaid, Dst!PayDeposit
    <3> QED BY <1>0, <1>1, <2>1, <2>2, <2>3, <3>1, PaidOut, TermsAssumption
          DEF Untouched, Address
  <2>5. CASE ~(im.token = Native /\ ~Dst!CanPay(dstBal, Native, s, im.maker, im.amount))
    <3>1. Dst!AfterMakerPaid(s, im) = Src!Pay(dstBal, im.token, s, im.maker, im.amount)
      BY <2>5, SameTransfers DEF Dst!AfterMakerPaid
    <3>2. Src!CanPay(dstBal, im.token, s, im.maker, im.amount)
      BY <1>4, <2>1, <2>5, SameTransfers DEF Dst!PayWithdrawal
    <3>3. Dst!PayDeposit(Dst!AfterMakerPaid(s, im), s, im, caller)
      BY <1>4, <2>1 DEF Dst!PayWithdrawal
    <3>4. LET half == Src!Pay(dstBal, im.token, s, im.maker, im.amount)
          IN  /\ Src!CanPay(half, Native, s, caller, im.safetyDeposit)
              /\ dstBal' = Src!Pay(half, Native, s, caller, im.safetyDeposit)
      BY <3>1, <3>3, SameTransfers DEF Dst!PayDeposit
    <3>5. Untouched(dstBal, s)
      BY <1>0, <1>1, <3>2, <3>4, PaidTwice DEF Untouched, Address
    <3> QED BY <2>1, <2>2, <2>3, <3>5
  <2> QED BY <2>4, <2>5
<1>5. ASSUME Dst!Cancel(s, i, caller)
      PROVE  /\ Dst!Deployed(s)
             /\ UNCHANGED <<dstNow, dstDeployedAt>>
             /\ Untouched(dstBal, s)
             /\ DstCancelled(s)
  <2>1. /\ Dst!Deployed(s) /\ i = im /\ UNCHANGED <<dstNow, dstDeployedAt>>
        /\ dstNow >= DstStart(s, "DstCancellation")
    BY <1>5 DEF Dst!Cancel, Dst!OnlyValidImmutables, Dst!OnlyAfter, DstStart
  <2>2. Logs(dstLog, dstLog', s, "EscrowCancelled")
    BY <1>0, <1>5, Emitted DEF Dst!Cancel, Dst!Emit, Event
  <2>3. LET half == Src!Pay(dstBal, im.token, s, im.taker, im.amount)
        IN  /\ Src!CanPay(dstBal, im.token, s, im.taker, im.amount)
            /\ Src!CanPay(half, Native, s, caller, im.safetyDeposit)
            /\ dstBal' = Src!Pay(half, Native, s, caller, im.safetyDeposit)
    BY <1>5, <2>1, SameTransfers DEF Dst!Cancel, Dst!PayDeposit
  <2>4. Untouched(dstBal, s)
    BY <1>0, <1>1, <2>3, PaidTwice DEF Untouched, Address
  <2> QED BY <2>1, <2>2, <2>4 DEF DstCancelled
<1>6. ASSUME NEW x \in revealed,
             Dst!Withdraw(s, i, caller, x) \/ Dst!PublicWithdraw(s, i, caller, x)
      PROVE  /\ Dst!PayWithdrawal(s, i, caller, x)
             /\ i = im => dstNow < DstStart(s, "DstCancellation")
  BY <1>6 DEF Dst!Withdraw, Dst!PublicWithdraw, Dst!OnlyBefore, DstStart
<1> HIDE DEF im
<1>7. CASE \E x \in revealed : Dst!Withdraw(s, i, caller, x) \/ Dst!PublicWithdraw(s, i, caller, x)
  BY <1>3, <1>4, <1>6, <1>7 DEF DstWithdrawn
<1>8. CASE Dst!Cancel(s, i, caller)
  BY <1>3, <1>5, <1>8
<1> QED BY <1>2, <1>7, <1>8

\* A rescue pays out of one clone once its rescue delay is over and settles
\* nothing.
SameSettlements(log) ==
  /\ log' \in [Swap -> [Event -> Nat]]
  /\ \A u \in Swap : /\ log'[u]["Withdrawal"] = log[u]["Withdrawal"]
                     /\ log'[u]["EscrowCancelled"] = log[u]["EscrowCancelled"]

\* rescueFunds leaves other clones and all settlements alone, and comes late.
LEMMA SrcRescues ==
  ASSUME TypeOK, NEW s \in Swap, RescueSrc(s)
  PROVE  /\ UNCHANGED <<srcNow, srcDeployedAt, dstVars, revealed, honest>>
         /\ Untouched(srcBal, s)
         /\ SameSettlements(srcLog)
         /\ srcNow >= SrcRescueStart(s)
<1>0. srcBal \in Balances /\ srcLog \in [Swap -> [Event -> Nat]] /\ srcDeployedAt[s] \in 0 .. Horizon
  BY Types
<1>1. PICK i \in {Src!ImmutablesOf(d) : d \in Swap}, caller \in Account, asset \in Asset :
        \E n \in 1 .. srcBal[asset][s] : Src!RescueFunds(s, i, caller, asset, n)
  BY DEF RescueSrc, Src!Rescue, Src!Caller
<1>2. PICK n \in Nat : Src!RescueFunds(s, i, caller, asset, n)
  <2>1. srcBal[asset][s] \in Nat
    BY <1>0 DEF Balances, Address
  <2> QED BY <1>1, <2>1
<1>3. /\ UNCHANGED <<srcNow, srcDeployedAt, dstVars, revealed, honest>>
      /\ i = Src!ImmutablesOf(s)
      /\ srcNow >= Src!RescueStart(i.timelocks, RescueDelaySrc)
  BY <1>2 DEF RescueSrc, Src!RescueFunds, Src!OnlyValidImmutables, Src!OnlyAfter
<1>4. srcNow >= SrcRescueStart(s)
  BY <1>0, <1>3, SrcDates DEF SrcRescueStart, Src!ImmutablesOf
<1>5. Untouched(srcBal, s)
  BY <1>0, <1>2, PaidOut DEF Src!RescueFunds, Untouched, Address
<1>6. Logs(srcLog, srcLog', s, "FundsRescued")
  BY <1>0, <1>2, Emitted DEF Src!RescueFunds, Src!Emit, Event
<1> QED BY <1>3, <1>4, <1>5, <1>6 DEF Logs, SameSettlements, Event

\* The same on the destination.
LEMMA DstRescues ==
  ASSUME TypeOK, NEW s \in Swap, RescueDst(s)
  PROVE  /\ UNCHANGED <<dstNow, dstDeployedAt, srcVars, revealed, honest>>
         /\ Untouched(dstBal, s)
         /\ SameSettlements(dstLog)
         /\ dstNow >= DstStart(s, "DstCancellation")
<1>0. /\ dstBal \in Balances /\ dstLog \in [Swap -> [Event -> Nat]]
      /\ dstDeployedAt[s] \in 0 .. Horizon /\ dstNow \in Nat
  BY Types
<1>1. PICK i \in {Dst!ImmutablesOf(d) : d \in Swap}, caller \in Account, asset \in Asset :
        \E n \in 1 .. dstBal[asset][s] : Dst!RescueFunds(s, i, caller, asset, n)
  BY DEF RescueDst, Dst!Rescue, Dst!Caller
<1>2. PICK n \in Nat : Dst!RescueFunds(s, i, caller, asset, n)
  <2>1. dstBal[asset][s] \in Nat
    BY <1>0 DEF Balances, Address
  <2> QED BY <1>1, <2>1
<1>3. /\ UNCHANGED <<dstNow, dstDeployedAt, srcVars, revealed, honest>>
      /\ i = Dst!ImmutablesOf(s)
      /\ dstNow >= Dst!RescueStart(i.timelocks, RescueDelayDst)
  BY <1>2 DEF RescueDst, Dst!RescueFunds, Dst!OnlyValidImmutables, Dst!OnlyAfter
<1>4. dstNow >= dstDeployedAt[s] + RescueDelayDst
  BY <1>0, <1>3, DstDates DEF Dst!ImmutablesOf
<1>5. /\ DstStart(s, "DstCancellation") = dstDeployedAt[s] + Delay(s, "DstCancellation")
      /\ Delay(s, "DstCancellation") \in Nat
  BY <1>0, DstDates DEF DstStart, Dst!ImmutablesOf, Stage
<1>6. dstNow >= DstStart(s, "DstCancellation")
  BY <1>0, <1>4, <1>5, TermsAssumption DEF Delay
<1>7. Untouched(dstBal, s)
  BY <1>0, <1>2, PaidOut, SameTransfers DEF Dst!RescueFunds, Untouched, Address
<1>8. Logs(dstLog, dstLog', s, "FundsRescued")
  BY <1>0, <1>2, Emitted DEF Dst!RescueFunds, Dst!Emit, Event
<1> QED BY <1>3, <1>6, <1>7, <1>8 DEF Logs, SameSettlements, Event

\* Payments into one clone leave the other clones alone.
LEMMA PaidIn ==
  ASSUME NEW b \in Balances, NEW s \in Swap, NEW asset \in Asset,
         NEW from \in Account, NEW n \in Nat, Src!CanPay(b, asset, from, s, n)
  PROVE  LET paid == Src!Pay(b, asset, from, s, n)
         IN  /\ paid \in Balances
             /\ paid[asset][s] >= n
             /\ \A u \in Swap \ {s}, a \in Asset : paid[a][u] = b[a][u]
<1>1. s \in Address /\ from \in Address /\ s # from /\ \A u \in Swap : u \in Address /\ u # from
  BY PartiesAssumption DEF Address
<1>2. /\ Src!Pay(b, asset, from, s, n) \in Balances
      /\ Src!Pay(b, asset, from, s, n)[asset][s] = b[asset][s] + n
      /\ b[asset][s] \in Nat
  BY <1>1, SrcPay DEF Balances
<1>3. SUFFICES ASSUME NEW u \in Swap \ {s}, NEW a \in Asset
               PROVE  Src!Pay(b, asset, from, s, n)[a][u] = b[a][u]
  BY <1>2
<1>4. CASE a = asset  BY <1>1, <1>4, SrcPay
<1>5. CASE a # asset  BY <1>1, <1>5, SrcPay
<1> QED BY <1>4, <1>5

\* A deployment leaves the clone with what the order says.
LEMMA SrcDeploys ==
  ASSUME TypeOK, NEW s \in Swap, DeploySrc(s)
  PROVE  /\ ~Src!Deployed(s)
         /\ srcDeployedAt' = [srcDeployedAt EXCEPT ![s] = srcNow]
         /\ UNCHANGED <<srcNow, srcLog, dstVars, revealed, honest>>
         /\ Untouched(srcBal, s)
         /\ srcBal'[SrcTerms[s].token][s] >= SrcTerms[s].amount
<1> DEFINE im == Src!Dated(s, srcNow)
           deposit == SrcTerms[s].safetyDeposit
           b1 == Src!Pay(srcBal, Native, taker, s, deposit)
           b2 == Src!Pay(b1, SrcTerms[s].token, SrcTerms[s].maker, s, SrcTerms[s].amount)
<1>0. srcBal \in Balances /\ srcNow \in 0 .. Horizon
  BY Types
<1>1. /\ im.token = SrcTerms[s].token /\ im.maker = SrcTerms[s].maker
      /\ im.amount = SrcTerms[s].amount
  BY <1>0, SrcDates
<1>2. /\ SrcTerms[s].token \in Asset /\ SrcTerms[s].maker \in Account
      /\ SrcTerms[s].amount \in Nat /\ deposit \in Nat
      /\ Native \in Asset /\ taker \in Account
  BY TermsAssumption, PartiesAssumption DEF Src!Immutables
<1>3. /\ ~Src!Deployed(s)
      /\ srcDeployedAt' = [srcDeployedAt EXCEPT ![s] = srcNow]
      /\ UNCHANGED <<srcNow, srcLog, dstVars, revealed, honest>>
      /\ Src!CanPay(srcBal, Native, taker, s, deposit)
      /\ Src!CanPay(b1, SrcTerms[s].token, SrcTerms[s].maker, s, SrcTerms[s].amount)
      /\ srcBal' = b2
  BY <1>1 DEF DeploySrc, Src!DeploySrc
<1>4. b1 \in Balances /\ \A u \in Swap \ {s}, a \in Asset : b1[a][u] = srcBal[a][u]
  BY <1>0, <1>2, <1>3, PaidIn
<1> HIDE DEF b1
<1>5. /\ b2 \in Balances /\ b2[SrcTerms[s].token][s] >= SrcTerms[s].amount
      /\ \A u \in Swap \ {s}, a \in Asset : b2[a][u] = b1[a][u]
  BY <1>2, <1>3, <1>4, PaidIn
<1> HIDE DEF b2
<1>6. ASSUME NEW u \in Swap \ {s}, NEW a \in Asset PROVE srcBal'[a][u] >= srcBal[a][u]
  <2>1. srcBal[a][u] \in Nat
    BY <1>0 DEF Balances, Address
  <2> QED BY <1>3, <1>4, <1>5, <2>1
<1>7. Untouched(srcBal, s)
  BY <1>3, <1>5, <1>6 DEF Untouched
<1> QED BY <1>3, <1>5, <1>7

\* createDstEscrow leaves the clone with amount and deposit, also when both are
\* native currency, and with its cancellation no later than reported.
LEMMA DstDeploys ==
  ASSUME TypeOK, NEW s \in Swap, DeployDst(s)
  PROVE  /\ Src!Deployed(s)
         /\ ~Dst!Deployed(s)
         /\ dstDeployedAt' = [dstDeployedAt EXCEPT ![s] = dstNow]
         /\ UNCHANGED <<dstNow, dstLog, srcVars, revealed, honest>>
         /\ Untouched(dstBal, s)
         /\ dstBal'[DstTerms[s].token][s] >= DstTerms[s].amount
         /\ taker \in honest =>
              dstNow + Delay(s, "DstCancellation") <= SrcStart(s, "SrcCancellation")
<1> DEFINE im == Dst!Dated(s, dstNow)
           deposit == DstTerms[s].safetyDeposit
           b1 == Src!Pay(dstBal, Native, taker, s, deposit)
           b2 == Src!Pay(b1, DstTerms[s].token, taker, s, DstTerms[s].amount)
<1>0. dstBal \in Balances /\ dstNow \in 0 .. Horizon /\ srcDeployedAt[s] \in 0 .. Horizon
  BY Types
<1>1. /\ im.token = DstTerms[s].token /\ im.safetyDeposit = deposit
      /\ im.amount = DstTerms[s].amount
      /\ Dst!Starts(im, "DstCancellation") = dstNow + Delay(s, "DstCancellation")
      /\ Delay(s, "DstCancellation") \in Nat
  BY <1>0, DstDates DEF Stage
<1>2. /\ DstTerms[s].token \in Asset /\ DstTerms[s].amount \in Nat /\ deposit \in Nat
      /\ Native \in Asset /\ taker \in Account
  BY TermsAssumption, PartiesAssumption, SameTerms DEF Dst!Immutables
<1>3. Src!Deployed(s) /\ UNCHANGED <<srcVars, revealed, honest>>
  BY DEF DeployDst
<1>4. PICK time \in ReportedCancellation(s) : Dst!CreateDstEscrow(s, taker, time)
  BY DEF DeployDst
<1>5. /\ ~Dst!Deployed(s)
      /\ Dst!Starts(im, "DstCancellation") <= time
      /\ Src!CanPay(dstBal, Native, taker, s, deposit)
      /\ Src!CanPay(b1, DstTerms[s].token, taker, s, DstTerms[s].amount)
      /\ dstDeployedAt' = [dstDeployedAt EXCEPT ![s] = dstNow]
      /\ dstBal' = b2
      /\ UNCHANGED <<dstNow, dstLog>>
  BY <1>1, <1>4, SameTransfers DEF Dst!CreateDstEscrow
<1>6. ASSUME taker \in honest
      PROVE  dstNow + Delay(s, "DstCancellation") <= SrcStart(s, "SrcCancellation")
  <2>1. time = SrcStart(s, "SrcCancellation")
    BY <1>4, <1>6 DEF ReportedCancellation
  <2>2. SrcStart(s, "SrcCancellation") \in Nat
    BY <1>0, SrcDates DEF SrcStart, Src!ImmutablesOf, Stage
  <2> QED BY <1>0, <1>1, <1>5, <2>1, <2>2, TimeAssumption
<1>7. b1 \in Balances /\ \A u \in Swap \ {s}, a \in Asset : b1[a][u] = dstBal[a][u]
  BY <1>0, <1>2, <1>5, PaidIn
<1> HIDE DEF b1
<1>8. /\ b2 \in Balances /\ b2[DstTerms[s].token][s] >= DstTerms[s].amount
      /\ \A u \in Swap \ {s}, a \in Asset : b2[a][u] = b1[a][u]
  BY <1>2, <1>5, <1>7, PaidIn
<1> HIDE DEF b2
<1>9. ASSUME NEW u \in Swap \ {s}, NEW a \in Asset PROVE dstBal'[a][u] >= dstBal[a][u]
  <2>1. dstBal[a][u] \in Nat
    BY <1>0 DEF Balances, Address
  <2> QED BY <1>5, <1>7, <1>8, <2>1
<1>10. Untouched(dstBal, s)
  BY <1>5, <1>8, <1>9 DEF Untouched
<1> QED BY <1>3, <1>5, <1>6, <1>8, <1>10

-----------------------------------------------------------------------------
(* The invariant holds at first and is kept by every step.                  *)

\* The dates of a swap, before and after a step.
LEMMA SwapDates ==
  ASSUME TypeOK, TypeOK', NEW s \in Swap
  PROVE  /\ SrcStart(s, "SrcCancellation") = srcDeployedAt[s] + Delay(s, "SrcCancellation")
         /\ SrcStart(s, "SrcCancellation")' = srcDeployedAt'[s] + Delay(s, "SrcCancellation")
         /\ SrcRescueStart(s) = srcDeployedAt[s] + RescueDelaySrc
         /\ SrcRescueStart(s)' = srcDeployedAt'[s] + RescueDelaySrc
         /\ DstStart(s, "DstCancellation") = dstDeployedAt[s] + Delay(s, "DstCancellation")
         /\ DstStart(s, "DstCancellation")' = dstDeployedAt'[s] + Delay(s, "DstCancellation")
         /\ Delay(s, "SrcCancellation") \in Nat /\ Delay(s, "DstCancellation") \in Nat
         /\ Delay(s, "SrcCancellation") < RescueDelaySrc
<1>1. /\ srcDeployedAt[s] \in 0 .. Horizon /\ srcDeployedAt'[s] \in 0 .. Horizon
      /\ dstDeployedAt[s] \in 0 .. Horizon /\ dstDeployedAt'[s] \in 0 .. Horizon
  BY Types DEF TypeOK, Src!ChainTypeOK, Dst!ChainTypeOK
<1>2. /\ Delay(s, "SrcCancellation") \in Nat /\ Delay(s, "DstCancellation") \in Nat
      /\ Delay(s, "SrcPublicCancellation") \in Nat
  BY <1>1, SrcDates DEF Stage
<1>3. Delay(s, "SrcCancellation") < RescueDelaySrc
  BY <1>2, TermsAssumption DEF WellOrdered, Delay
<1> QED
  BY <1>1, <1>2, <1>3, SrcDates, DstDates
  DEF SrcStart, SrcRescueStart, DstStart, Src!ImmutablesOf, Dst!ImmutablesOf, Stage

\* Nothing is deployed to begin with.
LEMMA InitIInv == Init => IInv
<1> SUFFICES ASSUME Init PROVE IInv
  OBVIOUS
<1>1. TypeOK
  <2>1. srcBal \in Balances /\ dstBal \in Balances
    BY EndowmentAssumption DEF Init, Src!ChainInit, Dst!ChainInit, Balances, Address
  <2>2. srcNow \in 1 .. Horizon /\ dstNow \in 1 .. Horizon
    BY TimeAssumption DEF Init, Src!ChainInit, Dst!ChainInit
  <2>3. /\ srcDeployedAt \in [Swap -> 0 .. Horizon]
        /\ dstDeployedAt \in [Swap -> 0 .. Horizon]
    BY TimeAssumption DEF Init, Src!ChainInit, Dst!ChainInit
  <2>4. /\ srcLog \in [Swap -> [Event -> Nat]]
        /\ dstLog \in [Swap -> [Event -> Nat]]
    BY DEF Init, Src!ChainInit, Dst!ChainInit, Event, Src!Event, Dst!Event
  <2> QED BY <2>1, <2>2, <2>3, <2>4, Types DEF Init
<1>2. Clocks
  BY TimeAssumption DEF Init, Clocks, Src!ChainInit, Dst!ChainInit
<1>3. ASSUME NEW s \in Swap PROVE SwapInv(s)
  <2>1. /\ ~Src!Deployed(s) /\ ~Dst!Deployed(s) /\ ~Revealed(s)
        /\ srcLog[s]["Withdrawal"] = 0 /\ srcLog[s]["EscrowCancelled"] = 0
        /\ dstLog[s]["Withdrawal"] = 0 /\ dstLog[s]["EscrowCancelled"] = 0
    BY DEF Init, Src!ChainInit, Dst!ChainInit, Src!Deployed, Dst!Deployed, Revealed,
           Src!Event, Dst!Event
  <2> QED BY <2>1 DEF SwapInv, SrcInv, DstInv, MakerInv, TakerInv, SrcOpen, DstOpen
<1> QED BY <1>1, <1>2, <1>3 DEF IInv

\* The type invariant is inductive.
LEMMA TypesNext ==
  ASSUME srcNow' \in 1 .. Horizon, dstNow' \in 1 .. Horizon,
         srcDeployedAt' \in [Swap -> 0 .. Horizon],
         dstDeployedAt' \in [Swap -> 0 .. Horizon],
         srcBal' \in Balances, dstBal' \in Balances,
         srcLog' \in [Swap -> [Event -> Nat]], dstLog' \in [Swap -> [Event -> Nat]],
         revealed' \in SUBSET Secret, honest' \in SUBSET {maker, taker}
  PROVE  TypeOK'
  BY DEF TypeOK, Src!ChainTypeOK, Dst!ChainTypeOK, Balances, Address, Event,
         Src!Address, Dst!Address, Src!Event, Dst!Event

\* A swap keeps its invariant when the clocks stand still, nothing is taken from
\* its clones and nobody looks at its secret.
LEMMA Bystander ==
  ASSUME TypeOK, TypeOK', NEW u \in Swap, SwapInv(u),
         UNCHANGED <<srcNow, dstNow, honest>>,
         srcDeployedAt'[u] = srcDeployedAt[u], dstDeployedAt'[u] = dstDeployedAt[u],
         Revealed(u)' = Revealed(u),
         srcLog'[u]["Withdrawal"] = srcLog[u]["Withdrawal"],
         srcLog'[u]["EscrowCancelled"] = srcLog[u]["EscrowCancelled"],
         dstLog'[u]["Withdrawal"] = dstLog[u]["Withdrawal"],
         dstLog'[u]["EscrowCancelled"] = dstLog[u]["EscrowCancelled"],
         srcBal' = srcBal \/ \A a \in Asset : srcBal'[a][u] >= srcBal[a][u],
         dstBal' = dstBal \/ \A a \in Asset : dstBal'[a][u] >= dstBal[a][u]
  PROVE  SwapInv(u)'
<1>1. /\ SrcTerms[u].token \in Asset /\ SrcTerms[u].amount \in Nat
      /\ DstTerms[u].token \in Asset /\ DstTerms[u].amount \in Nat
      /\ u \in Address
  BY SameTerms DEF Src!Immutables, Dst!Immutables, Address
<1>2. /\ Src!Deployed(u)' = Src!Deployed(u) /\ Dst!Deployed(u)' = Dst!Deployed(u)
      /\ SrcOpen(u)' = SrcOpen(u) /\ DstOpen(u)' = DstOpen(u)
  BY DEF Src!Deployed, Dst!Deployed, SrcOpen, DstOpen
<1>3. /\ SrcStart(u, "SrcCancellation")' = SrcStart(u, "SrcCancellation")
      /\ SrcRescueStart(u)' = SrcRescueStart(u)
      /\ DstStart(u, "DstCancellation")' = DstStart(u, "DstCancellation")
      /\ CancelsInTime(u)' = CancelsInTime(u)
  BY SwapDates DEF CancelsInTime
<1>4. /\ srcBal[SrcTerms[u].token][u] >= SrcTerms[u].amount
           => srcBal'[SrcTerms[u].token][u] >= SrcTerms[u].amount
      /\ dstBal[DstTerms[u].token][u] >= DstTerms[u].amount
           => dstBal'[DstTerms[u].token][u] >= DstTerms[u].amount
  <2>1. /\ srcBal \in Balances /\ srcBal' \in Balances
        /\ dstBal \in Balances /\ dstBal' \in Balances
    BY Types DEF TypeOK, Src!ChainTypeOK, Dst!ChainTypeOK, Balances, Address, Src!Address,
                 Dst!Address
  <2>2. /\ srcBal[SrcTerms[u].token][u] \in Nat /\ srcBal'[SrcTerms[u].token][u] \in Nat
        /\ dstBal[DstTerms[u].token][u] \in Nat /\ dstBal'[DstTerms[u].token][u] \in Nat
    BY <1>1, <2>1 DEF Balances
  <2> QED BY <1>1, <2>2
<1> QED BY <1>1, <1>2, <1>3, <1>4 DEF SwapInv, SrcInv, DstInv, MakerInv, TakerInv

\* Resolver.deploySrc keeps the invariant.
LEMMA DeploySrcKeeps ==
  ASSUME IInv, NEW s \in Swap, DeploySrc(s)
  PROVE  IInv'
<1>1. TypeOK /\ Clocks /\ \A u \in Swap : SwapInv(u)
  BY DEF IInv
<1>2. /\ srcNow \in 1 .. Horizon /\ dstNow \in 1 .. Horizon
      /\ srcDeployedAt \in [Swap -> 0 .. Horizon]
      /\ dstDeployedAt \in [Swap -> 0 .. Horizon]
      /\ srcLog \in [Swap -> [Event -> Nat]] /\ dstLog \in [Swap -> [Event -> Nat]]
  BY <1>1, Types
<1>3. /\ ~Src!Deployed(s)
      /\ srcDeployedAt' = [srcDeployedAt EXCEPT ![s] = srcNow]
      /\ UNCHANGED <<srcNow, srcLog, dstNow, dstDeployedAt, dstBal, dstLog, revealed, honest>>
      /\ Untouched(srcBal, s)
      /\ srcBal'[SrcTerms[s].token][s] >= SrcTerms[s].amount
  BY <1>1, SrcDeploys DEF dstVars
<1>4. TypeOK'
  BY <1>1, <1>2, <1>3, Types, TypesNext DEF Untouched
<1>5. Clocks'
  BY <1>1, <1>2, <1>3 DEF Clocks
<1>6. ASSUME NEW u \in Swap, u # s PROVE SwapInv(u)'
  BY <1>1, <1>2, <1>3, <1>4, <1>6, Bystander DEF Untouched, Revealed
<1>7. SwapInv(s)'
  <2>1. SwapInv(s)
    BY <1>1
  <2>2. /\ SrcOpen(s)' /\ ~SrcOpen(s) /\ Src!Deployed(s)'
        /\ ~Dst!Deployed(s) /\ ~Dst!Deployed(s)' /\ ~DstOpen(s) /\ ~DstOpen(s)'
        /\ Revealed(s)' = Revealed(s)
        /\ srcDeployedAt'[s] = srcNow
    BY <1>2, <1>3, <2>1 DEF Src!Deployed, Dst!Deployed, SrcOpen, DstOpen, Revealed,
                            SwapInv, SrcInv, DstInv
  <2>3. SrcInv(s)'
    BY <1>3, <2>1, <2>2 DEF SwapInv, SrcInv
  <2>4. DstInv(s)'
    BY <1>3, <2>1, <2>2 DEF SwapInv, DstInv
  <2>5. MakerInv(s)'
    BY <1>1, <1>2, <1>3, <1>4, <2>1, <2>2, SwapDates, TermsAssumption DEF SwapInv, MakerInv
  <2>6. TakerInv(s)'
    BY <1>3, <2>1, <2>2 DEF SwapInv, DstInv, TakerInv
  <2> QED BY <2>3, <2>4, <2>5, <2>6 DEF SwapInv
<1> QED BY <1>4, <1>5, <1>6, <1>7 DEF IInv

\* Resolver.deployDst keeps the invariant: an honest taker reports the true
\* cancellation time, so the destination leg ends Drift before the source leg.
LEMMA DeployDstKeeps ==
  ASSUME IInv, NEW s \in Swap, DeployDst(s)
  PROVE  IInv'
<1>1. TypeOK /\ Clocks /\ \A u \in Swap : SwapInv(u)
  BY DEF IInv
<1>2. /\ srcNow \in 1 .. Horizon /\ dstNow \in 1 .. Horizon
      /\ srcDeployedAt \in [Swap -> 0 .. Horizon]
      /\ dstDeployedAt \in [Swap -> 0 .. Horizon]
      /\ srcLog \in [Swap -> [Event -> Nat]] /\ dstLog \in [Swap -> [Event -> Nat]]
  BY <1>1, Types
<1>3. /\ Src!Deployed(s) /\ ~Dst!Deployed(s)
      /\ dstDeployedAt' = [dstDeployedAt EXCEPT ![s] = dstNow]
      /\ UNCHANGED <<dstNow, dstLog, srcNow, srcDeployedAt, srcBal, srcLog, revealed, honest>>
      /\ Untouched(dstBal, s)
      /\ dstBal'[DstTerms[s].token][s] >= DstTerms[s].amount
      /\ taker \in honest =>
           dstNow + Delay(s, "DstCancellation") <= SrcStart(s, "SrcCancellation")
  BY <1>1, DstDeploys DEF srcVars
<1>4. TypeOK'
  BY <1>1, <1>2, <1>3, Types, TypesNext DEF Untouched
<1>5. Clocks'
  BY <1>1, <1>2, <1>3 DEF Clocks
<1>6. ASSUME NEW u \in Swap, u # s PROVE SwapInv(u)'
  BY <1>1, <1>2, <1>3, <1>4, <1>6, Bystander DEF Untouched, Revealed
<1>7. SwapInv(s)'
  <2>1. SwapInv(s)
    BY <1>1
  <2>2. /\ DstOpen(s)' /\ ~DstOpen(s) /\ Dst!Deployed(s)'
        /\ Src!Deployed(s)' = Src!Deployed(s)
        /\ SrcOpen(s)' = SrcOpen(s)
        /\ Revealed(s)' = Revealed(s)
        /\ dstDeployedAt'[s] = dstNow
    BY <1>2, <1>3, <2>1 DEF Src!Deployed, Dst!Deployed, SrcOpen, DstOpen, Revealed,
                            SwapInv, SrcInv, DstInv
  <2>3. /\ SrcStart(s, "SrcCancellation")' = SrcStart(s, "SrcCancellation")
        /\ SrcRescueStart(s)' = SrcRescueStart(s)
        /\ DstStart(s, "DstCancellation")' = dstNow + Delay(s, "DstCancellation")
    BY <1>1, <1>3, <1>4, <2>2, SwapDates
  <2>4. SrcInv(s)'
    BY <1>3, <2>1, <2>2, <2>3 DEF SwapInv, SrcInv
  <2>5. DstInv(s)'
    BY <1>3, <2>1, <2>2, <2>3 DEF SwapInv, DstInv
  <2>6. MakerInv(s)'
    BY <1>3, <2>1, <2>2, <2>3 DEF SwapInv, MakerInv
  <2>7. TakerInv(s)'
    BY <1>2, <1>3, <2>1, <2>2 DEF SwapInv, DstInv, TakerInv
  <2> QED BY <2>4, <2>5, <2>6, <2>7 DEF SwapInv
<1> QED BY <1>4, <1>5, <1>6, <1>7 DEF IInv

\* Letting a secret go keeps the invariant: an honest maker looks at both legs.
LEMMA SubmitSecretKeeps ==
  ASSUME IInv, NEW s \in Swap, SubmitSecret(s)
  PROVE  IInv'
<1>1. TypeOK /\ Clocks /\ \A u \in Swap : SwapInv(u)
  BY DEF IInv
<1>2. /\ srcNow \in 1 .. Horizon /\ dstNow \in 1 .. Horizon
      /\ srcDeployedAt \in [Swap -> 0 .. Horizon]
      /\ dstDeployedAt \in [Swap -> 0 .. Horizon]
      /\ srcLog \in [Swap -> [Event -> Nat]] /\ dstLog \in [Swap -> [Event -> Nat]]
  BY <1>1, Types
<1>3. /\ maker \in honest => ReadyToAcceptSecret(s)
      /\ revealed' = revealed \union {SecretOf[s]}
      /\ UNCHANGED <<srcVars, dstVars, honest>>
  BY DEF SubmitSecret
<1>4. TypeOK'
  BY <1>1, <1>2, <1>3, Types, TypesNext, SecretsAssumption DEF srcVars, dstVars
<1>5. Clocks'
  BY <1>1, <1>3 DEF Clocks, srcVars, dstVars
<1>6. ASSUME NEW u \in Swap, u # s PROVE SwapInv(u)'
  <2>1. Revealed(u)' = Revealed(u)
    BY <1>3, <1>6, SecretsAssumption DEF Revealed
  <2> QED BY <1>1, <1>3, <1>4, <2>1, Bystander DEF srcVars, dstVars
<1>7. SwapInv(s)'
  <2>1. SwapInv(s) /\ Revealed(s)'
    BY <1>1, <1>3 DEF Revealed
  <2>2. /\ Src!Deployed(s)' = Src!Deployed(s) /\ Dst!Deployed(s)' = Dst!Deployed(s)
        /\ SrcOpen(s)' = SrcOpen(s) /\ DstOpen(s)' = DstOpen(s)
        /\ SrcStart(s, "SrcCancellation")' = SrcStart(s, "SrcCancellation")
        /\ SrcRescueStart(s)' = SrcRescueStart(s)
        /\ DstStart(s, "DstCancellation")' = DstStart(s, "DstCancellation")
        /\ CancelsInTime(s)' = CancelsInTime(s)
    BY <1>1, <1>3, <1>4, SwapDates DEF CancelsInTime, Src!Deployed, Dst!Deployed, SrcOpen, DstOpen, srcVars, dstVars
  <2>3. SrcInv(s)' /\ DstInv(s)' /\ TakerInv(s)'
    BY <1>3, <2>1, <2>2 DEF SwapInv, SrcInv, DstInv, TakerInv, srcVars, dstVars
  <2>4. MakerInv(s)'
    BY <1>3, <2>1, <2>2 DEF MakerInv, ReadyToAcceptSecret, dstVars
  <2> QED BY <2>3, <2>4 DEF SwapInv
<1> QED BY <1>4, <1>5, <1>6, <1>7 DEF IInv

\* A withdrawal or cancellation on the source keeps the invariant.
LEMMA SettleSrcKeeps ==
  ASSUME IInv, NEW s \in Swap, SettleSrc(s)
  PROVE  IInv'
<1>1. TypeOK /\ Clocks /\ \A u \in Swap : SwapInv(u)
  BY DEF IInv
<1>2. /\ srcNow \in 1 .. Horizon /\ dstNow \in 1 .. Horizon
      /\ srcDeployedAt \in [Swap -> 0 .. Horizon]
      /\ dstDeployedAt \in [Swap -> 0 .. Horizon]
      /\ srcLog \in [Swap -> [Event -> Nat]] /\ dstLog \in [Swap -> [Event -> Nat]]
  BY <1>1, Types
<1>3. /\ Src!Deployed(s)
      /\ UNCHANGED <<srcNow, srcDeployedAt, dstNow, dstDeployedAt, dstBal, dstLog, revealed, honest>>
      /\ Untouched(srcBal, s)
      /\ SrcWithdrawn(s) \/ SrcCancelled(s)
  BY <1>1, SrcSettles DEF dstVars
<1>4. TypeOK'
  BY <1>1, <1>2, <1>3, Types, TypesNext DEF Untouched, SrcWithdrawn, SrcCancelled, Logs
<1>5. Clocks'
  BY <1>1, <1>3 DEF Clocks
<1>6. ASSUME NEW u \in Swap, u # s PROVE SwapInv(u)'
  BY <1>1, <1>2, <1>3, <1>4, <1>6, Bystander
  DEF Untouched, Revealed, SrcWithdrawn, SrcCancelled, Logs, Event
<1>7. SwapInv(s)'
  <2>1. SwapInv(s)
    BY <1>1
  <2>2. /\ Src!Deployed(s)' = Src!Deployed(s) /\ Dst!Deployed(s)' = Dst!Deployed(s)
        /\ DstOpen(s)' = DstOpen(s) /\ Revealed(s)' = Revealed(s)
        /\ SrcStart(s, "SrcCancellation")' = SrcStart(s, "SrcCancellation")
        /\ SrcRescueStart(s)' = SrcRescueStart(s)
        /\ DstStart(s, "DstCancellation")' = DstStart(s, "DstCancellation")
        /\ CancelsInTime(s)' = CancelsInTime(s)
    BY <1>1, <1>3, <1>4, SwapDates
    DEF CancelsInTime, Src!Deployed, Dst!Deployed, SrcOpen, DstOpen, Revealed, SameSettlements
  <2>3. CASE SrcWithdrawn(s)
    <3>1. /\ Revealed(s) /\ ~SrcOpen(s)'
          /\ srcLog'[s]["Withdrawal"] > 0
          /\ srcLog'[s]["EscrowCancelled"] = srcLog[s]["EscrowCancelled"]
      BY <1>2, <2>3 DEF SrcWithdrawn, Logs, Event, SrcOpen
    <3> QED BY <1>3, <2>1, <2>2, <3>1 DEF SwapInv, SrcInv, DstInv, MakerInv, TakerInv
  <2>4. CASE SrcCancelled(s)
    <3>1. /\ srcNow >= SrcStart(s, "SrcCancellation") /\ ~SrcOpen(s)'
          /\ srcLog'[s]["Withdrawal"] = srcLog[s]["Withdrawal"]
      BY <1>2, <2>4 DEF SrcCancelled, Logs, Event, SrcOpen
    <3>2. srcNow \in Int /\ SrcStart(s, "SrcCancellation") \in Int
      BY <1>1, <1>2, <1>4, SwapDates
    <3> QED BY <1>3, <2>1, <2>2, <3>1, <3>2 DEF SwapInv, SrcInv, DstInv, MakerInv, TakerInv
  <2> QED BY <1>3, <2>3, <2>4
<1> QED BY <1>4, <1>5, <1>6, <1>7 DEF IInv

\* A withdrawal or cancellation on the destination keeps the invariant.
LEMMA SettleDstKeeps ==
  ASSUME IInv, NEW s \in Swap, SettleDst(s)
  PROVE  IInv'
<1>1. TypeOK /\ Clocks /\ \A u \in Swap : SwapInv(u)
  BY DEF IInv
<1>2. /\ srcNow \in 1 .. Horizon /\ dstNow \in 1 .. Horizon
      /\ srcDeployedAt \in [Swap -> 0 .. Horizon]
      /\ dstDeployedAt \in [Swap -> 0 .. Horizon]
      /\ srcLog \in [Swap -> [Event -> Nat]] /\ dstLog \in [Swap -> [Event -> Nat]]
  BY <1>1, Types
<1>3. /\ Dst!Deployed(s)
      /\ UNCHANGED <<dstNow, dstDeployedAt, srcNow, srcDeployedAt, srcBal, srcLog, revealed, honest>>
      /\ Untouched(dstBal, s)
      /\ DstWithdrawn(s) \/ DstCancelled(s)
  BY <1>1, DstSettles DEF srcVars
<1>4. TypeOK'
  BY <1>1, <1>2, <1>3, Types, TypesNext DEF Untouched, DstWithdrawn, DstCancelled, Logs
<1>5. Clocks'
  BY <1>1, <1>3 DEF Clocks
<1>6. ASSUME NEW u \in Swap, u # s PROVE SwapInv(u)'
  BY <1>1, <1>2, <1>3, <1>4, <1>6, Bystander
  DEF Untouched, Revealed, DstWithdrawn, DstCancelled, Logs, Event
<1>7. SwapInv(s)'
  <2>1. SwapInv(s)
    BY <1>1
  <2>2. /\ Src!Deployed(s)' = Src!Deployed(s) /\ Dst!Deployed(s)' = Dst!Deployed(s)
        /\ SrcOpen(s)' = SrcOpen(s) /\ Revealed(s)' = Revealed(s)
        /\ SrcStart(s, "SrcCancellation")' = SrcStart(s, "SrcCancellation")
        /\ SrcRescueStart(s)' = SrcRescueStart(s)
        /\ DstStart(s, "DstCancellation")' = DstStart(s, "DstCancellation")
        /\ CancelsInTime(s)' = CancelsInTime(s)
    BY <1>1, <1>3, <1>4, SwapDates
    DEF CancelsInTime, Src!Deployed, Dst!Deployed, SrcOpen, DstOpen, Revealed, SameSettlements
  <2>3. /\ srcNow \in Int /\ SrcStart(s, "SrcCancellation") \in Int
        /\ dstNow \in Int /\ DstStart(s, "DstCancellation") \in Int
    BY <1>1, <1>2, <1>4, SwapDates
  <2>4. CASE DstWithdrawn(s)
    <3>1. /\ Revealed(s) /\ ~DstOpen(s)'
          /\ dstNow < DstStart(s, "DstCancellation")
          /\ dstLog'[s]["Withdrawal"] > 0
      BY <1>2, <2>4 DEF DstWithdrawn, Logs, Event, DstOpen
    <3>2. SrcInv(s)' /\ DstInv(s)' /\ MakerInv(s)'
      BY <1>3, <2>1, <2>2, <3>1 DEF SwapInv, SrcInv, DstInv, MakerInv
    \* The clocks are close enough for the taker to be in time on the source.
    <3>3. ASSUME CancelsInTime(s) PROVE srcNow < SrcStart(s, "SrcCancellation")
      <4>1. DstStart(s, "DstCancellation") + Drift <= SrcStart(s, "SrcCancellation")
        BY <3>3 DEF CancelsInTime
      <4>2. srcNow - dstNow <= Drift
        BY <1>1, TimeAssumption DEF Clocks
      <4> QED BY <2>3, <3>1, <4>1, <4>2, TimeAssumption
    <3>4. TakerInv(s)'
      <4>1. SUFFICES ASSUME taker \in honest, CancelsInTime(s)
                     PROVE  \/ srcLog[s]["Withdrawal"] > 0
                            \/ SrcOpen(s) /\ srcNow < SrcStart(s, "SrcCancellation")
        BY <1>3, <2>2 DEF TakerInv
      <4>2. Src!Deployed(s) /\ ~(srcLog[s]["EscrowCancelled"] > 0)
        BY <1>3, <2>1, <2>3, <3>3, <4>1 DEF SwapInv, DstInv, SrcInv
      <4>3. srcLog[s]["EscrowCancelled"] \in Nat /\ srcLog[s]["Withdrawal"] \in Nat
        BY <1>2 DEF Event
      <4> QED BY <3>3, <4>1, <4>2, <4>3 DEF SrcOpen
    <3> QED BY <3>2, <3>4 DEF SwapInv
  <2>5. CASE DstCancelled(s)
    <3>1. /\ dstNow >= DstStart(s, "DstCancellation") /\ ~DstOpen(s)'
          /\ dstLog'[s]["Withdrawal"] = dstLog[s]["Withdrawal"]
      BY <1>2, <2>5 DEF DstCancelled, Logs, Event, DstOpen
    <3> QED BY <1>3, <2>1, <2>2, <2>3, <3>1 DEF SwapInv, SrcInv, DstInv, MakerInv, TakerInv
  <2> QED BY <1>3, <2>4, <2>5
<1> QED BY <1>4, <1>5, <1>6, <1>7 DEF IInv

\* rescueFunds on the source keeps the invariant: it comes after all windows.
LEMMA RescueSrcKeeps ==
  ASSUME IInv, NEW s \in Swap, RescueSrc(s)
  PROVE  IInv'
<1>1. TypeOK /\ Clocks /\ \A u \in Swap : SwapInv(u)
  BY DEF IInv
<1>2. /\ srcNow \in 1 .. Horizon /\ dstNow \in 1 .. Horizon
      /\ srcDeployedAt \in [Swap -> 0 .. Horizon]
      /\ dstDeployedAt \in [Swap -> 0 .. Horizon]
      /\ srcLog \in [Swap -> [Event -> Nat]] /\ dstLog \in [Swap -> [Event -> Nat]]
  BY <1>1, Types
<1>3. /\ UNCHANGED <<srcNow, srcDeployedAt, dstNow, dstDeployedAt, dstBal, dstLog, revealed, honest>>
      /\ Untouched(srcBal, s)
      /\ SameSettlements(srcLog)
      /\ srcNow >= SrcRescueStart(s)
  BY <1>1, SrcRescues DEF dstVars
<1>4. TypeOK'
  BY <1>1, <1>2, <1>3, Types, TypesNext DEF Untouched, SameSettlements
<1>5. Clocks'
  BY <1>1, <1>3 DEF Clocks
<1>6. ASSUME NEW u \in Swap, u # s PROVE SwapInv(u)'
  BY <1>1, <1>2, <1>3, <1>4, <1>6, Bystander DEF Untouched, Revealed, SameSettlements
<1>7. SwapInv(s)'
  <2>1. SwapInv(s)
    BY <1>1
  <2>2. /\ Src!Deployed(s)' = Src!Deployed(s) /\ Dst!Deployed(s)' = Dst!Deployed(s)
        /\ SrcOpen(s)' = SrcOpen(s) /\ Revealed(s)' = Revealed(s)
        /\ SrcStart(s, "SrcCancellation")' = SrcStart(s, "SrcCancellation")
        /\ SrcRescueStart(s)' = SrcRescueStart(s)
        /\ DstStart(s, "DstCancellation")' = DstStart(s, "DstCancellation")
        /\ CancelsInTime(s)' = CancelsInTime(s)
    BY <1>1, <1>3, <1>4, SwapDates
    DEF CancelsInTime, Src!Deployed, Dst!Deployed, SrcOpen, DstOpen, Revealed, SameSettlements
  <2>3. /\ DstOpen(s)' = DstOpen(s)
        /\ srcLog'[s]["Withdrawal"] = srcLog[s]["Withdrawal"]
        /\ srcLog'[s]["EscrowCancelled"] = srcLog[s]["EscrowCancelled"]
    BY <1>3, <2>2 DEF SameSettlements, DstOpen, Dst!Deployed
  <2>4. /\ srcNow \in Int /\ SrcRescueStart(s) \in Int
        /\ dstNow \in Int /\ DstStart(s, "DstCancellation") \in Int
    BY <1>1, <1>2, <1>4, SwapDates, TermsAssumption
  <2> QED BY <1>3, <2>1, <2>2, <2>3, <2>4 DEF SwapInv, SrcInv, DstInv, MakerInv, TakerInv
<1> QED BY <1>4, <1>5, <1>6, <1>7 DEF IInv

\* rescueFunds on the destination keeps the invariant.
LEMMA RescueDstKeeps ==
  ASSUME IInv, NEW s \in Swap, RescueDst(s)
  PROVE  IInv'
<1>1. TypeOK /\ Clocks /\ \A u \in Swap : SwapInv(u)
  BY DEF IInv
<1>2. /\ srcNow \in 1 .. Horizon /\ dstNow \in 1 .. Horizon
      /\ srcDeployedAt \in [Swap -> 0 .. Horizon]
      /\ dstDeployedAt \in [Swap -> 0 .. Horizon]
      /\ srcLog \in [Swap -> [Event -> Nat]] /\ dstLog \in [Swap -> [Event -> Nat]]
  BY <1>1, Types
<1>3. /\ UNCHANGED <<dstNow, dstDeployedAt, srcNow, srcDeployedAt, srcBal, srcLog, revealed, honest>>
      /\ Untouched(dstBal, s)
      /\ SameSettlements(dstLog)
      /\ dstNow >= DstStart(s, "DstCancellation")
  BY <1>1, DstRescues DEF srcVars
<1>4. TypeOK'
  BY <1>1, <1>2, <1>3, Types, TypesNext DEF Untouched, SameSettlements
<1>5. Clocks'
  BY <1>1, <1>3 DEF Clocks
<1>6. ASSUME NEW u \in Swap, u # s PROVE SwapInv(u)'
  BY <1>1, <1>2, <1>3, <1>4, <1>6, Bystander DEF Untouched, Revealed, SameSettlements
<1>7. SwapInv(s)'
  <2>1. SwapInv(s)
    BY <1>1
  <2>2. /\ Src!Deployed(s)' = Src!Deployed(s) /\ Dst!Deployed(s)' = Dst!Deployed(s)
        /\ SrcOpen(s)' = SrcOpen(s) /\ Revealed(s)' = Revealed(s)
        /\ SrcStart(s, "SrcCancellation")' = SrcStart(s, "SrcCancellation")
        /\ SrcRescueStart(s)' = SrcRescueStart(s)
        /\ DstStart(s, "DstCancellation")' = DstStart(s, "DstCancellation")
        /\ CancelsInTime(s)' = CancelsInTime(s)
    BY <1>1, <1>3, <1>4, SwapDates
    DEF CancelsInTime, Src!Deployed, Dst!Deployed, SrcOpen, DstOpen, Revealed, SameSettlements
  <2>3. /\ DstOpen(s)' = DstOpen(s)
        /\ dstLog'[s]["Withdrawal"] = dstLog[s]["Withdrawal"]
        /\ dstLog'[s]["EscrowCancelled"] = dstLog[s]["EscrowCancelled"]
    BY <1>3, <2>2 DEF SameSettlements, DstOpen, Dst!Deployed
  <2>4. /\ srcNow \in Int /\ SrcRescueStart(s) \in Int
        /\ dstNow \in Int /\ DstStart(s, "DstCancellation") \in Int
    BY <1>1, <1>2, <1>4, SwapDates, TermsAssumption
  <2> QED BY <1>3, <2>1, <2>2, <2>3, <2>4 DEF SwapInv, SrcInv, DstInv, MakerInv, TakerInv
<1> QED BY <1>4, <1>5, <1>6, <1>7 DEF IInv

\* Time passes no deadline of an honest party with something left to do.
LEMMA TickKeeps ==
  ASSUME IInv, Tick
  PROVE  IInv'
<1>1. TypeOK /\ Clocks /\ \A u \in Swap : SwapInv(u)
  BY DEF IInv
<1>2. /\ srcNow \in 1 .. Horizon /\ dstNow \in 1 .. Horizon
      /\ srcDeployedAt \in [Swap -> 0 .. Horizon]
      /\ dstDeployedAt \in [Swap -> 0 .. Horizon]
  BY <1>1, Types
<1>3. /\ UNCHANGED <<srcDeployedAt, srcBal, srcLog, dstDeployedAt, dstBal, dstLog, revealed, honest>>
      /\ srcNow' - dstNow' \in -Drift .. Drift
  BY DEF Tick, TickSrc, TickDst, Src!Tick, Dst!Tick, srcVars, dstVars
<1>4. \/ srcNow' = srcNow
      \/ /\ srcNow < Horizon /\ srcNow' = srcNow + 1
         /\ \A u \in Swap : ~TakerMustWithdraw(u) /\ ~MakerMustCancel(u)
  BY DEF Tick, TickSrc, Src!Tick, srcVars
<1>5. \/ dstNow' = dstNow
      \/ /\ dstNow < Horizon /\ dstNow' = dstNow + 1
         /\ \A u \in Swap : ~MakerMustWithdraw(u)
  BY DEF Tick, TickDst, Dst!Tick, dstVars
<1>6. srcNow' \in 1 .. Horizon /\ dstNow' \in 1 .. Horizon
  BY <1>2, <1>4, <1>5, TimeAssumption
<1>7. TypeOK'
  BY <1>1, <1>3, <1>6, Types, TypesNext
<1>8. Clocks'
  BY <1>1, <1>2, <1>3, <1>4, <1>5 DEF Clocks
<1>9. ASSUME NEW u \in Swap PROVE SwapInv(u)'
  <2>1. SwapInv(u)
    BY <1>1
  <2>2. /\ Src!Deployed(u)' = Src!Deployed(u) /\ Dst!Deployed(u)' = Dst!Deployed(u)
        /\ SrcOpen(u)' = SrcOpen(u) /\ DstOpen(u)' = DstOpen(u)
        /\ Revealed(u)' = Revealed(u)
        /\ SrcStart(u, "SrcCancellation")' = SrcStart(u, "SrcCancellation")
        /\ SrcRescueStart(u)' = SrcRescueStart(u)
        /\ DstStart(u, "DstCancellation")' = DstStart(u, "DstCancellation")
        /\ CancelsInTime(u)' = CancelsInTime(u)
    BY <1>1, <1>3, <1>7, SwapDates
    DEF CancelsInTime, Src!Deployed, Dst!Deployed, SrcOpen, DstOpen, Revealed
  <2>3. /\ SrcStart(u, "SrcCancellation") \in Int /\ SrcRescueStart(u) \in Int
        /\ DstStart(u, "DstCancellation") \in Int
    BY <1>1, <1>2, <1>7, SwapDates, TermsAssumption
  <2>4. SrcInv(u)'
    BY <1>2, <1>3, <1>4, <2>1, <2>2, <2>3 DEF SwapInv, SrcInv
  <2>5. DstInv(u)'
    BY <1>2, <1>3, <1>5, <2>1, <2>2, <2>3 DEF SwapInv, DstInv
  <2>6. MakerInv(u)'
    BY <1>2, <1>3, <1>4, <1>5, <2>1, <2>2, <2>3
    DEF SwapInv, MakerInv, MakerMustCancel, MakerMustWithdraw
  <2>7. TakerInv(u)'
    <3>1. taker \in honest /\ dstLog[u]["Withdrawal"] > 0 => Revealed(u)
      BY <2>1 DEF SwapInv, DstInv
    <3> QED BY <1>2, <1>3, <1>4, <2>1, <2>2, <2>3, <3>1 DEF SwapInv, TakerInv, TakerMustWithdraw
  <2> QED BY <2>4, <2>5, <2>6, <2>7 DEF SwapInv
<1> QED BY <1>7, <1>8, <1>9 DEF IInv

\* Every step keeps the invariant.
LEMMA NextIInv == IInv /\ [Next]_vars => IInv'
<1> SUFFICES ASSUME IInv, [Next]_vars PROVE IInv'
  OBVIOUS
<1>1. CASE \E s \in Swap :
             \/ DeploySrc(s) \/ DeployDst(s) \/ SubmitSecret(s)
             \/ SettleSrc(s) \/ SettleDst(s) \/ RescueSrc(s) \/ RescueDst(s)
  BY <1>1, DeploySrcKeeps, DeployDstKeeps, SubmitSecretKeeps, SettleSrcKeeps,
     SettleDstKeeps, RescueSrcKeeps, RescueDstKeeps
<1>2. CASE Tick
  BY <1>2, TickKeeps
<1>3. CASE UNCHANGED vars
  <2>1. TypeOK /\ Clocks /\ \A u \in Swap : SwapInv(u)
    BY DEF IInv
  <2> USE <1>3 DEF vars, srcVars, dstVars
  <2>2. TypeOK'
    BY <2>1, Types, TypesNext
  <2>3. Clocks'
    BY <2>1 DEF Clocks
  <2>4. ASSUME NEW u \in Swap PROVE SwapInv(u)'
    BY <2>1, <2>2, Bystander DEF Revealed
  <2> QED BY <2>2, <2>3, <2>4 DEF IInv
<1> QED BY <1>1, <1>2, <1>3 DEF Next

-----------------------------------------------------------------------------
(* The theorems.                                                            *)

\* Every reachable state, of any number of swaps with any terms and delays, is
\* one the inductive invariant allows.
THEOREM Inductive == Spec => []IInv
<1>1. Init => IInv
  BY InitIInv
<1>2. IInv /\ [Next]_vars => IInv'
  BY NextIInv
<1> QED BY <1>1, <1>2, PTL DEF Spec

\* Every reachable state is well typed: balances never go below zero, clocks
\* and deployment times never leave their range.
THEOREM TypeCorrect == Spec => []TypeOK
<1>1. IInv => TypeOK
  BY DEF IInv
<1> QED BY <1>1, Inductive, PTL

\* A maker that follows the protocol never parts with its tokens unpaid, for
\* any number of swaps and whatever the resolver does (EscrowSrc.sol and
\* EscrowDst.sol together).
THEOREM MakerIsSafe == Spec => []MakerSafe
<1>1. ASSUME IInv PROVE MakerSafe
  <2>1. SUFFICES ASSUME maker \in honest, NEW s \in Swap, SrcTaken(s) PROVE MakerPaid(s)
    BY DEF MakerSafe
  <2>2. TypeOK /\ SwapInv(s)
    BY <1>1 DEF IInv
  <2>3. /\ srcLog[s]["Withdrawal"] \in Nat /\ srcBal[SrcTerms[s].token][s] \in Int
        /\ SrcTerms[s].amount \in Int /\ srcNow \in Int
        /\ srcDeployedAt[s] \in 0 .. Horizon
    BY <2>2, Types, SameTerms DEF Balances, Address, Event, Src!Immutables
  <2>4. SrcRescueStart(s) \in Int
    BY <2>3, SrcDates, TermsAssumption DEF SrcRescueStart, Src!ImmutablesOf
  <2>5. Revealed(s)
    <3>1. CASE srcLog[s]["Withdrawal"] > 0
      BY <2>2, <3>1 DEF SwapInv, SrcInv
    <3>2. CASE srcLog[s]["Withdrawal"] = 0
      <4>1. SrcOpen(s)
        BY <2>1, <3>2 DEF SrcTaken, SrcOpen
      <4> QED BY <2>1, <2>2, <2>3, <2>4, <4>1 DEF SwapInv, SrcInv, MakerInv, SrcTaken
    <3> QED BY <2>3, <3>1, <3>2
  <2> QED BY <2>1, <2>2, <2>5 DEF SwapInv, MakerInv, DstInv, MakerPaid
<1> QED BY <1>1, Inductive, PTL

\* An honest taker that has paid is paid, in every state of the invariant.
LEMMA PaidTakerIsPaid ==
  ASSUME IInv, taker \in honest, NEW s \in Swap, dstLog[s]["Withdrawal"] > 0, CancelsInTime(s)
  PROVE  TakerPaid(s)
<1>1. TypeOK /\ SwapInv(s)
  BY DEF IInv
<1>2. srcDeployedAt[s] \in 0 .. Horizon /\ srcNow \in Int
  BY <1>1, Types
<1>3. /\ SrcStart(s, "SrcCancellation") \in Int /\ SrcRescueStart(s) \in Int
      /\ SrcStart(s, "SrcCancellation") < SrcRescueStart(s)
  <2>1. /\ Delay(s, "SrcCancellation") \in Nat /\ Delay(s, "SrcPublicCancellation") \in Nat
        /\ SrcStart(s, "SrcCancellation") = srcDeployedAt[s] + Delay(s, "SrcCancellation")
        /\ SrcRescueStart(s) = srcDeployedAt[s] + RescueDelaySrc
    BY <1>2, SrcDates DEF SrcStart, SrcRescueStart, Src!ImmutablesOf, Stage
  <2> QED BY <1>2, <2>1, TermsAssumption DEF WellOrdered, Delay
<1> QED BY <1>1, <1>2, <1>3 DEF SwapInv, TakerInv, DstInv, SrcInv, TakerPaid

\* TakerSafe: a resolver that follows the protocol never pays the maker without
\* getting the maker's tokens, whatever the maker does, in a swap whose
\* destination is cancelled earlier than its source by the drift of the clocks.
THEOREM TakerIsSafe == Spec => []TakerSafe
<1>1. IInv => TakerSafe
  BY PaidTakerIsPaid DEF TakerSafe
<1> QED BY <1>1, Inductive, PTL

\* TakerAtomic: if the timestamps of the chains never differ, what
\* createDstEscrow compares is enough for an honest resolver.
THEOREM TakerIsSafeOnOneClock ==
  ASSUME Drift = 0
  PROVE  Spec => []TakerAtomic
<1>1. ASSUME IInv PROVE TakerAtomic
  <2>1. SUFFICES ASSUME taker \in honest, NEW s \in Swap, dstLog[s]["Withdrawal"] > 0
                 PROVE  TakerPaid(s)
    BY DEF TakerAtomic
  <2>2. TypeOK /\ DstInv(s)
    BY <1>1 DEF IInv, SwapInv
  <2>3. Dst!Deployed(s)
    BY <2>1, <2>2 DEF DstInv
  <2>4. DstStart(s, "DstCancellation") <= SrcStart(s, "SrcCancellation")
    BY <2>1, <2>2, <2>3 DEF DstInv
  <2>5. DstStart(s, "DstCancellation") \in Int
    <3>1. dstDeployedAt[s] \in 0 .. Horizon
      BY <2>2, Types
    <3> QED BY <3>1, DstDates DEF DstStart, Dst!ImmutablesOf, Stage
  <2>6. CancelsInTime(s)
    BY <2>4, <2>5 DEF CancelsInTime
  <2> QED BY <1>1, <2>1, <2>6, PaidTakerIsPaid
<1> QED BY <1>1, Inductive, PTL
=============================================================================
