------------------------------ MODULE EscrowDst ------------------------------
(***************************************************************************)
(* The escrows of the destination chain (EscrowDst.sol) and the            *)
(* transaction that creates one, BaseEscrowFactory.createDstEscrow.        *)
(*                                                                         *)
(*  created - finality - PRIVATE WITHDRAWAL - PUBLIC WITHDRAWAL -          *)
(*            PRIVATE CANCELLATION                                         *)
(***************************************************************************)
EXTENDS BaseEscrow

\* createDstEscrow, called by a payer that has approved the factory.  The
\* time of the source cancellation is what the caller says it is.
CreateDstEscrow(c, payer, srcCancellationTimestamp) ==
  LET im == Dated(c, now)
      b1 == Pay(bal, Native, payer, c, im.safetyDeposit)
  IN  /\ ~Deployed(c)
      /\ Starts(im, "DstCancellation") <= srcCancellationTimestamp
      /\ CanPay(bal, Native, payer, c, im.safetyDeposit)
      /\ CanPay(b1, im.token, payer, c, im.amount)
      /\ deployedAt' = [deployedAt EXCEPT ![c] = now]
      /\ bal' = Pay(b1, im.token, payer, c, im.amount)
      /\ UNCHANGED <<now, log>>

-----------------------------------------------------------------------------

\* The result of a native transfer to the maker is not looked at.
AfterMakerPaid(c, im) ==
  IF im.token = Native /\ ~CanPay(bal, Native, c, im.maker, im.amount)
    THEN bal
    ELSE Pay(bal, im.token, c, im.maker, im.amount)

\* _withdraw
PayWithdrawal(c, im, caller, secret) ==
  /\ OnlyValidImmutables(c, im)
  /\ OnlyValidSecret(secret, im)
  /\ im.token # Native => CanPay(bal, im.token, c, im.maker, im.amount)
  /\ PayDeposit(AfterMakerPaid(c, im), c, im, caller)
  /\ Emit(c, "Withdrawal")
  /\ UNCHANGED <<now, deployedAt>>

Withdraw(c, im, caller, secret) ==
  /\ OnlyTaker(caller, im)
  /\ OnlyAfter(Starts(im, "DstWithdrawal"))
  /\ OnlyBefore(Starts(im, "DstCancellation"))
  /\ PayWithdrawal(c, im, caller, secret)

\* Mutant: the public window does not end.
PublicWithdrawLate(c, im, caller, secret) ==
  /\ OnlyAfter(Starts(im, "DstPublicWithdrawal"))
  /\ PayWithdrawal(c, im, caller, secret)

PublicWithdraw(c, im, caller, secret) ==
  /\ OnlyAfter(Starts(im, "DstPublicWithdrawal"))
  /\ OnlyBefore(Starts(im, "DstCancellation"))
  /\ PayWithdrawal(c, im, caller, secret)

\* Mutant: anybody may cancel, and earns the safety deposit.
CancelByAnyone(c, im, caller) ==
  /\ OnlyValidImmutables(c, im)
  /\ OnlyAfter(Starts(im, "DstCancellation"))
  /\ CanPay(bal, im.token, c, im.taker, im.amount)
  /\ PayDeposit(Pay(bal, im.token, c, im.taker, im.amount), c, im, caller)
  /\ Emit(c, "EscrowCancelled")
  /\ UNCHANGED <<now, deployedAt>>

Cancel(c, im, caller) ==
  /\ OnlyTaker(caller, im)
  /\ OnlyValidImmutables(c, im)
  /\ OnlyAfter(Starts(im, "DstCancellation"))
  /\ CanPay(bal, im.token, c, im.taker, im.amount)
  /\ PayDeposit(Pay(bal, im.token, c, im.taker, im.amount), c, im, caller)
  /\ Emit(c, "EscrowCancelled")
  /\ UNCHANGED <<now, deployedAt>>

-----------------------------------------------------------------------------

\* A settling call of any account, with any of the `secrets` it may have
\* heard of and the immutables of any clone.
Settle(c, secrets) ==
  \E im \in {ImmutablesOf(d) : d \in Clone}, caller \in Caller :
    \/ \E x \in secrets : Withdraw(c, im, caller, x)
    \/ \E x \in secrets : PublicWithdraw(c, im, caller, x)
    \/ Cancel(c, im, caller)

Rescue(c) ==
  \E im \in {ImmutablesOf(d) : d \in Clone}, caller \in Caller, asset \in Asset :
    \E n \in 1 .. bal[asset][c] : RescueFunds(c, im, caller, asset, n)

-----------------------------------------------------------------------------
(* The chain on its own, in an environment that knows every secret.         *)

Next ==
  \/ \E c \in Clone :
       \/ \E time \in 1 .. Horizon : CreateDstEscrow(c, Terms[c].taker, time)
       \/ Settle(c, Secret)
       \/ Rescue(c)
       \/ \E a \in Donor, asset \in Asset : Donate(a, c, asset, 1)
  \/ Tick

Spec == ChainInit /\ [][Next]_chainVars

-----------------------------------------------------------------------------

Lost(c, asset) == bal[asset][c] - bal'[asset][c]

Gains(a, asset, n) == bal'[asset][a] >= bal[asset][a] + n

Withdrawn(c, im) ==
  /\ now >= Starts(im, "DstWithdrawal")
  /\ now < Starts(im, "DstCancellation")
  /\ IF Accepts(im.token, im.maker) THEN Gains(im.maker, im.token, im.amount)
                                     ELSE Lost(c, Native) <= im.safetyDeposit
  /\ now < Starts(im, "DstPublicWithdrawal")
       => Gains(im.taker, Native, im.safetyDeposit)

Refunded(c, im) ==
  /\ now >= Starts(im, "DstCancellation")
  /\ Gains(im.taker, im.token, im.amount)
  /\ Gains(im.taker, Native, im.safetyDeposit)

Rescued(c, im) ==
  /\ now >= RescueStart(im.timelocks, RescueDelay)
  /\ \A asset \in Asset : Gains(im.taker, asset, Lost(c, asset))

\* The assets in a clone move only to the maker inside the withdrawal window,
\* or back to the taker from the cancellation on, or to the taker once the
\* rescue delay is over; the taker alone is paid for calls in private windows.
\* Of what a maker refuses a withdrawal takes no more than a deposit.
OutflowJustified ==
  [][\A c \in Clone : (\E asset \in Asset : Lost(c, asset) > 0) =>
       LET im == ImmutablesOf(c)
       IN  Withdrawn(c, im) \/ Refunded(c, im) \/ Rescued(c, im)]_chainVars

\* Clones whose maker takes what it is owed.
Accepted == {c \in Clone : Accepts(Terms[c].token, Terms[c].maker)}

\* Seen from far enough a clone is a hash timelock: it pays out once, to the
\* maker before its cancellation time or to the taker from then on.  That is not
\* so of a maker that refuses its payment, whose clone pays deposits as long as
\* the amount covers them.
Leg == INSTANCE HashTimelock WITH
  Leg     <- Accepted,
  locked  <- {c \in Accepted : Deployed(c)},
  expired <- {c \in Accepted : Deployed(c) /\ now >= Starts(ImmutablesOf(c), "DstCancellation")},
  claims  <- [c \in Accepted |-> log[c]["Withdrawal"]],
  refunds <- [c \in Accepted |-> log[c]["EscrowCancelled"]]

SettlesAsHashTimelock == Leg!Spec
=============================================================================
