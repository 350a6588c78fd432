------------------------------ MODULE EscrowSrc ------------------------------
(***************************************************************************)
(* The escrows of the source chain (EscrowSrc.sol) and the transaction     *)
(* that creates one: a fill of the maker's order through the limit order   *)
(* protocol, which ends in BaseEscrowFactory._postInteraction.             *)
(*                                                                         *)
(*  created - finality - PRIVATE WITHDRAWAL - PUBLIC WITHDRAWAL -          *)
(*            PRIVATE CANCELLATION - PUBLIC CANCELLATION                   *)
(***************************************************************************)
EXTENDS BaseEscrow

\* Resolver.deploySrc: send the safety deposit to the address the clone will
\* have, fill the order with that address as target (the protocol moves the
\* maker's tokens), create the clone, check what has arrived.  A fill that
\* does not go through the Resolver contract may send no deposit (`sent` = 0).
\* The protocol moves ERC20 tokens only.
DeploySrc(c, payer, sent) ==
  LET im == Dated(c, now)
      b1 == Pay(bal, Native, payer, c, sent)
      b2 == Pay(b1, im.token, im.maker, c, im.amount)
  IN  /\ ~Deployed(c)
      /\ im.token # Native
      /\ CanPay(bal, Native, payer, c, sent)
      /\ CanPay(b1, im.token, im.maker, c, im.amount)
      /\ b2[Native][c] >= im.safetyDeposit
      /\ b2[im.token][c] >= im.amount
      /\ deployedAt' = [deployedAt EXCEPT ![c] = now]
      /\ bal' = b2
      /\ UNCHANGED <<now, log>>

-----------------------------------------------------------------------------

\* _withdrawTo
PayWithdrawal(c, im, caller, secret, target) ==
  /\ OnlyValidImmutables(c, im)
  /\ OnlyValidSecret(secret, im)
  /\ CanPay(bal, im.token, c, target, im.amount)
  /\ PayDeposit(Pay(bal, im.token, c, target, im.amount), c, im, caller)
  /\ Emit(c, "Withdrawal")
  /\ UNCHANGED <<now, deployedAt>>

\* Mutant: the private window does not end.
WithdrawToLate(c, im, caller, secret, target) ==
  /\ OnlyTaker(caller, im)
  /\ OnlyAfter(Starts(im, "SrcWithdrawal"))
  /\ PayWithdrawal(c, im, caller, secret, target)

\* withdraw is withdrawTo with the caller as target.
WithdrawTo(c, im, caller, secret, target) ==
  /\ OnlyTaker(caller, im)
  /\ OnlyAfter(Starts(im, "SrcWithdrawal"))
  /\ OnlyBefore(Starts(im, "SrcCancellation"))
  /\ PayWithdrawal(c, im, caller, secret, target)

PublicWithdraw(c, im, caller, secret) ==
  /\ OnlyAfter(Starts(im, "SrcPublicWithdrawal"))
  /\ OnlyBefore(Starts(im, "SrcCancellation"))
  /\ PayWithdrawal(c, im, caller, secret, im.taker)

\* _cancel
PayCancellation(c, im, caller) ==
  /\ OnlyValidImmutables(c, im)
  /\ CanPay(bal, im.token, c, im.maker, im.amount)
  /\ PayDeposit(Pay(bal, im.token, c, im.maker, im.amount), c, im, caller)
  /\ Emit(c, "EscrowCancelled")
  /\ UNCHANGED <<now, deployedAt>>

Cancel(c, im, caller) ==
  /\ OnlyTaker(caller, im)
  /\ OnlyAfter(Starts(im, "SrcCancellation"))
  /\ PayCancellation(c, im, caller)

\* Mutant: the public cancellation keeps the guard of the private one.
PublicCancelByTaker(c, im, caller) ==
  /\ OnlyTaker(caller, im)
  /\ OnlyAfter(Starts(im, "SrcPublicCancellation"))
  /\ PayCancellation(c, im, caller)

\* Mutant: the public cancellation waits for the public withdrawal only.
PublicCancelEarly(c, im, caller) ==
  /\ OnlyAfter(Starts(im, "SrcPublicWithdrawal"))
  /\ PayCancellation(c, im, caller)

PublicCancel(c, im, caller) ==
  /\ OnlyAfter(Starts(im, "SrcPublicCancellation"))
  /\ PayCancellation(c, im, caller)

-----------------------------------------------------------------------------

\* A settling call of any account, with any of the `secrets` it may have
\* heard of and the immutables of any clone.  The taker names the target of a
\* withdrawal: any address, another clone or this one included.
Settle(c, secrets, targets) ==
  \E im \in {ImmutablesOf(d) : d \in Clone}, caller \in Caller :
    \/ \E x \in secrets, target \in targets : WithdrawTo(c, im, caller, x, target)
    \/ \E x \in secrets : PublicWithdraw(c, im, caller, x)
    \/ Cancel(c, im, caller)
    \/ PublicCancel(c, im, caller)

Rescue(c) ==
  \E im \in {ImmutablesOf(d) : d \in Clone}, caller \in Caller, asset \in Asset :
    \E n \in 1 .. bal[asset][c] : RescueFunds(c, im, caller, asset, n)

-----------------------------------------------------------------------------
(* The chain on its own, in an environment that knows every secret.         *)

Next ==
  \/ \E c \in Clone :
       \/ \E sent \in {0, Terms[c].safetyDeposit} : DeploySrc(c, Terms[c].taker, sent)
       \/ Settle(c, Secret, Address)
       \/ Rescue(c)
       \/ \E a \in Donor, asset \in Asset : Donate(a, c, asset, 1)
  \/ Tick

Spec == ChainInit /\ [][Next]_chainVars

-----------------------------------------------------------------------------
(* Tokens leave a clone for three reasons only, each judged by the          *)
(* immutables the clone was created with and not by those a call brings.    *)

Lost(c) == bal[Terms[c].token][c] - bal'[Terms[c].token][c]

Gains(a, asset, n) == bal'[asset][a] >= bal[asset][a] + n

Withdrawn(c, im) ==
  /\ now >= Starts(im, "SrcWithdrawal")
  /\ now < Starts(im, "SrcCancellation")
  /\ Lost(c) = im.amount
  /\ now < Starts(im, "SrcPublicWithdrawal")
       => Gains(im.taker, Native, im.safetyDeposit)

Refunded(c, im) ==
  /\ now >= Starts(im, "SrcCancellation")
  /\ Lost(c) = im.amount
  /\ Gains(im.maker, im.token, im.amount)
  /\ now < Starts(im, "SrcPublicCancellation")
       => Gains(im.taker, Native, im.safetyDeposit)

Rescued(c, im) ==
  /\ now >= RescueStart(im.timelocks, RescueDelay)
  /\ Gains(im.taker, im.token, Lost(c))

\* The tokens in a clone move only inside its withdrawal window, or back to
\* the maker from its cancellation on, or to the taker once the rescue delay
\* is over; in the private windows the deposit goes to the taker alone.
OutflowJustified ==
  [][\A c \in Clone : Lost(c) > 0 =>
       LET im == ImmutablesOf(c)
       IN  Withdrawn(c, im) \/ Refunded(c, im) \/ Rescued(c, im)]_chainVars

\* Seen from far enough a clone is a hash timelock: it pays out once, to the
\* withdrawing side before its cancellation time or to the maker from then on.
Leg == INSTANCE HashTimelock WITH
  Leg     <- Clone,
  locked  <- {c \in Clone : Deployed(c)},
  expired <- {c \in Clone : Deployed(c) /\ now >= Starts(ImmutablesOf(c), "SrcCancellation")},
  claims  <- [c \in Clone |-> log[c]["Withdrawal"]],
  refunds <- [c \in Clone |-> log[c]["EscrowCancelled"]]

SettlesAsHashTimelock == Leg!Spec
=============================================================================
