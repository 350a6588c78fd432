--------------------------- MODULE CrossChainSwap ---------------------------
(***************************************************************************)
(* Swaps between a maker on the source chain and a resolver (the taker)    *)
(* that pays on the destination chain.  Each swap has one escrow clone on  *)
(* each chain, under one hashlock.  The chains share nothing but the       *)
(* secrets and the clock on the wall: their block timestamps may be Drift  *)
(* apart.                                                                  *)
(*                                                                         *)
(* An honest party follows the protocol of the SDK's README and of         *)
(* scripts/resolver.ts and gets its calls mined before their deadline.  A  *)
(* dishonest one does whatever the contracts let it do.                    *)
(***************************************************************************)
EXTENDS Timelocks

CONSTANTS
  Swap, Account, Asset, Native, Secret, Keccak,
  SrcTerms,          \* undated immutables of the source clones
  Complement,        \* DstImmutablesComplement of the SrcEscrowCreated events
  SecretOf,          \* the secret the maker drew for a swap
  maker, taker,      \* taker: the Resolver contracts and their owner
  RescueDelaySrc, RescueDelayDst,
  SrcEndowment, DstEndowment,
  Drift,             \* bound on the difference of the block timestamps
  Horizon

VARIABLES
  srcNow, srcDeployedAt, srcBal, srcLog,
  dstNow, dstDeployedAt, dstBal, dstLog,
  revealed,          \* secrets that have left their maker
  honest             \* the parties that follow the protocol

srcVars == <<srcNow, srcDeployedAt, srcBal, srcLog>>
dstVars == <<dstNow, dstDeployedAt, dstBal, dstLog>>
vars == <<srcVars, dstVars, revealed, honest>>

\* withComplement and withTaker: what the resolver makes of the event.
DstTerms ==
  [s \in Swap |-> [SrcTerms[s] EXCEPT
     !.maker = Complement[s].maker, !.token = Complement[s].token,
     !.amount = Complement[s].amount,
     !.safetyDeposit = Complement[s].safetyDeposit, !.taker = taker]]

Src == INSTANCE EscrowSrc WITH
  Clone <- Swap, Terms <- SrcTerms, RescueDelay <- RescueDelaySrc,
  Endowment <- SrcEndowment, Refuses <- {}, Donor <- {},
  now <- srcNow, deployedAt <- srcDeployedAt, bal <- srcBal, log <- srcLog

Dst == INSTANCE EscrowDst WITH
  Clone <- Swap, Terms <- DstTerms, RescueDelay <- RescueDelayDst,
  Endowment <- DstEndowment, Refuses <- {}, Donor <- {},
  now <- dstNow, deployedAt <- dstDeployedAt, bal <- dstBal, log <- dstLog

-----------------------------------------------------------------------------

ASSUME PartiesAssumption ==
  /\ Swap \intersect Account = {}
  /\ maker \in Account /\ taker \in Account /\ maker # taker

\* The order protocol moves the maker's ERC20 tokens, never native currency.
\* The SDK orders the windows; the deployment picks rescue delays that end
\* after them (30 minutes and 7 days in the repository).
ASSUME TermsAssumption ==
  /\ Native \in Asset
  /\ SrcTerms \in [Swap -> Src!Immutables]
  /\ Complement \in [Swap -> [maker : Account, token : Asset, amount : Nat,
                              safetyDeposit : Nat]]
  /\ RescueDelaySrc \in Nat /\ RescueDelayDst \in Nat
  /\ \A s \in Swap :
       /\ SrcTerms[s].maker = maker /\ SrcTerms[s].taker = taker
       /\ SrcTerms[s].token # Native
       /\ WellOrdered(SrcTerms[s].timelocks)
       /\ SrcTerms[s].timelocks.delay["SrcPublicCancellation"] < RescueDelaySrc
       /\ SrcTerms[s].timelocks.delay["DstCancellation"] <= RescueDelayDst

\* Keccak has no collisions and the maker draws a fresh secret for each swap.
ASSUME SecretsAssumption ==
  /\ SecretOf \in [Swap -> Secret]
  /\ \A s, t \in Swap : SecretOf[s] = SecretOf[t] => s = t
  /\ \A s \in Swap : \A x \in Secret :
       Keccak[x] = SrcTerms[s].hashlock <=> x = SecretOf[s]

ASSUME TimeAssumption ==
  /\ Horizon \in Nat \ {0} /\ Horizon < FieldRange
  /\ Drift \in Nat

ASSUME EndowmentAssumption ==
  /\ SrcEndowment \in [Asset -> [Swap \union Account -> Nat]]
  /\ DstEndowment \in [Asset -> [Swap \union Account -> Nat]]

-----------------------------------------------------------------------------

SrcStart(s, stage) == Src!Starts(Src!ImmutablesOf(s), stage)
DstStart(s, stage) == Dst!Starts(Dst!ImmutablesOf(s), stage)
SrcRescueStart(s) == RescueStart(Src!ImmutablesOf(s).timelocks, RescueDelaySrc)

SrcOpen(s) ==
  /\ Src!Deployed(s)
  /\ srcLog[s]["Withdrawal"] = 0
  /\ srcLog[s]["EscrowCancelled"] = 0

DstOpen(s) ==
  /\ Dst!Deployed(s)
  /\ dstLog[s]["Withdrawal"] = 0
  /\ dstLog[s]["EscrowCancelled"] = 0

Revealed(s) == SecretOf[s] \in revealed

Init ==
  /\ Src!ChainInit
  /\ Dst!ChainInit
  /\ revealed = {}
  /\ honest \in SUBSET {maker, taker}

-----------------------------------------------------------------------------

DeploySrc(s) ==
  /\ Src!DeploySrc(s, taker, SrcTerms[s].safetyDeposit)
  /\ UNCHANGED <<dstVars, revealed, honest>>

\* The source cancellation time reported to createDstEscrow: scripts/resolver.ts
\* takes it from the event as it is, another resolver reports what it likes.
ReportedCancellation(s) ==
  IF taker \in honest THEN {SrcStart(s, "SrcCancellation")}
                      ELSE 0 .. 2 * Horizon

\* Resolver.deployDst, with the immutables of the SrcEscrowCreated event.
DeployDst(s) ==
  /\ Src!Deployed(s)
  /\ \E time \in ReportedCancellation(s) : Dst!CreateDstEscrow(s, taker, time)
  /\ UNCHANGED <<srcVars, revealed, honest>>

\* Both escrows are there and the maker can still collect on the destination.
ReadyToAcceptSecret(s) ==
  /\ SrcOpen(s)
  /\ DstOpen(s)
  /\ dstNow < DstStart(s, "DstCancellation")

\* submitSecret.  A maker that is not honest may let the secret go any time,
\* a call that reverts included: its argument is there for all to read.
SubmitSecret(s) ==
  /\ maker \in honest => ReadyToAcceptSecret(s)
  /\ revealed' = revealed \union {SecretOf[s]}
  /\ UNCHANGED <<srcVars, dstVars, honest>>

\* An honest taker does not withdraw into a clone.
Targets == IF taker \in honest THEN Account ELSE Src!Address

\* Whoever wants to settle a clone, in its own name or through the Resolver
\* contract, whose withdraw and cancel are open to everybody.
SettleSrc(s) == Src!Settle(s, revealed, Targets) /\ UNCHANGED <<dstVars, revealed, honest>>
SettleDst(s) == Dst!Settle(s, revealed) /\ UNCHANGED <<srcVars, revealed, honest>>
RescueSrc(s) == Src!Rescue(s) /\ UNCHANGED <<dstVars, revealed, honest>>
RescueDst(s) == Dst!Rescue(s) /\ UNCHANGED <<srcVars, revealed, honest>>

-----------------------------------------------------------------------------
(* What an honest party still has to do on a chain before its next second.  *)

TakerMustWithdraw(s) ==
  /\ taker \in honest
  /\ Revealed(s)
  /\ SrcOpen(s)
  /\ srcNow + 1 = SrcStart(s, "SrcCancellation")

MakerMustCancel(s) ==
  /\ maker \in honest
  /\ ~Revealed(s)
  /\ SrcOpen(s)
  /\ srcNow + 1 = SrcRescueStart(s)

MakerMustWithdraw(s) ==
  /\ maker \in honest
  /\ Revealed(s)
  /\ DstOpen(s)
  /\ dstNow + 1 = DstStart(s, "DstCancellation")

TickSrc ==
  /\ \A s \in Swap : ~TakerMustWithdraw(s) /\ ~MakerMustCancel(s)
  /\ Src!Tick

TickDst ==
  /\ \A s \in Swap : ~MakerMustWithdraw(s)
  /\ Dst!Tick

\* Time passes on either chain or on both.
Tick ==
  /\ \/ TickSrc /\ UNCHANGED dstVars
     \/ TickDst /\ UNCHANGED srcVars
     \/ TickSrc /\ TickDst
  /\ srcNow' - dstNow' \in -Drift .. Drift
  /\ UNCHANGED <<revealed, honest>>

Next ==
  \/ \E s \in Swap :
       \/ DeploySrc(s) \/ DeployDst(s) \/ SubmitSecret(s)
       \/ SettleSrc(s) \/ SettleDst(s) \/ RescueSrc(s) \/ RescueDst(s)
  \/ Tick

Spec == Init /\ [][Next]_vars

\* The calls an honest party makes for its own sake: it collects with a secret
\* that is out, and takes back what is due to it.
MakerActs(s) ==
  /\ maker \in honest
  /\ \/ /\ Src!PublicCancel(s, Src!ImmutablesOf(s), maker)
        /\ UNCHANGED <<dstVars, revealed, honest>>
     \/ /\ \E x \in revealed : Dst!PublicWithdraw(s, Dst!ImmutablesOf(s), maker, x)
        /\ UNCHANGED <<srcVars, revealed, honest>>

TakerActs(s) ==
  /\ taker \in honest
  /\ \/ /\ \/ \E x \in revealed :
                Src!WithdrawTo(s, Src!ImmutablesOf(s), taker, x, taker)
           \/ Src!Cancel(s, Src!ImmutablesOf(s), taker)
           \/ Src!Rescue(s)
        /\ UNCHANGED <<dstVars, revealed, honest>>
     \/ /\ Dst!Cancel(s, Dst!ImmutablesOf(s), taker) \/ Dst!Rescue(s)
        /\ UNCHANGED <<srcVars, revealed, honest>>

\* Blocks are produced and honest parties do not fall asleep.
FairSpec ==
  /\ Spec
  /\ WF_vars(Tick)
  /\ \A s \in Swap : WF_vars(MakerActs(s)) /\ WF_vars(TakerActs(s))

-----------------------------------------------------------------------------

TypeOK ==
  /\ Src!ChainTypeOK
  /\ Dst!ChainTypeOK
  /\ revealed \in SUBSET Secret
  /\ honest \in SUBSET {maker, taker}

\* What the maker was promised on the destination: it has been paid, or its
\* payment is there for the asking.
MakerPaid(s) ==
  \/ dstLog[s]["Withdrawal"] > 0
  \/ /\ Revealed(s)
     /\ DstOpen(s)
     /\ dstNow < DstStart(s, "DstCancellation")
     /\ dstBal[DstTerms[s].token][s] >= DstTerms[s].amount

\* What the taker was promised on the source: likewise.
TakerPaid(s) ==
  \/ srcLog[s]["Withdrawal"] > 0
  \/ /\ Revealed(s)
     /\ SrcOpen(s)
     /\ srcNow < SrcStart(s, "SrcCancellation")
     /\ srcBal[SrcTerms[s].token][s] >= SrcTerms[s].amount

\* The taker has taken the maker's tokens out of the source clone.
SrcTaken(s) ==
  /\ Src!Deployed(s)
  /\ srcLog[s]["EscrowCancelled"] = 0
  /\ srcBal[SrcTerms[s].token][s] < SrcTerms[s].amount

\* An honest maker never parts with its tokens unpaid, whatever the taker does.
MakerSafe == maker \in honest => \A s \in Swap : SrcTaken(s) => MakerPaid(s)

\* On the wall's clock the destination is cancelled before the source.
CancelsInTime(s) ==
  DstStart(s, "DstCancellation") + Drift <= SrcStart(s, "SrcCancellation")

\* An honest taker never pays on the destination without getting the source
\* tokens, whatever the maker does, in a swap whose destination is cancelled
\* before its source by the Drift of the clocks.
TakerSafe ==
  taker \in honest =>
    \A s \in Swap : dstLog[s]["Withdrawal"] > 0 /\ CancelsInTime(s) => TakerPaid(s)

\* The swap is atomic for an honest taker: createDstEscrow alone, which compares
\* the cancellation times of the two chains, sees to that.
TakerAtomic ==
  taker \in honest =>
    \A s \in Swap : dstLog[s]["Withdrawal"] > 0 => TakerPaid(s)

SrcHolds(s) == Src!Deployed(s) /\ srcBal[SrcTerms[s].token][s] >= SrcTerms[s].amount
DstHolds(s) == Dst!Deployed(s) /\ dstBal[DstTerms[s].token][s] >= DstTerms[s].amount

\* Nobody who follows the protocol is left with locked funds: the maker's tokens
\* leave the source clone or the maker is paid, and what an honest taker has
\* claims to leaves both clones.  (Windows beyond the Horizon are left out.)
NothingStaysLocked ==
  \A s \in Swap :
    /\ maker \in honest /\ SrcHolds(s) /\ SrcStart(s, "SrcPublicCancellation") <= Horizon
         ~> \/ ~SrcHolds(s)
            \/ dstLog[s]["Withdrawal"] > 0
            \/ Dst!Deployed(s) /\ DstStart(s, "DstCancellation") > Horizon
    /\ taker \in honest /\ SrcHolds(s) /\ SrcStart(s, "SrcCancellation") <= Horizon
         ~> ~SrcHolds(s)
    /\ taker \in honest /\ DstHolds(s) /\ DstStart(s, "DstCancellation") <= Horizon
         ~> ~DstHolds(s)

\* Time is held only for a call that the contracts let the party make.
DutiesCanBeDone ==
  \A s \in Swap :
    /\ TakerMustWithdraw(s) =>
         ENABLED Src!WithdrawTo(s, Src!ImmutablesOf(s), taker, SecretOf[s], taker)
    /\ MakerMustCancel(s) => ENABLED Src!PublicCancel(s, Src!ImmutablesOf(s), maker)
    /\ MakerMustWithdraw(s) =>
         ENABLED Dst!PublicWithdraw(s, Dst!ImmutablesOf(s), maker, SecretOf[s])
=============================================================================
