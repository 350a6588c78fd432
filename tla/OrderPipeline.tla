---------------------------- MODULE OrderPipeline ----------------------------
(***************************************************************************)
(* One order from the quote to its escrows.  The maker's SDK asks for a    *)
(* quote, builds the order, signs it and hands it to the relayer; the      *)
(* resolver's SDK reads it back, has the escrow of the source chain        *)
(* deployed by a fill, learns its event and deploys the other escrow.      *)
(* The contracts compute the same things from the encoded order: what is   *)
(* checked is that both sides mean the same.                               *)
(* An SDK call that throws and a transaction that reverts change nothing.  *)
(***************************************************************************)
EXTENDS Quoter, FiniteSets

CONSTANTS
  Requests,      \* what makers ask quotes for
  CustomPresets, \* the presets makers make up
  Responses,     \* what the quoter answers
  Receivers, FillAmounts,
  SrcResolver, DstResolver,      \* the Resolver contracts
  SrcImpl, DstImpl, DstFactory,  \* implementations and factory on the chains
  Start, Horizon                 \* bounds of the clock

ASSUME AnswersAssumption ==
  Responses \subseteq QuoterResponse /\ CustomPresets \subseteq CustomPreset
ASSUME AmountsAssumption == FillAmounts \subseteq Nat \ {0}
ASSUME ClockAssumption == Start \in Nat /\ Horizon \in Nat /\ Start <= Horizon

VARIABLES
  now,      \* time of the blocks and of the clients
  stage,    \* how far the order has come
  quote,    \* Quote: the request and the response it came with
  secrets,  \* how many secrets the maker drew
  params,   \* OrderParams, and what is drawn at random
  order,    \* CrossChainOrder of the maker
  relayed,  \* what the relayer was given
  read,     \* CrossChainOrder that the resolver made of it
  src, dst  \* the two clones

vars == << now, stage, quote, secrets, params, order, relayed, read, src, dst >>

Init ==
  /\ now = Start /\ stage = "idle"
  /\ quote = <<>> /\ secrets = 0 /\ params = <<>> /\ order = <<>>
  /\ relayed = <<>> /\ read = <<>> /\ src = <<>> /\ dst = <<>>

Tick ==
  /\ now < Horizon
  /\ now' = now + 1
  /\ UNCHANGED << stage, quote, secrets, params, order, relayed, read, src, dst >>

(* The maker *)
GetQuote ==
  /\ stage = "idle"
  /\ \E request \in Requests, response \in Responses :
       /\ QuoterRequestOK(request)
       /\ quote' = [request |-> request, response |-> response]
  /\ stage' = "quoted"
  /\ UNCHANGED << now, secrets, params, order, relayed, read, src, dst >>

\* The quoter adds the preset it was sent to its answer.
GetQuoteWithCustomPreset ==
  /\ stage = "idle"
  /\ \E request \in Requests, response \in Responses, custom \in CustomPresets :
       /\ QuoterRequestOK(request)
       /\ CustomPresetOK(custom)
       /\ quote' = [request |-> request,
                    response |-> [response EXCEPT !.presets =
                      [t \in {"fast", "slow", "custom"} |->
                        IF t = "custom"
                        THEN [response.presets["fast"] EXCEPT
                                !.auctionEndAmount = custom.auctionEndAmount]
                        ELSE response.presets[t]]]]
  /\ stage' = "quoted"
  /\ UNCHANGED << now, secrets, params, order, relayed, read, src, dst >>

Hashes(n) == [i \in 1 .. n |-> HashSecret(i)]

\* The recipe of the SDK's README: as many secrets as the preset says.
LockOf(n) ==
  IF n = 1 THEN ForSingleFill(1)
  ELSE ForMultipleFills(GetMerkleLeavesFromSecretHashes(Hashes(n)))

\* The maker draws secrets for one preset and builds the order of that or, when
\* it leaves the preset out, of the recommended one.
MakeOrder ==
  /\ stage = "quoted"
  /\ \E type \in {"fast", "slow", "custom"}, receiver \in Receivers, leftOut \in BOOLEAN :
       /\ HasPreset(quote, type)
       /\ LET n == GetPreset(quote, type).secretsCount
              p == [preset |-> IF leftOut THEN quote.response.recommendedPreset ELSE type,
                    hashLock |-> LockOf(n), receiver |-> receiver,
                    nonce |-> 0, random |-> 7, salt |-> 3]
          IN /\ n # 1 => EnoughLeaves(GetMerkleLeavesFromSecretHashes(Hashes(n)))
             /\ CreateOrderOK(quote, p)
             /\ secrets' = n
             /\ params' = p
             /\ order' = CreateOrder(quote, p, now)
  /\ stage' = "created"
  /\ UNCHANGED << now, quote, relayed, read, src, dst >>

\* The hashes are an argument of their own: all of them, or one.
SubmitOrder ==
  /\ stage = "created"
  /\ \E n \in {1, secrets} :
       /\ SubmitOrderOK(order, Hashes(n))
       /\ relayed' = [srcChainId |-> quote.request.srcChain,
                      struct |-> BuildOrder(order), extension |-> BuildExtension(order.ext),
                      signature |-> GetOrderHash(order, quote.request.srcChain),
                      secretHashes |-> SecretHashesSent(Hashes(n))]
  /\ stage' = "relayed"
  /\ UNCHANGED << now, quote, secrets, params, order, read, src, dst >>

(* The resolver *)
ReadOrder ==
  /\ stage = "relayed"
  /\ read' = FromDataAndExtension(relayed.struct, relayed.extension)
  /\ stage' = "read"
  /\ UNCHANGED << now, quote, secrets, params, order, relayed, src, dst >>

\* The part of the order that a first fill uncovers (see MultipleFills).
FirstIdx(amount) ==
  LET parts == GetPartsCount(read.ext.hashLock)
      idx == ((amount - 1) * parts) \div read.makingAmount
  IN IF amount = read.makingAmount THEN idx + 1 ELSE idx

\* The hash lock a resolver may pass: none, that of the secret the part needs,
\* as the tests do, or the leaf of the tree, as a comment has it.
LockFor(kind, amount) ==
  CASE kind = "default" -> read.ext.hashLock
    [] kind = "secretHash" -> relayed.secretHashes[FirstIdx(amount) + 1]
    [] kind = "leaf" -> read.ext.hashLock[3][FirstIdx(amount) + 1]

Kinds == IF read.multiple /\ IsRoot(read.ext.hashLock)
         THEN {"default", "secretHash", "leaf"} ELSE {"default"}

(* The contracts of the source chain, given the encoded order *)
\* Mutant: the leaf of the tree locks the escrow.
ValidatedLeafOfTree(struct, extra, amount) ==
  IF struct.traits.multiple THEN extra.hashLock[3][FirstIdx(amount) + 1]
  ELSE extra.hashLock

\* hashlock of _postInteraction: what the proof of a leaf was last validated for.
ValidatedLeaf(struct, extra, amount) ==
  IF struct.traits.multiple THEN relayed.secretHashes[FirstIdx(amount) + 1]
  ELSE extra.hashLock

TakingAmount(struct, amount) ==
  (amount * struct.takingAmount + struct.makingAmount - 1) \div struct.makingAmount

\* setDeployedAt of the contracts, on the word.
DatedWord(word, time) == BuildTimeLocks(SetDeployedAt(TimeLocksFromBigInt(word), time))

\* How a chain computes the address of a clone; zkSync has a way of its own.
CreatedAs(chain) == IF chain = "zksync" THEN "zksync" ELSE "create2"

SrcImmutables(struct, extension, amount) ==
  [orderHash |-> << relayed.srcChainId, LimitOrderProtocol[relayed.srcChainId], struct >>,
   hashLock |-> ValidatedLeaf(struct, extension.extra, amount),
   maker |-> struct.maker, taker |-> SrcResolver, token |-> struct.makerAsset,
   amount |-> amount, safetyDeposit |-> extension.extra.deposits \div Half,
   timeLocks |-> DatedWord(extension.extra.timelocks, now)]

\* Mutant: the complement repeats the deposit of the source.
DstComplementSrcDeposit(struct, extension, amount) ==
  [maker |-> IF struct.receiver = "zero" THEN struct.maker ELSE struct.receiver,
   amount |-> TakingAmount(struct, amount), token |-> extension.extra.dstToken,
   safetyDeposit |-> extension.extra.deposits \div Half]

DstComplement(struct, extension, amount) ==
  [maker |-> IF struct.receiver = "zero" THEN struct.maker ELSE struct.receiver,
   amount |-> TakingAmount(struct, amount), token |-> extension.extra.dstToken,
   safetyDeposit |-> extension.extra.deposits % Half]

\* takerInteraction: the hash of the secret is in the tree, at its place.
ProofHolds(lock, idx) ==
  IsRoot(lock) /\ lock[3][idx + 1] = << "leaf", idx, relayed.secretHashes[idx + 1] >>

\* What the protocol and the factory ask before they deploy the clone.
Fillable(struct, extension, amount) ==
  /\ GetOrderHash(read, relayed.srcChainId) = relayed.signature
  /\ now <= struct.traits.expiration
  /\ amount <= struct.makingAmount
  /\ ~struct.traits.partial => amount = struct.makingAmount
  /\ struct.traits.multiple => /\ GetPartsCount(extension.extra.hashLock) >= 2
                               /\ ProofHolds(extension.extra.hashLock, FirstIdx(amount))
  /\ \E w \in extension.fusion.whitelist : w.address = SrcResolver /\ w.allowFrom <= now

\* Resolver.deploySrc funds the clone that follows from the SDK's immutables; the
\* fill holds only if the factory deploys that very clone.
Funds(kind, amount) ==
  LET struct    == BuildOrder(read)
      extension == BuildExtension(read.ext)
      i         == BuildImmutables(ToSrcImmutables(read, relayed.srcChainId, SrcResolver,
                                                   amount, LockFor(kind, amount)))
  IN /\ ToSrcImmutablesOK(read, amount, kind # "default")
     /\ Fillable(struct, extension, amount)
     /\ [i EXCEPT !.timeLocks = DatedWord(i.timeLocks, now)]
          = SrcImmutables(struct, extension, amount)

DeploySrc(kind, amount) ==
  /\ stage = "read"
  /\ kind \in Kinds
  /\ Funds(kind, amount)
  /\ LET struct    == BuildOrder(read)
         extension == BuildExtension(read.ext)
         salt      == SrcImmutables(struct, extension, amount)
     IN src' = [immutables |-> salt, complement |-> DstComplement(struct, extension, amount),
                at |-> now,
                address |-> << CreatedAs(relayed.srcChainId), read.ext.fusion.factory,
                               salt, SrcImpl >>]
  /\ stage' = "src"
  /\ UNCHANGED << now, quote, secrets, params, order, relayed, read, dst >>

\* getSrcDeployEvent: the immutables and the complement of the event.
SrcDeployEvent ==
  NewImmutables([src.immutables EXCEPT !.timeLocks = TimeLocksFromBigInt(@)])

\* nativeAmount of createDstEscrow.
NativeAmount(i) == i.safetyDeposit + (IF i.token = "zero" THEN i.amount ELSE 0)

\* The resolver sends the safety deposit and no more, so that a clone which would
\* hold native tokens is refused (see NativeAmount).
DeployDst ==
  /\ stage = "src"
  /\ LET dstImmutables == WithTaker(WithComplement(SrcDeployEvent, src.complement), DstResolver)
         i      == BuildImmutables(dstImmutables)
         salt   == [i EXCEPT !.timeLocks = DatedWord(i.timeLocks, now)]
     IN /\ SrcTimeLocksOK(dstImmutables.timeLocks)
        /\ dstImmutables.safetyDeposit = NativeAmount(i)
        /\ StageStart(TimeLocksFromBigInt(salt.timeLocks), "DstCancellation")
             <= StageStart(dstImmutables.timeLocks, "SrcCancellation")
        /\ dst' = [immutables |-> salt, at |-> now,
                   address |-> << CreatedAs(quote.request.dstChain), DstFactory, salt, DstImpl >>]
  /\ stage' = "dst"
  /\ UNCHANGED << now, quote, secrets, params, order, relayed, read, src >>

Next ==
  \/ Tick
  \/ GetQuote
  \/ GetQuoteWithCustomPreset
  \/ MakeOrder
  \/ SubmitOrder
  \/ ReadOrder
  \/ \E kind \in {"default", "secretHash", "leaf"}, amount \in FillAmounts :
       DeploySrc(kind, amount)
  \/ DeployDst

Spec == Init /\ [][Next]_vars
-----------------------------------------------------------------------------
Deployed == stage \in {"src", "dst"}

\* Every field of the time locks that the resolver reads, and of the deposits that
\* reach the chain, fits the bits it is given.
TypeOK ==
  /\ now \in Start .. Horizon
  /\ stage \in {"read", "src", "dst"} => read.ext.timeLocks \in Timelock
  /\ Deployed => /\ src.immutables.safetyDeposit \in 0 .. Half - 1
                 /\ src.complement.safetyDeposit \in 0 .. Half - 1
                 /\ src.immutables.amount \in 1 .. order.makingAmount

\* What the resolver reads from the relayer hashes to what the maker signed, and is
\* the order the maker built, unless the deposit of the destination overflows.
ReadsWhatWasSigned ==
  stage \in {"read", "src", "dst"} =>
    /\ GetOrderHash(read, relayed.srcChainId) = relayed.signature
    /\ quote.response.dstSafetyDeposit < Half => read = order

\* Both clones are deployed with the deposits of the quote.  The one exception: a
\* destination deposit over 128 bits, which no assertion of the extension stops,
\* runs over into the source deposit.
DepositsAsQuoted ==
  Deployed /\ quote.response.dstSafetyDeposit < Half =>
    /\ src.immutables.safetyDeposit = quote.response.srcSafetyDeposit
    /\ src.complement.safetyDeposit = quote.response.dstSafetyDeposit

\* A secret of the maker opens every clone that is deployed.  The one exception: an
\* order of a single fill that is locked with the root of several secrets, which
\* submitOrder takes when it is handed a single hash.
EscrowsCanBeOpened ==
  Deployed =>
    \/ \E i \in 1 .. secrets : HashSecret(i) = src.immutables.hashLock
    \/ ~order.multiple /\ IsRoot(order.ext.hashLock)

\* The addresses that the SDK computes are those of the clones, and the immutables
\* it keeps for the destination are those the clone was made of, as long as the
\* time fits its field.
EscrowsAgree ==
  /\ Deployed => GetSrcEscrowAddress(relayed.srcChainId, order.ext.fusion.factory,
                                     SrcDeployEvent, SrcImpl) = src.address
  /\ stage = "dst" /\ dst.at < FieldRange =>
       GetDstEscrowAddress(quote.request.dstChain, DstFactory, SrcDeployEvent,
                           src.complement, dst.at, DstResolver, DstImpl) = dst.address

\* Whenever the SDK tells a stage of a clone, the contract leaves open exactly the
\* calls of that stage; and it tells one unless a delay is as long as the time, or
\* the time has outgrown its field.
StagesAgree ==
  /\ Deployed =>
       LET t == SrcDeployEvent.timeLocks
           clone == TimeLocksFromBigInt(src.immutables.timeLocks)
       IN /\ SrcTimeLocksOK(t) => CallsOf(SrcStage(t, now)) = SrcCalls(clone, now)
          /\ src.at < FieldRange /\ order.ext.timeLocks.delay["SrcPublicCancellation"] < src.at
               => SrcTimeLocksOK(t)
  /\ stage = "dst" =>
       LET t == WithDeployedAt(SrcDeployEvent.timeLocks, dst.at)
           clone == TimeLocksFromBigInt(dst.immutables.timeLocks)
       IN DstTimeLocksOK(t) => CallsOf(DstStage(t, now)) \cap {"withdraw", "publicWithdraw", "cancel"}
                                 = DstCalls(clone, now)

\* Before its auction starts an order is filled by its exclusive resolver only.
ExclusiveFirst ==
  Deployed /\ src.at < order.ext.fusion.startTime =>
    GetPreset(quote, params.preset).exclusiveResolver \in {"none", SrcResolver}
==============================================================================
