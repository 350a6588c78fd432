--------------------------- MODULE CrossChainOrder ---------------------------
(***************************************************************************)
(* The values that the SDK builds, encodes and reads back for one order:   *)
(* hash locks, the escrow extension, the order itself, the immutables of   *)
(* its escrows and the addresses of their clones.  A hash is the value it  *)
(* is taken of; a constructor that throws is a predicate that fails.       *)
(* What FusionOrder and FusionExtension of @1inch/fusion-sdk add is what   *)
(* this code uses of it.                                                   *)
(***************************************************************************)
EXTENDS SdkTimeLocks, FiniteSetsExt

CONSTANTS
  Half,               \* how many values half a word holds: 2^128
  TopBits,            \* what the top 16 bits of the hash of a secret happen to be
  SupportedChains, Testnets,
  LimitOrderProtocol, \* chain -> address in the SDK's deploy-config
  TrueERC20,          \* chain -> the token that stands for what is paid elsewhere
  ExpirationDelay     \* how long an order outlives its auction by default

ASSUME WidthAssumption ==
  Half \in Nat \ {0} /\ TopBits \in Nat /\ ExpirationDelay \in Nat

(* Addresses *)
OrNative(a) == IF a = "zero" THEN "native" ELSE a
ZeroIfNative(a) == IF a = "native" THEN "zero" ELSE a

(* HashLock *)
HashSecret(secret) == << "hash", secret >>

GetMerkleLeavesFromSecretHashes(hashes) ==
  [i \in DOMAIN hashes |-> << "leaf", i - 1, hashes[i] >>]

ForSingleFill(secret) == HashSecret(secret)

\* Asserted of the leaves.
EnoughLeaves(leaves) == Len(leaves) > 2

\* The root of the tree, its top 16 bits replaced by the number of parts.
ForMultipleFills(leaves) == << "root", Len(leaves) - 1, leaves >>

IsRoot(lock) == lock[1] = "root"

\* "Only use if HashLockInfo is for multiple fill order, otherwise garbage".
GetPartsCount(lock) == IF IsRoot(lock) THEN lock[2] ELSE TopBits

(* EscrowExtension *)
\* The second assertion checks the source deposit again instead of the other.
EscrowExtensionOK(ext) == ext.srcSafetyDeposit < Half /\ ext.srcSafetyDeposit < Half

HasBit(n, k) == (n \div 2^k) % 2 = 1

\* `a | b`
Or(a, b) == MapThenSumSet(LAMBDA k : 2^k, {k \in 0 .. a + b : HasBit(a, k) \/ HasBit(b, k)})

\* (src << 128) | dst: the halves meet only where dst runs over its own.
Deposits(src, dst) ==
  IF dst < Half THEN src * Half + dst
  ELSE Or(src, dst \div Half) * Half + (dst % Half)

SplitDeposits(word) == [src |-> (word \div Half) % Half, dst |-> word % Half]

\* AbiCoder throws for a number that does not fit a word.
Encodable(ext) ==
  Deposits(ext.srcSafetyDeposit, ext.dstSafetyDeposit) \in 0 .. Half * Half - 1

EncodeExtraData(ext) ==
  [hashLock |-> ext.hashLock, dstChainId |-> ext.dstChainId,
   dstToken |-> ZeroIfNative(ext.dstToken),
   deposits |-> Deposits(ext.srcSafetyDeposit, ext.dstSafetyDeposit),
   timelocks |-> BuildTimeLocks(ext.timeLocks)]

BuildExtension(ext) == [fusion |-> ext.fusion, extra |-> EncodeExtraData(ext)]

DecodeExtraData(extra) ==
  LET deposits == SplitDeposits(extra.deposits)
  IN [hashLock |-> extra.hashLock, dstChainId |-> extra.dstChainId,
      dstToken |-> extra.dstToken,
      srcSafetyDeposit |-> deposits.src, dstSafetyDeposit |-> deposits.dst,
      timeLocks |-> TimeLocksFromBigInt(extra.timelocks)]

EscrowExtension(fusion, e) ==
  [fusion |-> fusion, hashLock |-> e.hashLock, dstChainId |-> e.dstChainId,
   dstToken |-> OrNative(e.dstToken), srcSafetyDeposit |-> e.srcSafetyDeposit,
   dstSafetyDeposit |-> e.dstSafetyDeposit, timeLocks |-> e.timeLocks]

FromExtension(built) == EscrowExtension(built.fusion, DecodeExtraData(built.extra))

(* CrossChainOrder *)
\* A nonce is needed unless the order takes partial and multiple fills.
InnerOrderOK(extra) == ~(extra.partial /\ extra.multiple) => extra.nonce # 0

InnerOrder(ext, info, extra) ==
  [ext |-> ext, maker |-> info.maker, receiver |-> info.receiver,
   makerAsset |-> info.makerAsset, takerAsset |-> info.takerAsset,
   makingAmount |-> info.makingAmount, takingAmount |-> info.takingAmount,
   salt |-> info.salt, nonce |-> extra.nonce,
   partial |-> extra.partial, multiple |-> extra.multiple,
   deadline |-> ext.fusion.startTime + ext.fusion.duration + extra.expirationDelay]

NewOrderOK(info, escrow, extra) ==
  /\ EscrowExtensionOK(escrow)
  /\ escrow.srcChainId \in SupportedChains
  /\ escrow.dstChainId \in SupportedChains
  /\ escrow.srcChainId # escrow.dstChainId
  /\ InnerOrderOK(extra)

\* The asset bought goes to the extension; the order names a stand-in for it.
NewOrder(fusion, info, escrow, extra) ==
  InnerOrder(EscrowExtension(fusion, [hashLock |-> escrow.hashLock,
                                      dstChainId |-> escrow.dstChainId,
                                      dstToken |-> info.takerAsset,
                                      srcSafetyDeposit |-> escrow.srcSafetyDeposit,
                                      dstSafetyDeposit |-> escrow.dstSafetyDeposit,
                                      timeLocks |-> escrow.timeLocks]),
             [info EXCEPT !.takerAsset = TrueERC20[escrow.srcChainId]], extra)

\* The struct that is signed; its salt ends in the hash of the extension.
BuildOrder(order) ==
  [salt |-> << order.salt, BuildExtension(order.ext) >>, maker |-> order.maker,
   receiver |-> order.receiver, makerAsset |-> order.makerAsset,
   takerAsset |-> order.takerAsset, makingAmount |-> order.makingAmount,
   takingAmount |-> order.takingAmount,
   traits |-> [nonce |-> order.nonce, partial |-> order.partial,
               multiple |-> order.multiple, expiration |-> order.deadline]]

\* Mutant: what outlives the auction is measured from its start.
FromDataAndExtensionFromStart(struct, built) ==
  LET ext == FromExtension(built)
  IN InnerOrder(ext,
       [maker |-> struct.maker, receiver |-> struct.receiver,
        makerAsset |-> struct.makerAsset, takerAsset |-> struct.takerAsset,
        makingAmount |-> struct.makingAmount, takingAmount |-> struct.takingAmount,
        salt |-> struct.salt[1]],
       [nonce |-> struct.traits.nonce, partial |-> struct.traits.partial,
        multiple |-> struct.traits.multiple,
        expirationDelay |-> struct.traits.expiration - ext.fusion.startTime])

FromDataAndExtension(struct, built) ==
  LET ext == FromExtension(built)
  IN InnerOrder(ext,
       [maker |-> struct.maker, receiver |-> struct.receiver,
        makerAsset |-> struct.makerAsset, takerAsset |-> struct.takerAsset,
        makingAmount |-> struct.makingAmount, takingAmount |-> struct.takingAmount,
        salt |-> struct.salt[1]],
       [nonce |-> struct.traits.nonce, partial |-> struct.traits.partial,
        multiple |-> struct.traits.multiple,
        expirationDelay |-> struct.traits.expiration - ext.fusion.startTime
                              - ext.fusion.duration])

\* Thrown for every chain but the two testnets.
HashableOn(chain) == chain \in Testnets

GetOrderHash(order, chain) == << chain, LimitOrderProtocol[chain], BuildOrder(order) >>

(* Immutables *)
NewImmutables(i) == [i EXCEPT !.token = OrNative(i.token)]

BuildImmutables(i) ==
  [i EXCEPT !.token = ZeroIfNative(i.token), !.timeLocks = BuildTimeLocks(i.timeLocks)]

WithComplement(i, complement) ==
  NewImmutables([i EXCEPT !.maker = complement.maker, !.amount = complement.amount,
                          !.token = complement.token,
                          !.safetyDeposit = complement.safetyDeposit])

WithDeployedAtTime(i, time) ==
  NewImmutables([i EXCEPT !.timeLocks =
    WithDeployedAt(TimeLocksFromBigInt(BuildTimeLocks(i.timeLocks)), time)])

WithTaker(i, taker) == NewImmutables([i EXCEPT !.taker = taker])

\* A fill of a part needs a hash lock of its own; whether it is one is told by
\* comparing objects: a lock that the caller passes is never the order's own.
ToSrcImmutablesOK(order, amount, given) == amount # order.makingAmount => given

ToSrcImmutables(order, chain, taker, amount, hashLock) ==
  NewImmutables([orderHash |-> GetOrderHash(order, chain), hashLock |-> hashLock,
                 maker |-> order.maker, taker |-> taker, token |-> order.makerAsset,
                 amount |-> amount, safetyDeposit |-> order.ext.srcSafetyDeposit,
                 timeLocks |-> order.ext.timeLocks])

(* EscrowFactory *)
\* EscrowFactoryFacade: how the address of a clone follows from its parts.
CloneKind(chain) == IF chain = "zksync" THEN "zksync" ELSE "create2"

GetEscrowAddress(chain, factory, salt, implementation) ==
  << CloneKind(chain), factory, salt, implementation >>

GetSrcEscrowAddress(chain, factory, i, implementation) ==
  GetEscrowAddress(chain, factory, BuildImmutables(i), implementation)

\* Mutant: the address is computed with the time of the source escrow.
GetDstEscrowAddressUndated(chain, factory, i, complement, blockTime, taker, implementation) ==
  GetEscrowAddress(chain, factory,
    BuildImmutables(WithTaker(WithComplement(i, complement), taker)), implementation)

GetDstEscrowAddress(chain, factory, i, complement, blockTime, taker, implementation) ==
  GetEscrowAddress(chain, factory,
    BuildImmutables(WithDeployedAtTime(WithTaker(WithComplement(i, complement), taker),
                                       blockTime)), implementation)
==============================================================================
