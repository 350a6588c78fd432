---------------------------- MODULE MultipleFills ----------------------------
(***************************************************************************)
(* The fills of one order that allows several.  The maker draws a secret   *)
(* for each of Parts equal parts of the order and one more, and signs the  *)
(* root of the tree of their hashes.  Every fill creates an escrow of its  *)
(* own, and must do so under the secret of the part it ends in, or under   *)
(* the additional secret when it completes the order: a secret the maker   *)
(* shares must open one escrow only.                                       *)
(*                                                                         *)
(* A fill is one call of the limit order protocol: OrderMixin._fill takes  *)
(* the amount off the order, hands control to foreign code (the maker's    *)
(* pre-interaction, the token, the taker's own contract), then calls the   *)
(* escrow factory: takerInteraction, if the taker asks for it, to check a  *)
(* Merkle proof, and postInteraction to create the escrow.  Foreign code   *)
(* may fill the same order again, so calls nest; a call that fails takes   *)
(* back everything done since it began, and its caller may go on.          *)
(***************************************************************************)
EXTENDS Integers, Sequences, SequencesExt

CONSTANTS
  MakingAmount,      \* order.makingAmount
  Parts,             \* high 16 bits of hashlockInfo: secrets less one
  SecretHash,        \* hash of the secret of each index, the leaves of the tree
  NoHash,            \* bytes32(0)
  MaxDepth           \* bound on the nesting of fills

VARIABLES
  remaining,         \* what the remaining invalidator leaves of the order
  lastValidated,     \* index (from 1) and hash of the last proof, 0 if none
  pending,           \* stack of the fills whose escrow is still to come
  escrows            \* pieces of the order with an escrow, by its hashlock

vars == <<remaining, lastValidated, pending, escrows>>

Index == 0 .. Parts
Hash == {SecretHash[i] : i \in Index}
NoProof == -1

ASSUME AmountAssumption == MakingAmount \in Nat \ {0}
\* HashLock.forMultipleFills wants more than two leaves, the factory two parts.
ASSUME PartsAssumption == Parts \in Nat /\ Parts >= 2
ASSUME SecretHashAssumption ==
  /\ \A i, j \in Index : SecretHash[i] = SecretHash[j] => i = j
  /\ NoHash \notin Hash
ASSUME DepthAssumption == MaxDepth \in Nat

Validation == [index : 0 .. Parts + 1, leaf : Hash \union {NoHash}]
Escrow == [from : 0 .. MakingAmount, to : 0 .. MakingAmount,
           hashlock : Hash \union {NoHash}]
Frame == [remaining : 0 .. MakingAmount, making : 0 .. MakingAmount,
          lastValidated : Validation, escrows : SUBSET Escrow]

Init ==
  /\ remaining = MakingAmount
  /\ lastValidated = [index |-> 0, leaf |-> NoHash]
  /\ pending = <<>>
  /\ escrows = {}

-----------------------------------------------------------------------------

\* The part that the first `filled` units of the order end in.
PartOf(filled) == ((filled - 1) * Parts) \div MakingAmount

\* Mutant: a fill may end in the part the previous one ended in.
IsValidInSamePart(making, left, index) ==
  LET calculated == PartOf(MakingAmount - left + making)
  IN  \/ left = making /\ index = calculated + 2
      \/ left # making /\ index = calculated + 1

\* Mutant: the last fill takes the secret of the last part.
IsValidWithoutExtra(making, left, index) ==
  LET calculated == PartOf(MakingAmount - left + making)
  IN  /\ left # MakingAmount => calculated # PartOf(MakingAmount - left)
      /\ index = calculated + 1

\* _isValidPartialFill
IsValidPartialFill(making, left, index) ==
  LET calculated == PartOf(MakingAmount - left + making)
  IN  \/ left = making /\ index = calculated + 2
      \/ /\ left # making
         /\ left # MakingAmount => calculated # PartOf(MakingAmount - left)
         /\ index = calculated + 1

\* Mutant: the SDK forgets the additional secret.
GetPartIdx(making, left) == PartOf(MakingAmount - left + making)

\* CrossChainOrder.getMultipleFillIdx: the secret the SDK has a resolver use.
GetMultipleFillIdx(making, left) ==
  LET calculated == PartOf(MakingAmount - left + making)
  IN  IF left = making THEN calculated + 1 ELSE calculated

-----------------------------------------------------------------------------

Top == Last(pending)

\* Mutant: a fill may ask for more than is left.
BeginFillUnbounded(amount) ==
  /\ remaining > 0
  /\ Len(pending) < MaxDepth
  /\ remaining' = remaining - amount
  /\ pending' = Append(pending,
       [remaining |-> remaining, making |-> amount,
        lastValidated |-> lastValidated, escrows |-> escrows])
  /\ UNCHANGED <<lastValidated, escrows>>

\* _checkRemainingMakingAmount and _fill, up to the first foreign call: the
\* invalidator is written before control leaves the protocol.
BeginFill(amount) ==
  LET making == IF amount < remaining THEN amount ELSE remaining
  IN  /\ remaining > 0
      /\ Len(pending) < MaxDepth
      /\ remaining' = remaining - making
      /\ pending' = Append(pending,
           [remaining |-> remaining, making |-> making,
            lastValidated |-> lastValidated, escrows |-> escrows])
      /\ UNCHANGED <<lastValidated, escrows>>

\* MerkleStorageInvalidator.takerInteraction, or not: a taker may leave it out
\* or name a contract of its own instead.
Validated(proof) ==
  IF proof = NoProof THEN lastValidated
                     ELSE [index |-> proof + 1, leaf |-> SecretHash[proof]]

\* Mutant: the invalidator is written again after the foreign calls, from the
\* amount read before them.
EndFillStale(proof) ==
  LET validated == Validated(proof)
  IN  /\ pending # <<>>
      /\ IsValidPartialFill(Top.making, Top.remaining, validated.index)
      /\ lastValidated' = validated
      /\ escrows' = escrows \union
           {[from |-> MakingAmount - Top.remaining,
             to |-> MakingAmount - Top.remaining + Top.making,
             hashlock |-> validated.leaf]}
      /\ pending' = Front(pending)
      /\ remaining' = Top.remaining - Top.making

\* The rest of _fill, ending in BaseEscrowFactory._postInteraction.
EndFill(proof) ==
  LET validated == Validated(proof)
  IN  /\ pending # <<>>
      /\ IsValidPartialFill(Top.making, Top.remaining, validated.index)
      /\ lastValidated' = validated
      /\ escrows' = escrows \union
           {[from |-> MakingAmount - Top.remaining,
             to |-> MakingAmount - Top.remaining + Top.making,
             hashlock |-> validated.leaf]}
      /\ pending' = Front(pending)
      /\ UNCHANGED remaining

\* A fill reverts, for whatever reason, once its nested calls are over.
RevertFill ==
  /\ pending # <<>>
  /\ remaining' = Top.remaining
  /\ lastValidated' = Top.lastValidated
  /\ escrows' = Top.escrows
  /\ pending' = Front(pending)

\* cancelOrder, in a transaction of its own or from within a fill.
CancelOrder ==
  /\ remaining' = 0
  /\ UNCHANGED <<lastValidated, pending, escrows>>

Next ==
  \/ \E amount \in 1 .. MakingAmount : BeginFill(amount)
  \/ \E proof \in Index \union {NoProof} : EndFill(proof)
  \/ RevertFill
  \/ CancelOrder

Spec == Init /\ [][Next]_vars

-----------------------------------------------------------------------------

TypeOK ==
  /\ remaining \in 0 .. MakingAmount
  /\ lastValidated \in Validation
  /\ pending \in Seq(Frame)
  /\ escrows \in SUBSET Escrow

\* Different pieces of the order are locked under different secrets: opening
\* one escrow does not open another.
OneSecretPerEscrow ==
  \A a, b \in escrows : a.hashlock = b.hashlock => a = b

\* "The last secret must be used for the last fill", and for no other.  An order
\* of fewer units than parts, which no check excludes, never comes to the last
\* secret: the rounding of the factory skips parts, the last one among them.
LastSecretForLastFill ==
  \A e \in escrows :
    /\ e.hashlock = SecretHash[Parts] => e.to = MakingAmount
    /\ e.to = MakingAmount /\ Parts <= MakingAmount => e.hashlock = SecretHash[Parts]

Apart(from, to, e) == to <= e.from \/ e.to <= from

\* No unit of the order is taken from the maker twice, by fills completed or
\* under way, and none that is still on offer has been taken.
TakenOnce ==
  /\ \A a, b \in escrows : a # b => Apart(a.from, a.to, b)
  /\ \A k \in DOMAIN pending : \A e \in escrows :
       Apart(MakingAmount - pending[k].remaining,
             MakingAmount - pending[k].remaining + pending[k].making, e)
  /\ \A e \in escrows : e.to <= MakingAmount - remaining

\* A resolver that goes by the SDK can always complete the order, and of any
\* fill the factory accepts no other secret than the SDK's.
SdkIndexIsRight ==
  /\ remaining > 0 =>
       IsValidPartialFill(remaining, remaining, GetMultipleFillIdx(remaining, remaining) + 1)
  /\ \A making \in 1 .. remaining, i \in Index :
       IsValidPartialFill(making, remaining, i + 1)
         => i = GetMultipleFillIdx(making, remaining)
=============================================================================
