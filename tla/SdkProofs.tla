------------------------------ MODULE SdkProofs ------------------------------
(***************************************************************************)
(* The order that the SDK makes of a quote means the same to everyone who  *)
(* computes with it, for every answer of the quoter, every width of the    *)
(* fields and every amount; and the relay of its secrets implements the    *)
(* abstract exchange.                                                      *)
(*                                                                         *)
(* What is packed into a word is read back, digit by digit, and a dated    *)
(* word is the word of the dated locks.  So an extension and an order are  *)
(* read back as what they are encoded as, and what the event of the source *)
(* clone says is what the clone was made of.  The invariant says for every *)
(* stage that it was reached with what the stage before it had left.       *)
(***************************************************************************)
EXTENDS OrderPipeline, SecretRelay, SequenceTheorems, TLAPS

-----------------------------------------------------------------------------
(* The invariant of the pipeline: what each stage leaves is what the one     *)
(* before it was given.                                                     *)

\* An answer of the quoter, with or without a custom preset.
Answered(r) ==
  /\ r.srcTokenAmount \in Nat /\ r.srcSafetyDeposit \in Nat /\ r.dstSafetyDeposit \in Nat
  /\ r.timeLocks \in [Stage -> Nat]
  /\ \A type \in DOMAIN r.presets : r.presets[type] \in PresetData

\* The quote of a request that the SDK lets through.
Quoted ==
  /\ quote = [request |-> quote.request, response |-> quote.response]
  /\ QuoterRequestOK(quote.request)
  /\ Answered(quote.response)

\* The order of a quote, with one secret or with more than two.
Created ==
  /\ CreateOrderOK(quote, params)
  /\ \E time \in Start .. now : order = CreateOrder(quote, params, time)
  /\ secrets \in Nat /\ (secrets # 1 => secrets > 2)
  /\ params.hashLock = LockOf(secrets)

\* The order as the relayer was given it.
Submitted ==
  \E n \in {1, secrets} :
    /\ SubmitOrderOK(order, Hashes(n))
    /\ relayed = [srcChainId |-> quote.request.srcChain,
                  struct |-> BuildOrder(order), extension |-> BuildExtension(order.ext),
                  signature |-> GetOrderHash(order, quote.request.srcChain),
                  secretHashes |-> SecretHashesSent(Hashes(n))]

\* SrcImmutables at the time the clone was deployed.
SrcSalt(amount, time) ==
  [orderHash |-> << relayed.srcChainId, LimitOrderProtocol[relayed.srcChainId],
                    BuildOrder(read) >>,
   hashLock |-> ValidatedLeaf(BuildOrder(read), BuildExtension(read.ext).extra, amount),
   maker |-> BuildOrder(read).maker, taker |-> SrcResolver,
   token |-> BuildOrder(read).makerAsset, amount |-> amount,
   safetyDeposit |-> BuildExtension(read.ext).extra.deposits \div Half,
   timeLocks |-> DatedWord(BuildExtension(read.ext).extra.timelocks, time)]

\* The clone of the source chain, and what the fill that deployed it had to satisfy.
SrcDeployed ==
  /\ src.at \in Start .. now
  /\ \E amount \in FillAmounts :
       LET struct    == BuildOrder(read)
           extension == BuildExtension(read.ext)
       IN /\ amount <= struct.makingAmount
          /\ struct.traits.multiple => ProofHolds(extension.extra.hashLock, FirstIdx(amount))
          /\ \E w \in extension.fusion.whitelist : w.address = SrcResolver /\ w.allowFrom <= src.at
          /\ src = [immutables |-> SrcSalt(amount, src.at),
                    complement |-> DstComplement(struct, extension, amount), at |-> src.at,
                    address |-> << CreatedAs(relayed.srcChainId), read.ext.fusion.factory,
                                   SrcSalt(amount, src.at), SrcImpl >>]

\* What the resolver deploys the clone of the destination chain with.
DstImmutables == WithTaker(WithComplement(SrcDeployEvent, src.complement), DstResolver)

\* The clone of the destination chain.
DstDeployed ==
  LET i    == BuildImmutables(DstImmutables)
      salt == [i EXCEPT !.timeLocks = DatedWord(i.timeLocks, dst.at)]
  IN /\ dst.at \in Start .. now
     /\ dst = [immutables |-> salt, at |-> dst.at,
               address |-> << CreatedAs(quote.request.dstChain), DstFactory, salt, DstImpl >>]

\* The stages of an order, in their order.
Stages == << "idle", "quoted", "created", "relayed", "read", "src", "dst" >>

\* The order has come to the n-th stage.
Reached(n) == \E k \in n .. 7 : stage = Stages[k]

\* The inductive invariant.
IInv ==
  /\ now \in Start .. Horizon /\ Reached(1)
  /\ Reached(2) => Quoted
  /\ Reached(3) => Created
  /\ Reached(4) => Submitted
  /\ Reached(5) => read = FromDataAndExtension(relayed.struct, relayed.extension)
  /\ Reached(6) => SrcDeployed
  /\ Reached(7) => DstDeployed

-----------------------------------------------------------------------------
(* Words.                                                                   *)

\* A digit is put in front of the others, and taken off again.
LEMMA Digit ==
  ASSUME NEW a \in Nat, NEW n \in Nat \ {0}, NEW d \in 0 .. n - 1
  PROVE  /\ a * n + d \in Nat
         /\ (a * n + d) \div n = a
         /\ (a * n + d) % n = d
  OBVIOUS

\* Quotients and remainders of amounts.
LEMMA Split ==
  ASSUME NEW a \in Nat, NEW n \in Nat \ {0}
  PROVE  a \div n \in Nat /\ a % n \in 0 .. n - 1 /\ a = (a \div n) * n + (a % n)
<1> DEFINE q == a \div n
<1>1. q \in Nat /\ q * n <= a /\ a < (q + 1) * n /\ (q + 1) * n = q * n + n /\ q * n \in Nat
  OBVIOUS
<1> HIDE DEF q
<1>2. PICK r \in 0 .. n - 1 : a = q * n + r
  <2>1. a - q * n \in 0 .. n - 1 /\ a = q * n + (a - q * n)
    BY <1>1
  <2> QED BY <2>1
<1>3. a % n = r
  BY <1>1, <1>2, Digit
<1> QED BY <1>1, <1>2, <1>3 DEF q

\* What `build` of TimeLocks puts together: each field is written before the next.
LEMMA WordBuilt ==
  ASSUME NEW t
  PROVE  LET put(w, s) == w * FieldRange + t.delay[s]
             w1 == put(t.deployedAt, "DstCancellation")
             w2 == put(w1, "DstPublicWithdrawal")
             w3 == put(w2, "DstWithdrawal")
             w4 == put(w3, "SrcPublicCancellation")
             w5 == put(w4, "SrcCancellation")
             w6 == put(w5, "SrcPublicWithdrawal")
         IN  BuildTimeLocks(t) = put(w6, "SrcWithdrawal")
<1> DEFINE put(w, s) == w * FieldRange + t.delay[s]
           w1 == put(t.deployedAt, "DstCancellation")
           w2 == put(w1, "DstPublicWithdrawal")
           w3 == put(w2, "DstWithdrawal")
           w4 == put(w3, "SrcPublicCancellation")
           w5 == put(w4, "SrcCancellation")
           w6 == put(w5, "SrcPublicWithdrawal")
           w7 == put(w6, "SrcWithdrawal")
           word == CHOOSE w : w = [n \in 0 .. 7 |-> IF n = 0 THEN t.deployedAt
                                                    ELSE put(w[n - 1], WordOrder[n])]
           witness == [n \in 0 .. 7 |->
                         IF n = 0 THEN t.deployedAt
                         ELSE IF n = 1 THEN w1 ELSE IF n = 2 THEN w2 ELSE IF n = 3 THEN w3
                         ELSE IF n = 4 THEN w4 ELSE IF n = 5 THEN w5 ELSE IF n = 6 THEN w6
                         ELSE w7]
<1>1. /\ Len(WordOrder) = 7
      /\ WordOrder[1] = "DstCancellation" /\ WordOrder[2] = "DstPublicWithdrawal"
      /\ WordOrder[3] = "DstWithdrawal" /\ WordOrder[4] = "SrcPublicCancellation"
      /\ WordOrder[5] = "SrcCancellation" /\ WordOrder[6] = "SrcPublicWithdrawal"
      /\ WordOrder[7] = "SrcWithdrawal"
  BY DEF WordOrder
<1>2. BuildTimeLocks(t) = word[7]
  BY <1>1 DEF BuildTimeLocks
<1> HIDE DEF put
<1>3. witness = [n \in 0 .. 7 |-> IF n = 0 THEN t.deployedAt
                                  ELSE put(witness[n - 1], WordOrder[n])]
  <2>1. \A n \in 0 .. 7 : witness[n] = IF n = 0 THEN t.deployedAt
                                       ELSE put(witness[n - 1], WordOrder[n])
    BY <1>1
  <2> QED BY <2>1
<1>4. word = [n \in 0 .. 7 |-> IF n = 0 THEN t.deployedAt ELSE put(word[n - 1], WordOrder[n])]
  <2> HIDE DEF witness
  <2> QED BY <1>3
<1> HIDE DEF word
<1>5. /\ word[0] = t.deployedAt /\ word[1] = w1 /\ word[2] = w2 /\ word[3] = w3
      /\ word[4] = w4 /\ word[5] = w5 /\ word[6] = w6 /\ word[7] = w7
  BY <1>1, <1>4
<1> QED BY <1>2, <1>5 DEF put

\* What `fromBigInt` of TimeLocks takes off a word: a field is what is left once the
\* fields after it are shifted out.
LEMMA WordRead ==
  ASSUME NEW val
  PROVE  LET off(w) == w \div FieldRange
             r1 == off(val)
             r2 == off(r1)
             r3 == off(r2)
             r4 == off(r3)
             r5 == off(r4)
             r6 == off(r5)
             t == TimeLocksFromBigInt(val)
         IN  /\ t = [deployedAt |-> t.deployedAt, delay |-> t.delay]
             /\ t.delay = [s \in Stage |-> t.delay[s]]
             /\ t.delay["SrcWithdrawal"] = val % FieldRange
             /\ t.delay["SrcPublicWithdrawal"] = r1 % FieldRange
             /\ t.delay["SrcCancellation"] = r2 % FieldRange
             /\ t.delay["SrcPublicCancellation"] = r3 % FieldRange
             /\ t.delay["DstWithdrawal"] = r4 % FieldRange
             /\ t.delay["DstPublicWithdrawal"] = r5 % FieldRange
             /\ t.delay["DstCancellation"] = r6 % FieldRange
             /\ t.deployedAt = off(r6) % FieldRange
<1> DEFINE off(w) == w \div FieldRange
           r1 == off(val)
           r2 == off(r1)
           r3 == off(r2)
           r4 == off(r3)
           r5 == off(r4)
           r6 == off(r5)
           r7 == off(r6)
           rest == CHOOSE r : r = [n \in 0 .. 7 |-> IF n = 0 THEN val ELSE off(r[n - 1])]
           witness == [n \in 0 .. 7 |->
                         IF n = 0 THEN val
                         ELSE IF n = 1 THEN r1 ELSE IF n = 2 THEN r2 ELSE IF n = 3 THEN r3
                         ELSE IF n = 4 THEN r4 ELSE IF n = 5 THEN r5 ELSE IF n = 6 THEN r6
                         ELSE r7]
           digit(s) == CHOOSE n \in 1 .. 7 : WordOrder[n] = s
           found == [deployedAt |-> rest[7] % FieldRange,
                    delay |-> [s \in Stage |-> rest[7 - digit(s)] % FieldRange]]
<1>1. /\ Len(WordOrder) = 7
      /\ WordOrder[1] = "DstCancellation" /\ WordOrder[2] = "DstPublicWithdrawal"
      /\ WordOrder[3] = "DstWithdrawal" /\ WordOrder[4] = "SrcPublicCancellation"
      /\ WordOrder[5] = "SrcCancellation" /\ WordOrder[6] = "SrcPublicWithdrawal"
      /\ WordOrder[7] = "SrcWithdrawal"
  BY DEF WordOrder
<1>2. TimeLocksFromBigInt(val) = found
  BY <1>1 DEF TimeLocksFromBigInt
<1>3. /\ digit("DstCancellation") = 1 /\ digit("DstPublicWithdrawal") = 2
      /\ digit("DstWithdrawal") = 3 /\ digit("SrcPublicCancellation") = 4
      /\ digit("SrcCancellation") = 5 /\ digit("SrcPublicWithdrawal") = 6
      /\ digit("SrcWithdrawal") = 7
  BY <1>1
<1> HIDE DEF off
<1>4. witness = [n \in 0 .. 7 |-> IF n = 0 THEN val ELSE off(witness[n - 1])]
  <2>1. \A n \in 0 .. 7 : witness[n] = IF n = 0 THEN val ELSE off(witness[n - 1])
    OBVIOUS
  <2> QED BY <2>1
<1>5. rest = [n \in 0 .. 7 |-> IF n = 0 THEN val ELSE off(rest[n - 1])]
  <2> HIDE DEF witness
  <2> QED BY <1>4
<1> HIDE DEF rest, digit
<1>6. /\ rest[0] = val /\ rest[1] = r1 /\ rest[2] = r2 /\ rest[3] = r3
      /\ rest[4] = r4 /\ rest[5] = r5 /\ rest[6] = r6 /\ rest[7] = r7
  BY <1>5
<1> QED BY <1>2, <1>3, <1>6 DEF Stage, off

\* What is packed is read back.
LEMMA RoundTrip ==
  ASSUME NEW t \in Timelock
  PROVE  BuildTimeLocks(t) \in Nat /\ TimeLocksFromBigInt(BuildTimeLocks(t)) = t
<1> DEFINE put(w, s) == w * FieldRange + t.delay[s]
           off(w) == w \div FieldRange
           w1 == put(t.deployedAt, "DstCancellation")
           w2 == put(w1, "DstPublicWithdrawal")
           w3 == put(w2, "DstWithdrawal")
           w4 == put(w3, "SrcPublicCancellation")
           w5 == put(w4, "SrcCancellation")
           w6 == put(w5, "SrcPublicWithdrawal")
           w7 == put(w6, "SrcWithdrawal")
           found == TimeLocksFromBigInt(w7)
<1>1. /\ FieldRange \in Nat \ {0} /\ t.deployedAt \in Field
      /\ \A s \in Stage : t.delay[s] \in Field
      /\ t = [deployedAt |-> t.deployedAt, delay |-> t.delay]
      /\ t.delay = [s \in Stage |-> t.delay[s]]
  BY FieldRangeAssumption DEF Timelock
<1>2. ASSUME NEW w \in Nat, NEW s \in Stage
      PROVE  put(w, s) \in Nat /\ off(put(w, s)) = w /\ put(w, s) % FieldRange = t.delay[s]
  BY <1>1, Digit DEF Field
<1>3. BuildTimeLocks(t) = w7
  BY WordBuilt
<1>4. /\ found = [deployedAt |-> found.deployedAt, delay |-> found.delay]
      /\ found.delay = [s \in Stage |-> found.delay[s]]
      /\ found.delay["SrcWithdrawal"] = w7 % FieldRange
      /\ found.delay["SrcPublicWithdrawal"] = off(w7) % FieldRange
      /\ found.delay["SrcCancellation"] = off(off(w7)) % FieldRange
      /\ found.delay["SrcPublicCancellation"] = off(off(off(w7))) % FieldRange
      /\ found.delay["DstWithdrawal"] = off(off(off(off(w7)))) % FieldRange
      /\ found.delay["DstPublicWithdrawal"] = off(off(off(off(off(w7))))) % FieldRange
      /\ found.delay["DstCancellation"] = off(off(off(off(off(off(w7)))))) % FieldRange
      /\ found.deployedAt = off(off(off(off(off(off(off(w7))))))) % FieldRange
  <2> HIDE DEF w7
  <2> QED BY WordRead
<1> HIDE DEF put, off
<1>5. /\ t.deployedAt \in Nat /\ w1 \in Nat /\ w2 \in Nat /\ w3 \in Nat /\ w4 \in Nat
      /\ w5 \in Nat /\ w6 \in Nat /\ w7 \in Nat
  BY <1>1, <1>2 DEF Field, Stage
<1>6. /\ off(w7) = w6 /\ off(w6) = w5 /\ off(w5) = w4 /\ off(w4) = w3 /\ off(w3) = w2
      /\ off(w2) = w1 /\ off(w1) = t.deployedAt
  BY <1>2, <1>5 DEF Stage
<1>7. /\ w7 % FieldRange = t.delay["SrcWithdrawal"]
      /\ w6 % FieldRange = t.delay["SrcPublicWithdrawal"]
      /\ w5 % FieldRange = t.delay["SrcCancellation"]
      /\ w4 % FieldRange = t.delay["SrcPublicCancellation"]
      /\ w3 % FieldRange = t.delay["DstWithdrawal"]
      /\ w2 % FieldRange = t.delay["DstPublicWithdrawal"]
      /\ w1 % FieldRange = t.delay["DstCancellation"]
  BY <1>2, <1>5 DEF Stage
<1>8. t.deployedAt % FieldRange = t.deployedAt
  <2>1. \A d \in 0 .. FieldRange - 1 : (0 * FieldRange + d) % FieldRange = d
    BY <1>1, Digit
  <2>2. t.deployedAt \in Nat /\ 0 * FieldRange + t.deployedAt = t.deployedAt
    BY <1>1 DEF Field
  <2> QED BY <1>1, <2>1, <2>2 DEF Field
<1> HIDE DEF w1, w2, w3, w4, w5, w6, w7, found
<1>9. /\ found.delay["SrcWithdrawal"] = t.delay["SrcWithdrawal"]
      /\ found.delay["SrcPublicWithdrawal"] = t.delay["SrcPublicWithdrawal"]
      /\ found.delay["SrcCancellation"] = t.delay["SrcCancellation"]
      /\ found.delay["SrcPublicCancellation"] = t.delay["SrcPublicCancellation"]
      /\ found.delay["DstWithdrawal"] = t.delay["DstWithdrawal"]
      /\ found.delay["DstPublicWithdrawal"] = t.delay["DstPublicWithdrawal"]
      /\ found.delay["DstCancellation"] = t.delay["DstCancellation"]
      /\ found.deployedAt = t.deployedAt
  BY <1>4, <1>6, <1>7, <1>8
<1>10. \A s \in Stage : found.delay[s] = t.delay[s]
  BY <1>9 DEF Stage
<1>11. found.delay = t.delay
  BY <1>1, <1>4, <1>10
<1>12. found = t
  BY <1>1, <1>4, <1>9, <1>11
<1> QED BY <1>3, <1>5, <1>12 DEF found

\* Whatever word is read, every field fits.
LEMMA ReadsFields ==
  ASSUME NEW val \in Nat
  PROVE  TimeLocksFromBigInt(val) \in Timelock
<1> DEFINE off(w) == w \div FieldRange
           t == TimeLocksFromBigInt(val)
<1>1. ASSUME NEW w \in Nat PROVE off(w) \in Nat /\ w % FieldRange \in Field
  BY Split, FieldRangeAssumption DEF Field
<1>2. /\ t = [deployedAt |-> t.deployedAt, delay |-> t.delay]
      /\ t.delay = [s \in Stage |-> t.delay[s]]
      /\ t.delay["SrcWithdrawal"] = val % FieldRange
      /\ t.delay["SrcPublicWithdrawal"] = off(val) % FieldRange
      /\ t.delay["SrcCancellation"] = off(off(val)) % FieldRange
      /\ t.delay["SrcPublicCancellation"] = off(off(off(val))) % FieldRange
      /\ t.delay["DstWithdrawal"] = off(off(off(off(val)))) % FieldRange
      /\ t.delay["DstPublicWithdrawal"] = off(off(off(off(off(val))))) % FieldRange
      /\ t.delay["DstCancellation"] = off(off(off(off(off(off(val)))))) % FieldRange
      /\ t.deployedAt = off(off(off(off(off(off(off(val))))))) % FieldRange
  BY WordRead
<1> HIDE DEF off
<1>3. t.deployedAt \in Field /\ \A s \in Stage : t.delay[s] \in Field
  BY <1>1, <1>2 DEF Stage
<1> HIDE DEF t
<1> QED BY <1>2, <1>3 DEF Timelock, t

\* Dating a word is dating what it says.
LEMMA DatedBack ==
  ASSUME NEW t \in Timelock, NEW time \in Nat
  PROVE  /\ SetDeployedAt(t, time) \in Timelock
         /\ DatedWord(BuildTimeLocks(t), time) = BuildTimeLocks(SetDeployedAt(t, time))
         /\ TimeLocksFromBigInt(DatedWord(BuildTimeLocks(t), time)) = SetDeployedAt(t, time)
         /\ time < FieldRange => WithDeployedAt(t, time) = SetDeployedAt(t, time)
         /\ \A s \in Stage : SetDeployedAt(t, time).delay[s] = t.delay[s]
<1>1. time % FieldRange \in Field /\ (time < FieldRange => time % FieldRange = time)
  <2>1. time % FieldRange \in Field
    BY Split, FieldRangeAssumption DEF Field
  <2>2. ASSUME time < FieldRange PROVE time % FieldRange = time
    <3>1. time \in 0 .. FieldRange - 1 /\ 0 * FieldRange + time = time
      BY <2>2, FieldRangeAssumption
    <3>2. (0 * FieldRange + time) % FieldRange = time
      BY <3>1, Digit, FieldRangeAssumption
    <3> QED BY <3>1, <3>2
  <2> QED BY <2>1, <2>2
<1>2. /\ SetDeployedAt(t, time) \in Timelock
      /\ \A s \in Stage : SetDeployedAt(t, time).delay[s] = t.delay[s]
  BY <1>1 DEF SetDeployedAt, Timelock
<1>3. time < FieldRange => WithDeployedAt(t, time) = SetDeployedAt(t, time)
  BY <1>1 DEF SetDeployedAt, WithDeployedAt
<1>4. DatedWord(BuildTimeLocks(t), time) = BuildTimeLocks(SetDeployedAt(t, time))
  BY RoundTrip DEF DatedWord
<1> QED BY <1>2, <1>3, <1>4, RoundTrip

\* Deposits that fit their halves are the two digits of their word.
LEMMA DepositsSplit ==
  ASSUME NEW s \in 0 .. Half - 1, NEW d \in 0 .. Half - 1
  PROVE  /\ Deposits(s, d) \in Nat
         /\ Deposits(s, d) \div Half = s /\ Deposits(s, d) % Half = d
         /\ SplitDeposits(Deposits(s, d)) = [src |-> s, dst |-> d]
<1>1. Half \in Nat \ {0} /\ s \in Nat /\ d < Half
  BY WidthAssumption
<1>2. Deposits(s, d) = s * Half + d
  BY <1>1 DEF Deposits
<1>3. s * Half + d \in Nat /\ (s * Half + d) \div Half = s /\ (s * Half + d) % Half = d
  BY <1>1, Digit
<1>4. s % Half = s
  <2>1. (0 * Half + s) % Half = s /\ 0 * Half + s = s
    BY <1>1, Digit
  <2> QED BY <2>1
<1> QED BY <1>2, <1>3, <1>4 DEF SplitDeposits

\* Any word is put together again of its two halves.
LEMMA WordSplit ==
  ASSUME NEW word \in 0 .. Half * Half - 1
  PROVE  LET d == SplitDeposits(word)
         IN  /\ d = [src |-> word \div Half, dst |-> word % Half]
             /\ d.src \in 0 .. Half - 1 /\ d.dst \in 0 .. Half - 1
             /\ Deposits(d.src, d.dst) = word
<1> DEFINE q == word \div Half
           r == word % Half
<1>1. Half \in Nat \ {0} /\ word \in Nat
  BY WidthAssumption
<1>2. q \in Nat /\ r \in 0 .. Half - 1 /\ word = q * Half + r
  BY <1>1, Split
<1> HIDE DEF q, r
<1>3. q \in 0 .. Half - 1
  <2>1. ASSUME q >= Half PROVE FALSE
    <3>1. q * Half >= Half * Half
      BY <1>1, <1>2, <2>1
    <3>2. q * Half \in Int /\ Half * Half \in Int
      BY <1>1, <1>2
    <3> DEFINE a == q * Half
               b == Half * Half
    <3>3. a \in Int /\ b \in Int /\ a >= b /\ word = a + r /\ word <= b - 1
      BY <1>2, <3>1, <3>2
    <3> HIDE DEF a, b
    <3> QED BY <1>2, <3>3
  <2> QED BY <1>1, <1>2, <2>1
<1>4. q % Half = q
  <2>1. (0 * Half + q) % Half = q /\ 0 * Half + q = q
    BY <1>1, <1>3, Digit
  <2> QED BY <2>1
<1>5. SplitDeposits(word) = [src |-> q, dst |-> r]
  BY <1>4 DEF SplitDeposits, q, r
<1>6. Deposits(q, r) = word
  BY <1>1, <1>2 DEF Deposits
<1> QED BY <1>2, <1>3, <1>5, <1>6 DEF q, r

-----------------------------------------------------------------------------
(* Stages.                                                                  *)

\* The stage of a source clone stands for the calls that its windows leave open.
LEMMA SrcStages ==
  ASSUME NEW t \in Timelock, NEW time \in Nat, WellOrdered(t)
  PROVE  CallsOf(SrcStage(t, time)) = SrcCalls(t, time)
<1> DEFINE a == StageStart(t, "SrcWithdrawal")
           b == StageStart(t, "SrcPublicWithdrawal")
           c == StageStart(t, "SrcCancellation")
           d == StageStart(t, "SrcPublicCancellation")
<1>1. a \in Int /\ b \in Int /\ c \in Int /\ d \in Int /\ a < b /\ b < c /\ c < d
  BY FieldRangeAssumption DEF Timelock, WellOrdered, StageStart, Stage, Field
<1> DEFINE open(x, y) == x <= time /\ time < y
<1>2. SrcStage(t, time) = CASE time < a -> "FinalityLock"
                            [] a <= time /\ time < b -> "PrivateWithdrawal"
                            [] b <= time /\ time < c -> "PublicWithdrawal"
                            [] c <= time /\ time < d -> "PrivateCancellation"
                            [] d <= time -> "PublicCancellation"
  BY Zenon DEF SrcStage
<1>3. SrcCalls(t, time) =
        {x \in {"withdraw", "publicWithdraw", "cancel", "publicCancel"} :
           CASE x = "withdraw" -> open(a, c) [] x = "publicWithdraw" -> open(b, c)
             [] x = "cancel" -> c <= time [] x = "publicCancel" -> d <= time}
  BY Zenon DEF SrcCalls
<1> HIDE DEF a, b, c, d
<1>4. \A x \in {"withdraw", "publicWithdraw", "cancel", "publicCancel"} :
        x \in SrcCalls(t, time) <=> \/ x = "withdraw" /\ open(a, c)
                                    \/ x = "publicWithdraw" /\ open(b, c)
                                    \/ x = "cancel" /\ c <= time
                                    \/ x = "publicCancel" /\ d <= time
  <2>1. /\ "withdraw" \in SrcCalls(t, time) <=> open(a, c)
        /\ "publicWithdraw" \in SrcCalls(t, time) <=> open(b, c)
        /\ "cancel" \in SrcCalls(t, time) <=> c <= time
        /\ "publicCancel" \in SrcCalls(t, time) <=> d <= time
    BY <1>3, Zenon
  <2> QED BY <2>1
<1>5. CallsOf("FinalityLock") = {} /\ CallsOf("PrivateWithdrawal") = {"withdraw"}
      /\ CallsOf("PublicWithdrawal") = {"withdraw", "publicWithdraw"}
      /\ CallsOf("PrivateCancellation") = {"cancel"}
      /\ CallsOf("PublicCancellation") = {"cancel", "publicCancel"}
  BY Zenon DEF CallsOf
<1>6. SrcCalls(t, time) \subseteq {"withdraw", "publicWithdraw", "cancel", "publicCancel"}
  BY <1>3, Zenon
<1> HIDE DEF open
<1>7. CASE time < a
  <2>1. ~(a <= time) /\ ~(b <= time) /\ ~(c <= time) /\ ~(d <= time)
    BY <1>1, <1>7
  <2>2. SrcStage(t, time) = "FinalityLock"
    BY <1>2, <1>7, <2>1, Zenon
  <2> QED BY <1>1, <1>4, <1>5, <1>6, <1>7, <2>2 DEF open
<1>8. CASE a <= time /\ time < b
  <2>1. ~(time < a) /\ ~(b <= time) /\ ~(c <= time) /\ ~(d <= time)
    BY <1>1, <1>8
  <2>2. SrcStage(t, time) = "PrivateWithdrawal"
    BY <1>2, <1>8, <2>1, Zenon
  <2> QED BY <1>1, <1>4, <1>5, <1>6, <1>8, <2>2 DEF open
<1>9. CASE b <= time /\ time < c
  <2>1. ~(time < a) /\ ~(time < b) /\ ~(c <= time) /\ ~(d <= time)
    BY <1>1, <1>9
  <2>2. SrcStage(t, time) = "PublicWithdrawal"
    BY <1>2, <1>9, <2>1, Zenon
  <2> QED BY <1>1, <1>4, <1>5, <1>6, <1>9, <2>2 DEF open
<1>10. CASE c <= time /\ time < d
  <2>1. ~(time < a) /\ ~(time < b) /\ ~(time < c) /\ ~(d <= time)
    BY <1>1, <1>10
  <2>2. SrcStage(t, time) = "PrivateCancellation"
    BY <1>2, <1>10, <2>1, Zenon
  <2> QED BY <1>1, <1>4, <1>5, <1>6, <1>10, <2>2 DEF open
<1>11. CASE d <= time
  <2>1. ~(time < a) /\ ~(time < b) /\ ~(time < c) /\ ~(time < d)
    BY <1>1, <1>11
  <2>2. SrcStage(t, time) = "PublicCancellation"
    BY <1>2, <1>11, <2>1, Zenon
  <2> QED BY <1>1, <1>4, <1>5, <1>6, <1>11, <2>2 DEF open
<1> QED BY <1>1, <1>7, <1>8, <1>9, <1>10, <1>11

\* So does the stage of a destination clone, which has no public cancellation.
LEMMA DstStages ==
  ASSUME NEW t \in Timelock, NEW time \in Nat, WellOrdered(t)
  PROVE  CallsOf(DstStage(t, time)) \cap {"withdraw", "publicWithdraw", "cancel"}
           = DstCalls(t, time)
<1> DEFINE a == StageStart(t, "DstWithdrawal")
           b == StageStart(t, "DstPublicWithdrawal")
           c == StageStart(t, "DstCancellation")
           open(x, y) == x <= time /\ time < y
<1>1. a \in Int /\ b \in Int /\ c \in Int /\ a < b /\ b < c
  BY FieldRangeAssumption DEF Timelock, WellOrdered, StageStart, Stage, Field
<1>2. DstStage(t, time) = CASE time < a -> "FinalityLock"
                            [] a <= time /\ time < b -> "PrivateWithdrawal"
                            [] b <= time /\ time < c -> "PublicWithdrawal"
                            [] c <= time -> "PrivateCancellation"
  BY Zenon DEF DstStage
<1>3. DstCalls(t, time) =
        {x \in {"withdraw", "publicWithdraw", "cancel"} :
           CASE x = "withdraw" -> open(a, c) [] x = "publicWithdraw" -> open(b, c)
             [] x = "cancel" -> c <= time}
  BY Zenon DEF DstCalls
<1> HIDE DEF a, b, c
<1>4. \A x \in {"withdraw", "publicWithdraw", "cancel"} :
        x \in DstCalls(t, time) <=> \/ x = "withdraw" /\ open(a, c)
                                    \/ x = "publicWithdraw" /\ open(b, c)
                                    \/ x = "cancel" /\ c <= time
  <2>1. /\ "withdraw" \in DstCalls(t, time) <=> open(a, c)
        /\ "publicWithdraw" \in DstCalls(t, time) <=> open(b, c)
        /\ "cancel" \in DstCalls(t, time) <=> c <= time
    BY <1>3, Zenon
  <2> QED BY <2>1
<1>5. CallsOf("FinalityLock") = {} /\ CallsOf("PrivateWithdrawal") = {"withdraw"}
      /\ CallsOf("PublicWithdrawal") = {"withdraw", "publicWithdraw"}
      /\ CallsOf("PrivateCancellation") = {"cancel"}
  BY Zenon DEF CallsOf
<1>6. DstCalls(t, time) \subseteq {"withdraw", "publicWithdraw", "cancel"}
  BY <1>3, Zenon
<1> HIDE DEF open
<1>7. CASE time < a
  <2>1. ~(a <= time) /\ ~(b <= time) /\ ~(c <= time)
    BY <1>1, <1>7
  <2>2. DstStage(t, time) = "FinalityLock"
    BY <1>2, <1>7, <2>1, Zenon
  <2> QED BY <1>1, <1>4, <1>5, <1>6, <1>7, <2>2 DEF open
<1>8. CASE a <= time /\ time < b
  <2>1. ~(time < a) /\ ~(b <= time) /\ ~(c <= time)
    BY <1>1, <1>8
  <2>2. DstStage(t, time) = "PrivateWithdrawal"
    BY <1>2, <1>8, <2>1, Zenon
  <2> QED BY <1>1, <1>4, <1>5, <1>6, <1>8, <2>2 DEF open
<1>9. CASE b <= time /\ time < c
  <2>1. ~(time < a) /\ ~(time < b) /\ ~(c <= time)
    BY <1>1, <1>9
  <2>2. DstStage(t, time) = "PublicWithdrawal"
    BY <1>2, <1>9, <2>1, Zenon
  <2> QED BY <1>1, <1>4, <1>5, <1>6, <1>9, <2>2 DEF open
<1>10. CASE c <= time
  <2>1. ~(time < a) /\ ~(time < b) /\ ~(time < c)
    BY <1>1, <1>10
  <2>2. DstStage(t, time) = "PrivateCancellation"
    BY <1>2, <1>10, <2>1, Zenon
  <2> QED BY <1>1, <1>4, <1>5, <1>6, <1>10, <2>2 DEF open
<1> QED BY <1>1, <1>7, <1>8, <1>9, <1>10

-----------------------------------------------------------------------------
(* Orders.                                                                  *)

\* What the constructors assert of an extension.
MadeExtension(e) ==
  /\ e = [fusion |-> e.fusion, hashLock |-> e.hashLock, dstChainId |-> e.dstChainId,
          dstToken |-> e.dstToken, srcSafetyDeposit |-> e.srcSafetyDeposit,
          dstSafetyDeposit |-> e.dstSafetyDeposit, timeLocks |-> e.timeLocks]
  /\ e.dstToken # "zero"
  /\ e.srcSafetyDeposit \in 0 .. Half - 1 /\ e.dstSafetyDeposit \in Nat
  /\ e.timeLocks \in Timelock
  /\ Encodable(e)

\* What they assert of an order.
Made(o) ==
  /\ o = [ext |-> o.ext, maker |-> o.maker, receiver |-> o.receiver,
          makerAsset |-> o.makerAsset, takerAsset |-> o.takerAsset,
          makingAmount |-> o.makingAmount, takingAmount |-> o.takingAmount,
          salt |-> o.salt, nonce |-> o.nonce, partial |-> o.partial,
          multiple |-> o.multiple, deadline |-> o.deadline]
  /\ o.deadline \in Nat
  /\ o.ext.fusion.startTime \in Nat /\ o.ext.fusion.duration \in Nat
  /\ MadeExtension(o.ext)

\* The names of the native token stand for each other.
LEMMA NativeNames ==
  ASSUME NEW a
  PROVE  /\ ZeroIfNative(OrNative(ZeroIfNative(a))) = ZeroIfNative(a)
         /\ a # "zero" => OrNative(ZeroIfNative(a)) = a
         /\ OrNative(OrNative(a)) = OrNative(a)
         /\ OrNative(a) # "zero"
  BY DEF OrNative, ZeroIfNative

\* An extension is read back for what it is encoded as, and for what it was if the
\* deposit of the destination fits.
LEMMA ExtensionBack ==
  ASSUME NEW e, MadeExtension(e)
  PROVE  LET r == FromExtension(BuildExtension(e))
             deposits == BuildExtension(e).extra.deposits
         IN  /\ BuildExtension(r) = BuildExtension(e)
             /\ e.dstSafetyDeposit < Half => r = e
             /\ r.fusion = e.fusion /\ r.hashLock = e.hashLock /\ r.timeLocks = e.timeLocks
             /\ r.srcSafetyDeposit = deposits \div Half
             /\ r.srcSafetyDeposit \in 0 .. Half - 1
             /\ deposits % Half \in 0 .. Half - 1
             /\ e.dstSafetyDeposit < Half => /\ deposits \div Half = e.srcSafetyDeposit
                                             /\ deposits % Half = e.dstSafetyDeposit
<1> DEFINE word == Deposits(e.srcSafetyDeposit, e.dstSafetyDeposit)
           r == FromExtension(BuildExtension(e))
           x == BuildExtension(e).extra
<1>1. /\ word \in 0 .. Half * Half - 1 /\ e.timeLocks \in Timelock
      /\ e.dstToken # "zero" /\ e.srcSafetyDeposit \in 0 .. Half - 1
      /\ e.dstSafetyDeposit \in Nat
  BY DEF MadeExtension, Encodable
<1>2. /\ x = [hashLock |-> e.hashLock, dstChainId |-> e.dstChainId,
              dstToken |-> ZeroIfNative(e.dstToken), deposits |-> word,
              timelocks |-> BuildTimeLocks(e.timeLocks)]
      /\ BuildExtension(e) = [fusion |-> e.fusion, extra |-> x]
  BY Zenon DEF BuildExtension, EncodeExtraData
<1>3. /\ SplitDeposits(word) = [src |-> word \div Half, dst |-> word % Half]
      /\ word \div Half \in 0 .. Half - 1 /\ word % Half \in 0 .. Half - 1
      /\ Deposits(word \div Half, word % Half) = word
  BY <1>1, WordSplit
<1>4. e.dstSafetyDeposit < Half => /\ word \div Half = e.srcSafetyDeposit
                                   /\ word % Half = e.dstSafetyDeposit
  BY <1>1, DepositsSplit, WidthAssumption
<1>5. TimeLocksFromBigInt(BuildTimeLocks(e.timeLocks)) = e.timeLocks
  BY <1>1, RoundTrip
<1> HIDE DEF word
<1>6. r = [fusion |-> e.fusion, hashLock |-> e.hashLock, dstChainId |-> e.dstChainId,
           dstToken |-> OrNative(ZeroIfNative(e.dstToken)),
           srcSafetyDeposit |-> word \div Half, dstSafetyDeposit |-> word % Half,
           timeLocks |-> e.timeLocks]
  BY <1>2, <1>3, <1>5 DEF FromExtension, EscrowExtension, DecodeExtraData
<1>7. x.deposits = word
  BY <1>2
<1>8. BuildExtension(r) = BuildExtension(e)
  <2>1. BuildExtension(r) =
          [fusion |-> e.fusion,
           extra |-> [hashLock |-> e.hashLock, dstChainId |-> e.dstChainId,
                      dstToken |-> ZeroIfNative(OrNative(ZeroIfNative(e.dstToken))),
                      deposits |-> Deposits(word \div Half, word % Half),
                      timelocks |-> BuildTimeLocks(e.timeLocks)]]
    <3> HIDE DEF r
    <3> QED BY <1>6 DEF BuildExtension, EncodeExtraData
  <2> QED BY <1>2, <1>3, <2>1, NativeNames
<1>9. ASSUME e.dstSafetyDeposit < Half PROVE r = e
  <2>1. r = [fusion |-> e.fusion, hashLock |-> e.hashLock, dstChainId |-> e.dstChainId,
             dstToken |-> e.dstToken, srcSafetyDeposit |-> e.srcSafetyDeposit,
             dstSafetyDeposit |-> e.dstSafetyDeposit, timeLocks |-> e.timeLocks]
    BY <1>1, <1>4, <1>6, <1>9, NativeNames
  <2> QED BY <2>1, Zenon DEF MadeExtension
<1> HIDE DEF r, x
<1>10. /\ r.fusion = e.fusion /\ r.hashLock = e.hashLock /\ r.timeLocks = e.timeLocks
       /\ r.srcSafetyDeposit = word \div Half
  BY <1>6
<1> QED BY <1>3, <1>4, <1>7, <1>8, <1>9, <1>10 DEF r, x

\* So is an order: the struct that is signed says the same after it was read.
LEMMA OrderBack ==
  ASSUME NEW o, Made(o)
  PROVE  LET r == FromDataAndExtension(BuildOrder(o), BuildExtension(o.ext))
         IN  /\ r.ext = FromExtension(BuildExtension(o.ext))
             /\ BuildOrder(r) = BuildOrder(o)
             /\ o.ext.dstSafetyDeposit < Half => r = o
             /\ r.makingAmount = o.makingAmount /\ r.multiple = o.multiple
             /\ r.makerAsset = o.makerAsset
<1> DEFINE b == BuildExtension(o.ext)
           e == FromExtension(b)
           r == FromDataAndExtension(BuildOrder(o), b)
<1>1. /\ BuildExtension(e) = b
      /\ o.ext.dstSafetyDeposit < Half => e = o.ext
      /\ e.fusion = o.ext.fusion
  BY ExtensionBack DEF Made
<1>2. BuildOrder(o) =
        [salt |-> << o.salt, b >>, maker |-> o.maker, receiver |-> o.receiver,
         makerAsset |-> o.makerAsset, takerAsset |-> o.takerAsset,
         makingAmount |-> o.makingAmount, takingAmount |-> o.takingAmount,
         traits |-> [nonce |-> o.nonce, partial |-> o.partial,
                     multiple |-> o.multiple, expiration |-> o.deadline]]
  BY Zenon DEF BuildOrder
<1> HIDE DEF b, e
<1> DEFINE start == e.fusion.startTime
           lasts == e.fusion.duration
<1>3. start + lasts + (o.deadline - start - lasts) = o.deadline
  <2>1. start \in Nat /\ lasts \in Nat /\ o.deadline \in Nat
    BY <1>1 DEF Made
  <2> HIDE DEF start, lasts
  <2> QED BY <2>1
<1>4. r = [ext |-> e, maker |-> o.maker, receiver |-> o.receiver,
           makerAsset |-> o.makerAsset, takerAsset |-> o.takerAsset,
           makingAmount |-> o.makingAmount, takingAmount |-> o.takingAmount,
           salt |-> o.salt, nonce |-> o.nonce, partial |-> o.partial,
           multiple |-> o.multiple, deadline |-> o.deadline]
  <2>1. FromExtension(b) = e
    BY DEF e
  <2> QED BY <1>2, <1>3, <2>1 DEF FromDataAndExtension, InnerOrder
<1> HIDE DEF r
<1>5. BuildOrder(r) = BuildOrder(o)
  <2>1. BuildOrder(r) =
        [salt |-> << o.salt, BuildExtension(e) >>, maker |-> o.maker,
         receiver |-> o.receiver, makerAsset |-> o.makerAsset, takerAsset |-> o.takerAsset,
         makingAmount |-> o.makingAmount, takingAmount |-> o.takingAmount,
         traits |-> [nonce |-> o.nonce, partial |-> o.partial,
                     multiple |-> o.multiple, expiration |-> o.deadline]]
    BY <1>4 DEF BuildOrder
  <2> QED BY <1>1, <1>2, <2>1
<1>6. ASSUME o.ext.dstSafetyDeposit < Half PROVE r = o
  <2>1. e = o.ext
    BY <1>1, <1>6
  <2> QED BY <1>4, <2>1, Zenon DEF Made
<1>7. r.ext = e /\ r.makingAmount = o.makingAmount /\ r.multiple = o.multiple
      /\ r.makerAsset = o.makerAsset
  BY <1>4
<1> QED BY <1>5, <1>6, <1>7 DEF r, e, b

\* The order of a quote is well made.
LEMMA CreatedWell ==
  ASSUME Quoted, Created, ClockAssumption, now \in Nat
  PROVE  /\ Made(order)
         /\ order.ext.srcSafetyDeposit = quote.response.srcSafetyDeposit
         /\ order.ext.dstSafetyDeposit = quote.response.dstSafetyDeposit
         /\ order.makerAsset # "native"
         /\ order.makingAmount \in Nat
         /\ order.ext.hashLock = LockOf(secrets)
         /\ order.ext.timeLocks = NewTimeLocks(quote.response.timeLocks)
         /\ WellOrdered(order.ext.timeLocks)
         /\ LET preset == GetPreset(quote, params.preset)
                fusion == order.ext.fusion
            IN fusion.whitelist = GetWhitelist(quote, fusion.startTime, preset.exclusiveResolver)
<1> DEFINE response == quote.response
           request == quote.request
           preset == GetPreset(quote, params.preset)
           escrow == EscrowParamsOf(quote, params.hashLock)
           locks == NewTimeLocks(response.timeLocks)
<1>1. PICK time \in Start .. now : order = CreateOrder(quote, params, time)
  BY DEF Created
<1>2. /\ TimeLocksOK(locks)
      /\ params.preset \in DOMAIN response.presets
      /\ EscrowExtensionOK(escrow) /\ Encodable(escrow)
      /\ params.hashLock = LockOf(secrets)
  BY DEF Created, CreateOrderOK, HasPreset, NewOrderOK
<1>3. /\ response.srcTokenAmount \in Nat /\ response.srcSafetyDeposit \in Nat
      /\ response.dstSafetyDeposit \in Nat /\ response.timeLocks \in [Stage -> Nat]
      /\ preset.auctionDuration \in Nat /\ preset.startAuctionIn \in Nat
      /\ request.srcToken # "native" /\ request.dstToken # "zero"
  <2>1. Answered(response) /\ QuoterRequestOK(request)
    BY DEF Quoted
  <2>2. preset \in PresetData
    BY <1>2, <2>1 DEF Answered, GetPreset
  <2>3. preset.auctionDuration \in Nat /\ preset.startAuctionIn \in Nat
    BY <2>2 DEF PresetData
  <2> QED BY <2>1, <2>3 DEF Answered, QuoterRequestOK
<1>4. locks \in Timelock /\ WellOrdered(locks)
  <2>1. locks = [deployedAt |-> 0, delay |-> response.timeLocks]
    BY DEF NewTimeLocks
  <2>2. WellOrdered(locks) /\ \A s \in Stage : response.timeLocks[s] < FieldRange
    BY <1>2, <2>1 DEF TimeLocksOK
  <2>3. \A s \in Stage : response.timeLocks[s] \in Field
    BY <1>3, <2>2, FieldRangeAssumption DEF Field
  <2> QED BY <1>3, <2>1, <2>2, <2>3, FieldRangeAssumption DEF Timelock, Field
<1>5. escrow = [hashLock |-> params.hashLock, srcChainId |-> request.srcChain,
                dstChainId |-> request.dstChain,
                srcSafetyDeposit |-> response.srcSafetyDeposit,
                dstSafetyDeposit |-> response.dstSafetyDeposit, timeLocks |-> locks]
  BY Zenon DEF EscrowParamsOf
<1> DEFINE fusion == [factory |-> response.srcEscrowFactory,
                      startTime |-> time + preset.startAuctionIn,
                      duration |-> preset.auctionDuration,
                      whitelist |-> GetWhitelist(quote, time + preset.startAuctionIn,
                                                 preset.exclusiveResolver)]
           ext == [fusion |-> fusion, hashLock |-> params.hashLock,
                   dstChainId |-> request.dstChain, dstToken |-> OrNative(request.dstToken),
                   srcSafetyDeposit |-> response.srcSafetyDeposit,
                   dstSafetyDeposit |-> response.dstSafetyDeposit, timeLocks |-> locks]
           info == OrderInfoOf(quote, preset, params.receiver, params.salt)
           extra == ExtraOf(preset, params)
           made == [ext |-> ext, maker |-> request.walletAddress, receiver |-> params.receiver,
                    makerAsset |-> request.srcToken,
                    takerAsset |-> TrueERC20[request.srcChain],
                    makingAmount |-> response.srcTokenAmount,
                    takingAmount |-> preset.auctionEndAmount, salt |-> params.salt,
                    nonce |-> extra.nonce, partial |-> extra.partial,
                    multiple |-> extra.multiple,
                    deadline |-> time + preset.startAuctionIn + preset.auctionDuration
                                   + ExpirationDelay]
<1>6. order = made
  <2>1. order = NewOrder(fusion, info, escrow, extra)
    BY <1>1, Zenon DEF CreateOrder, CreateAuctionDetails, AuctionStartTime
  <2>2. info = [maker |-> request.walletAddress, receiver |-> params.receiver,
                makerAsset |-> request.srcToken, takerAsset |-> request.dstToken,
                makingAmount |-> response.srcTokenAmount,
                takingAmount |-> preset.auctionEndAmount, salt |-> params.salt]
    BY Zenon DEF OrderInfoOf
  <2>3. extra = [nonce |-> NonceOf(preset, params.nonce, params.random),
                 partial |-> preset.partial, multiple |-> preset.multiple,
                 expirationDelay |-> ExpirationDelay]
    BY Zenon DEF ExtraOf
  <2> HIDE DEF info, escrow, preset, response, request, locks, fusion, extra
  <2>4. EscrowExtension(fusion, [hashLock |-> escrow.hashLock,
                                 dstChainId |-> escrow.dstChainId,
                                 dstToken |-> info.takerAsset,
                                 srcSafetyDeposit |-> escrow.srcSafetyDeposit,
                                 dstSafetyDeposit |-> escrow.dstSafetyDeposit,
                                 timeLocks |-> escrow.timeLocks]) = ext
    BY <1>5, <2>2 DEF EscrowExtension
  <2>5. order = InnerOrder(ext, [info EXCEPT !.takerAsset = TrueERC20[request.srcChain]], extra)
    BY <1>5, <2>1, <2>4 DEF NewOrder
  <2>6. /\ ext.fusion.startTime = time + preset.startAuctionIn
        /\ ext.fusion.duration = preset.auctionDuration
        /\ extra.expirationDelay = ExpirationDelay
    BY <2>3 DEF fusion
  <2> HIDE DEF ext
  <2> QED BY <2>2, <2>5, <2>6 DEF InnerOrder
<1>7. MadeExtension(ext)
  <2>1. /\ response.srcSafetyDeposit \in 0 .. Half - 1
        /\ Deposits(response.srcSafetyDeposit, response.dstSafetyDeposit)
             \in 0 .. Half * Half - 1
    BY <1>2, <1>3, <1>5, WidthAssumption DEF EscrowExtensionOK, Encodable
  <2> HIDE DEF response, request, preset, locks, fusion
  <2>2. OrNative(request.dstToken) # "zero"
    BY NativeNames
  <2> QED BY <1>3, <1>4, <2>1, <2>2 DEF MadeExtension, Encodable
<1>8. /\ time \in Nat /\ time + preset.startAuctionIn \in Nat
      /\ time + preset.startAuctionIn + preset.auctionDuration + ExpirationDelay \in Nat
  BY <1>1, <1>3, WidthAssumption
<1> HIDE DEF response, request, preset, locks, info, extra
<1>9. fusion.startTime \in Nat /\ fusion.duration \in Nat
  BY <1>3, <1>8
<1>10. fusion.whitelist = GetWhitelist(quote, fusion.startTime, preset.exclusiveResolver)
  OBVIOUS
<1> HIDE DEF fusion
<1>11. /\ ext.fusion = fusion /\ ext.hashLock = params.hashLock /\ ext.timeLocks = locks
       /\ ext.srcSafetyDeposit = response.srcSafetyDeposit
       /\ ext.dstSafetyDeposit = response.dstSafetyDeposit
  OBVIOUS
<1> HIDE DEF ext
<1>12. Made(made)
  BY <1>7, <1>8, <1>9, <1>11 DEF Made
<1>13. /\ made.ext = ext /\ made.makerAsset = request.srcToken
       /\ made.makingAmount = response.srcTokenAmount
  OBVIOUS
<1> HIDE DEF made
<1>14. /\ order.ext.hashLock = LockOf(secrets)
       /\ order.ext.timeLocks = locks /\ WellOrdered(order.ext.timeLocks)
       /\ order.ext.srcSafetyDeposit = response.srcSafetyDeposit
       /\ order.ext.dstSafetyDeposit = response.dstSafetyDeposit
       /\ order.makerAsset # "native" /\ order.makingAmount \in Nat
  BY <1>2, <1>3, <1>4, <1>6, <1>11, <1>13
<1> QED BY <1>6, <1>10, <1>11, <1>12, <1>13, <1>14 DEF response, preset, locks

-----------------------------------------------------------------------------
(* What the invariant says of every stage.                                  *)

\* An order that has come to a stage has come to those before it.
LEMMA EarlierReached ==
  ASSUME NEW n \in 1 .. 7, NEW k \in 1 .. n, Reached(n)
  PROVE  Reached(k)
  BY DEF Reached

\* The stages by their names.
LEMMA StageNames ==
  /\ stage \in {"read", "src", "dst"} <=> Reached(5)
  /\ Deployed <=> Reached(6)
  /\ stage = "dst" <=> Reached(7)
  BY DEF Reached, Stages, Deployed

\* What was read says what the maker signed.
LEMMA ReadWell ==
  ASSUME IInv, Reached(5)
  PROVE  /\ now \in Nat /\ Quoted /\ Created /\ Submitted
         /\ Made(order)
         /\ relayed.signature = GetOrderHash(order, relayed.srcChainId)
         /\ read = FromDataAndExtension(BuildOrder(order), BuildExtension(order.ext))
         /\ BuildOrder(read) = BuildOrder(order)
         /\ BuildExtension(read.ext) = BuildExtension(order.ext)
         /\ order.ext.dstSafetyDeposit < Half => read = order
         /\ read.ext.timeLocks = order.ext.timeLocks /\ read.ext.hashLock = order.ext.hashLock
         /\ read.ext.fusion = order.ext.fusion
         /\ read.makingAmount = order.makingAmount /\ read.multiple = order.multiple
<1>1. /\ now \in Nat /\ Quoted /\ Created /\ Submitted
      /\ read = FromDataAndExtension(relayed.struct, relayed.extension)
  BY EarlierReached, ClockAssumption DEF IInv
<1>2. Made(order)
  BY <1>1, CreatedWell, ClockAssumption
<1>3. /\ relayed.srcChainId = quote.request.srcChain
      /\ relayed.struct = BuildOrder(order) /\ relayed.extension = BuildExtension(order.ext)
      /\ relayed.signature = GetOrderHash(order, quote.request.srcChain)
  BY <1>1 DEF Submitted
<1>4. read = FromDataAndExtension(BuildOrder(order), BuildExtension(order.ext))
  BY <1>1, <1>3
<1>5. /\ read.ext = FromExtension(BuildExtension(order.ext))
      /\ BuildOrder(read) = BuildOrder(order)
      /\ order.ext.dstSafetyDeposit < Half => read = order
      /\ read.makingAmount = order.makingAmount /\ read.multiple = order.multiple
  BY <1>2, <1>4, OrderBack
<1>6. MadeExtension(order.ext)
  BY <1>2 DEF Made
<1>7. /\ BuildExtension(read.ext) = BuildExtension(order.ext)
      /\ read.ext.fusion = order.ext.fusion /\ read.ext.hashLock = order.ext.hashLock
      /\ read.ext.timeLocks = order.ext.timeLocks
  BY <1>5, <1>6, ExtensionBack
<1> QED BY <1>1, <1>2, <1>3, <1>4, <1>5, <1>7

\* The clone of the source chain was made of what the maker signed.
LEMMA SrcWell ==
  ASSUME IInv, Reached(6)
  PROVE  /\ src.at \in Start .. now
         /\ \E amount \in FillAmounts :
              LET struct    == BuildOrder(order)
                  extension == BuildExtension(order.ext)
                  i         == src.immutables
              IN /\ amount \in 1 .. order.makingAmount
                 /\ order.multiple => ProofHolds(order.ext.hashLock, FirstIdx(amount))
                 /\ \E w \in order.ext.fusion.whitelist :
                      w.address = SrcResolver /\ w.allowFrom <= src.at
                 /\ i = [orderHash |-> i.orderHash, hashLock |-> i.hashLock,
                         maker |-> i.maker, taker |-> i.taker, token |-> i.token,
                         amount |-> i.amount, safetyDeposit |-> i.safetyDeposit,
                         timeLocks |-> i.timeLocks]
                 /\ i.hashLock = ValidatedLeaf(struct, extension.extra, amount)
                 /\ i.token = order.makerAsset /\ i.amount = amount
                 /\ i.safetyDeposit = extension.extra.deposits \div Half
                 /\ i.timeLocks = BuildTimeLocks(SetDeployedAt(order.ext.timeLocks, src.at))
                 /\ src.complement = DstComplement(struct, extension, amount)
                 /\ src.address = << CreatedAs(relayed.srcChainId),
                                     order.ext.fusion.factory, i, SrcImpl >>
<1> DEFINE struct    == BuildOrder(order)
           extension == BuildExtension(order.ext)
<1>1. Reached(5) /\ SrcDeployed
  BY EarlierReached DEF IInv
<1>2. /\ BuildOrder(read) = struct /\ BuildExtension(read.ext) = extension
      /\ read.ext.fusion = order.ext.fusion /\ Made(order) /\ now \in Nat
  BY <1>1, ReadWell
<1>3. /\ struct.makingAmount = order.makingAmount /\ struct.makerAsset = order.makerAsset
      /\ struct.traits.multiple = order.multiple
  BY DEF BuildOrder
<1>4. /\ extension.extra.hashLock = order.ext.hashLock
      /\ extension.extra.timelocks = BuildTimeLocks(order.ext.timeLocks)
      /\ extension.fusion = order.ext.fusion
  BY DEF BuildExtension, EncodeExtraData
<1> HIDE DEF struct, extension
<1>5. src.at \in Start .. now /\ src.at \in Nat
  BY <1>1, <1>2, ClockAssumption DEF SrcDeployed
<1>6. PICK amount \in FillAmounts :
        /\ amount <= struct.makingAmount
        /\ struct.traits.multiple => ProofHolds(extension.extra.hashLock, FirstIdx(amount))
        /\ \E w \in extension.fusion.whitelist : w.address = SrcResolver /\ w.allowFrom <= src.at
        /\ src = [immutables |-> SrcSalt(amount, src.at),
                  complement |-> DstComplement(struct, extension, amount), at |-> src.at,
                  address |-> << CreatedAs(relayed.srcChainId), read.ext.fusion.factory,
                                 SrcSalt(amount, src.at), SrcImpl >>]
  BY <1>1, <1>2, Zenon DEF SrcDeployed
<1> DEFINE i == SrcSalt(amount, src.at)
<1>7. i = [orderHash |-> << relayed.srcChainId, LimitOrderProtocol[relayed.srcChainId],
                            struct >>,
           hashLock |-> ValidatedLeaf(struct, extension.extra, amount),
           maker |-> struct.maker, taker |-> SrcResolver,
           token |-> struct.makerAsset, amount |-> amount,
           safetyDeposit |-> extension.extra.deposits \div Half,
           timeLocks |-> DatedWord(extension.extra.timelocks, src.at)]
  BY <1>2, Zenon DEF SrcSalt
<1> HIDE DEF i
<1>8. /\ i = [orderHash |-> i.orderHash, hashLock |-> i.hashLock, maker |-> i.maker,
              taker |-> i.taker, token |-> i.token, amount |-> i.amount,
              safetyDeposit |-> i.safetyDeposit, timeLocks |-> i.timeLocks]
      /\ i.hashLock = ValidatedLeaf(struct, extension.extra, amount)
      /\ i.token = struct.makerAsset /\ i.amount = amount
      /\ i.safetyDeposit = extension.extra.deposits \div Half
      /\ i.timeLocks = DatedWord(extension.extra.timelocks, src.at)
  BY <1>7
<1>9. i.timeLocks = BuildTimeLocks(SetDeployedAt(order.ext.timeLocks, src.at))
  BY <1>2, <1>4, <1>5, <1>8, DatedBack DEF Made, MadeExtension
<1>10. /\ src.immutables = i /\ src.complement = DstComplement(struct, extension, amount)
       /\ src.address = << CreatedAs(relayed.srcChainId), read.ext.fusion.factory, i, SrcImpl >>
  <2> DEFINE at == src.at
             c == DstComplement(struct, extension, amount)
             address == << CreatedAs(relayed.srcChainId), read.ext.fusion.factory, i, SrcImpl >>
  <2>1. src = [immutables |-> i, complement |-> c, at |-> at, address |-> address]
    BY <1>6, Zenon DEF i
  <2> HIDE DEF at, c, address
  <2>2. src.immutables = i /\ src.complement = c /\ src.address = address
    BY <2>1
  <2> QED BY <2>2 DEF c, address
<1>11. order.makingAmount \in Nat
  BY <1>1, ReadWell, CreatedWell, ClockAssumption
<1>12. amount \in 1 .. order.makingAmount
  BY <1>3, <1>6, <1>11, AmountsAssumption
<1>13. /\ order.multiple => ProofHolds(order.ext.hashLock, FirstIdx(amount))
       /\ \E w \in order.ext.fusion.whitelist : w.address = SrcResolver /\ w.allowFrom <= src.at
       /\ src.immutables.token = order.makerAsset
       /\ src.address = << CreatedAs(relayed.srcChainId), order.ext.fusion.factory,
                           src.immutables, SrcImpl >>
  BY <1>2, <1>3, <1>4, <1>6, <1>8, <1>10
<1> QED BY <1>5, <1>8, <1>9, <1>10, <1>12, <1>13 DEF struct, extension

\* Immutables of an escrow, field by field.
Immutables(h, l, m, k, o, a, d, t) ==
  [orderHash |-> h, hashLock |-> l, maker |-> m, taker |-> k,
   token |-> o, amount |-> a, safetyDeposit |-> d, timeLocks |-> t]

\* Their fields, and immutables with other time locks.
LEMMA ImmutablesFields ==
  ASSUME NEW h, NEW l, NEW m, NEW k, NEW o, NEW a, NEW d, NEW t
  PROVE  LET x == Immutables(h, l, m, k, o, a, d, t)
         IN  /\ x.token = o /\ x.timeLocks = t /\ x.amount = a /\ x.safetyDeposit = d
             /\ \A t2 : [x EXCEPT !.timeLocks = t2] = Immutables(h, l, m, k, o, a, d, t2)
<1>1. LET x == Immutables(h, l, m, k, o, a, d, t)
      IN  /\ x.token = o /\ x.timeLocks = t /\ x.amount = a /\ x.safetyDeposit = d
  BY DEF Immutables
<1>2. ASSUME NEW t2
      PROVE  [Immutables(h, l, m, k, o, a, d, t) EXCEPT !.timeLocks = t2]
               = Immutables(h, l, m, k, o, a, d, t2)
  BY DEF Immutables
<1> QED BY <1>1, <1>2

\* The constructor of the SDK.
LEMMA ImmutablesNew ==
  ASSUME NEW h, NEW l, NEW m, NEW k, NEW o, NEW a, NEW d, NEW t
  PROVE  NewImmutables(Immutables(h, l, m, k, o, a, d, t)) =
           Immutables(h, l, m, k, OrNative(o), a, d, t)
  BY DEF Immutables, NewImmutables

\* Immutables as they are sent.
LEMMA ImmutablesBuilt ==
  ASSUME NEW h, NEW l, NEW m, NEW k, NEW o, NEW a, NEW d, NEW t
  PROVE  BuildImmutables(Immutables(h, l, m, k, o, a, d, t)) =
           Immutables(h, l, m, k, ZeroIfNative(o), a, d, BuildTimeLocks(t))
<1> DEFINE x == Immutables(h, l, m, k, o, a, d, t)
<1>1. BuildImmutables(x) = [x EXCEPT !.token = ZeroIfNative(o),
                                     !.timeLocks = BuildTimeLocks(t)]
  <2>1. x.token = o /\ x.timeLocks = t
    BY ImmutablesFields
  <2> HIDE DEF x
  <2> QED BY <2>1, Zenon DEF BuildImmutables
<1> QED BY <1>1 DEF Immutables

\* The taker of the destination clone.
LEMMA ImmutablesTaken ==
  ASSUME NEW h, NEW l, NEW m, NEW k, NEW o, NEW a, NEW d, NEW t, NEW taker
  PROVE  WithTaker(Immutables(h, l, m, k, o, a, d, t), taker) =
           Immutables(h, l, m, taker, OrNative(o), a, d, t)
<1> DEFINE x == Immutables(h, l, m, k, o, a, d, t)
<1>1. [x EXCEPT !.taker = taker] = Immutables(h, l, m, taker, o, a, d, t)
  BY DEF Immutables
<1>2. WithTaker(x, taker) = NewImmutables(Immutables(h, l, m, taker, o, a, d, t))
  BY <1>1, Zenon DEF WithTaker
<1> QED BY <1>2, ImmutablesNew

\* The complement of the event.
LEMMA ImmutablesComplemented ==
  ASSUME NEW h, NEW l, NEW m, NEW k, NEW o, NEW a, NEW d, NEW t, NEW c
  PROVE  WithComplement(Immutables(h, l, m, k, o, a, d, t), c) =
           Immutables(h, l, c.maker, k, OrNative(c.token), c.amount, c.safetyDeposit, t)
<1> DEFINE x == Immutables(h, l, m, k, o, a, d, t)
<1>1. ASSUME NEW m2, NEW a2, NEW o2, NEW d2
      PROVE  [x EXCEPT !.maker = m2, !.amount = a2, !.token = o2, !.safetyDeposit = d2]
               = Immutables(h, l, m2, k, o2, a2, d2, t)
  <2>1. [x EXCEPT !.maker = m2] = Immutables(h, l, m2, k, o, a, d, t)
    BY DEF Immutables
  <2>2. [Immutables(h, l, m2, k, o, a, d, t) EXCEPT !.amount = a2]
          = Immutables(h, l, m2, k, o, a2, d, t)
    BY DEF Immutables
  <2>3. [Immutables(h, l, m2, k, o, a2, d, t) EXCEPT !.token = o2]
          = Immutables(h, l, m2, k, o2, a2, d, t)
    BY DEF Immutables
  <2>4. [Immutables(h, l, m2, k, o2, a2, d, t) EXCEPT !.safetyDeposit = d2]
          = Immutables(h, l, m2, k, o2, a2, d2, t)
    BY DEF Immutables
  <2> HIDE DEF x
  <2>5. [x EXCEPT !.maker = m2, !.amount = a2, !.token = o2, !.safetyDeposit = d2]
          = [[[[x EXCEPT !.maker = m2] EXCEPT !.amount = a2] EXCEPT !.token = o2]
               EXCEPT !.safetyDeposit = d2]
    OBVIOUS
  <2> QED BY <2>1, <2>2, <2>3, <2>4, <2>5
<1>2. [x EXCEPT !.maker = c.maker, !.amount = c.amount, !.token = c.token,
                !.safetyDeposit = c.safetyDeposit]
        = Immutables(h, l, c.maker, k, c.token, c.amount, c.safetyDeposit, t)
  BY <1>1, Zenon
<1>3. WithComplement(x, c) =
        NewImmutables(Immutables(h, l, c.maker, k, c.token, c.amount, c.safetyDeposit, t))
  BY <1>2, Zenon DEF WithComplement
<1> QED BY <1>3, ImmutablesNew

\* What the resolver reads from the event: the clone's immutables, and its time locks.
LEMMA EventWell ==
  ASSUME IInv, Reached(6)
  PROVE  LET i == src.immutables
             t == SetDeployedAt(order.ext.timeLocks, src.at)
         IN  /\ SrcDeployEvent = Immutables(i.orderHash, i.hashLock, i.maker, i.taker,
                                            OrNative(i.token), i.amount, i.safetyDeposit, t)
             /\ SrcDeployEvent.timeLocks = t
             /\ TimeLocksFromBigInt(i.timeLocks) = t
             /\ t \in Timelock /\ WellOrdered(t)
             /\ BuildImmutables(SrcDeployEvent) = i
<1> DEFINE t == SetDeployedAt(order.ext.timeLocks, src.at)
           i == src.immutables
           made(token, locks) == Immutables(i.orderHash, i.hashLock, i.maker, i.taker, token,
                                            i.amount, i.safetyDeposit, locks)
<1>1. /\ i = made(i.token, i.timeLocks)
      /\ i.token = order.makerAsset /\ i.timeLocks = BuildTimeLocks(t)
      /\ src.at \in Start .. now
  BY SrcWell DEF Immutables
<1>2. now \in Nat /\ Made(order) /\ order.makerAsset # "native"
      /\ WellOrdered(order.ext.timeLocks)
  BY EarlierReached, ReadWell, CreatedWell, ClockAssumption
<1>3. order.ext.timeLocks \in Timelock /\ src.at \in Nat
  BY <1>1, <1>2, ClockAssumption DEF Made, MadeExtension
<1>4. t \in Timelock /\ \A s \in Stage : t.delay[s] = order.ext.timeLocks.delay[s]
  BY <1>3, DatedBack
<1>5. WellOrdered(t)
  BY <1>2, <1>4 DEF WellOrdered, Stage
<1>6. TimeLocksFromBigInt(i.timeLocks) = t
  BY <1>1, <1>4, RoundTrip
<1> HIDE DEF t
<1>7. SrcDeployEvent = made(OrNative(i.token), t)
  <2>1. SrcDeployEvent = NewImmutables([i EXCEPT !.timeLocks = t])
    BY <1>6 DEF SrcDeployEvent
  <2>2. [i EXCEPT !.timeLocks = t] = made(i.token, t)
    <3> HIDE DEF i
    <3> QED BY <1>1, ImmutablesFields
  <2> QED BY <2>1, <2>2, ImmutablesNew
<1>8. SrcDeployEvent.timeLocks = t
  BY <1>7, ImmutablesFields
<1>9. BuildImmutables(SrcDeployEvent) = i
  <2>1. ZeroIfNative(OrNative(i.token)) = i.token
    BY <1>1, <1>2 DEF ZeroIfNative, OrNative
  <2> QED BY <1>1, <1>7, <2>1, ImmutablesBuilt
<1> QED BY <1>4, <1>5, <1>6, <1>7, <1>8, <1>9 DEF t

\* What the clone of the destination chain is made of.
LEMMA DstMade ==
  ASSUME IInv, Reached(6)
  PROVE  LET i == src.immutables
             c == src.complement
             t == SetDeployedAt(order.ext.timeLocks, src.at)
         IN  /\ DstImmutables = Immutables(i.orderHash, i.hashLock, c.maker, DstResolver,
                                           OrNative(c.token), c.amount, c.safetyDeposit, t)
             /\ DstImmutables.timeLocks = t /\ DstImmutables.safetyDeposit = c.safetyDeposit
             /\ BuildImmutables(DstImmutables) =
                  Immutables(i.orderHash, i.hashLock, c.maker, DstResolver,
                             ZeroIfNative(OrNative(c.token)), c.amount, c.safetyDeposit,
                             BuildTimeLocks(t))
<1> DEFINE i == src.immutables
           c == src.complement
           t == SetDeployedAt(order.ext.timeLocks, src.at)
<1>1. SrcDeployEvent = Immutables(i.orderHash, i.hashLock, i.maker, i.taker,
                                  OrNative(i.token), i.amount, i.safetyDeposit, t)
  BY EventWell
<1> HIDE DEF i, c, t
<1>2. WithComplement(SrcDeployEvent, c) =
        Immutables(i.orderHash, i.hashLock, c.maker, i.taker, OrNative(c.token), c.amount,
                   c.safetyDeposit, t)
  BY <1>1, ImmutablesComplemented
<1>3. OrNative(OrNative(c.token)) = OrNative(c.token)
  BY NativeNames
<1>4. DstImmutables =
        Immutables(i.orderHash, i.hashLock, c.maker, DstResolver, OrNative(c.token), c.amount,
                   c.safetyDeposit, t)
  <2>1. DstImmutables = WithTaker(WithComplement(SrcDeployEvent, c), DstResolver)
    BY DEF DstImmutables, c
  <2> QED BY <1>2, <1>3, <2>1, ImmutablesTaken
<1> QED BY <1>4, ImmutablesFields, ImmutablesBuilt DEF i, c, t

\* The clone of the destination chain is the one that these immutables ask for.
LEMMA DstWell ==
  ASSUME IInv, Reached(7)
  PROVE  LET i == src.immutables
             c == src.complement
             t == SetDeployedAt(order.ext.timeLocks, src.at)
             salt == Immutables(i.orderHash, i.hashLock, c.maker, DstResolver,
                                ZeroIfNative(OrNative(c.token)), c.amount, c.safetyDeposit,
                                BuildTimeLocks(SetDeployedAt(t, dst.at)))
         IN  /\ dst.at \in Nat /\ dst.at <= now
             /\ dst.immutables = salt /\ dst.immutables.timeLocks = salt.timeLocks
             /\ dst.address = << CreatedAs(quote.request.dstChain), DstFactory, salt, DstImpl >>
<1> DEFINE i == src.immutables
           c == src.complement
           t == SetDeployedAt(order.ext.timeLocks, src.at)
           built == BuildImmutables(DstImmutables)
           made(locks) == Immutables(i.orderHash, i.hashLock, c.maker, DstResolver,
                                     ZeroIfNative(OrNative(c.token)), c.amount,
                                     c.safetyDeposit, locks)
           salt == made(BuildTimeLocks(SetDeployedAt(t, dst.at)))
           word == DatedWord(built.timeLocks, dst.at)
           at == dst.at
           address == << CreatedAs(quote.request.dstChain), DstFactory, salt, DstImpl >>
<1>1. Reached(6) /\ DstDeployed
  BY EarlierReached DEF IInv
<1>2. built = made(BuildTimeLocks(t))
  BY <1>1, DstMade
<1>3. t \in Timelock /\ dst.at \in Nat /\ dst.at <= now
  <2>1. now \in Nat
    BY <1>1, EarlierReached, ReadWell
  <2> QED BY <1>1, <2>1, EventWell, ClockAssumption DEF DstDeployed
<1> HIDE DEF i, c, t
<1>4. built.timeLocks = BuildTimeLocks(t)
  BY <1>2, ImmutablesFields
<1>5. word = BuildTimeLocks(SetDeployedAt(t, dst.at))
  BY <1>3, <1>4, DatedBack
<1>6. [built EXCEPT !.timeLocks = word] = salt
  BY <1>2, <1>5, ImmutablesFields
<1>7. dst = [immutables |-> salt, at |-> at, address |-> address]
  <2> HIDE DEF salt
  <2>1. dst = [immutables |-> [built EXCEPT !.timeLocks = word], at |-> dst.at,
               address |-> << CreatedAs(quote.request.dstChain), DstFactory,
                              [built EXCEPT !.timeLocks = word], DstImpl >>]
    BY <1>1, Zenon DEF DstDeployed
  <2> QED BY <1>6, <2>1, Zenon
<1>8. dst.immutables = salt /\ dst.address = address
  <2> HIDE DEF at, salt, address
  <2> QED BY <1>7
<1> QED BY <1>2, <1>3, <1>8 DEF i, c, t

-----------------------------------------------------------------------------
(* The properties.                                                          *)

\* A part of an order is one of the parts its tree has leaves for.
LEMMA PartOf ==
  ASSUME NEW a \in Nat, NEW p \in Nat \ {0}, NEW m \in Nat, a < m
  PROVE  (a * p) \div m \in 0 .. p - 1
<1> DEFINE n == a * p
           q == n \div m
<1>1. m \in Nat \ {0} /\ n \in Nat
  OBVIOUS
<1>2. q \in Nat /\ n = q * m + (n % m) /\ n % m \in Nat
  BY <1>1, Split
<1>3. n < m * p
  <2>1. a * p <= (m - 1) * p /\ (m - 1) * p = m * p - p
    OBVIOUS
  <2>2. a * p \in Nat /\ m * p \in Nat
    OBVIOUS
  <2> QED BY <2>1, <2>2
<1> HIDE DEF q
<1>4. ASSUME q >= p PROVE FALSE
  <2>1. q * m >= p * m
    BY <1>1, <1>2, <1>4
  <2>2. q * m <= n /\ p * m = m * p
    <3>1. q * m \in Nat
      BY <1>1, <1>2
    <3> HIDE DEF n
    <3> QED BY <1>1, <1>2, <3>1
  <2>3. q * m \in Nat /\ m * p \in Nat
    BY <1>1, <1>2
  <2> HIDE DEF n
  <2> QED BY <1>1, <1>3, <2>1, <2>2, <2>3
<1> QED BY <1>2, <1>4 DEF q

\* The hashes of n secrets.
LEMMA HashesMade ==
  ASSUME NEW n \in Nat
  PROVE  /\ Len(Hashes(n)) = n /\ DOMAIN Hashes(n) = 1 .. n
         /\ \A k \in 1 .. n : Hashes(n)[k] = HashSecret(k)
         /\ Len(GetMerkleLeavesFromSecretHashes(Hashes(n))) = n
         /\ \A k \in 1 .. n :
              GetMerkleLeavesFromSecretHashes(Hashes(n))[k] = << "leaf", k - 1, HashSecret(k) >>
<1>1. /\ Len(Hashes(n)) = n /\ DOMAIN Hashes(n) = 1 .. n
      /\ \A k \in 1 .. n : Hashes(n)[k] = HashSecret(k)
  BY DEF Hashes
<1> DEFINE leaves == GetMerkleLeavesFromSecretHashes(Hashes(n))
<1>2. leaves = [k \in 1 .. n |-> << "leaf", k - 1, HashSecret(k) >>]
  BY <1>1 DEF GetMerkleLeavesFromSecretHashes
<1> QED BY <1>1, <1>2

\* The lock of an order with n secrets: the hash of the only one, or a root.
LEMMA LockMade ==
  ASSUME NEW n \in Nat
  PROVE  /\ n = 1 => LockOf(n) = HashSecret(1) /\ ~IsRoot(LockOf(n))
         /\ n # 1 => IsRoot(LockOf(n)) /\ GetPartsCount(LockOf(n)) = n - 1
<1>1. ASSUME n = 1 PROVE LockOf(n) = HashSecret(1) /\ ~IsRoot(LockOf(n))
  BY <1>1 DEF LockOf, ForSingleFill, HashSecret, IsRoot
<1>2. ASSUME n # 1 PROVE IsRoot(LockOf(n)) /\ GetPartsCount(LockOf(n)) = n - 1
  <2> DEFINE leaves == GetMerkleLeavesFromSecretHashes(Hashes(n))
  <2>1. LockOf(n) = << "root", Len(leaves) - 1, leaves >>
    BY <1>2 DEF LockOf, ForMultipleFills
  <2>2. Len(leaves) = n
    BY HashesMade
  <2> QED BY <2>1, <2>2 DEF IsRoot, GetPartsCount
<1> QED BY <1>1, <1>2

\* The hash that locks a part of an order is that of one of the maker's secrets.
LEMMA PartLocked ==
  ASSUME IInv, Reached(6), order.multiple,
         NEW amount \in 1 .. order.makingAmount, IsRoot(order.ext.hashLock)
  PROVE  \E k \in 1 .. secrets : relayed.secretHashes[FirstIdx(amount) + 1] = HashSecret(k)
<1>1. /\ Reached(5) /\ read.makingAmount = order.makingAmount
      /\ read.ext.hashLock = order.ext.hashLock /\ Quoted /\ Created /\ Submitted
      /\ now \in Nat
  BY EarlierReached, ReadWell
<1>2. order.ext.hashLock = LockOf(secrets) /\ order.makingAmount \in Nat
  BY <1>1, CreatedWell, ClockAssumption
<1>3. secrets \in Nat /\ secrets > 2 /\ GetPartsCount(order.ext.hashLock) = secrets - 1
  BY <1>1, <1>2, LockMade DEF Created
<1>4. PICK n \in {1, secrets} : /\ SubmitOrderOK(order, Hashes(n))
                                /\ relayed.secretHashes = SecretHashesSent(Hashes(n))
  BY <1>1 DEF Submitted
<1>5. n = secrets
  <2>1. Len(Hashes(n)) = secrets - 1 + 1
    BY <1>3, <1>4 DEF SubmitOrderOK
  <2> QED BY <1>3, <2>1, HashesMade
<1>6. relayed.secretHashes = Hashes(secrets)
  BY <1>3, <1>4, <1>5, HashesMade DEF SecretHashesSent
<1>7. FirstIdx(amount) + 1 \in 1 .. secrets
  <2> DEFINE p == secrets - 1
             m == order.makingAmount
             idx == ((amount - 1) * p) \div m
  <2>1. FirstIdx(amount) = IF amount = m THEN idx + 1 ELSE idx
    BY <1>1, <1>3 DEF FirstIdx
  <2>2. idx \in 0 .. p - 1
    <3>1. amount - 1 \in Nat /\ p \in Nat \ {0} /\ m \in Nat /\ amount - 1 < m
      BY <1>2, <1>3
    <3> QED BY <3>1, PartOf
  <2> HIDE DEF idx
  <2> QED BY <1>3, <2>1, <2>2
<1> QED BY <1>3, <1>6, <1>7, HashesMade

\* The deposits and the amount of the source clone.
LEMMA SrcDeposits ==
  ASSUME IInv, Reached(6)
  PROVE  LET word == BuildExtension(order.ext).extra.deposits
         IN  /\ src.immutables.safetyDeposit = word \div Half
             /\ src.complement.safetyDeposit = word % Half
             /\ src.immutables.amount \in 1 .. order.makingAmount
<1> DEFINE extension == BuildExtension(order.ext)
<1>1. PICK amount :
        /\ amount \in 1 .. order.makingAmount /\ src.immutables.amount = amount
        /\ src.immutables.safetyDeposit = extension.extra.deposits \div Half
        /\ src.complement = DstComplement(BuildOrder(order), extension, amount)
  BY SrcWell, Zenon
<1> HIDE DEF extension
<1>2. src.complement.safetyDeposit = extension.extra.deposits % Half
  BY <1>1 DEF DstComplement
<1> QED BY <1>1, <1>2 DEF extension

\* The invariant gives the types.
LEMMA InvTypes == IInv => TypeOK
<1> SUFFICES ASSUME IInv PROVE TypeOK
  OBVIOUS
<1>1. now \in Start .. Horizon
  BY DEF IInv
<1>2. stage \in {"idle", "quoted", "created", "relayed", "read", "src", "dst"}
  BY DEF IInv, Reached, Stages
<1>3. stage \in {"read", "src", "dst"} => read.ext.timeLocks \in Timelock
  BY StageNames, ReadWell DEF Made, MadeExtension
<1>4. ASSUME Deployed
      PROVE  /\ src.immutables.safetyDeposit \in 0 .. Half - 1
             /\ src.complement.safetyDeposit \in 0 .. Half - 1
             /\ src.immutables.amount \in 1 .. order.makingAmount
  <2>1. Reached(6) /\ Reached(5)
    BY <1>4, StageNames, EarlierReached
  <2> DEFINE word == BuildExtension(order.ext).extra.deposits
  <2>2. word \div Half \in 0 .. Half - 1 /\ word % Half \in 0 .. Half - 1
    BY <2>1, ReadWell, ExtensionBack DEF Made
  <2>3. /\ src.immutables.safetyDeposit = word \div Half
        /\ src.complement.safetyDeposit = word % Half
        /\ src.immutables.amount \in 1 .. order.makingAmount
    BY <2>1, SrcDeposits
  <2> QED BY <2>2, <2>3
<1> QED BY <1>1, <1>3, <1>4 DEF TypeOK

\* The resolver reads the order that was signed.
LEMMA InvRead == IInv => ReadsWhatWasSigned
<1> SUFFICES ASSUME IInv, Reached(5)
             PROVE  /\ GetOrderHash(read, relayed.srcChainId) = relayed.signature
                    /\ quote.response.dstSafetyDeposit < Half => read = order
  BY StageNames DEF ReadsWhatWasSigned
<1>1. order.ext.dstSafetyDeposit = quote.response.dstSafetyDeposit
  BY ReadWell, CreatedWell, ClockAssumption
<1>2. GetOrderHash(read, relayed.srcChainId) = GetOrderHash(order, relayed.srcChainId)
  BY ReadWell DEF GetOrderHash
<1> QED BY <1>1, <1>2, ReadWell

\* The deposits reach the clones.
LEMMA InvDeposits == IInv => DepositsAsQuoted
<1> SUFFICES ASSUME IInv, Reached(6), quote.response.dstSafetyDeposit < Half
             PROVE  /\ src.immutables.safetyDeposit = quote.response.srcSafetyDeposit
                    /\ src.complement.safetyDeposit = quote.response.dstSafetyDeposit
  BY StageNames DEF DepositsAsQuoted
<1> DEFINE word == BuildExtension(order.ext).extra.deposits
<1>1. Reached(5)
  BY EarlierReached
<1>2. /\ order.ext.dstSafetyDeposit = quote.response.dstSafetyDeposit
      /\ order.ext.srcSafetyDeposit = quote.response.srcSafetyDeposit
      /\ MadeExtension(order.ext)
  BY <1>1, ReadWell, CreatedWell, ClockAssumption DEF Made
<1>3. /\ word \div Half = quote.response.srcSafetyDeposit
      /\ word % Half = quote.response.dstSafetyDeposit
  BY <1>2, ExtensionBack
<1>4. /\ src.immutables.safetyDeposit = word \div Half
      /\ src.complement.safetyDeposit = word % Half
  BY SrcDeposits
<1> QED BY <1>3, <1>4

\* One of the maker's secrets opens the clones.
LEMMA InvOpened == IInv => EscrowsCanBeOpened
<1> SUFFICES ASSUME IInv, Reached(6)
             PROVE  \/ \E k \in 1 .. secrets : HashSecret(k) = src.immutables.hashLock
                    \/ ~order.multiple /\ IsRoot(order.ext.hashLock)
  BY StageNames DEF EscrowsCanBeOpened
<1>1. Reached(5)
  BY EarlierReached
<1>2. PICK amount \in FillAmounts :
        /\ amount \in 1 .. order.makingAmount
        /\ order.multiple => ProofHolds(order.ext.hashLock, FirstIdx(amount))
        /\ src.immutables.hashLock =
             ValidatedLeaf(BuildOrder(order), BuildExtension(order.ext).extra, amount)
  BY SrcWell
<1>3. src.immutables.hashLock = IF order.multiple
                                THEN relayed.secretHashes[FirstIdx(amount) + 1]
                                ELSE order.ext.hashLock
  BY <1>2 DEF ValidatedLeaf, BuildOrder, BuildExtension, EncodeExtraData
<1>4. order.ext.hashLock = LockOf(secrets) /\ secrets \in Nat
  BY <1>1, ReadWell, CreatedWell, ClockAssumption DEF Created
<1>5. CASE order.multiple
  BY <1>2, <1>3, <1>5, PartLocked DEF ProofHolds
<1>6. CASE ~order.multiple /\ secrets = 1
  BY <1>3, <1>4, <1>6, LockMade
<1>7. CASE ~order.multiple /\ secrets # 1
  BY <1>4, <1>7, LockMade
<1> QED BY <1>5, <1>6, <1>7

\* The SDK finds the clones where they are.
LEMMA InvAgree == IInv => EscrowsAgree
<1> SUFFICES ASSUME IInv PROVE EscrowsAgree
  OBVIOUS
<1>1. ASSUME Reached(6)
      PROVE  GetSrcEscrowAddress(relayed.srcChainId, order.ext.fusion.factory,
                                 SrcDeployEvent, SrcImpl) = src.address
  <2>1. BuildImmutables(SrcDeployEvent) = src.immutables
    BY <1>1, EventWell
  <2>2. src.address = << CreatedAs(relayed.srcChainId), order.ext.fusion.factory,
                         src.immutables, SrcImpl >>
    BY <1>1, SrcWell
  <2> QED BY <2>1, <2>2 DEF GetSrcEscrowAddress, GetEscrowAddress, CloneKind, CreatedAs
<1>2. ASSUME Reached(7), dst.at < FieldRange
      PROVE  GetDstEscrowAddress(quote.request.dstChain, DstFactory, SrcDeployEvent,
                                 src.complement, dst.at, DstResolver, DstImpl) = dst.address
  <2> DEFINE i == src.immutables
             c == src.complement
             t == SetDeployedAt(order.ext.timeLocks, src.at)
             made(token, locks) == Immutables(i.orderHash, i.hashLock, c.maker, DstResolver,
                                              token, c.amount, c.safetyDeposit, locks)
             salt == made(ZeroIfNative(OrNative(c.token)), BuildTimeLocks(SetDeployedAt(t, dst.at)))
  <2>1. Reached(6)
    BY <1>2, EarlierReached
  <2>2. /\ DstImmutables = made(OrNative(c.token), t)
        /\ BuildImmutables(DstImmutables) = made(ZeroIfNative(OrNative(c.token)), BuildTimeLocks(t))
    BY <2>1, DstMade
  <2>3. t \in Timelock /\ dst.at \in Nat
    BY <1>2, <2>1, EventWell, DstWell
  <2> HIDE DEF i, c, t
  <2>4. WithDeployedAt(TimeLocksFromBigInt(BuildTimeLocks(t)), dst.at) = SetDeployedAt(t, dst.at)
    BY <1>2, <2>3, DatedBack, RoundTrip
  <2>5. WithDeployedAtTime(DstImmutables, dst.at)
          = made(OrNative(c.token), SetDeployedAt(t, dst.at))
    <3>1. DstImmutables.timeLocks = t
      BY <2>2, ImmutablesFields
    <3>2. WithDeployedAtTime(DstImmutables, dst.at)
            = NewImmutables([DstImmutables EXCEPT !.timeLocks = SetDeployedAt(t, dst.at)])
      BY <2>4, <3>1 DEF WithDeployedAtTime
    <3>3. [DstImmutables EXCEPT !.timeLocks = SetDeployedAt(t, dst.at)]
            = made(OrNative(c.token), SetDeployedAt(t, dst.at))
      BY <2>2, ImmutablesFields
    <3> QED BY <3>2, <3>3, NativeNames, ImmutablesNew
  <2>6. BuildImmutables(WithDeployedAtTime(DstImmutables, dst.at)) = salt
    BY <2>5, ImmutablesBuilt
  <2>7. dst.address = << CreatedAs(quote.request.dstChain), DstFactory, salt, DstImpl >>
    BY <1>2, DstWell DEF i, c, t
  <2> QED BY <2>6, <2>7
       DEF GetDstEscrowAddress, GetEscrowAddress, CloneKind, CreatedAs, DstImmutables, c
<1> QED BY <1>1, <1>2, StageNames DEF EscrowsAgree

\* The stages that the SDK tells are those of the clones.
LEMMA InvStages == IInv => StagesAgree
<1> SUFFICES ASSUME IInv PROVE StagesAgree
  OBVIOUS
<1> DEFINE t == SetDeployedAt(order.ext.timeLocks, src.at)
<1>1. ASSUME Reached(6)
      PROVE  /\ now \in Nat /\ src.at \in Nat /\ SrcDeployEvent.timeLocks = t
             /\ TimeLocksFromBigInt(src.immutables.timeLocks) = t
             /\ t \in Timelock /\ WellOrdered(t) /\ order.ext.timeLocks \in Timelock
             /\ \A s \in Stage : t.delay[s] = order.ext.timeLocks.delay[s]
             /\ src.at < FieldRange => t.deployedAt = src.at
  <2>1. now \in Nat /\ Made(order) /\ src.at \in Start .. now
    BY <1>1, EarlierReached, ReadWell, SrcWell
  <2>2. src.at \in Nat /\ order.ext.timeLocks \in Timelock
    BY <2>1, ClockAssumption DEF Made, MadeExtension
  <2>3. \A s \in Stage : t.delay[s] = order.ext.timeLocks.delay[s]
    BY <2>2, DatedBack
  <2>4. ASSUME src.at < FieldRange PROVE t.deployedAt = src.at
    <3>1. t = WithDeployedAt(order.ext.timeLocks, src.at)
      BY <2>2, <2>4, DatedBack
    <3> HIDE DEF t
    <3> QED BY <2>2, <3>1 DEF WithDeployedAt, Timelock
  <2> QED BY <1>1, <2>1, <2>2, <2>3, <2>4, EventWell
<1> HIDE DEF t
<1>2. ASSUME Reached(6), SrcTimeLocksOK(SrcDeployEvent.timeLocks)
      PROVE  CallsOf(SrcStage(SrcDeployEvent.timeLocks, now))
               = SrcCalls(TimeLocksFromBigInt(src.immutables.timeLocks), now)
  BY <1>1, <1>2, SrcStages
<1>3. ASSUME Reached(6), src.at < FieldRange,
             order.ext.timeLocks.delay["SrcPublicCancellation"] < src.at
      PROVE  SrcTimeLocksOK(SrcDeployEvent.timeLocks)
  <2> DEFINE d == t.delay
  <2>1. /\ t.deployedAt = src.at /\ src.at \in Nat /\ WellOrdered(t)
        /\ d["SrcPublicCancellation"] < src.at
        /\ \A s \in Stage : d[s] \in Nat /\ d[s] < FieldRange
    BY <1>1, <1>3, FieldRangeAssumption DEF Timelock, Field, Stage
  <2>2. /\ d["SrcWithdrawal"] < d["SrcPublicWithdrawal"]
        /\ d["SrcPublicWithdrawal"] < d["SrcCancellation"]
        /\ d["SrcCancellation"] < d["SrcPublicCancellation"]
    BY <2>1 DEF WellOrdered
  <2>3. DatedOK(t)
    BY <1>3, <2>1, FieldRangeAssumption DEF DatedOK, Stage
  <2>4. /\ d["SrcWithdrawal"] \in Nat /\ d["SrcPublicWithdrawal"] \in Nat
        /\ d["SrcCancellation"] \in Nat /\ d["SrcPublicCancellation"] \in Nat
    BY <2>1 DEF Stage
  <2>5. /\ d["SrcWithdrawal"] < src.at /\ d["SrcPublicWithdrawal"] < src.at
        /\ d["SrcCancellation"] < src.at /\ d["SrcPublicCancellation"] < src.at
    <3> HIDE DEF d
    <3> QED BY <2>1, <2>2, <2>4
  <2>6. \A s \in {"SrcWithdrawal", "SrcPublicWithdrawal", "SrcCancellation",
                  "SrcPublicCancellation"} : d[s] < FieldRange /\ d[s] < t.deployedAt
    BY <2>1, <2>5 DEF Stage
  <2>7. SrcTimeLocksOK(t)
    BY <2>1, <2>3, <2>6 DEF SrcTimeLocksOK
  <2> QED BY <1>1, <1>3, <2>7
<1>4. ASSUME Reached(7), DstTimeLocksOK(WithDeployedAt(SrcDeployEvent.timeLocks, dst.at))
      PROVE  CallsOf(DstStage(WithDeployedAt(SrcDeployEvent.timeLocks, dst.at), now))
               \cap {"withdraw", "publicWithdraw", "cancel"}
               = DstCalls(TimeLocksFromBigInt(dst.immutables.timeLocks), now)
  <2>1. Reached(6)
    BY <1>4, EarlierReached
  <2>2. /\ dst.at \in Nat /\ t \in Timelock /\ SrcDeployEvent.timeLocks = t /\ now \in Nat
        /\ dst.immutables.timeLocks = BuildTimeLocks(SetDeployedAt(t, dst.at))
    BY <1>1, <1>4, <2>1, DstWell, ImmutablesFields DEF t
  <2>3. dst.at < FieldRange
    <3>1. DatedOK(WithDeployedAt(t, dst.at))
      BY <1>4, <2>2 DEF DstTimeLocksOK
    <3>2. WithDeployedAt(t, dst.at).deployedAt = dst.at
      BY <2>2 DEF WithDeployedAt, Timelock
    <3> QED BY <3>1, <3>2 DEF DatedOK
  <2> DEFINE u == SetDeployedAt(t, dst.at)
  <2>4. /\ WithDeployedAt(t, dst.at) = u /\ u \in Timelock
        /\ TimeLocksFromBigInt(dst.immutables.timeLocks) = u
    BY <2>2, <2>3, DatedBack, RoundTrip
  <2>5. WellOrdered(u)
    BY <1>4, <2>2, <2>4 DEF DstTimeLocksOK
  <2> HIDE DEF u
  <2> QED BY <2>2, <2>4, <2>5, DstStages
<1> QED BY <1>2, <1>3, <1>4, StageNames, Zenon DEF StagesAgree

\* Only the exclusive resolver fills before the auction.
LEMMA InvExclusive == IInv => ExclusiveFirst
<1> SUFFICES ASSUME IInv, Reached(6), src.at < order.ext.fusion.startTime
             PROVE  GetPreset(quote, params.preset).exclusiveResolver \in {"none", SrcResolver}
  BY StageNames DEF ExclusiveFirst
<1> DEFINE exclusive == GetPreset(quote, params.preset).exclusiveResolver
           fusion == order.ext.fusion
<1>1. Reached(5)
  BY EarlierReached
<1>2. /\ fusion.whitelist = GetWhitelist(quote, fusion.startTime, exclusive)
      /\ fusion.startTime \in Nat
  BY <1>1, ReadWell, CreatedWell, ClockAssumption DEF Made
<1>3. now \in Nat /\ src.at \in Start .. now
  BY <1>1, ReadWell, SrcWell
<1>4. PICK w \in fusion.whitelist : w.address = SrcResolver /\ w.allowFrom <= src.at
  BY SrcWell
<1> HIDE DEF exclusive, fusion
<1>5. PICK a \in quote.response.whitelist :
        w = [address |-> a,
             allowFrom |-> IF exclusive \in {"none", a} THEN 0 ELSE fusion.startTime]
  BY <1>2, <1>4 DEF GetWhitelist
<1>6. a = SrcResolver /\ (exclusive \in {"none", a} \/ w.allowFrom = fusion.startTime)
  BY <1>4, <1>5
<1>7. ~(fusion.startTime <= src.at)
  BY <1>2, <1>3, ClockAssumption DEF fusion
<1> QED BY <1>4, <1>6, <1>7 DEF exclusive

-----------------------------------------------------------------------------
(* What a stage leaves stays as it is.                                      *)

\* The time of a step.
Later == now \in Nat /\ now' \in Nat /\ now <= now'

\* The quote.
LEMMA QuotedStays ==
  ASSUME Quoted, UNCHANGED quote
  PROVE  Quoted'
  BY DEF Quoted

\* The order.
LEMMA CreatedStays ==
  ASSUME Created, UNCHANGED << quote, secrets, params, order >>, Later
  PROVE  Created'
<1>1. PICK time \in Start .. now : order = CreateOrder(quote, params, time)
  BY DEF Created
<1>2. time \in Start .. now'
  BY <1>1, ClockAssumption DEF Later
<1> QED BY <1>1, <1>2 DEF Created

\* What the relayer was given.
LEMMA SubmittedStays ==
  ASSUME Submitted, UNCHANGED << quote, secrets, order, relayed >>
  PROVE  Submitted'
  BY DEF Submitted

\* The clone of the source chain.
LEMMA SrcStays ==
  ASSUME SrcDeployed, UNCHANGED << relayed, read, src >>, Later
  PROVE  SrcDeployed'
<1>1. src.at \in Start .. now => src.at \in Start .. now'
  BY ClockAssumption DEF Later
<1>2. ASSUME NEW amount PROVE FirstIdx(amount)' = FirstIdx(amount)
  BY DEF FirstIdx
<1>3. ASSUME NEW amount, NEW lock
      PROVE  ProofHolds(lock, FirstIdx(amount)) => ProofHolds(lock, FirstIdx(amount))'
  BY <1>2 DEF ProofHolds
<1>4. ASSUME NEW amount, NEW struct, NEW extra
      PROVE  ValidatedLeaf(struct, extra, amount)' = ValidatedLeaf(struct, extra, amount)
  BY <1>2 DEF ValidatedLeaf
<1>5. ASSUME NEW amount PROVE SrcSalt(amount, src.at)' = SrcSalt(amount, src.at)
  BY <1>4 DEF SrcSalt
<1>6. src.at' = src.at /\ read.ext' = read.ext /\ read' = read /\ src' = src
      /\ relayed' = relayed
  OBVIOUS
<1> DEFINE struct    == BuildOrder(read)
           extension == BuildExtension(read.ext)
<1>7. PICK amount \in FillAmounts :
        /\ amount <= struct.makingAmount
        /\ struct.traits.multiple => ProofHolds(extension.extra.hashLock, FirstIdx(amount))
        /\ \E w \in extension.fusion.whitelist : w.address = SrcResolver /\ w.allowFrom <= src.at
        /\ src = [immutables |-> SrcSalt(amount, src.at),
                  complement |-> DstComplement(struct, extension, amount), at |-> src.at,
                  address |-> << CreatedAs(relayed.srcChainId), read.ext.fusion.factory,
                                 SrcSalt(amount, src.at), SrcImpl >>]
  BY Zenon DEF SrcDeployed
<1>8. struct' = struct /\ extension' = extension
  BY <1>6
<1> HIDE DEF struct, extension
<1>9. /\ amount <= struct'.makingAmount
      /\ struct'.traits.multiple =>
           ProofHolds(extension.extra.hashLock, FirstIdx(amount))'
      /\ \E w \in extension'.fusion.whitelist :
           w.address = SrcResolver /\ w.allowFrom <= src.at'
  <2>1. ProofHolds(extension.extra.hashLock, FirstIdx(amount))
          => ProofHolds(extension.extra.hashLock, FirstIdx(amount))'
    BY <1>3, <1>8
  <2> QED BY <1>6, <1>7, <1>8, <2>1
<1>10. src' = [immutables |-> SrcSalt(amount, src.at)',
               complement |-> DstComplement(struct', extension', amount), at |-> src.at',
               address |-> << CreatedAs(relayed'.srcChainId), read.ext.fusion.factory',
                              SrcSalt(amount, src.at)', SrcImpl >>]
  <2>1. read.ext.fusion.factory' = read.ext.fusion.factory
    BY <1>6
  <2> QED BY <1>5, <1>6, <1>7, <1>8, <2>1, Zenon
<1> QED BY <1>1, <1>9, <1>10, <1>6, <1>7, Zenon DEF SrcDeployed, struct, extension

\* The clone of the destination chain.
LEMMA DstStays ==
  ASSUME DstDeployed, UNCHANGED << quote, src, dst >>, Later
  PROVE  DstDeployed'
<1>1. dst.at \in Start .. now => dst.at \in Start .. now'
  BY ClockAssumption DEF Later
<1> QED BY <1>1 DEF DstDeployed, DstImmutables, SrcDeployEvent

\* The stages are different.
LEMMA StagesDiffer ==
  ASSUME NEW m \in 1 .. 7, NEW k \in 1 .. 7, Stages[m] = Stages[k]
  PROVE  m = k
  BY DEF Stages

\* At a stage the order has come to it and to those before it.
LEMMA AtStage ==
  ASSUME NEW m \in 1 .. 7, NEW n \in 1 .. 7, stage = Stages[m]
  PROVE  Reached(n) <=> n <= m
  BY StagesDiffer DEF Reached

\* So it has after a step that comes to one.
LEMMA ToStage ==
  ASSUME NEW m \in 1 .. 7, NEW n \in 1 .. 7, stage' = Stages[m]
  PROVE  Reached(n)' <=> n <= m
  BY StagesDiffer DEF Reached

\* Nothing was asked yet.
LEMMA InitInv == Init => IInv
<1> SUFFICES ASSUME Init PROVE IInv
  OBVIOUS
<1>1. stage = Stages[1] /\ now = Start
  BY DEF Init, Stages
<1>2. \A n \in 1 .. 7 : Reached(n) <=> n <= 1
  BY <1>1, AtStage
<1>3. Reached(1) /\ ~Reached(2) /\ ~Reached(3) /\ ~Reached(4) /\ ~Reached(5) /\ ~Reached(6)
      /\ ~Reached(7)
  BY <1>2
<1> QED BY <1>1, <1>3, ClockAssumption DEF IInv

\* Time passes, or nothing happens.
LEMMA TickInv ==
  ASSUME IInv, Tick \/ UNCHANGED vars
  PROVE  IInv'
<1>1. /\ UNCHANGED << stage, quote, secrets, params, order, relayed, read, src, dst >>
      /\ now' \in Start .. Horizon /\ Later
  BY ClockAssumption DEF IInv, Tick, vars, Later
<1>2. ASSUME NEW n \in 1 .. 7 PROVE Reached(n)' <=> Reached(n)
  BY <1>1 DEF Reached
<1>3. Reached(1)'
  BY <1>2 DEF IInv
<1>4. (Reached(2)' => Quoted') /\ (Reached(3)' => Created') /\ (Reached(4)' => Submitted')
  BY <1>1, <1>2, QuotedStays, CreatedStays, SubmittedStays DEF IInv
<1>5. Reached(5)' => read' = FromDataAndExtension(relayed'.struct, relayed'.extension)
  BY <1>1, <1>2 DEF IInv
<1>6. (Reached(6)' => SrcDeployed') /\ (Reached(7)' => DstDeployed')
  BY <1>1, <1>2, SrcStays, DstStays DEF IInv
<1> QED BY <1>1, <1>3, <1>4, <1>5, <1>6 DEF IInv

\* An order that comes to its next stage.
LEMMA Advance ==
  ASSUME IInv, NEW m \in 1 .. 6, stage = Stages[m], stage' = Stages[m + 1], UNCHANGED now
  PROVE  /\ now' \in Start .. Horizon /\ Later
         /\ \A n \in 1 .. 7 : /\ Reached(n) <=> n <= m
                              /\ Reached(n)' <=> n <= m + 1
<1>1. now \in Start .. Horizon
  BY DEF IInv
<1>2. m + 1 \in 1 .. 7 /\ m \in 1 .. 7
  OBVIOUS
<1>3. \A n \in 1 .. 7 : (Reached(n) <=> n <= m) /\ (Reached(n)' <=> n <= m + 1)
  BY <1>2, AtStage, ToStage
<1> QED BY <1>1, <1>3, ClockAssumption DEF Later

\* A quote.
LEMMA GetQuoteInv ==
  ASSUME IInv, GetQuote
  PROVE  IInv'
<1>1. PICK request \in Requests, response \in Responses :
        QuoterRequestOK(request) /\ quote' = [request |-> request, response |-> response]
  BY DEF GetQuote
<1>2. response \in QuoterResponse
  BY <1>1, AnswersAssumption
<1>3. Answered(response)
  BY <1>2 DEF Answered, QuoterResponse
<1>4. quote'.request = request /\ quote'.response = response
  BY <1>1
<1>5. Quoted'
  BY <1>1, <1>3, <1>4 DEF Quoted
<1>6. stage = Stages[1] /\ stage' = Stages[1 + 1] /\ UNCHANGED now
  BY DEF GetQuote, Stages
<1>7. /\ now' \in Start .. Horizon
      /\ \A n \in 1 .. 7 : Reached(n)' <=> n <= 1 + 1
  BY <1>6, Advance
<1>8. /\ Reached(1)' /\ ~Reached(3)' /\ ~Reached(4)' /\ ~Reached(5)'
      /\ ~Reached(6)' /\ ~Reached(7)'
  BY <1>7
<1> QED BY <1>5, <1>7, <1>8 DEF IInv

\* A quote with the preset that was sent for it.
LEMMA GetQuoteWithCustomPresetInv ==
  ASSUME IInv, GetQuoteWithCustomPreset
  PROVE  IInv'
<1> DEFINE presets(response, custom) ==
             [t \in {"fast", "slow", "custom"} |->
                IF t = "custom"
                THEN [response.presets["fast"] EXCEPT !.auctionEndAmount = custom.auctionEndAmount]
                ELSE response.presets[t]]
<1>1. PICK request \in Requests, response \in Responses, custom \in CustomPresets :
        /\ QuoterRequestOK(request) /\ CustomPresetOK(custom)
        /\ quote' = [request |-> request,
                     response |-> [response EXCEPT !.presets = presets(response, custom)]]
  BY Zenon DEF GetQuoteWithCustomPreset
<1>2. response \in QuoterResponse /\ custom \in CustomPreset
  BY <1>1, AnswersAssumption
<1>3. custom.auctionEndAmount \in Nat
  BY <1>1, <1>2 DEF CustomPreset, CustomPresetOK, ValidAmount
<1>4. response.presets["fast"] \in PresetData /\ response.presets["slow"] \in PresetData
  BY <1>2 DEF QuoterResponse
<1>5. [response.presets["fast"] EXCEPT !.auctionEndAmount = custom.auctionEndAmount] \in PresetData
  BY <1>3, <1>4 DEF PresetData
<1> DEFINE p == presets(response, custom)
           answer2 == [response EXCEPT !.presets = p]
<1>6. \A t \in DOMAIN p : p[t] \in PresetData
  BY <1>4, <1>5
<1> HIDE DEF presets, p
<1>7. /\ answer2.presets = p /\ answer2.srcTokenAmount = response.srcTokenAmount
      /\ answer2.srcSafetyDeposit = response.srcSafetyDeposit
      /\ answer2.dstSafetyDeposit = response.dstSafetyDeposit
      /\ answer2.timeLocks = response.timeLocks
  BY <1>2 DEF QuoterResponse
<1>8. Answered(answer2)
  <2> HIDE DEF answer2
  <2> QED BY <1>2, <1>6, <1>7 DEF Answered, QuoterResponse
<1>9. quote' = [request |-> request, response |-> answer2]
  BY <1>1, Zenon DEF p
<1> HIDE DEF answer2
<1>10. quote'.request = request /\ quote'.response = answer2
  BY <1>9
<1>11. Quoted'
  BY <1>1, <1>8, <1>9, <1>10 DEF Quoted
<1>12. stage = Stages[1] /\ stage' = Stages[1 + 1] /\ UNCHANGED now
  BY DEF GetQuoteWithCustomPreset, Stages
<1>13. /\ now' \in Start .. Horizon
       /\ \A n \in 1 .. 7 : Reached(n)' <=> n <= 1 + 1
  BY <1>12, Advance
<1>14. /\ Reached(1)' /\ ~Reached(3)' /\ ~Reached(4)' /\ ~Reached(5)'
       /\ ~Reached(6)' /\ ~Reached(7)'
  BY <1>13
<1> QED BY <1>11, <1>13, <1>14 DEF IInv

\* An order.
LEMMA MakeOrderInv ==
  ASSUME IInv, MakeOrder
  PROVE  IInv'
<1>1. PICK type, p :
        LET n == GetPreset(quote, type).secretsCount
        IN /\ HasPreset(quote, type)
           /\ p.hashLock = LockOf(n)
           /\ n # 1 => EnoughLeaves(GetMerkleLeavesFromSecretHashes(Hashes(n)))
           /\ CreateOrderOK(quote, p)
           /\ secrets' = n /\ params' = p /\ order' = CreateOrder(quote, p, now)
  <2>1. PICK type \in {"fast", "slow", "custom"}, receiver \in Receivers, leftOut \in BOOLEAN :
          /\ HasPreset(quote, type)
          /\ LET n == GetPreset(quote, type).secretsCount
                 p == [preset |-> IF leftOut THEN quote.response.recommendedPreset ELSE type,
                       hashLock |-> LockOf(n), receiver |-> receiver,
                       nonce |-> 0, random |-> 7, salt |-> 3]
             IN /\ n # 1 => EnoughLeaves(GetMerkleLeavesFromSecretHashes(Hashes(n)))
                /\ CreateOrderOK(quote, p)
                /\ secrets' = n
                /\ params' = p
                /\ order' = CreateOrder(quote, p, now)
    BY Zenon DEF MakeOrder
  <2> DEFINE p == [preset |-> IF leftOut THEN quote.response.recommendedPreset ELSE type,
                   hashLock |-> LockOf(GetPreset(quote, type).secretsCount),
                   receiver |-> receiver, nonce |-> 0, random |-> 7, salt |-> 3]
  <2>2. p.hashLock = LockOf(GetPreset(quote, type).secretsCount)
    OBVIOUS
  <2> QED BY <2>1, <2>2, Zenon
<1>2. /\ stage = Stages[2] /\ stage' = Stages[2 + 1] /\ UNCHANGED << now, quote >>
  BY DEF MakeOrder, Stages
<1>3. /\ now' \in Start .. Horizon /\ Later
      /\ \A n \in 1 .. 7 : (Reached(n) <=> n <= 2) /\ (Reached(n)' <=> n <= 2 + 1)
  BY <1>2, Advance
<1>4. /\ Reached(2) /\ Reached(1)' /\ Reached(2)' /\ ~Reached(4)' /\ ~Reached(5)'
      /\ ~Reached(6)' /\ ~Reached(7)'
  BY <1>3
<1>5. Quoted /\ Quoted'
  BY <1>2, <1>4, QuotedStays DEF IInv
<1>6. secrets' \in Nat
  <2>1. GetPreset(quote, type) \in PresetData
    BY <1>1, <1>5 DEF Quoted, Answered, HasPreset, GetPreset
  <2>2. GetPreset(quote, type).secretsCount \in Nat
    BY <2>1 DEF PresetData
  <2> QED BY <1>1, <2>2
<1>7. secrets' # 1 => secrets' > 2
  BY <1>1, <1>6, HashesMade DEF EnoughLeaves
<1>8. now \in Start .. now'
  BY <1>2, <1>3, ClockAssumption DEF IInv, Later
<1>9. /\ CreateOrderOK(quote', params') /\ params'.hashLock = LockOf(secrets')
      /\ order' = CreateOrder(quote', params', now)
  BY <1>1, <1>2
<1>10. Created'
  BY <1>6, <1>7, <1>8, <1>9 DEF Created
<1> QED BY <1>3, <1>4, <1>5, <1>10 DEF IInv

\* The order is handed to the relayer.
LEMMA SubmitOrderInv ==
  ASSUME IInv, SubmitOrder
  PROVE  IInv'
<1>1. /\ stage = Stages[3] /\ stage' = Stages[3 + 1]
      /\ UNCHANGED << now, quote, secrets, params, order >>
  BY DEF SubmitOrder, Stages
<1>2. /\ now' \in Start .. Horizon /\ Later
      /\ \A n \in 1 .. 7 : (Reached(n) <=> n <= 3) /\ (Reached(n)' <=> n <= 3 + 1)
  BY <1>1, Advance
<1>3. /\ Reached(2) /\ Reached(3) /\ Reached(1)' /\ ~Reached(5)' /\ ~Reached(6)' /\ ~Reached(7)'
  BY <1>2
<1>4. Quoted' /\ Created'
  BY <1>1, <1>2, <1>3, QuotedStays, CreatedStays DEF IInv
<1>5. Submitted'
  <2>1. PICK n \in {1, secrets} :
          /\ SubmitOrderOK(order, Hashes(n))
          /\ relayed' = [srcChainId |-> quote.request.srcChain,
                         struct |-> BuildOrder(order), extension |-> BuildExtension(order.ext),
                         signature |-> GetOrderHash(order, quote.request.srcChain),
                         secretHashes |-> SecretHashesSent(Hashes(n))]
    BY Zenon DEF SubmitOrder
  <2>2. quote' = quote /\ order' = order /\ secrets' = secrets
    BY <1>1
  <2> QED BY <2>1, <2>2, Zenon DEF Submitted
<1> QED BY <1>2, <1>3, <1>4, <1>5 DEF IInv

\* The resolver reads it.
LEMMA ReadOrderInv ==
  ASSUME IInv, ReadOrder
  PROVE  IInv'
<1>1. /\ stage = Stages[4] /\ stage' = Stages[4 + 1]
      /\ UNCHANGED << now, quote, secrets, params, order, relayed >>
      /\ read' = FromDataAndExtension(relayed.struct, relayed.extension)
  BY DEF ReadOrder, Stages
<1>2. /\ now' \in Start .. Horizon /\ Later
      /\ \A n \in 1 .. 7 : (Reached(n) <=> n <= 4) /\ (Reached(n)' <=> n <= 4 + 1)
  BY <1>1, Advance
<1>3. /\ Reached(2) /\ Reached(3) /\ Reached(4) /\ Reached(1)' /\ ~Reached(6)' /\ ~Reached(7)'
  BY <1>2
<1>4. Quoted' /\ Created' /\ Submitted'
  BY <1>1, <1>2, <1>3, QuotedStays, CreatedStays, SubmittedStays DEF IInv
<1>5. read' = FromDataAndExtension(relayed'.struct, relayed'.extension)
  BY <1>1
<1> QED BY <1>2, <1>3, <1>4, <1>5 DEF IInv

\* A fill deploys the clone of the source chain.
LEMMA DeploySrcInv ==
  ASSUME IInv, NEW kind, NEW amount \in FillAmounts, DeploySrc(kind, amount)
  PROVE  IInv'
<1>1. /\ stage = Stages[5] /\ stage' = Stages[5 + 1]
      /\ UNCHANGED << now, quote, secrets, params, order, relayed, read >>
      /\ Fillable(BuildOrder(read), BuildExtension(read.ext), amount)
  BY DEF DeploySrc, Stages, Funds
<1>2. /\ now' \in Start .. Horizon /\ Later
      /\ \A n \in 1 .. 7 : (Reached(n) <=> n <= 5) /\ (Reached(n)' <=> n <= 5 + 1)
  BY <1>1, Advance
<1>3. /\ Reached(2) /\ Reached(3) /\ Reached(4) /\ Reached(5) /\ Reached(1)' /\ ~Reached(7)'
  BY <1>2
<1>4. Quoted' /\ Created' /\ Submitted'
  BY <1>1, <1>2, <1>3, QuotedStays, CreatedStays, SubmittedStays DEF IInv
<1>5. read' = FromDataAndExtension(relayed'.struct, relayed'.extension)
  BY <1>1, <1>3 DEF IInv
<1> DEFINE struct    == BuildOrder(read)
           extension == BuildExtension(read.ext)
           salt      == SrcSalt(amount, now)
           clone(i) == [immutables |-> i,
                        complement |-> DstComplement(struct, extension, amount), at |-> now,
                        address |-> << CreatedAs(relayed.srcChainId),
                                       read.ext.fusion.factory, i, SrcImpl >>]
<1>6. SrcImmutables(struct, extension, amount) = salt
  BY Zenon DEF SrcImmutables, SrcSalt
<1>7. src' = clone(salt)
  BY <1>6, Zenon DEF DeploySrc
<1>8. src'.at = now
  <2> HIDE DEF struct, extension, salt
  <2> QED BY <1>7
<1>9. SrcDeployed'
  <2>1. /\ amount <= struct.makingAmount
        /\ struct.traits.multiple => ProofHolds(extension.extra.hashLock, FirstIdx(amount))
        /\ \E w \in extension.fusion.whitelist : w.address = SrcResolver /\ w.allowFrom <= now
    BY <1>1 DEF Fillable
  <2>2. now \in Start .. now'
    BY <1>1, <1>2, ClockAssumption DEF Later, IInv
  <2>3. relayed' = relayed /\ read' = read /\ now' = now
    BY <1>1
  <2>4. FirstIdx(amount)' = FirstIdx(amount)
    BY <2>3 DEF FirstIdx
  <2>5. ASSUME NEW lock, ProofHolds(lock, FirstIdx(amount))
        PROVE  ProofHolds(lock, FirstIdx(amount))'
    BY <2>3, <2>4, <2>5 DEF ProofHolds
  <2>6. ASSUME NEW s, NEW extra
        PROVE  ValidatedLeaf(s, extra, amount)' = ValidatedLeaf(s, extra, amount)
    BY <2>3, <2>4 DEF ValidatedLeaf
  <2>7. SrcSalt(amount, src.at)' = salt
    BY <1>8, <2>3, <2>6 DEF SrcSalt
  <2>8. struct' = struct /\ extension' = extension
    BY <2>3
  <2>9. (struct.traits.multiple)' => ProofHolds(extension.extra.hashLock, FirstIdx(amount))'
    <3>1. (struct.traits.multiple)' = struct.traits.multiple
      BY <2>8
    <3>2. struct.traits.multiple => ProofHolds(extension.extra.hashLock, FirstIdx(amount))
      BY <2>1
    <3> HIDE DEF struct, extension
    <3>3. ProofHolds(extension.extra.hashLock, FirstIdx(amount))
            => ProofHolds(extension.extra.hashLock, FirstIdx(amount))'
      BY <2>5, <2>8
    <3> QED BY <3>1, <3>2, <3>3, Zenon
  <2>10. src' = [immutables |-> SrcSalt(amount, src.at)',
                 complement |-> DstComplement(struct', extension', amount), at |-> src.at',
                 address |-> << CreatedAs(relayed'.srcChainId), read.ext.fusion.factory',
                                SrcSalt(amount, src.at)', SrcImpl >>]
    <3>1. read.ext.fusion.factory' = read.ext.fusion.factory
      BY <2>3
    <3> HIDE DEF struct, extension, salt
    <3> QED BY <1>7, <1>8, <2>3, <2>7, <2>8, <3>1, Zenon
  <2>11. /\ amount <= struct'.makingAmount /\ src'.at \in Start .. now'
         /\ \E w \in extension'.fusion.whitelist : w.address = SrcResolver /\ w.allowFrom <= src'.at
    BY <1>8, <2>1, <2>2, <2>8
  <2> HIDE DEF struct, extension, salt
  <2> QED BY <2>9, <2>10, <2>11, Zenon DEF SrcDeployed, struct, extension
<1> QED BY <1>2, <1>3, <1>4, <1>5, <1>9 DEF IInv

\* The resolver deploys the other clone.
LEMMA DeployDstInv ==
  ASSUME IInv, DeployDst
  PROVE  IInv'
<1>1. /\ stage = Stages[6] /\ stage' = Stages[6 + 1]
      /\ UNCHANGED << now, quote, secrets, params, order, relayed, read, src >>
  BY DEF DeployDst, Stages
<1>2. /\ now' \in Start .. Horizon /\ Later
      /\ \A n \in 1 .. 7 : (Reached(n) <=> n <= 6) /\ (Reached(n)' <=> n <= 6 + 1)
  BY <1>1, Advance
<1>3. /\ Reached(2) /\ Reached(3) /\ Reached(4) /\ Reached(5) /\ Reached(6) /\ Reached(1)'
  BY <1>2
<1>4. Quoted' /\ Created' /\ Submitted' /\ SrcDeployed'
  BY <1>1, <1>2, <1>3, QuotedStays, CreatedStays, SubmittedStays, SrcStays DEF IInv
<1>5. read' = FromDataAndExtension(relayed'.struct, relayed'.extension)
  BY <1>1, <1>3 DEF IInv
<1> DEFINE i == BuildImmutables(DstImmutables)
           salt(time) == [i EXCEPT !.timeLocks = DatedWord(i.timeLocks, time)]
           clone(time) == [immutables |-> salt(time), at |-> time,
                           address |-> << CreatedAs(quote.request.dstChain), DstFactory,
                                          salt(time), DstImpl >>]
<1>6. dst' = clone(now)
  BY Zenon DEF DeployDst, DstImmutables
<1>7. dst'.at = now
  <2> HIDE DEF i, salt
  <2> QED BY <1>6
<1>8. now \in Start .. now'
  BY <1>1, <1>2, ClockAssumption DEF Later, IInv
<1>9. DstImmutables' = DstImmutables /\ quote' = quote
  BY <1>1 DEF DstImmutables, SrcDeployEvent
<1>10. i' = i
  BY <1>9
<1>11. DstDeployed'
  BY <1>6, <1>7, <1>8, <1>9, <1>10, Zenon DEF DstDeployed
<1> QED BY <1>2, <1>3, <1>4, <1>5, <1>11 DEF IInv

\* The whole of the invariant is inductive.
LEMMA NextInv == IInv /\ [Next]_vars => IInv'
  BY TickInv, GetQuoteInv, GetQuoteWithCustomPresetInv, MakeOrderInv, SubmitOrderInv,
     ReadOrderInv, DeploySrcInv, DeployDstInv DEF Next

\* From createOrder over submitOrder, fromDataAndExtension and deploySrc to deployDst:
\* what each stage leaves follows from what the one before it had left.
THEOREM Inductive == Spec => []IInv
<1>1. Init => IInv
  BY InitInv
<1>2. IInv /\ [Next]_vars => IInv'
  BY NextInv
<1> QED BY <1>1, <1>2, PTL DEF Spec

\* TypeOK: the time locks that the resolver decodes fit their 32 bits, and the deposits
\* that reach the clones their 128, whatever was encoded.
THEOREM TypeCorrect == Spec => []TypeOK
  BY Inductive, InvTypes, PTL

\* ReadsWhatWasSigned: fromDataAndExtension gives back the order that was signed, and
\* in any case one that has its hash.
THEOREM ReadsAreSigned == Spec => []ReadsWhatWasSigned
  BY Inductive, InvRead, PTL

\* DepositsAsQuoted: both safety deposits come out of their common word as they were
\* quoted, unless the one of the destination ran over.
THEOREM DepositsReach == Spec => []DepositsAsQuoted
  BY Inductive, InvDeposits, PTL

\* EscrowsCanBeOpened: a clone is locked with the hash of one of the maker's secrets, for
\* any number of secrets and any part that is filled.
THEOREM SecretsOpen == Spec => []EscrowsCanBeOpened
  BY Inductive, InvOpened, PTL

\* EscrowsAgree: getSrcEscrowAddress and getDstEscrowAddress compute where the
\* factories of the two chains put the clones.
THEOREM AddressesAgree == Spec => []EscrowsAgree
  BY Inductive, InvAgree, PTL

\* StagesAgree: the stage that SrcTimeLocks and DstTimeLocks tell is the set of calls
\* that the modifiers of the clones let through.
THEOREM StagesTold == Spec => []StagesAgree
  BY Inductive, InvStages, PTL

\* ExclusiveFirst: the whitelist of the order keeps everybody but the exclusive
\* resolver of its preset out until the auction starts.
THEOREM ExclusiveFills == Spec => []ExclusiveFirst
  BY Inductive, InvExclusive, PTL

-----------------------------------------------------------------------------
(* The relay of secrets implements SecretExchange.  The                     *)
(* maker only sends what the relayer called ready.  What was ready may be   *)
(* closed by the time a post or a message arrives, but its two escrows have *)
(* been deployed for good: every set of fills on the way from the relayer's *)
(* answer to the resolver's callback is a set of ready fills.               *)

\* The fills that the abstract exchange calls ready.
Ready == {i \in Fill : escrows[i] \in {"both", "closed"}}

\* The secrets that a message brings.
Carried(f) == OnOrderSecretShared(f) \cup OnGetSecrets(f)

\* The states of the escrows of a fill.
EscrowsOK == escrows \in [Fill -> {"none", "src", "both", "closed", "void"}]

\* Nothing but ready fills is on the way.
OnTheWay ==
  /\ answer \subseteq Ready /\ waiting \subseteq Ready
  /\ posts \subseteq Ready
  /\ published \in Seq(Ready)
  /\ \A f \in socket : Carried(f) \subseteq Ready
  /\ known \subseteq Ready

\* The inductive invariant of the relay.
RelayInv == EscrowsOK /\ OnTheWay

\* A message carries the secret it names, a page those on it.
LEMMA FrameCarries ==
  ASSUME NEW i, NEW fills
  PROVE  /\ Carried([event |-> "secret_shared", idx |-> i]) = {i}
         /\ Carried([event |-> "order_filled_partially", idx |-> i]) = {}
         /\ Carried([method |-> "getSecrets", result |-> fills]) = fills
  BY DEF Carried, OnOrderSecretShared, OnGetSecrets

\* The elements of a sequence.
LEMMA RangeWithin ==
  ASSUME NEW S, NEW s \in Seq(S)
  PROVE  Range(s) \subseteq S
<1> SUFFICES ASSUME NEW x \in Range(s) PROVE x \in S
  BY Zenon
<1>1. PICK n \in DOMAIN s : x = s[n]
  BY Zenon DEF Range
<1> QED
  BY <1>1, LenProperties, ElementOfSeq

\* The relay starts where the exchange does.
LEMMA RelayInitCorrect == RelayInit => RelayInv /\ SX!Init
<1> SUFFICES ASSUME RelayInit PROVE RelayInv /\ SX!Init
  OBVIOUS
<1>1. EscrowsOK /\ OnTheWay
  BY EmptySeq DEF RelayInit, EscrowsOK, OnTheWay
<1>2. SX!Init
  BY DEF RelayInit, SX!Init
<1> QED
  BY <1>1, <1>2 DEF RelayInv

\* A step that deploys or settles nothing leaves the ready fills alone.
LEMMA NothingSettled ==
  ASSUME UNCHANGED escrows
  PROVE  Ready' = Ready
  BY DEF Ready

\* What is on its way stays within the ready fills when these grow.
LEMMA StillOnTheWay ==
  ASSUME OnTheWay, Ready \subseteq Ready',
         UNCHANGED << answer, waiting, posts, published, known >>,
         \A f \in socket' : f \in socket \/ Carried(f) = {}
  PROVE  OnTheWay'
<1>1. published' \in Seq(Ready')
  BY SeqMonotonic DEF OnTheWay
<1> QED
  BY <1>1 DEF OnTheWay

\* The relayer's view of the escrows.
LEMMA EscrowStep ==
  ASSUME RelayInv, NEW i \in Fill, SrcEscrowCreated(i) \/ DstEscrowCreated(i) \/ EscrowsSettled(i)
  PROVE  RelayInv' /\ [SX!Next]_(SX!vars)
<1>1. CASE SrcEscrowCreated(i)
  <2>1. EscrowsOK' /\ Ready' = Ready
    BY <1>1 DEF SrcEscrowCreated, RelayInv, EscrowsOK, Ready
  <2>2. UNCHANGED << answer, waiting, posts, published, known >>
    BY <1>1 DEF SrcEscrowCreated, maker, resolver
  <2>3. \A f \in socket' : f \in socket \/ Carried(f) = {}
    BY <1>1, FrameCarries DEF SrcEscrowCreated, Send
  <2>4. OnTheWay'
    BY <2>1, <2>2, <2>3, StillOnTheWay DEF RelayInv
  <2> QED
    BY <2>1, <2>2, <2>4 DEF RelayInv, Ready, SX!vars
<1>2. CASE DstEscrowCreated(i)
  <2>1. EscrowsOK' /\ Ready' = Ready \cup {i}
    BY <1>2 DEF DstEscrowCreated, RelayInv, EscrowsOK, Ready
  <2>2. UNCHANGED << answer, waiting, posts, published, known, socket >>
    BY <1>2 DEF DstEscrowCreated, maker, resolver
  <2>3. OnTheWay'
    BY <2>1, <2>2, StillOnTheWay DEF RelayInv
  <2>4. SX!Deployed(i)
    BY <2>1, <2>2 DEF Ready, SX!Deployed
  <2> QED
    BY <2>1, <2>3, <2>4 DEF RelayInv, SX!Next
<1>3. CASE EscrowsSettled(i)
  <2>1. EscrowsOK' /\ Ready' = Ready
    BY <1>3 DEF EscrowsSettled, RelayInv, EscrowsOK, Ready
  <2>2. UNCHANGED << answer, waiting, posts, published, known, socket >>
    BY <1>3 DEF EscrowsSettled, maker, resolver
  <2>3. OnTheWay'
    BY <2>1, <2>2, StillOnTheWay DEF RelayInv
  <2> QED
    BY <2>1, <2>2, <2>3 DEF RelayInv, Ready, SX!vars
<1> QED
  BY <1>1, <1>2, <1>3

\* Requests, posts and messages, on either side and lost.
LEMMA ExchangeStep ==
  ASSUME RelayInv, UNCHANGED escrows, OnTheWay',
         known' = known \/ (\E fills \in SUBSET Ready : known' = known \cup fills)
  PROVE  RelayInv' /\ [SX!Next]_(SX!vars)
<1>1. Ready' = Ready /\ EscrowsOK'
  BY NothingSettled DEF RelayInv, EscrowsOK
<1>2. CASE known' = known
  BY <1>1, <1>2 DEF RelayInv, Ready, SX!vars
<1>3. CASE \E fills \in SUBSET Ready : known' = known \cup fills
  <2> PICK fills \in SUBSET Ready : known' = known \cup fills
    BY <1>3
  <2>1. fills \in SUBSET Fill
    BY DEF Ready
  <2>2. SX!Learn(fills)
    BY <1>1 DEF Ready, SX!Learn
  <2> QED
    BY <1>1, <2>1, <2>2 DEF RelayInv, SX!Next
<1> QED
  BY <1>2, <1>3

\* The maker asks, submits what it was answered, and gives up.
LEMMA MakerStep ==
  ASSUME RelayInv, MakerLoop \/ (\E i \in Fill : LosePost(i))
  PROVE  RelayInv' /\ [SX!Next]_(SX!vars)
<1>1. UNCHANGED << escrows, published, known, socket >>
  BY DEF MakerLoop, GetReadyToAcceptSecretFills, SubmitSecret, SecretSubmitted, GetOrderStatus,
         RequestRejected, LosePost, relayer, resolver
<1>2. Range(published) \subseteq Ready
  BY RangeWithin DEF RelayInv, OnTheWay
<1>3. answer' \subseteq Ready /\ waiting' \subseteq Ready /\ posts' \subseteq Ready
  <2>1. CASE GetReadyToAcceptSecretFills
    BY <1>2, <2>1 DEF GetReadyToAcceptSecretFills, RelayInv, OnTheWay, ReadyFills, Ready
  <2>2. ASSUME NEW i \in Fill, SubmitSecret(i)
        PROVE  answer' \subseteq Ready /\ waiting' \subseteq Ready /\ posts' \subseteq Ready
    BY <2>2 DEF SubmitSecret, RelayInv, OnTheWay
  <2>3. CASE SecretSubmitted \/ GetOrderStatus \/ RequestRejected
    BY <2>3 DEF SecretSubmitted, GetOrderStatus, RequestRejected, Fail, RelayInv, OnTheWay
  <2>4. ASSUME NEW i \in Fill, LosePost(i)
        PROVE  answer' \subseteq Ready /\ waiting' \subseteq Ready /\ posts' \subseteq Ready
    BY <2>4 DEF LosePost, Fail, RelayInv, OnTheWay
  <2> QED
    BY <2>1, <2>2, <2>3, <2>4 DEF MakerLoop
<1>4. OnTheWay'
  BY <1>1, <1>3, NothingSettled DEF RelayInv, OnTheWay
<1> QED
  BY <1>1, <1>4, ExchangeStep

\* The relayer takes a post and publishes the secret.
LEMMA TakeSecretStep ==
  ASSUME RelayInv, NEW i \in Fill, TakeSecret(i)
  PROVE  RelayInv' /\ [SX!Next]_(SX!vars)
<1>1. /\ i \in posts /\ posts' = posts \ {i}
      /\ UNCHANGED << escrows, answer, waiting, known >>
  BY DEF TakeSecret, resolver
<1>2. i \in Ready
  BY <1>1 DEF RelayInv, OnTheWay
<1>3. published' \in Seq(Ready) /\ \A f \in socket' : Carried(f) \subseteq Ready
  <2>1. CASE i \in Range(published)
    BY <2>1 DEF TakeSecret, RelayInv, OnTheWay
  <2>2. CASE i \notin Range(published)
    <3>1. published' = Append(published, i) /\ Send([event |-> "secret_shared", idx |-> i])
      BY <2>2 DEF TakeSecret
    <3>2. published' \in Seq(Ready)
      BY <1>2, <3>1, AppendProperties DEF RelayInv, OnTheWay
    <3> QED
      BY <1>2, <3>1, <3>2, FrameCarries DEF Send, RelayInv, OnTheWay
  <2> QED
    BY <2>1, <2>2
<1>4. OnTheWay'
  BY <1>1, <1>3, NothingSettled DEF RelayInv, OnTheWay
<1> QED
  BY <1>1, <1>4, ExchangeStep

\* The resolver's questions, their answers and what is lost.
LEMMA ResolverStep ==
  ASSUME RelayInv,
         \/ \E f \in socket : OnMessage(f) \/ LoseFrame(f)
         \/ \E page \in 0 .. Cardinality(Fill) : GetSecrets(page)
         \/ \E page \in asked : AnswerGetSecrets(page)
         \/ GetPublishedSecrets
  PROVE  RelayInv' /\ [SX!Next]_(SX!vars)
<1>1. UNCHANGED << escrows, answer, waiting, posts, published >>
  BY DEF OnMessage, LoseFrame, GetSecrets, AnswerGetSecrets, GetPublishedSecrets, relayer, maker
<1>2. Ready' = Ready
  BY <1>1, NothingSettled
<1>3. Range(published) \subseteq Ready
  BY RangeWithin DEF RelayInv, OnTheWay
<1>4. CASE \E f \in socket : OnMessage(f) \/ LoseFrame(f)
  <2> PICK f \in socket : OnMessage(f) \/ LoseFrame(f)
    BY <1>4
  <2>1. /\ socket' \subseteq socket /\ Carried(f) \in SUBSET Ready
        /\ known' = known \/ known' = known \cup Carried(f)
    BY DEF OnMessage, LoseFrame, resolver, Carried, RelayInv, OnTheWay
  <2>2. OnTheWay'
    BY <1>1, <1>2, <2>1 DEF RelayInv, OnTheWay
  <2> QED
    BY <1>1, <2>1, <2>2, ExchangeStep
<1>5. CASE \E page \in 0 .. Cardinality(Fill) : GetSecrets(page)
  <2>1. UNCHANGED << known, socket >>
    BY <1>5 DEF GetSecrets
  <2> QED
    BY <1>1, <1>2, <2>1, ExchangeStep DEF RelayInv, OnTheWay
<1>6. CASE \E page \in asked : AnswerGetSecrets(page)
  <2> PICK page \in asked : AnswerGetSecrets(page)
    BY <1>6
  <2>1. SecretsOnPage(page) \subseteq Ready
    BY <1>3 DEF SecretsOnPage, Range
  <2>2. /\ socket' = socket \cup {[method |-> "getSecrets", result |-> SecretsOnPage(page)]}
        /\ UNCHANGED known
    BY DEF AnswerGetSecrets, Send
  <2>3. \A f \in socket' : f \in socket \/ Carried(f) = SecretsOnPage(page)
    BY <2>2, FrameCarries
  <2>4. OnTheWay'
    BY <1>1, <1>2, <2>1, <2>2, <2>3 DEF RelayInv, OnTheWay
  <2> QED
    BY <1>1, <2>2, <2>4, ExchangeStep
<1>7. CASE GetPublishedSecrets
  <2>1. known' = known \cup Range(published) /\ UNCHANGED socket
    BY <1>7 DEF GetPublishedSecrets
  <2>2. OnTheWay'
    BY <1>1, <1>2, <1>3, <2>1 DEF RelayInv, OnTheWay
  <2> QED
    BY <1>1, <1>3, <2>1, <2>2, ExchangeStep
<1> QED
  BY <1>4, <1>5, <1>6, <1>7

\* Every step keeps the invariant and is a step of the exchange, or none.
LEMMA RelayStepCorrect ==
  ASSUME RelayInv, [RelayNext]_relayVars
  PROVE  RelayInv' /\ [SX!Next]_(SX!vars)
<1>1. CASE UNCHANGED relayVars
  <2>1. UNCHANGED << escrows, answer, waiting, posts, published, socket, known >>
    BY <1>1 DEF relayVars, relayer, maker, resolver
  <2>2. OnTheWay'
    BY <2>1, NothingSettled DEF RelayInv, OnTheWay
  <2> QED
    BY <2>1, <2>2, ExchangeStep
<1> QED
  BY <1>1, EscrowStep, MakerStep, TakeSecretStep, ResolverStep DEF RelayNext

\* The resolver learns the secret of a fill only after both of its escrows
\* were deployed, whatever is lost, repeated or late on the way.
THEOREM RelayImplementsExchange == RelaySpec => SecretsOnlyWhenReady
<1>1. RelaySpec => []RelayInv
  BY RelayInitCorrect, RelayStepCorrect, PTL DEF RelaySpec
<1>2. RelayInv /\ [RelayNext]_relayVars => [SX!Next]_(SX!vars)
  BY RelayStepCorrect
<1> QED
  BY <1>1, <1>2, RelayInitCorrect, PTL DEF RelaySpec, SecretsOnlyWhenReady, SX!Safe

-----------------------------------------------------------------------------
(* Types of the relay.                                                     *)

\* What RelayTypeOK says beyond the inductive invariant: no secret is published
\* twice, and nobody asks for a page that PaginationRequest throws for.
RelayKinds ==
  /\ loop \in {"ask", "submit", "ended", "failed"}
  /\ \A m, n \in DOMAIN published : published[m] = published[n] => m = n
  /\ route \in {"http", "rpc"}
  /\ asked \subseteq 1 .. Cardinality(Fill)
  /\ socket \subseteq Frame

\* A sequence without repetitions stays one with a new element.
LEMMA StillDistinct ==
  ASSUME NEW S, NEW s \in Seq(S), NEW x \in S, x \notin Range(s),
         \A m, n \in DOMAIN s : s[m] = s[n] => m = n
  PROVE  \A m, n \in DOMAIN Append(s, x) : Append(s, x)[m] = Append(s, x)[n] => m = n
<1> DEFINE t == Append(s, x)
<1>1. /\ DOMAIN s = 1 .. Len(s) /\ Len(s) \in Nat
      /\ DOMAIN t = 1 .. Len(s) + 1
      /\ t[Len(s) + 1] = x
      /\ \A n \in 1 .. Len(s) : t[n] = s[n]
  BY AppendProperties, LenProperties
<1>2. \A n \in 1 .. Len(s) : s[n] # x
  BY <1>1 DEF Range
<1> HIDE DEF t
<1>3. ASSUME NEW m \in DOMAIN t, NEW n \in DOMAIN t, t[m] = t[n] PROVE m = n
  <2>1. /\ m \in 1 .. Len(s) \/ m = Len(s) + 1
        /\ n \in 1 .. Len(s) \/ n = Len(s) + 1
    BY <1>1
  <2> QED
    BY <1>1, <1>2, <1>3, <2>1
<1> QED
  BY <1>3 DEF t

\* Every step keeps the kinds of values.
LEMMA KindsKept ==
  ASSUME RelayInv, RelayKinds, [RelayNext]_relayVars
  PROVE  RelayKinds'
<1>1. /\ published \in Seq(Ready) /\ Range(published) \subseteq Fill
      /\ Ready \subseteq Fill
  BY RangeWithin DEF RelayInv, OnTheWay, Ready
<1>2. ASSUME UNCHANGED << loop, published, route >>, asked' \subseteq asked,
             \A f \in socket' : f \in socket \/ f \in Frame
      PROVE  RelayKinds'
  BY <1>2 DEF RelayKinds
<1>3. CASE UNCHANGED relayVars
  BY <1>2, <1>3 DEF relayVars, relayer, maker, resolver
<1>4. ASSUME NEW i \in Fill, SrcEscrowCreated(i) PROVE RelayKinds'
  <2>1. [event |-> "order_filled_partially", idx |-> i] \in Frame
    BY DEF Frame, EventType
  <2> QED
    BY <1>2, <1>4, <2>1 DEF SrcEscrowCreated, Send, maker, resolver
<1>5. ASSUME NEW i \in Fill, DstEscrowCreated(i) \/ EscrowsSettled(i)
      PROVE  RelayKinds'
  BY <1>2, <1>5 DEF DstEscrowCreated, EscrowsSettled, maker, resolver
<1>6. ASSUME MakerLoop \/ (\E i \in Fill : LosePost(i))
      PROVE  RelayKinds'
  <2>1. /\ UNCHANGED << published, route, asked, socket >>
        /\ loop' \in {"ask", "submit", "ended", "failed"}
    BY <1>6 DEF MakerLoop, GetReadyToAcceptSecretFills, SubmitSecret, SecretSubmitted,
                GetOrderStatus, RequestRejected, LosePost, Fail, RelayKinds, relayer, resolver
  <2> QED
    BY <2>1 DEF RelayKinds
<1>7. ASSUME NEW i \in Fill, TakeSecret(i) PROVE RelayKinds'
  <2>1. i \in Ready /\ UNCHANGED << loop, route, asked >>
    BY <1>7 DEF TakeSecret, RelayInv, OnTheWay, resolver
  <2>2. CASE i \in Range(published)
    BY <1>2, <1>7, <2>1, <2>2 DEF TakeSecret
  <2>3. CASE i \notin Range(published)
    <3>1. published' = Append(published, i) /\ Send([event |-> "secret_shared", idx |-> i])
      BY <1>7, <2>3 DEF TakeSecret
    <3>2. \A m, n \in DOMAIN published' : published'[m] = published'[n] => m = n
      BY <1>1, <2>1, <2>3, <3>1, StillDistinct DEF RelayKinds
    <3>3. [event |-> "secret_shared", idx |-> i] \in Frame
      BY DEF Frame, EventType
    <3> QED
      BY <2>1, <3>1, <3>2, <3>3 DEF RelayKinds, Send
  <2> QED
    BY <2>2, <2>3
<1>8. ASSUME NEW f \in socket, OnMessage(f) \/ LoseFrame(f) PROVE RelayKinds'
  BY <1>2, <1>8 DEF OnMessage, LoseFrame, relayer, maker, resolver
<1>9. ASSUME NEW page \in 0 .. Cardinality(Fill), GetSecrets(page) PROVE RelayKinds'
  <2>1. /\ page \in 1 .. Cardinality(Fill)
        /\ asked' = asked \cup {page} /\ UNCHANGED << loop, published, route, socket >>
    BY <1>9 DEF GetSecrets, PaginationOK, relayer, maker
  <2> QED
    BY <2>1 DEF RelayKinds
<1>10. ASSUME NEW page \in asked, AnswerGetSecrets(page) PROVE RelayKinds'
  <2>1. SecretsOnPage(page) \subseteq Fill
    BY <1>1 DEF SecretsOnPage, Range
  <2>2. [method |-> "getSecrets", result |-> SecretsOnPage(page)] \in Frame
    BY <2>1 DEF Frame
  <2> QED
    BY <1>2, <1>10, <2>2 DEF AnswerGetSecrets, Send, relayer, maker
<1>11. CASE GetPublishedSecrets
  BY <1>2, <1>11 DEF GetPublishedSecrets, relayer, maker
<1> QED
  BY <1>3, <1>4, <1>5, <1>6, <1>7, <1>8, <1>9, <1>10, <1>11 DEF RelayNext

\* RelayTypeOK: whatever is lost or sent again, the relayer publishes a secret
\* once, and a resolver asks for no page that PaginationRequest refuses.
THEOREM RelayTypeCorrect == RelaySpec => []RelayTypeOK
<1>1. RelaySpec => []RelayInv
  BY RelayInitCorrect, RelayStepCorrect, PTL DEF RelaySpec
<1>2. RelayInit => RelayKinds
  BY DEF RelayInit, RelayKinds
<1>3. RelayInv /\ RelayKinds /\ [RelayNext]_relayVars => RelayKinds'
  BY KindsKept
<1>4. RelayInv /\ RelayKinds => RelayTypeOK
  BY DEF RelayInv, EscrowsOK, OnTheWay, Ready, RelayKinds, RelayTypeOK
<1> QED
  BY <1>1, <1>2, <1>3, <1>4, PTL DEF RelaySpec
=============================================================================
