----------------------------- MODULE SdkTimeLocks -----------------------------
(***************************************************************************)
(* What the SDK makes of the packed word of Timelocks: TimeLocks builds    *)
(* and reads it, SrcTimeLocks and DstTimeLocks tell the stage that an      *)
(* escrow is in.  A constructor that throws is a predicate that fails.     *)
(***************************************************************************)
EXTENDS Timelocks, Sequences

\* The fields of the word, the most significant one first after deployedAt.
WordOrder == << "DstCancellation", "DstPublicWithdrawal", "DstWithdrawal",
                "SrcPublicCancellation", "SrcCancellation", "SrcPublicWithdrawal",
                "SrcWithdrawal" >>

\* The assertions of the constructor.
TimeLocksOK(t) ==
  /\ t.deployedAt < FieldRange
  /\ \A s \in Stage : t.delay[s] < FieldRange
  /\ WellOrdered(t)

NewTimeLocks(delay) == [deployedAt |-> 0, delay |-> delay]

\* Durations are added up, so a window of zero seconds is refused as a word.
FromDurations(d) ==
  NewTimeLocks([s \in Stage |->
    CASE s = "SrcWithdrawal" -> d.srcFinalityLock
      [] s = "SrcPublicWithdrawal" -> d.srcFinalityLock + d.srcPrivateWithdrawal
      [] s = "SrcCancellation" ->
           d.srcFinalityLock + d.srcPrivateWithdrawal + d.srcPublicWithdrawal
      [] s = "SrcPublicCancellation" ->
           d.srcFinalityLock + d.srcPrivateWithdrawal + d.srcPublicWithdrawal
             + d.srcPrivateCancellation
      [] s = "DstWithdrawal" -> d.dstFinalityLock
      [] s = "DstPublicWithdrawal" -> d.dstFinalityLock + d.dstPrivateWithdrawal
      [] s = "DstCancellation" ->
           d.dstFinalityLock + d.dstPrivateWithdrawal + d.dstPublicWithdrawal])

\* The value of the word: the fields are digits in base FieldRange.
BuildTimeLocks(t) ==
  LET word[n \in 0 .. Len(WordOrder)] ==
        IF n = 0 THEN t.deployedAt
        ELSE word[n - 1] * FieldRange + t.delay[WordOrder[n]]
  IN word[Len(WordOrder)]

\* Mutant: the fields are not masked.
TimeLocksFromBigIntRaw(val) ==
  LET rest[n \in 0 .. Len(WordOrder)] ==
        IF n = 0 THEN val ELSE rest[n - 1] \div FieldRange
      digit(s) == CHOOSE n \in 1 .. Len(WordOrder) : WordOrder[n] = s
  IN [deployedAt |-> rest[Len(WordOrder)],
      delay |-> [s \in Stage |-> rest[Len(WordOrder) - digit(s)]]]

\* The word cut into eight fields, the least significant one first.
TimeLocksFromBigInt(val) ==
  LET rest[n \in 0 .. Len(WordOrder)] ==
        IF n = 0 THEN val ELSE rest[n - 1] \div FieldRange
      digit(s) == CHOOSE n \in 1 .. Len(WordOrder) : WordOrder[n] = s
  IN [deployedAt |-> rest[Len(WordOrder)] % FieldRange,
      delay |-> [s \in Stage |-> rest[Len(WordOrder) - digit(s)] % FieldRange]]

\* setDeployedAt of the SDK: unlike the contract's it neither wraps nor throws.
WithDeployedAt(t, time) == [t EXCEPT !.deployedAt = time]

\* BaseTimeLock's assertions; the word holds zero until an escrow is deployed.
DatedOK(t) == 0 < t.deployedAt /\ t.deployedAt < FieldRange

SrcTimeLocksOK(t) ==
  /\ DatedOK(t) /\ WellOrdered(t)
  /\ \A s \in {"SrcWithdrawal", "SrcPublicWithdrawal", "SrcCancellation",
               "SrcPublicCancellation"} :
       t.delay[s] < FieldRange /\ t.delay[s] < t.deployedAt

DstTimeLocksOK(t) ==
  /\ DatedOK(t) /\ WellOrdered(t)
  /\ \A s \in {"DstWithdrawal", "DstPublicWithdrawal", "DstCancellation"} :
       t.delay[s] < FieldRange /\ t.delay[s] < t.deployedAt

\* Mutant: a window still lasts in the second in which the next begins.
SrcStageLate(t, time) ==
  CASE time <= StageStart(t, "SrcWithdrawal") -> "FinalityLock"
    [] time > StageStart(t, "SrcWithdrawal")
         /\ time <= StageStart(t, "SrcPublicWithdrawal") -> "PrivateWithdrawal"
    [] time > StageStart(t, "SrcPublicWithdrawal")
         /\ time <= StageStart(t, "SrcCancellation") -> "PublicWithdrawal"
    [] time > StageStart(t, "SrcCancellation")
         /\ time <= StageStart(t, "SrcPublicCancellation") -> "PrivateCancellation"
    [] time > StageStart(t, "SrcPublicCancellation") -> "PublicCancellation"

\* getStage of both classes: the interval that `time` lies in.
SrcStage(t, time) ==
  CASE time < StageStart(t, "SrcWithdrawal") -> "FinalityLock"
    [] StageStart(t, "SrcWithdrawal") <= time
         /\ time < StageStart(t, "SrcPublicWithdrawal") -> "PrivateWithdrawal"
    [] StageStart(t, "SrcPublicWithdrawal") <= time
         /\ time < StageStart(t, "SrcCancellation") -> "PublicWithdrawal"
    [] StageStart(t, "SrcCancellation") <= time
         /\ time < StageStart(t, "SrcPublicCancellation") -> "PrivateCancellation"
    [] StageStart(t, "SrcPublicCancellation") <= time -> "PublicCancellation"

DstStage(t, time) ==
  CASE time < StageStart(t, "DstWithdrawal") -> "FinalityLock"
    [] StageStart(t, "DstWithdrawal") <= time
         /\ time < StageStart(t, "DstPublicWithdrawal") -> "PrivateWithdrawal"
    [] StageStart(t, "DstPublicWithdrawal") <= time
         /\ time < StageStart(t, "DstCancellation") -> "PublicWithdrawal"
    [] StageStart(t, "DstCancellation") <= time -> "PrivateCancellation"

\* The calls that a stage stands for.
CallsOf(stage) ==
  CASE stage = "FinalityLock" -> {}
    [] stage = "PrivateWithdrawal" -> {"withdraw"}
    [] stage = "PublicWithdrawal" -> {"withdraw", "publicWithdraw"}
    [] stage = "PrivateCancellation" -> {"cancel"}
    [] stage = "PublicCancellation" -> {"cancel", "publicCancel"}

\* The calls that the windows of the source clone leave open.
SrcCalls(t, time) ==
  LET open(from, to) == StageStart(t, from) <= time /\ time < StageStart(t, to)
  IN {c \in {"withdraw", "publicWithdraw", "cancel", "publicCancel"} :
        CASE c = "withdraw" -> open("SrcWithdrawal", "SrcCancellation")
          [] c = "publicWithdraw" -> open("SrcPublicWithdrawal", "SrcCancellation")
          [] c = "cancel" -> StageStart(t, "SrcCancellation") <= time
          [] c = "publicCancel" -> StageStart(t, "SrcPublicCancellation") <= time}

\* The calls that the windows of the destination clone leave open.
DstCalls(t, time) ==
  LET open(from, to) == StageStart(t, from) <= time /\ time < StageStart(t, to)
  IN {c \in {"withdraw", "publicWithdraw", "cancel"} :
        CASE c = "withdraw" -> open("DstWithdrawal", "DstCancellation")
          [] c = "publicWithdraw" -> open("DstPublicWithdrawal", "DstCancellation")
          [] c = "cancel" -> StageStart(t, "DstCancellation") <= time}
===============================================================================
