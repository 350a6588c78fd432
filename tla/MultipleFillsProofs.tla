------------------------- MODULE MultipleFillsProofs -------------------------
(***************************************************************************)
(* Proof that no two escrows of an order share a secret, for any amount    *)
(* and number of parts, however deeply fills nest and whichever of them    *)
(* revert.                                                                 *)
(***************************************************************************)
EXTENDS MultipleFills, SequenceTheorems, TLAPS

-----------------------------------------------------------------------------
(* The arithmetic of parts.                                                 *)

\* What a quotient is.
LEMMA Division ==
  ASSUME NEW a \in Nat, NEW n \in Nat \ {0}
  PROVE  /\ a \div n \in Nat
         /\ n * (a \div n) <= a
         /\ a < n * ((a \div n) + 1)
  OBVIOUS

\* A quotient does not depend on how it was found.
LEMMA QuotientsAgree ==
  ASSUME NEW n \in Nat \ {0}, NEW q \in Nat, NEW r \in Nat, NEW a \in Nat,
         n * q <= a, a < n * (r + 1)
  PROVE  q <= r
<1> SUFFICES ASSUME r + 1 <= q PROVE FALSE
  OBVIOUS
<1>1. PICK d \in Nat : q = (r + 1) + d
  <2>1. q - (r + 1) \in Nat
    OBVIOUS
  <2> QED BY <2>1
<1>2. n * q = n * (r + 1) + n * d
  BY <1>1
<1>3. n * d \in Nat /\ n * q \in Nat /\ n * (r + 1) \in Nat
  OBVIOUS
<1> QED BY <1>2, <1>3

\* A later unit of the order never lies in an earlier part.
LEMMA PartsInOrder ==
  ASSUME NEW x \in 1 .. MakingAmount, NEW y \in 1 .. MakingAmount, x <= y
  PROVE  /\ PartOf(x) \in Nat /\ PartOf(y) \in Nat
         /\ PartOf(x) <= PartOf(y)
<1> DEFINE a == (x - 1) * Parts
           b == (y - 1) * Parts
<1>1. MakingAmount \in Nat \ {0} /\ Parts \in Nat
  BY AmountAssumption, PartsAssumption
<1>2. a \in Nat /\ b \in Nat /\ a <= b
  <2>1. PICK d \in Nat : y - 1 = (x - 1) + d
    <3>1. y - x \in Nat  BY <1>1
    <3> QED BY <3>1
  <2>2. x - 1 \in Nat /\ y - 1 \in Nat  BY <1>1
  <2>3. b = a + d * Parts  BY <1>1, <2>1, <2>2
  <2>4. a \in Nat /\ b \in Nat /\ d * Parts \in Nat  BY <1>1, <2>2
  <2> QED BY <2>3, <2>4
<1>3. PartOf(x) = a \div MakingAmount /\ PartOf(y) = b \div MakingAmount
  BY DEF PartOf
<1> HIDE DEF a, b
<1> DEFINE q == a \div MakingAmount
           r == b \div MakingAmount
<1>4. q \in Nat /\ MakingAmount * q <= a
  BY <1>1, <1>2, Division
<1>5. r \in Nat /\ b < MakingAmount * (r + 1)
  BY <1>1, <1>2, Division
<1> HIDE DEF q, r
<1>6. MakingAmount * q \in Nat /\ MakingAmount * (r + 1) \in Nat
  BY <1>1, <1>4, <1>5
<1>7. MakingAmount * q <= b
  BY <1>2, <1>4, <1>6
<1>8. q <= r
  BY <1>1, <1>2, <1>4, <1>5, <1>7, QuotientsAgree
<1> QED BY <1>3, <1>4, <1>5, <1>8 DEF q, r

\* The order ends in its last part, unless it has fewer units than parts.
LEMMA LastPart ==
  /\ PartOf(MakingAmount) \in Nat /\ PartOf(MakingAmount) <= Parts - 1
  /\ Parts <= MakingAmount => PartOf(MakingAmount) = Parts - 1
<1> DEFINE a == (MakingAmount - 1) * Parts
           q == a \div MakingAmount
<1>1. MakingAmount \in Nat \ {0} /\ Parts \in Nat \ {0}
  BY AmountAssumption, PartsAssumption
<1>2. a \in Nat /\ a = MakingAmount * Parts - Parts
  BY <1>1
<1>3. q \in Nat /\ MakingAmount * q <= a /\ a < MakingAmount * (q + 1)
  BY <1>1, <1>2, Division
<1> HIDE DEF q, a
<1>4. MakingAmount * (Parts - 1) = MakingAmount * Parts - MakingAmount
  BY <1>1
<1>5. MakingAmount * Parts \in Nat /\ MakingAmount * q \in Nat /\ MakingAmount * (q + 1) \in Nat
      /\ MakingAmount * (Parts - 1) \in Nat /\ Parts - 1 \in Nat /\ (Parts - 1) + 1 = Parts
  BY <1>1, <1>3
<1>6. /\ a < MakingAmount * Parts
      /\ Parts <= MakingAmount => MakingAmount * (Parts - 1) <= a
  BY <1>1, <1>2, <1>4, <1>5
<1>7. Parts <= MakingAmount => Parts - 1 <= q
  BY <1>1, <1>2, <1>3, <1>5, <1>6, QuotientsAgree
<1>8. q <= Parts - 1
  BY <1>1, <1>2, <1>3, <1>5, <1>6, QuotientsAgree
<1>9. Parts <= MakingAmount => q = Parts - 1
  BY <1>1, <1>3, <1>7, <1>8
<1> QED BY <1>3, <1>8, <1>9 DEF PartOf, q, a

-----------------------------------------------------------------------------
(* The inductive invariant.                                                 *)

From(f) == MakingAmount - f.remaining
To(f) == MakingAmount - f.remaining + f.making

\* The index _isValidPartialFill asks for.
RightIndex(to) == IF to = MakingAmount THEN PartOf(to) + 1 ELSE PartOf(to)

\* An escrow is for a piece of the order and under the secret of that piece.
Rightful(e) ==
  /\ e.from < e.to
  /\ e.hashlock = SecretHash[RightIndex(e.to)]
  /\ e.to # MakingAmount /\ e.from # 0 => PartOf(e.to) # PartOf(e.from)

\* The stored hash is the one of the stored index.
Coherent(v) == v.index > 0 => v.leaf = SecretHash[v.index - 1]

EscrowsOK ==
  /\ \A e \in escrows : Rightful(e) /\ e.to <= MakingAmount - remaining
  /\ \A a, b \in escrows : a # b => Apart(a.from, a.to, b)

\* Every pending fill took its piece off what was left of the order when it
\* began, and nothing done since reaches into it or survives its failure.
FrameOK(k) ==
  LET f == pending[k]
  IN  /\ f.making \in 1 .. f.remaining
      /\ remaining <= f.remaining - f.making
      /\ f.escrows \subseteq escrows
      /\ \A e \in f.escrows : e.to <= From(f)
      /\ \A e \in escrows : Apart(From(f), To(f), e)
      /\ Coherent(f.lastValidated)

\* A fill nested in another one came after it.
StackOK ==
  \A k \in 1 .. Len(pending) : \A j \in 1 .. k - 1 :
    /\ pending[k].remaining <= pending[j].remaining - pending[j].making
    /\ pending[j].escrows \subseteq pending[k].escrows

IInv ==
  /\ TypeOK
  /\ EscrowsOK
  /\ \A k \in 1 .. Len(pending) : FrameOK(k)
  /\ StackOK
  /\ Coherent(lastValidated)

-----------------------------------------------------------------------------

\* The index of `no proof` is no index, and there are parts to fill.
LEMMA Constants ==
  /\ MakingAmount \in Nat \ {0} /\ Parts \in Nat \ {0, 1}
  /\ NoProof \notin Index
  BY AmountAssumption, PartsAssumption DEF NoProof, Index

\* An untouched order satisfies the invariant.
LEMMA InitIInv == Init => IInv
<1> SUFFICES ASSUME Init PROVE IInv
  OBVIOUS
<1>1. TypeOK
  BY Constants DEF Init, TypeOK, Validation
<1>2. Len(pending) = 0 /\ escrows = {} /\ lastValidated.index = 0
  BY DEF Init
<1> QED BY <1>1, <1>2 DEF IInv, EscrowsOK, FrameOK, StackOK, Coherent

\* Taking an amount off the order keeps the invariant.
LEMMA BeginFillKeeps ==
  ASSUME IInv, NEW amount \in 1 .. MakingAmount, BeginFill(amount)
  PROVE  IInv'
<1> DEFINE making == IF amount < remaining THEN amount ELSE remaining
           n == Len(pending)
           f == [remaining |-> remaining, making |-> making,
                 lastValidated |-> lastValidated, escrows |-> escrows]
<1>1. /\ TypeOK /\ EscrowsOK /\ StackOK /\ Coherent(lastValidated)
      /\ \A k \in 1 .. Len(pending) : FrameOK(k)
  BY DEF IInv
<1>2. /\ remaining \in 1 .. MakingAmount /\ making \in 1 .. remaining
      /\ remaining' = remaining - making
      /\ pending' = Append(pending, f)
      /\ UNCHANGED <<lastValidated, escrows>>
  BY <1>1, Constants DEF BeginFill, TypeOK
<1>3. f \in Frame
  BY <1>1, <1>2, Constants DEF TypeOK, Frame
<1>4. /\ n \in Nat /\ Len(pending') = n + 1 /\ pending'[n + 1] = f
      /\ \A k \in 1 .. n : pending'[k] = pending[k] /\ pending[k] \in Frame
      /\ pending' \in Seq(Frame)
  BY <1>1, <1>2, <1>3 DEF TypeOK
<1>5. TypeOK'
  BY <1>1, <1>2, <1>4, Constants DEF TypeOK
<1>6. EscrowsOK'
  <2>1. \A e \in escrows : e.to \in Nat
    BY <1>1, Constants DEF TypeOK, Escrow
  <2> QED BY <1>1, <1>2, <2>1, Constants DEF EscrowsOK, Rightful, RightIndex, PartOf, Apart
<1> HIDE DEF n, making
<1>7. ASSUME NEW k \in 1 .. Len(pending') PROVE FrameOK(k)'
  <2>1. CASE k \in 1 .. n
    <3>1. /\ FrameOK(k) /\ pending'[k] = pending[k] /\ pending[k].remaining \in Nat
          /\ pending[k].making \in Nat
      BY <1>1, <1>4, <2>1, Constants DEF n, Frame
    <3> QED BY <1>2, <3>1 DEF FrameOK, From, To, Apart, Coherent
  <2>2. CASE k = n + 1
    <3>1. pending'[k] = f
      BY <1>4, <2>2
    <3>2. \A e \in escrows : e.to <= MakingAmount - remaining /\ e.to \in Nat
      BY <1>1, Constants DEF EscrowsOK, TypeOK, Escrow
    <3> QED BY <1>1, <1>2, <3>1, <3>2, Constants DEF FrameOK, From, To, Apart, Coherent
  <2> QED BY <1>4, <2>1, <2>2
<1>8. StackOK'
  <2>1. SUFFICES ASSUME NEW k \in 1 .. Len(pending'), NEW j \in 1 .. k - 1
                 PROVE  /\ pending'[k].remaining <= pending'[j].remaining - pending'[j].making
                        /\ pending'[j].escrows \subseteq pending'[k].escrows
    BY DEF StackOK
  <2>2. j \in 1 .. n /\ pending'[j] = pending[j]
    BY <1>4, <2>1
  <2>3. CASE k \in 1 .. n
    BY <1>1, <1>4, <2>2, <2>3 DEF StackOK, n
  <2>4. CASE k = n + 1
    BY <1>1, <1>2, <1>4, <2>2, <2>4 DEF FrameOK, n
  <2> QED BY <1>4, <2>3, <2>4
<1>9. Coherent(lastValidated)'
  BY <1>1, <1>2 DEF Coherent
<1> QED BY <1>5, <1>6, <1>7, <1>8, <1>9 DEF IInv

\* What is under the top of the stack stays as it is when the top goes.
LEMMA Popped ==
  ASSUME pending \in Seq(Frame), pending # <<>>
  PROVE  /\ Len(pending) \in Nat \ {0}
         /\ Top = pending[Len(pending)] /\ Top \in Frame
         /\ Front(pending) \in Seq(Frame) /\ Len(Front(pending)) = Len(pending) - 1
         /\ \A k \in 1 .. Len(pending) - 1 :
              Front(pending)[k] = pending[k] /\ pending[k] \in Frame
<1> DEFINE n == Len(pending)
<1>1. n \in Nat \ {0} /\ \A k \in 1 .. n : pending[k] \in Frame
  OBVIOUS
<1>2. n - 1 \in Nat /\ \A k \in 1 .. n - 1 : k \in 1 .. n
  BY <1>1
<1> HIDE DEF n
<1>3. /\ SubSeq(pending, 1, n - 1) \in Seq(Frame)
      /\ Len(SubSeq(pending, 1, n - 1)) = n - 1
      /\ \A k \in 1 .. n - 1 : SubSeq(pending, 1, n - 1)[k] = pending[k]
  BY <1>1, <1>2, SubSeqProperties
<1> QED BY <1>1, <1>2, <1>3 DEF Top, Last, Front, n

\* What the factory accepts is what Rightful says.
LEMMA ValidFill ==
  ASSUME NEW left \in 1 .. MakingAmount, NEW making \in 1 .. left, NEW index \in Nat,
         IsValidPartialFill(making, left, index)
  PROVE  LET to == MakingAmount - left + making
         IN  /\ index - 1 = RightIndex(to) /\ index > 0
             /\ to # MakingAmount /\ MakingAmount - left # 0
                  => PartOf(to) # PartOf(MakingAmount - left)
<1> DEFINE to == MakingAmount - left + making
<1>1. to \in 1 .. MakingAmount /\ (to = MakingAmount <=> left = making)
      /\ (left # MakingAmount <=> MakingAmount - left # 0)
  BY Constants
<1>2. PartOf(to) \in Nat
  BY <1>1, PartsInOrder
<1>3. CASE left = making
  <2>1. index = PartOf(MakingAmount) + 2
    BY <1>1, <1>3 DEF IsValidPartialFill
  <2> QED BY <1>1, <1>3, <2>1, LastPart, Constants DEF RightIndex
<1>4. CASE left # making
  <2>1. /\ index = PartOf(to) + 1
        /\ left # MakingAmount => PartOf(to) # PartOf(MakingAmount - left)
    BY <1>4 DEF IsValidPartialFill
  <2>2. to # MakingAmount
    BY <1>1, <1>4
  <2> HIDE DEF to
  <2>3. RightIndex(to) = PartOf(to)
    BY <2>2 DEF RightIndex
  <2> QED BY <1>1, <1>2, <2>1, <2>3 DEF to
<1> QED BY <1>3, <1>4

\* _postInteraction keeps the invariant, with foreign calls before it.
LEMMA EndFillKeeps ==
  ASSUME IInv, NEW proof \in Index \union {NoProof}, EndFill(proof)
  PROVE  IInv'
<1> DEFINE n == Len(pending)
           f == pending[Len(pending)]
           v == Validated(proof)
           e == [from |-> From(f), to |-> To(f), hashlock |-> v.leaf]
<1>1. /\ TypeOK /\ EscrowsOK /\ StackOK /\ Coherent(lastValidated)
      /\ \A k \in 1 .. n : FrameOK(k)
  BY DEF IInv
<1>2. /\ n \in Nat \ {0} /\ Top = f /\ f \in Frame
      /\ Front(pending) \in Seq(Frame) /\ Len(Front(pending)) = n - 1
      /\ \A k \in 1 .. n - 1 : Front(pending)[k] = pending[k] /\ pending[k] \in Frame
  BY <1>1, Popped DEF EndFill, TypeOK
<1>3. /\ IsValidPartialFill(f.making, f.remaining, v.index)
      /\ lastValidated' = v
      /\ escrows' = escrows \union {e}
      /\ pending' = Front(pending)
      /\ remaining' = remaining
  BY <1>2 DEF EndFill, From, To
<1>4. v \in Validation /\ Coherent(v)
  <2>1. CASE proof = NoProof
    BY <1>1, <2>1 DEF Validated, TypeOK
  <2>2. CASE proof \in Index
    <3>1. v = [index |-> proof + 1, leaf |-> SecretHash[proof]]
      BY <2>2, Constants DEF Validated
    <3> QED BY <2>2, <3>1, Constants DEF Validation, Coherent, Index, Hash
  <2> QED BY <2>1, <2>2
<1> HIDE DEF v
<1>5. FrameOK(n)
  BY <1>1, <1>2
<1>6. /\ f.remaining \in 1 .. MakingAmount /\ f.making \in 1 .. f.remaining
      /\ From(f) \in 0 .. MakingAmount /\ To(f) \in 1 .. MakingAmount /\ From(f) < To(f)
      /\ To(f) <= MakingAmount - remaining
  BY <1>1, <1>2, <1>5, Constants DEF FrameOK, Frame, From, To, TypeOK
<1>7. Rightful(e)
  <2>1. v.index \in Nat
    BY <1>4 DEF Validation
  <2>2. v.index - 1 = RightIndex(To(f)) /\ v.index > 0
        /\ (To(f) # MakingAmount /\ From(f) # 0 => PartOf(To(f)) # PartOf(From(f)))
    BY <1>3, <1>6, <2>1, ValidFill DEF From, To
  <2> QED BY <1>4, <1>6, <2>2 DEF Rightful, Coherent
<1>8. e \in Escrow
  BY <1>4, <1>6 DEF Escrow, Validation
<1>9. TypeOK'
  BY <1>1, <1>2, <1>3, <1>4, <1>8 DEF TypeOK
<1>10. EscrowsOK'
  <2>1. \A a \in escrows : Apart(From(f), To(f), a)
    BY <1>5 DEF FrameOK
  <2>2. \A a \in escrows : Apart(a.from, a.to, e)
    BY <2>1 DEF Apart
  <2>3. \A a, b \in escrows' : a # b => Apart(a.from, a.to, b)
    BY <1>1, <1>3, <2>1, <2>2 DEF EscrowsOK
  <2>4. \A a \in escrows' : Rightful(a) /\ a.to <= MakingAmount - remaining
    BY <1>1, <1>3, <1>6, <1>7 DEF EscrowsOK
  <2> QED BY <1>3, <2>3, <2>4 DEF EscrowsOK, Rightful, RightIndex, PartOf, Apart
<1> HIDE DEF n, f
<1>11. ASSUME NEW k \in 1 .. Len(pending') PROVE FrameOK(k)'
  <2>1. /\ k \in 1 .. n - 1 /\ pending'[k] = pending[k] /\ pending[k] \in Frame
        /\ FrameOK(k)
    BY <1>1, <1>2, <1>3
  <2>2. pending[n].remaining <= pending[k].remaining - pending[k].making
    BY <1>1, <1>2, <2>1 DEF StackOK, n
  <2>3. To(pending[k]) <= From(f)
    BY <1>2, <2>1, <2>2, Constants DEF Frame, From, To, f, n
  <2>4. Apart(From(pending[k]), To(pending[k]), e)
    BY <2>3 DEF Apart
  <2> QED BY <1>3, <2>1, <2>4 DEF FrameOK, From, To, Apart, Coherent
<1>12. StackOK'
  BY <1>1, <1>2, <1>3 DEF StackOK, n
<1>13. Coherent(lastValidated)'
  BY <1>3, <1>4 DEF Coherent
<1> QED BY <1>9, <1>10, <1>11, <1>12, <1>13 DEF IInv

\* A fill that reverts leaves a state as good as the one it began in.
LEMMA RevertFillKeeps ==
  ASSUME IInv, RevertFill
  PROVE  IInv'
<1> DEFINE n == Len(pending)
           f == pending[Len(pending)]
<1>1. /\ TypeOK /\ EscrowsOK /\ StackOK
      /\ \A k \in 1 .. n : FrameOK(k)
  BY DEF IInv
<1>2. /\ n \in Nat \ {0} /\ Top = f /\ f \in Frame
      /\ Front(pending) \in Seq(Frame) /\ Len(Front(pending)) = n - 1
      /\ \A k \in 1 .. n - 1 : Front(pending)[k] = pending[k] /\ pending[k] \in Frame
  BY <1>1, Popped DEF RevertFill, TypeOK
<1>3. /\ lastValidated' = f.lastValidated
      /\ escrows' = f.escrows
      /\ pending' = Front(pending)
      /\ remaining' = f.remaining
  BY <1>2 DEF RevertFill
<1>4. FrameOK(n)
  BY <1>1, <1>2
<1>5. f.escrows \subseteq escrows /\ \A a \in f.escrows : a.to <= From(f)
  BY <1>4 DEF FrameOK
<1>6. TypeOK'
  BY <1>2, <1>3 DEF TypeOK, Frame
<1>7. EscrowsOK'
  BY <1>1, <1>3, <1>5 DEF EscrowsOK, Rightful, RightIndex, PartOf, Apart, From
<1>8. ASSUME NEW k \in 1 .. Len(pending') PROVE FrameOK(k)'
  <2>1. /\ k \in 1 .. n - 1 /\ pending'[k] = pending[k] /\ FrameOK(k)
    BY <1>1, <1>2, <1>3
  <2>2. /\ f.remaining <= pending[k].remaining - pending[k].making
        /\ pending[k].escrows \subseteq f.escrows
    BY <1>1, <1>2, <2>1 DEF StackOK
  <2> QED BY <1>3, <1>5, <2>1, <2>2 DEF FrameOK, From, To, Apart, Coherent
<1>9. StackOK'
  BY <1>1, <1>2, <1>3 DEF StackOK
<1>10. Coherent(lastValidated)'
  BY <1>3, <1>4 DEF FrameOK, Coherent
<1> QED BY <1>6, <1>7, <1>8, <1>9, <1>10 DEF IInv

\* cancelOrder keeps the invariant, even from within a fill.
LEMMA CancelOrderKeeps ==
  ASSUME IInv, CancelOrder
  PROVE  IInv'
<1>1. /\ TypeOK /\ EscrowsOK /\ StackOK /\ Coherent(lastValidated)
      /\ \A k \in 1 .. Len(pending) : FrameOK(k)
  BY DEF IInv
<1>2. remaining' = 0 /\ UNCHANGED <<lastValidated, pending, escrows>>
  BY DEF CancelOrder
<1>3. TypeOK'
  BY <1>1, <1>2, Constants DEF TypeOK
<1>4. EscrowsOK'
  <2>1. \A a \in escrows : a.to \in 0 .. MakingAmount
    BY <1>1 DEF TypeOK, Escrow
  <2> QED BY <1>1, <1>2, <2>1, Constants DEF EscrowsOK, Rightful, RightIndex, PartOf, Apart
<1>5. ASSUME NEW k \in 1 .. Len(pending) PROVE FrameOK(k)'
  <2>1. FrameOK(k) /\ pending[k] \in Frame
    BY <1>1 DEF TypeOK
  <2>2. pending[k].remaining - pending[k].making >= 0
    BY <2>1 DEF FrameOK, Frame
  <2> QED BY <1>2, <2>1, <2>2 DEF FrameOK, From, To, Apart, Coherent
<1> QED BY <1>1, <1>2, <1>3, <1>4, <1>5 DEF IInv, StackOK, Coherent

\* Every step keeps the invariant.
LEMMA NextIInv == IInv /\ [Next]_vars => IInv'
<1> SUFFICES ASSUME IInv, [Next]_vars PROVE IInv'
  OBVIOUS
<1>1. CASE \E amount \in 1 .. MakingAmount : BeginFill(amount)
  BY <1>1, BeginFillKeeps
<1>2. CASE \E proof \in Index \union {NoProof} : EndFill(proof)
  BY <1>2, EndFillKeeps
<1>3. CASE RevertFill
  BY <1>3, RevertFillKeeps
<1>4. CASE CancelOrder
  BY <1>4, CancelOrderKeeps
<1>5. CASE UNCHANGED vars
  BY <1>5 DEF vars, IInv, TypeOK, EscrowsOK, FrameOK, StackOK, Coherent, From, To,
              Rightful, RightIndex, PartOf, Apart
<1> QED BY <1>1, <1>2, <1>3, <1>4, <1>5 DEF Next

-----------------------------------------------------------------------------
(* The theorems.                                                            *)

\* Every reachable state of an order is one the inductive invariant allows, for
\* every amount, number of parts and depth of nesting.
THEOREM Inductive == Spec => []IInv
  BY InitIInv, NextIInv, PTL DEF Spec

\* No unit of the order is taken from the maker twice.
THEOREM OrderTakenOnce == Spec => []TakenOnce
<1>1. ASSUME IInv PROVE TakenOnce
  <2>1. pending \in Seq(Frame) /\ DOMAIN pending = 1 .. Len(pending)
    BY <1>1 DEF IInv, TypeOK
  <2> QED BY <1>1, <2>1 DEF IInv, EscrowsOK, FrameOK, TakenOnce, From, To
<1> QED BY <1>1, Inductive, PTL

\* Of two escrows of an order the later one is under a later secret.
LEMMA SecretsInOrder ==
  ASSUME NEW a \in Escrow, NEW b \in Escrow, Rightful(a), Rightful(b), a.to <= b.from
  PROVE  a.hashlock # b.hashlock
<1>1. /\ a.from < a.to /\ b.from < b.to
      /\ a.from \in Nat /\ a.to \in 1 .. MakingAmount
      /\ b.from \in 1 .. MakingAmount /\ b.to \in 1 .. MakingAmount
      /\ a.to < MakingAmount
  BY Constants DEF Rightful, Escrow
<1>2. /\ PartOf(a.to) \in Nat /\ PartOf(b.from) \in Nat /\ PartOf(b.to) \in Nat
      /\ PartOf(a.to) <= PartOf(b.from) /\ PartOf(b.from) <= PartOf(b.to)
      /\ PartOf(b.to) <= Parts - 1
  BY <1>1, PartsInOrder, LastPart, Constants
<1>3. RightIndex(a.to) = PartOf(a.to)
  BY <1>1 DEF RightIndex
<1>4. RightIndex(a.to) < RightIndex(b.to)
  <2>1. CASE b.to = MakingAmount
    BY <1>2, <1>3, <2>1, Constants DEF RightIndex
  <2>2. CASE b.to # MakingAmount
    <3>1. PartOf(b.to) # PartOf(b.from)
      BY <1>1, <2>2 DEF Rightful
    <3> QED BY <1>2, <1>3, <2>2, <3>1 DEF RightIndex
  <2> QED BY <2>1, <2>2
<1>5. RightIndex(a.to) \in Index /\ RightIndex(b.to) \in Index
  BY <1>2, <1>3, Constants DEF RightIndex, Index
<1> QED BY <1>4, <1>5, SecretHashAssumption DEF Rightful, Index

\* Sharing the secret of one escrow opens no other escrow of the order.
THEOREM OneSecretEach == Spec => []OneSecretPerEscrow
<1>1. ASSUME IInv PROVE OneSecretPerEscrow
  <2>1. SUFFICES ASSUME NEW a \in escrows, NEW b \in escrows, a # b
                 PROVE  a.hashlock # b.hashlock
    BY DEF OneSecretPerEscrow
  <2>2. /\ a \in Escrow /\ b \in Escrow /\ Rightful(a) /\ Rightful(b)
        /\ Apart(a.from, a.to, b)
    BY <1>1, <2>1 DEF IInv, TypeOK, EscrowsOK
  <2> QED BY <2>2, SecretsInOrder DEF Apart
<1> QED BY <1>1, Inductive, PTL

\* The additional secret is for the fill that completes the order.
THEOREM LastSecretIsLast == Spec => []LastSecretForLastFill
<1>1. ASSUME IInv PROVE LastSecretForLastFill
  <2>1. SUFFICES ASSUME NEW e \in escrows
                 PROVE  /\ e.hashlock = SecretHash[Parts] => e.to = MakingAmount
                        /\ e.to = MakingAmount /\ Parts <= MakingAmount
                             => e.hashlock = SecretHash[Parts]
    BY DEF LastSecretForLastFill
  <2>2. e \in Escrow /\ Rightful(e)
    BY <1>1 DEF IInv, TypeOK, EscrowsOK
  <2>3. e.to \in 1 .. MakingAmount
    BY <2>2, Constants DEF Escrow, Rightful
  <2>4. PartOf(e.to) \in Nat /\ PartOf(e.to) <= Parts - 1
    BY <2>3, PartsInOrder, LastPart, Constants
  <2>5. PartOf(e.to) \in Index /\ Parts \in Index /\ PartOf(e.to) # Parts
    BY <2>4, Constants DEF Index
  <2>6. CASE e.to = MakingAmount
    <3>1. Parts <= MakingAmount => RightIndex(e.to) = Parts
      BY <2>6, LastPart, Constants DEF RightIndex
    <3> QED BY <2>2, <2>6, <3>1 DEF Rightful
  <2>7. CASE e.to # MakingAmount
    <3>1. e.hashlock = SecretHash[PartOf(e.to)]
      BY <2>2, <2>7 DEF Rightful, RightIndex
    <3> QED BY <2>5, <2>7, <3>1, SecretHashAssumption
  <2> QED BY <2>6, <2>7
<1> QED BY <1>1, Inductive, PTL
\* TypeOK: the stack of fills, whichever of them revert, holds amounts within the
\* order, and the index that _postInteraction reads belongs to a leaf.
THEOREM TypeCorrect == Spec => []TypeOK
<1>1. IInv => TypeOK
  BY DEF IInv
<1> QED BY <1>1, Inductive, PTL

\* SdkIndexIsRight: whatever is left of whatever order, the secret that
\* CrossChainOrder.getMultipleFillIdx names is the one that _isValidPartialFill asks
\* for, and the fill of all that is left passes.
THEOREM SdkAgreesWithFactory == Spec => []SdkIndexIsRight
<1>1. ASSUME IInv PROVE SdkIndexIsRight
  <2>1. /\ remaining \in 0 .. MakingAmount
        /\ MakingAmount \in Nat \ {0} /\ Parts \in Nat
    BY <1>1, Constants DEF IInv, TypeOK
  <2>2. \A making \in 1 .. remaining : PartOf(MakingAmount - remaining + making) \in Nat
    <3>1. \A making \in 1 .. remaining :
            MakingAmount - remaining + making \in 1 .. MakingAmount
      BY <2>1
    <3> QED BY <3>1, PartsInOrder
  <2>3. ASSUME remaining > 0
        PROVE  IsValidPartialFill(remaining, remaining,
                                  GetMultipleFillIdx(remaining, remaining) + 1)
    <3>1. remaining \in 1 .. remaining
      BY <2>1, <2>3
    <3> QED BY <2>2, <3>1 DEF IsValidPartialFill, GetMultipleFillIdx
  <2>4. ASSUME NEW making \in 1 .. remaining, NEW i \in Index,
               IsValidPartialFill(making, remaining, i + 1)
        PROVE  i = GetMultipleFillIdx(making, remaining)
    <3> DEFINE part == PartOf(MakingAmount - remaining + making)
    <3>1. part \in Nat /\ i \in Nat
      <4>1. i \in Nat
        BY <2>1 DEF Index
      <4>2. part \in Nat
        BY <2>2
      <4> QED BY <4>1, <4>2
    <3>2. \/ remaining = making /\ i + 1 = part + 2
          \/ remaining # making /\ i + 1 = part + 1
      BY <2>4 DEF IsValidPartialFill
    <3> HIDE DEF part
    <3>3. i = IF remaining = making THEN part + 1 ELSE part
      BY <3>1, <3>2
    <3> QED BY <3>3 DEF GetMultipleFillIdx, part
  <2> QED BY <2>3, <2>4 DEF SdkIndexIsRight
<1> QED BY <1>1, Inductive, PTL
=============================================================================
