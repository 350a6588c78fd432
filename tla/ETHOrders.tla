------------------------------ MODULE ETHOrders ------------------------------
(***************************************************************************)
(* Orders that sell native currency (ETHOrders.sol).  Their maker is this  *)
(* contract: it wraps what the real maker deposits with an order, and      *)
(* holds the deposits of all orders as one balance of WETH, which the      *)
(* limit order protocol may draw on.  A fill takes the tokens first and    *)
(* reports them in its post-interaction last, with the taker's code run in *)
(* between.  The real maker may cancel an order at any time, and resolvers *)
(* an expired one, against a premium that grows with time.                 *)
(***************************************************************************)
EXTENDS Integers, Sequences, SequencesExt, FiniteSetsExt

CONSTANTS
  Order, Terms, Account, Nonce, Series, SlotSize, Word, MaxAmount, MaxEpoch,
  MaxDepth, MaxCalls, Horizon,     \* as in LimitOrder
  this,              \* the address of the contract
  Depositor,         \* order.getReceiver(): the real makers
  Nobody,            \* address(0)
  Resolver,          \* holders of the access token
  Premium,           \* maximum premiums that makers set
  AuctionDuration,   \* durations that makers set
  PremiumBase,       \* _PREMIUM_BASE
  Fee,               \* values of _CANCEL_GAS_LOWER_BOUND * block.basefee
  MaxWeth            \* bound on what gifts of WETH bring the balance to

VARIABLES
  now, signed, storage, pending, calls,
  vault,             \* ordersMakersBalances and the WETH of the contract
  saved              \* what the vault was when each pending call began

lopVars == <<now, signed, storage, pending, calls>>
vars == <<lopVars, vault, saved>>

LOP == INSTANCE LimitOrder WITH Maker <- {this}, AccessToken <- Resolver

\* What LimitOrder assumes of the same constants.
ASSUME ProtocolAssumption ==
  /\ Terms \in [Order -> LOP!OrderTerms]
  /\ Nonce \subseteq Nat /\ SlotSize \in Nat \ {0}
  /\ MaxAmount \in Nat /\ Word \in Nat
  /\ MaxAmount * (MaxAmount + 1) < Word
  /\ MaxEpoch \in Nat /\ MaxDepth \in Nat
  /\ MaxCalls \in Nat /\ Horizon \in Nat \ {0}
ASSUME OrdersAssumption == IsFiniteSet(Order)
ASSUME ThisAssumption ==
  /\ this \in Account
  /\ \A o \in Order : Terms[o].maker = this
ASSUME DepositorAssumption ==
  Depositor \in [Order -> Account] /\ Nobody \notin Account /\ Resolver \subseteq Account
ASSUME PremiumAssumption ==
  /\ Premium \subseteq Nat /\ AuctionDuration \subseteq Nat
  /\ PremiumBase \in Nat \ {0} /\ Fee \subseteq Nat
ASSUME WethAssumption == MaxWeth \in Nat

ETHOrder ==
  [maker : Account \union {Nobody}, balance : 0 .. MaxAmount,
   maximumPremium : Premium \union {0}, auctionDuration : AuctionDuration \union {0}]

\* refunds and rewards: what cancellations have paid out, by order.
Vault ==
  [orders : [Order -> ETHOrder], weth : Nat, refunds : [Order -> Nat], rewards : [Order -> Nat]]

Init ==
  /\ LOP!Init
  /\ vault = [orders |-> [o \in Order |-> [maker |-> Nobody, balance |-> 0,
                                           maximumPremium |-> 0, auctionDuration |-> 0]],
              weth |-> 0, refunds |-> [o \in Order |-> 0], rewards |-> [o \in Order |-> 0]]
  /\ saved = <<>>

Deposited(o) == vault.orders[o].maker # Nobody

-----------------------------------------------------------------------------

\* The whole of the order, by its receiver, once.
EthOrderDeposit(o, premium, duration) ==
  /\ ~Deposited(o)
  /\ vault' = [vault EXCEPT
       !.orders[o] = [maker |-> Depositor[o], balance |-> Terms[o].makingAmount,
                      maximumPremium |-> premium, auctionDuration |-> duration],
       !.weth = @ + Terms[o].makingAmount]
  /\ UNCHANGED <<lopVars, saved>>

\* Anybody may transfer WETH to the contract: no book is kept of it.
GiveWeth(amount) ==
  /\ vault.weth + amount <= MaxWeth
  /\ vault' = [vault EXCEPT !.weth = @ + amount]
  /\ UNCHANGED <<lopVars, saved>>

-----------------------------------------------------------------------------
(* Fills, as the order protocol carries them out.                           *)

\* isValidSignature, while the order is untouched: the real maker's, if any.
IsValidSignature(o) == LOP!Remaining(o) = Terms[o].makingAmount => Deposited(o)

BeginFill(o, sender, isMakingAmount, amount) ==
  /\ IsValidSignature(o)
  /\ LOP!BeginFill(o, sender, isMakingAmount, amount)
  /\ saved' = Append(saved, vault)
  /\ UNCHANGED vault

\* The protocol draws on the balance of all orders.
DrawWeth ==
  /\ vault.weth >= LOP!Top.making
  /\ vault' = [vault EXCEPT !.weth = @ - LOP!Top.making]

\* The WETH stays where it is if the taker names this contract as the target, or
\* if the order sells another token: a deposit does not ask which one it sells.
Transfer ==
  /\ LOP!Transfer
  /\ DrawWeth \/ UNCHANGED vault
  /\ UNCHANGED saved

\* Mutant: what the order has left is not looked at before it is taken off.
PostInteractionUnchecked ==
  vault' = [vault EXCEPT !.orders[LOP!Top.order].balance = (@ - LOP!Top.making) % Word]

\* A fill of more than the order has left is undone as a whole.
PostInteraction ==
  LET o == LOP!Top.order
  IN  /\ vault.orders[o].balance >= LOP!Top.making
      /\ vault' = [vault EXCEPT !.orders[o].balance = @ - LOP!Top.making]

EndFill ==
  /\ LOP!EndFill
  /\ PostInteraction
  /\ saved' = Front(saved)

RevertFill ==
  /\ LOP!RevertFill
  /\ vault' = Last(saved)
  /\ saved' = Front(saved)

-----------------------------------------------------------------------------
(* Cancellation, with the traits of `p` for those of `o`: the contract does *)
(* not see the order itself.                                                *)

\* Mutant: the deposit is refunded and kept on the books.
CancelOrderOnBooks(caller, p, o) ==
  /\ vault.orders[o].maker = caller
  /\ LOP!CancelOrder(this, p, o)
  /\ LET balance == vault.orders[o].balance
     IN  /\ vault.weth >= balance
         /\ vault' = [vault EXCEPT !.weth = @ - balance, !.refunds[o] = @ + balance]
  /\ UNCHANGED saved

CancelOrder(caller, p, o) ==
  /\ vault.orders[o].maker = caller
  /\ LOP!CancelOrder(this, p, o)
  /\ LET balance == vault.orders[o].balance
     IN  /\ vault.weth >= balance
         /\ vault' = [vault EXCEPT !.orders[o].balance = 0, !.weth = @ - balance,
                                   !.refunds[o] = @ + balance]
  /\ UNCHANGED saved

\* _getCurrentPremiumMultiplier
CurrentPremium(order, expiration) ==
  LET elapsed == now - expiration
  IN  IF elapsed <= 0 THEN 0
      ELSE IF elapsed >= order.auctionDuration THEN order.maximumPremium
      ELSE (elapsed * order.maximumPremium) \div order.auctionDuration

\* Whether the order has expired, and how long ago, is read off the traits too.
CancelOrderByResolver(caller, p, o, fee) ==
  LET order == vault.orders[o]
      reward == (fee * (PremiumBase + CurrentPremium(order, Terms[p].expiration))) \div PremiumBase
  IN  /\ caller \in Resolver
      /\ LOP!Expired(p)
      /\ Deposited(o)
      /\ order.maximumPremium # 0
      /\ LOP!CancelOrder(this, p, o)
      /\ reward <= order.balance
      /\ vault.weth >= order.balance
      /\ vault' = [vault EXCEPT !.orders[o].balance = 0, !.weth = @ - order.balance,
                                !.rewards[o] = @ + reward,
                                !.refunds[o] = @ + order.balance - reward]
      /\ UNCHANGED saved

Pause == LOP!Pause /\ UNCHANGED <<vault, saved>>
Tick == LOP!Tick /\ UNCHANGED <<vault, saved>>

Next ==
  \/ \E o \in Order :
       \/ \E premium \in Premium, duration \in AuctionDuration :
            EthOrderDeposit(o, premium, duration)
       \/ \E sender \in Account, isMakingAmount \in BOOLEAN, amount \in 1 .. MaxAmount :
            BeginFill(o, sender, isMakingAmount, amount)
       \/ \E p \in Order :
            \/ \E caller \in Account : CancelOrder(caller, p, o)
            \/ \E caller \in Account, fee \in Fee : CancelOrderByResolver(caller, p, o, fee)
  \/ \E amount \in 1 .. MaxWeth : GiveWeth(amount)
  \/ Transfer
  \/ EndFill
  \/ RevertFill
  \/ Pause
  \/ Tick

Spec == Init /\ [][Next]_vars

-----------------------------------------------------------------------------

\* Books and balances are numbers, and every pending call has its saved vault.
TypeOK ==
  /\ LOP!TypeOK
  /\ vault \in Vault
  /\ saved \in Seq(Vault)
  /\ Len(saved) = Len(pending)

\* Between transactions the contract holds what it owes on its books, whatever was
\* filled and cancelled at once and wherever the takers had the tokens sent.
Solvent ==
  pending = <<>> =>
    vault.weth >= MapThenSumSet(LAMBDA o : vault.orders[o].balance, Order)

\* What an order's fills and cancellations have paid comes out of its own
\* deposit and not of its neighbours'.
OutOfOwnDeposit ==
  pending = <<>> =>
    \A o \in Order :
      vault.orders[o].balance + storage.taken[o] + vault.refunds[o] + vault.rewards[o]
        = IF Deposited(o) THEN Terms[o].makingAmount ELSE 0

\* "Allows third-party to cancel an expired order and receive a reward."
ExpiredBeforeReward == \A o \in Order : vault.rewards[o] > 0 => LOP!Expired(o)
=============================================================================
