----------------------------- MODULE SecretRelay -----------------------------
(***************************************************************************)
(* The SDK's client of the relayer: how the maker's secrets reach a        *)
(* resolver (sdk.ts, api/, ws-api/ and the loop that the SDK's README has  *)
(* the maker run, which gives up when a request is rejected).              *)
(*                                                                         *)
(* The relayer itself is a service outside the repository: what it answers *)
(* is modelled from the types of api/orders/types.ts and ws-api/types.ts.  *)
(* The requests are HTTP calls that may fail before or after the relayer   *)
(* has acted on them, and a websocket that loses and reorders what it      *)
(* carries, without a number that ties an answer to its request.           *)
(***************************************************************************)
EXTENDS Integers, Sequences, FiniteSets, Functions

CONSTANTS Fill,       \* fills of one order, each with a secret
          PageSize,   \* secrets on a page of getSecrets
          MaxAnswers  \* bound: answers to getSecrets in flight

ASSUME RelayAssumption == IsFiniteSet(Fill) /\ PageSize \in Nat \ {0}

VARIABLES
  escrows,    \* of each fill: none, src, both, and then closed; or src and then void
  loop,       \* the maker's loop: asks, submits, has ended or has failed
  answer,     \* the fills of the last answer that the loop still has to submit
  waiting,    \* the secret whose submission the loop awaits, if any
  posts,      \* secrets on their way to the relayer
  published,  \* the secrets the relayer has taken, in that order
  route,      \* how this resolver asks again: HTTP or the websocket
  asked,      \* pages of secrets asked for on the websocket
  socket,     \* messages on their way to the resolver
  known       \* fills whose secret the resolver's callbacks have got

relayer == << escrows, published >>
maker == << loop, answer, waiting, posts >>
resolver == << route, asked, known >>
relayVars == << relayer, maker, resolver, socket >>

EventType == {"order_created", "order_invalid", "order_balance_change",
              "order_allowance_change", "order_filled", "order_filled_partially",
              "order_cancelled", "secret_shared"}

Frame == [event : EventType, idx : Fill] \cup [method : {"getSecrets"}, result : SUBSET Fill]

Pages == 1 .. (Cardinality(Fill) + PageSize - 1) \div PageSize

RelayInit ==
  /\ escrows = [i \in Fill |-> "none"]
  /\ loop = "ask" /\ answer = {} /\ waiting = {} /\ posts = {}
  /\ published = << >>
  /\ route \in {"http", "rpc"}
  /\ asked = {} /\ socket = {} /\ known = {}

---------------------------------------------------------------------------
(* The relayer, as the SDK sees it.                                        *)

Send(frame) == socket' = socket \cup {frame}

SrcEscrowCreated(i) ==
  /\ escrows[i] = "none"
  /\ escrows' = [escrows EXCEPT ![i] = "src"]
  /\ Send([event |-> "order_filled_partially", idx |-> i])
  /\ UNCHANGED << published, maker, resolver >>

DstEscrowCreated(i) ==
  /\ escrows[i] = "src"
  /\ escrows' = [escrows EXCEPT ![i] = "both"]
  /\ UNCHANGED << published, maker, resolver, socket >>

EscrowsSettled(i) ==
  /\ escrows[i] \in {"src", "both"}
  /\ escrows' = [escrows EXCEPT ![i] = IF @ = "src" THEN "void" ELSE "closed"]
  /\ UNCHANGED << published, maker, resolver, socket >>

(* The relayer takes a secret once, however often it is sent.              *)
TakeSecret(i) ==
  /\ i \in posts
  /\ posts' = posts \ {i}
  /\ IF i \in Range(published)
     THEN UNCHANGED << published, socket >>
     ELSE published' = Append(published, i) /\ Send([event |-> "secret_shared", idx |-> i])
  /\ UNCHANGED << escrows, loop, answer, waiting, resolver >>

(* A rejected promise that nobody catches ends the maker's script.         *)
Fail == loop' = "failed" /\ answer' = {} /\ waiting' = {}

(* A post is lost, and the request rejected if the loop still awaits it.   *)
LosePost(i) ==
  /\ i \in posts
  /\ posts' = posts \ {i}
  /\ IF i \in waiting THEN Fail ELSE UNCHANGED << loop, answer, waiting >>
  /\ UNCHANGED << relayer, resolver, socket >>

LoseFrame(f) ==
  /\ f \in socket
  /\ socket' = socket \ {f}
  /\ UNCHANGED << relayer, maker, resolver >>

---------------------------------------------------------------------------
(* The maker's loop: ask which fills are ready, submit their secrets one   *)
(* after the other, ask whether the order is over, and start again.  What  *)
(* it submits may be long out of date.                                     *)

ReadyFills == {i \in Fill : escrows[i] = "both" /\ i \notin Range(published)}

\* Mutant: the request goes to the status of the order, which lists every fill.
GetFillsOfStatus ==
  /\ loop = "ask"
  /\ answer' = {i \in Fill : escrows[i] \in {"src", "both"}} \ Range(published)
  /\ loop' = "submit"
  /\ UNCHANGED << relayer, waiting, posts, resolver, socket >>

\* Mutant: the loop counts its secrets instead of going by the indices it is told.
GetReadyFillsInOrder ==
  /\ loop = "ask"
  /\ answer' = {i \in ReadyFills : i = Len(published)}
  /\ loop' = "submit"
  /\ UNCHANGED << relayer, waiting, posts, resolver, socket >>

(* The list may still have fills whose secrets the relayer has taken.      *)
GetReadyToAcceptSecretFills ==
  /\ loop = "ask"
  /\ \E stale \in SUBSET Range(published) : answer' = ReadyFills \cup stale
  /\ loop' = "submit"
  /\ UNCHANGED << relayer, waiting, posts, resolver, socket >>

SubmitSecret(i) ==
  /\ loop = "submit" /\ waiting = {} /\ i \in answer
  /\ answer' = answer \ {i}
  /\ waiting' = {i}
  /\ posts' = posts \cup {i}
  /\ UNCHANGED << relayer, loop, resolver, socket >>

(* The relayer has answered the submission.                                *)
SecretSubmitted ==
  /\ waiting # {} /\ waiting \cap posts = {}
  /\ waiting' = {}
  /\ UNCHANGED << relayer, loop, answer, posts, resolver, socket >>

OrderStatus == {"pending", "executed", "expired", "cancelled", "refunding", "refunded"}

(* What the relayer calls an order that is filled in parts is not told.    *)
GetOrderStatus ==
  /\ loop = "submit" /\ waiting = {} /\ answer = {}
  /\ \E status \in OrderStatus :
       loop' = IF status \in {"executed", "expired", "refunded"} THEN "ended" ELSE "ask"
  /\ UNCHANGED << relayer, answer, waiting, posts, resolver, socket >>

(* A request is rejected: one of the two questions, or a submission that   *)
(* is still on its way or whose answer is lost.                            *)
RequestRejected ==
  /\ \/ loop = "ask"
     \/ loop = "submit" /\ (answer = {} \/ waiting # {})
  /\ Fail
  /\ UNCHANGED << relayer, posts, resolver, socket >>

MakerLoop ==
  \/ GetReadyToAcceptSecretFills \/ SecretSubmitted \/ GetOrderStatus \/ RequestRejected
  \/ \E i \in Fill : SubmitSecret(i)

---------------------------------------------------------------------------
(* The resolver: callbacks on the websocket, and asking again.             *)

OnOrderSecretShared(f) ==
  IF "event" \in DOMAIN f /\ f.event = "secret_shared" THEN {f.idx} ELSE {}

\* Mutant: the callback looks for another method.
OnGetSecretsOfActiveOrders(f) ==
  IF "method" \in DOMAIN f /\ f.method = "getActiveOrders" THEN f.result ELSE {}

OnGetSecrets(f) ==
  IF "method" \in DOMAIN f /\ f.method = "getSecrets" THEN f.result ELSE {}

OnMessage(f) ==
  /\ f \in socket
  /\ socket' = socket \ {f}
  /\ known' = known \cup OnOrderSecretShared(f) \cup OnGetSecrets(f)
  /\ UNCHANGED << relayer, maker, route, asked >>

\* Mutant: pages are counted from 0.
PaginationOKFromZero(page, limit) == page >= 0 /\ limit \in 1 .. 500

(* PaginationRequest throws for a page below 1 or a limit out of range.    *)
PaginationOK(page, limit) == page >= 1 /\ limit \in 1 .. 500

GetSecrets(page) ==
  /\ route = "rpc" /\ page \notin asked
  /\ PaginationOK(page, PageSize)
  /\ asked' = asked \cup {page}
  /\ UNCHANGED << relayer, maker, route, known, socket >>

SecretsOnPage(page) ==
  {published[n] : n \in {n \in DOMAIN published : (n - 1) \div PageSize + 1 = page}}

AnswerGetSecrets(page) ==
  /\ page \in asked
  /\ Cardinality({f \in socket : "method" \in DOMAIN f}) < MaxAnswers
  /\ asked' = asked \ {page}
  /\ Send([method |-> "getSecrets", result |-> SecretsOnPage(page)])
  /\ UNCHANGED << relayer, maker, route, known >>

GetPublishedSecrets ==
  /\ route = "http"
  /\ known' = known \cup Range(published)
  /\ UNCHANGED << relayer, maker, route, asked, socket >>

RelayNext ==
  \/ \E i \in Fill : \/ SrcEscrowCreated(i) \/ DstEscrowCreated(i) \/ EscrowsSettled(i)
                     \/ TakeSecret(i) \/ LosePost(i)
  \/ MakerLoop
  \/ \E f \in socket : OnMessage(f) \/ LoseFrame(f)
  \/ \E page \in 0 .. Cardinality(Fill) : GetSecrets(page)
  \/ \E page \in asked : AnswerGetSecrets(page)
  \/ GetPublishedSecrets

(* The maker's script runs on, and a request is answered or rejected at    *)
(* last.  Nothing is assumed of the resolver, which asks for secrets or    *)
(* not, nor of the events.                                                 *)
Fairness ==
  /\ WF_relayVars(MakerLoop)
  /\ \A i \in Fill : WF_relayVars(TakeSecret(i) \/ LosePost(i))

RelaySpec == RelayInit /\ [][RelayNext]_relayVars /\ Fairness

---------------------------------------------------------------------------
(* Every variable holds values of its kind, and what the relayer publishes *)
(* it publishes once, however often the maker sends it.                    *)
RelayTypeOK ==
  /\ escrows \in [Fill -> {"none", "src", "both", "closed", "void"}]
  /\ loop \in {"ask", "submit", "ended", "failed"}
  /\ answer \subseteq Fill /\ waiting \subseteq Fill
  /\ posts \subseteq Fill /\ known \subseteq Fill
  /\ \A m, n \in DOMAIN published : published[m] = published[n] => m = n
  /\ route \in {"http", "rpc"}
  /\ asked \subseteq 1 .. Cardinality(Fill)
  /\ socket \subseteq Frame

SX == INSTANCE SecretExchange WITH
        ready <- {i \in Fill : escrows[i] \in {"both", "closed"}}

(* The resolver learns the secret of a fill only after both its escrows    *)
(* were deployed: neither the partial fill it hears of first, nor an       *)
(* answer that comes late or instead of another, gives one away.           *)
SecretsOnlyWhenReady == SX!Safe

(* The loop of the SDK's README shares the secret of every fill both of    *)
(* whose escrows stand, in whatever order the fills come, unless they are  *)
(* settled before or the loop is over: because a request was rejected, or  *)
(* because the order is executed, expired or refunded.                     *)
SecretsPublished ==
  \A i \in Fill :
    escrows[i] = "both" ~>
      (i \in Range(published) \/ escrows[i] # "both" \/ loop \in {"ended", "failed"})
=============================================================================
