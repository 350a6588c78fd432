---------------------------- MODULE TestnetProofs ----------------------------
(***************************************************************************)
(* The properties of Testnet, for any number of scripts, deployments and   *)
(* mints.  The invariant says of every swap script what it has reached:    *)
(* which allowances and balances its earlier transactions have left, or    *)
(* will leave when the chain gets to them, and that the addresses it read  *)
(* are of contracts that are there.                                        *)
(***************************************************************************)
EXTENDS Testnet, SequenceTheorems, TLAPS

Address == Nat \ {0}
Config == [Chain -> [Kind -> Address]]

(* Every address in the configuration is that of a deployed contract.      *)
Known(cfg) == \A c \in Chain, k \in Kind : cfg[c][k] \in Deployed(k, c)

ContractsOK ==
  /\ lops \in [Chain -> Nat]
  /\ factories \in [Chain -> Seq(Address)]
  /\ resolvers \in [Chain -> Seq([factory : Address, lop : Address])]
  /\ tokens \in [Chain -> Nat]
  /\ usdc \in Seq(Nat) /\ Len(usdc) = tokens[Src]
  /\ eth \in Seq(Nat) /\ Len(eth) = Len(resolvers[Dst])

FilesOK == scripts \in Config /\ Known(scripts) /\ sdk \in Nat

Job == [what : {"lop", "factory", "resolver", "usdc", "weth", "mintUsdc", "mintWeth"},
        chain : Chain, cfg : Config]

JobsOK == jobs \subseteq Job /\ \A j \in jobs : Known(j.cfg)

Signed == {"signed", "sent", "done", "failed"}
Topping == {"allowance", "clearing", "approving", "calling"}
Approved == {"balance", "fund"} \cup Topping \cup Signed
Phase == {"idle", "approve", "dead"} \cup Approved

Tx == [run : Run, what : {"fund", "clear", "approve", "call"}]

RunsOK ==
  /\ runs \in [Run -> [pc : Phase, cfg : Config, sdk : Nat]]
  /\ pool \subseteq Run
  /\ txs \in Seq(Tx)
  /\ \A r \in Run :
       /\ Known(runs[r].cfg)
       /\ r \in pool => runs[r].pc \in {"sent", "dead"}

(* The resolver has native currency, or gets it from one of the first n    *)
(* transactions that are waiting.                                          *)
Topped(r, n) ==
  \/ eth[runs[r].cfg[Dst].resolver] = 1
  \/ \E j \in 1 .. n : txs[j] = [run |-> r, what |-> "fund"]

Ready(r) ==
  LET dst == runs[r].cfg[Dst]
  IN eth[dst.resolver] = 1 /\ << dst.resolver, dst.token, dst.factory >> \in dstAllow

(* What the transactions of a script leave when it has got to pc, those of *)
(* a script that has died with one in flight included.                     *)
Left(r, pc) ==
  /\ pc \in Approved \/ r \in pool =>
       << runs[r].cfg[Src].token, runs[r].cfg[Src].lop >> \in allow
  /\ pc \in Topping => Topped(r, Len(txs))
  /\ pc = "calling" => ~Receipt(r, "call") \/ Ready(r)
  /\ pc \in Signed => Ready(r)
  /\ pc \in Signed \/ r \in pool => r \in logged

LeftBehind == \A r \in Run : Left(r, runs[r].pc)

(* No script is idle while a transaction of its own waits, and the         *)
(* contract is called after the transfer, if there was one to make.        *)
QueueOK ==
  \A i \in 1 .. Len(txs) :
    /\ runs[txs[i].run].pc # "idle"
    /\ txs[i].what = "call" => Topped(txs[i].run, i - 1)

(* A fill pays once.                                                       *)
Spent ==
  \A p \in paid : /\ p[2][2] \in Run \ pool
                  /\ runs[p[2][2]].pc \in {"done", "dead"}

IInv == /\ ContractsOK /\ FilesOK /\ JobsOK /\ RunsOK /\ LeftBehind /\ QueueOK /\ Spent
        /\ FundsInClones /\ SecretsLogged

---------------------------------------------------------------------------
(* Sequences of contracts.                                                 *)

(* A contract is added at the end; the others keep their numbers.          *)
LEMMA Appended ==
  ASSUME NEW S, NEW s \in Seq(S), NEW x \in S
  PROVE  /\ Append(s, x) \in Seq(S)
         /\ Len(Append(s, x)) = Len(s) + 1
         /\ DOMAIN Append(s, x) = 1 .. Len(s) + 1
         /\ DOMAIN s = 1 .. Len(s)
         /\ \A i \in 1 .. Len(s) : Append(s, x)[i] = s[i]
  OBVIOUS

(* The first is taken away; the others move up.                            *)
LEMMA Tailed ==
  ASSUME NEW S, NEW s \in Seq(S), s # << >>
  PROVE  /\ Tail(s) \in Seq(S)
         /\ Len(s) \in Nat \ {0} /\ Len(Tail(s)) = Len(s) - 1
         /\ Head(s) = s[1] /\ Head(s) \in S
         /\ \A i \in 1 .. Len(s) - 1 : Tail(s)[i] = s[i + 1]
  BY HeadTailProperties, EmptySeq, LenProperties

(* What a step may do to the contracts: add one, and keep the others.      *)
Grow ==
  /\ \A c \in Chain, k \in Kind : Deployed(k, c) \subseteq Deployed(k, c)'
  /\ \A n \in 1 .. Len(eth) : eth[n] = 1 => eth'[n] = 1

\* What is deployed of a kind on a chain has a number among the addresses.
LEMMA NumbersAreAddresses ==
  ASSUME ContractsOK, NEW c \in Chain, NEW k \in Kind
  PROVE  Deployed(k, c) \subseteq Address
<1>1. /\ factories[c] \in Seq(Address)
      /\ resolvers[c] \in Seq([factory : Address, lop : Address])
  BY DEF ContractsOK
<1>2. DOMAIN factories[c] = 1 .. Len(factories[c]) /\ Len(factories[c]) \in Nat
  BY <1>1, LenProperties
<1>3. DOMAIN resolvers[c] = 1 .. Len(resolvers[c]) /\ Len(resolvers[c]) \in Nat
  BY <1>1, LenProperties
<1> QED
  BY <1>2, <1>3 DEF ContractsOK, Deployed, Kind, Address

\* A step that deploys nothing keeps the contracts well formed.
LEMMA SameContracts ==
  ASSUME ContractsOK, UNCHANGED contracts, UNCHANGED << usdc, eth >>
  PROVE  ContractsOK' /\ Grow
  BY DEF ContractsOK, contracts, Grow, Deployed, Kind

\* The invariant holds of the configuration in the repository.
LEMMA InitCorrect == Init => IInv
<1> SUFFICES ASSUME Init PROVE IInv
  OBVIOUS
<1>1. ContractsOK
  BY DEF Init, ContractsOK, Address, Chain, Src, Dst
<1>2. Known(InitConfig) /\ InitConfig \in Config
  BY DEF Init, Known, Deployed, InitConfig, Config, Chain, Kind, Address
<1>3. FilesOK /\ JobsOK
  BY <1>2 DEF Init, FilesOK, JobsOK
<1>4. RunsOK
  BY <1>2 DEF Init, RunsOK, Idle, Phase
<1>5. LeftBehind
  BY DEF Init, LeftBehind, Left, Idle, Approved, Topping, Signed
<1>6. QueueOK
  BY DEF Init, QueueOK
<1>7. FundsInClones /\ SecretsLogged /\ Spent
  BY DEF Init, FundsInClones, SecretsLogged, Spent
<1> QED
  BY <1>1, <1>3, <1>4, <1>5, <1>6, <1>7 DEF IInv
---------------------------------------------------------------------------
(* Deployment.                                                             *)

\* A new protocol is one address more.
LEMMA DeployLopGrows ==
  ASSUME IInv, NEW j \in jobs, DeployLop(j)
  PROVE  ContractsOK' /\ Grow
<1>1. lops' = [lops EXCEPT ![j.chain] = @ + 1] /\ j.chain \in Chain
  BY DEF DeployLop, IInv, JobsOK, Job
<1>2. UNCHANGED << factories, resolvers, tokens, usdc, eth >>
  BY DEF DeployLop, balances
<1>3. /\ lops' \in [Chain -> Nat]
      /\ \A d \in Chain : 1 .. lops[d] \subseteq 1 .. lops'[d]
  BY <1>1 DEF IInv, ContractsOK
<1> QED
  BY <1>2, <1>3 DEF IInv, ContractsOK, Grow, Deployed, Kind

\* A new factory names a protocol that exists.
LEMMA DeployEscrowFactoryGrows ==
  ASSUME IInv, NEW j \in jobs, DeployEscrowFactory(j)
  PROVE  ContractsOK' /\ Grow
<1> DEFINE c == j.chain
<1>1. /\ factories' = [factories EXCEPT ![c] = Append(@, j.cfg[c].lop)]
      /\ c \in Chain /\ j.cfg[c].lop \in Address
  BY DEF DeployEscrowFactory, IInv, JobsOK, Job, Config, Kind
<1>2. UNCHANGED << lops, resolvers, tokens, usdc, eth >>
  BY DEF DeployEscrowFactory, balances
<1>3. factories[c] \in Seq(Address) /\ factories \in [Chain -> Seq(Address)]
  BY <1>1 DEF IInv, ContractsOK
<1>4. /\ Append(factories[c], j.cfg[c].lop) \in Seq(Address)
      /\ DOMAIN factories[c] \subseteq DOMAIN Append(factories[c], j.cfg[c].lop)
  BY <1>1, <1>3, LenProperties, Appended
<1>5. /\ factories' \in [Chain -> Seq(Address)]
      /\ \A d \in Chain : DOMAIN factories[d] \subseteq DOMAIN factories'[d]
  BY <1>1, <1>3, <1>4
<1> QED
  BY <1>2, <1>5 DEF IInv, ContractsOK, Grow, Deployed, Kind

\* A new resolver names a factory and a protocol that exist, and holds nothing.
LEMMA DeployResolverGrows ==
  ASSUME IInv, NEW j \in jobs, DeployResolver(j)
  PROVE  ContractsOK' /\ Grow
<1> DEFINE c == j.chain
           new == [factory |-> j.cfg[c].factory, lop |-> j.cfg[c].lop]
           Resolver == [factory : Address, lop : Address]
<1>1. /\ resolvers' = [resolvers EXCEPT ![c] = Append(@, new)]
      /\ eth' = IF c = Dst THEN Append(eth, 0) ELSE eth
      /\ c \in Chain /\ new \in Resolver
  BY DEF DeployResolver, IInv, JobsOK, Job, Config, Kind
<1>2. UNCHANGED << lops, factories, tokens, usdc >>
  BY DEF DeployResolver
<1>3. resolvers[c] \in Seq(Resolver) /\ resolvers \in [Chain -> Seq(Resolver)] /\ eth \in Seq(Nat)
  BY <1>1 DEF IInv, ContractsOK
<1> HIDE DEF new, Resolver
<1>4. /\ Append(resolvers[c], new) \in Seq(Resolver)
      /\ DOMAIN resolvers[c] \subseteq DOMAIN Append(resolvers[c], new)
      /\ Len(Append(resolvers[c], new)) = Len(resolvers[c]) + 1
  BY <1>1, <1>3, LenProperties, Appended
<1>5. /\ resolvers' \in [Chain -> Seq(Resolver)]
      /\ \A d \in Chain : DOMAIN resolvers[d] \subseteq DOMAIN resolvers'[d]
      /\ Len(resolvers'[Dst]) = IF c = Dst THEN Len(resolvers[Dst]) + 1 ELSE Len(resolvers[Dst])
  BY <1>1, <1>3, <1>4 DEF Chain, Dst
<1>6. /\ eth' \in Seq(Nat)
      /\ Len(eth') = IF c = Dst THEN Len(eth) + 1 ELSE Len(eth)
      /\ \A n \in 1 .. Len(eth) : eth'[n] = eth[n]
  BY <1>1, <1>3, Appended
<1>7. ContractsOK'
  BY <1>2, <1>5, <1>6 DEF IInv, ContractsOK, Resolver
<1>8. Grow
  BY <1>2, <1>5, <1>6 DEF Grow, Deployed, Kind
<1> QED
  BY <1>7, <1>8

\* A new USDC contract comes with a balance of zero.
LEMMA DeployMockUSDCGrows ==
  ASSUME IInv, NEW j \in jobs, DeployMockUSDC(j)
  PROVE  ContractsOK' /\ Grow
<1>1. tokens' = [tokens EXCEPT ![Src] = @ + 1] /\ usdc' = Append(usdc, 0)
  BY DEF DeployMockUSDC
<1>2. UNCHANGED << lops, factories, resolvers, eth >>
  BY DEF DeployMockUSDC
<1>3. usdc \in Seq(Nat) /\ 0 \in Nat
  BY DEF IInv, ContractsOK
<1>4. usdc' \in Seq(Nat) /\ Len(usdc') = Len(usdc) + 1
  BY <1>1, <1>3, Appended
<1> QED
  BY <1>1, <1>2, <1>4 DEF IInv, ContractsOK, Grow, Deployed, Kind, Chain, Src

\* A new WETH contract changes nothing the runs rely on.
LEMMA DeployMockWETHGrows ==
  ASSUME IInv, NEW j \in jobs, DeployMockWETH(j)
  PROVE  ContractsOK' /\ Grow
<1>1. tokens' = [tokens EXCEPT ![Dst] = @ + 1]
  BY DEF DeployMockWETH
<1>2. UNCHANGED << lops, factories, resolvers, usdc, eth >>
  BY DEF DeployMockWETH
<1> QED
  BY <1>1, <1>2 DEF IInv, ContractsOK, Grow, Deployed, Kind, Chain, Src, Dst

\* The user gets more of a USDC contract that exists.
LEMMA MintUSDCToUserGrows ==
  ASSUME IInv, NEW j \in jobs, MintUSDCToUser(j)
  PROVE  ContractsOK' /\ Grow
<1> DEFINE t == j.cfg[Src].token
<1>1. usdc' = [usdc EXCEPT ![t] = @ + 1] /\ UNCHANGED << contracts, eth >>
  BY DEF MintUSDCToUser
<1>2. t \in 1 .. Len(usdc)
  BY DEF IInv, JobsOK, ContractsOK, Known, Deployed, Kind, Chain, Src
<1>3. usdc \in Seq(Nat) /\ usdc[t] + 1 \in Nat
  BY <1>2, ElementOfSeq DEF IInv, ContractsOK
<1>4. usdc' \in Seq(Nat) /\ Len(usdc') = Len(usdc)
  BY <1>1, <1>2, <1>3, ExceptSeq
<1> QED
  BY <1>1, <1>4 DEF IInv, ContractsOK, Grow, Deployed, Kind, contracts

(* A job reads addresses of contracts that are there when it starts, and   *)
(* nothing of what it goes on with is changed.                             *)
LEMMA JobsKept ==
  ASSUME JobsOK, Grow, \A j \in jobs' : j \in Job /\ \E i \in jobs : j.cfg = i.cfg
  PROVE  JobsOK'
<1> SUFFICES ASSUME NEW j \in jobs' PROVE Known(j.cfg)'
  BY DEF JobsOK
<1> PICK i \in jobs : j.cfg = i.cfg
  OBVIOUS
<1> QED
  BY DEF JobsOK, Grow, Known

\* Files that are not edited keep naming contracts that exist.
LEMMA FilesKept ==
  ASSUME FilesOK, Grow, UNCHANGED files
  PROVE  FilesOK'
  BY DEF FilesOK, Grow, files, Known

\* A script that starts reads contracts that exist.
LEMMA Starts ==
  ASSUME IInv, NEW c \in Chain,
         NEW what \in {"lop", "factory", "resolver", "usdc", "mintUsdc"}, Start(what, c)
  PROVE  ContractsOK' /\ Grow /\ FilesOK' /\ JobsOK'
<1>1. UNCHANGED contracts /\ UNCHANGED << usdc, eth >> /\ UNCHANGED files
  BY DEF Start, balances
<1>2. ContractsOK' /\ Grow /\ FilesOK'
  BY <1>1, SameContracts, FilesKept DEF IInv
<1>3. ASSUME NEW j \in jobs'
      PROVE  j \in Job /\ Known(j.cfg)'
  <2>1. CASE j \in jobs
    BY <1>2, <2>1 DEF IInv, JobsOK, Grow, Known
  <2>2. CASE j = [what |-> what, chain |-> c, cfg |-> scripts]
    BY <1>1, <1>2, <2>2 DEF FilesOK, files, Job
  <2> QED
    BY <1>3, <2>1, <2>2 DEF Start
<1> QED
  BY <1>2, <1>3 DEF JobsOK

\* An edit writes the number of a contract that exists.
LEMMA Edits ==
  ASSUME IInv,
         \/ \E c \in Chain, k \in Kind : \E n \in Deployed(k, c) : EditScripts(c, k, n)
         \/ \E n \in Deployed("lop", Src) : EditSdk(n)
  PROVE  ContractsOK' /\ Grow /\ FilesOK' /\ JobsOK'
<1>1. UNCHANGED contracts /\ UNCHANGED << usdc, eth >> /\ UNCHANGED jobs
  BY DEF EditScripts, EditSdk, balances
<1>2. ContractsOK' /\ Grow
  BY <1>1, SameContracts DEF IInv
<1>3. JobsOK'
  BY <1>1, <1>2 DEF IInv, JobsOK, Grow, Known
<1>4. ASSUME NEW c \in Chain, NEW k \in Kind, NEW n \in Deployed(k, c), EditScripts(c, k, n)
      PROVE  FilesOK'
  <2>1. n \in Address
    BY NumbersAreAddresses DEF IInv
  <2>2. scripts' = [scripts EXCEPT ![c][k] = n] /\ UNCHANGED sdk
    BY <1>4 DEF EditScripts
  <2> QED
    BY <1>1, <1>2, <2>1, <2>2 DEF IInv, FilesOK, Config, Known, Grow
<1>5. ASSUME NEW n \in Deployed("lop", Src), EditSdk(n)
      PROVE  FilesOK'
  <2>1. n \in Address
    BY NumbersAreAddresses DEF IInv, Chain, Src, Kind
  <2> QED
    BY <1>2, <1>5, <2>1 DEF EditSdk, IInv, FilesOK, Known, Grow, Address
<1> QED
  BY <1>2, <1>3, <1>4, <1>5
(* Deployment adds contracts and leaves what the swap scripts have done.   *)
LEMMA DeploymentKeeps ==
  ASSUME IInv, Deployment
  PROVE  /\ ContractsOK' /\ Grow /\ FilesOK' /\ JobsOK'
         /\ UNCHANGED << swaps, allow, dstAllow >>
<1>1. ASSUME NEW c \in Chain,
             NEW what \in {"lop", "factory", "resolver", "usdc", "mintUsdc"}, Start(what, c)
      PROVE  /\ ContractsOK' /\ Grow /\ FilesOK' /\ JobsOK'
             /\ UNCHANGED << swaps, allow, dstAllow >>
  <2>1. UNCHANGED << swaps, allow, dstAllow >>
    BY <1>1 DEF Start, balances
  <2> QED
    BY <1>1, <2>1, Starts
<1>2. ASSUME \/ \E c \in Chain : StartLop(c) \/ StartFactory(c) \/ StartResolver(c)
             \/ StartSetup \/ StartMint
      PROVE  /\ ContractsOK' /\ Grow /\ FilesOK' /\ JobsOK'
             /\ UNCHANGED << swaps, allow, dstAllow >>
  <2>1. ASSUME NEW c \in Chain, StartLop(c) \/ StartFactory(c) \/ StartResolver(c)
        PROVE  Start("lop", c) \/ Start("factory", c) \/ Start("resolver", c)
    BY <2>1 DEF StartLop, StartFactory, StartResolver
  <2>2. ASSUME StartSetup \/ StartMint
        PROVE  Start("usdc", Src) \/ Start("mintUsdc", Src)
    BY <2>2 DEF StartSetup, StartMint
  <2> QED
    BY <1>1, <1>2, <2>1, <2>2 DEF Chain, Src
<1>3. ASSUME NEW j \in jobs,
             \/ DeployLop(j) \/ DeployEscrowFactory(j) \/ DeployResolver(j)
             \/ DeployMockUSDC(j) \/ DeployMockWETH(j) \/ MintUSDCToUser(j)
      PROVE  ContractsOK' /\ Grow
  BY <1>3, DeployLopGrows, DeployEscrowFactoryGrows, DeployResolverGrows,
     DeployMockUSDCGrows, DeployMockWETHGrows, MintUSDCToUserGrows
<1>4. ASSUME NEW j \in jobs, Dies(j) \/ MintWETHToResolver(j)
      PROVE  ContractsOK' /\ Grow
  <2>1. UNCHANGED contracts /\ UNCHANGED << usdc, eth >>
    BY <1>4 DEF Dies, MintWETHToResolver, balances
  <2> QED
    BY <2>1, SameContracts DEF IInv
<1>5. ASSUME NEW j \in jobs,
             \/ Dies(j)
             \/ DeployLop(j) \/ DeployEscrowFactory(j) \/ DeployResolver(j)
             \/ DeployMockUSDC(j) \/ DeployMockWETH(j)
             \/ MintUSDCToUser(j) \/ MintWETHToResolver(j)
      PROVE  /\ ContractsOK' /\ Grow /\ FilesOK' /\ JobsOK'
             /\ UNCHANGED << swaps, allow, dstAllow >>
  <2>1. ContractsOK' /\ Grow
    BY <1>3, <1>4, <1>5
  <2>2. UNCHANGED files /\ UNCHANGED << swaps, allow, dstAllow >>
    BY <1>5 DEF Dies, DeployLop, DeployEscrowFactory, DeployResolver, DeployMockUSDC,
                DeployMockWETH, MintUSDCToUser, MintWETHToResolver, balances
  <2>3. ASSUME NEW n \in jobs'
        PROVE  n \in Job /\ \E i \in jobs : n.cfg = i.cfg
    <3>1. CASE n \in jobs
      BY <3>1 DEF IInv, JobsOK
    <3>2. CASE n \in {[j EXCEPT !.what = "weth"], [j EXCEPT !.what = "mintWeth"]}
      BY <3>2 DEF IInv, JobsOK, Job
    <3> QED
      BY <1>5, <2>3, <3>1, <3>2 DEF Dies, DeployLop, DeployEscrowFactory, DeployResolver,
         DeployMockUSDC, DeployMockWETH, MintUSDCToUser, MintWETHToResolver
  <2> QED
    BY <2>1, <2>2, <2>3, FilesKept, JobsKept DEF IInv
<1>6. ASSUME \/ \E c \in Chain, k \in Kind : \E n \in Deployed(k, c) : EditScripts(c, k, n)
             \/ \E n \in Deployed("lop", Src) : EditSdk(n)
      PROVE  /\ ContractsOK' /\ Grow /\ FilesOK' /\ JobsOK'
             /\ UNCHANGED << swaps, allow, dstAllow >>
  <2>1. UNCHANGED << swaps, allow, dstAllow >>
    BY <1>6 DEF EditScripts, EditSdk, balances
  <2> QED
    BY <1>6, <2>1, Edits
<1> QED
  BY <1>1, <1>2, <1>5, <1>6 DEF Deployment

(* A resolver that a script has read of has a native balance.              *)
LEMMA RunResolver ==
  ASSUME ContractsOK, RunsOK
  PROVE  \A r \in Run : runs[r].cfg[Dst].resolver \in 1 .. Len(eth)
<1> TAKE r \in Run
<1>1. runs[r].cfg[Dst].resolver \in DOMAIN resolvers[Dst]
  BY DEF RunsOK, Known, Deployed, Kind, Chain, Dst
<1>2. resolvers[Dst] \in Seq([factory : Address, lop : Address])
  BY DEF ContractsOK, Chain, Dst
<1> QED
  BY <1>1, <1>2, LenProperties DEF ContractsOK

(* A transaction that is waiting is one script's.                          *)
LEMMA Sender ==
  ASSUME RunsOK, NEW i \in 1 .. Len(txs)
  PROVE  txs[i].run \in Run /\ i - 1 \in Nat
<1>1. txs \in Seq(Tx)
  BY DEF RunsOK
<1>2. txs[i] \in Tx
  BY <1>1, ElementOfSeq
<1>3. Len(txs) \in Nat
  BY <1>1, LenProperties
<1> QED
  BY <1>2, <1>3 DEF Tx

(* What a script has left stays where it is while others deploy.           *)
LEMMA SwapsKept ==
  ASSUME IInv, Grow, UNCHANGED << swaps, allow, dstAllow >>
  PROVE  /\ RunsOK' /\ LeftBehind' /\ QueueOK' /\ Spent'
         /\ FundsInClones' /\ SecretsLogged'
<1>1. UNCHANGED << txs, runs, logged, pool, paid, gifts, clones, allow, dstAllow >>
  BY DEF swaps, escrows
<1>2. RunsOK'
  BY <1>1 DEF IInv, RunsOK, Grow, Known
<1>3. \A r \in Run : runs[r].cfg[Dst].resolver \in 1 .. Len(eth)
  BY RunResolver DEF IInv
<1>4. \A r \in Run, n \in Nat : Topped(r, n) => Topped(r, n)'
  BY <1>1, <1>3 DEF Topped, Grow
<1>5. \A r \in Run : Ready(r) => Ready(r)'
  BY <1>1, <1>3 DEF Ready, Grow
<1>6. txs \in Seq(Tx) /\ Len(txs) \in Nat
  BY LenProperties DEF IInv, RunsOK
<1>7. LeftBehind'
  BY <1>1, <1>4, <1>5, <1>6 DEF IInv, LeftBehind, Left, Receipt
<1>8. QueueOK'
  <2> SUFFICES ASSUME NEW i \in 1 .. Len(txs)
               PROVE  /\ runs[txs[i].run].pc # "idle"
                      /\ txs[i].what = "call" => Topped(txs[i].run, i - 1)'
    BY <1>1 DEF QueueOK
  <2>1. txs[i].run \in Run /\ i - 1 \in Nat
    BY Sender DEF IInv
  <2>2. /\ runs[txs[i].run].pc # "idle"
        /\ txs[i].what = "call" => Topped(txs[i].run, i - 1)
    BY DEF IInv, QueueOK
  <2> QED
    BY <1>1, <1>4, <2>1, <2>2 DEF Topped
<1> QED
  BY <1>1, <1>2, <1>7, <1>8 DEF IInv, FundsInClones, SecretsLogged, Spent

---------------------------------------------------------------------------
(* The swap script.                                                        *)

(* A script deploys nothing and edits nothing.                             *)
LEMMA ScriptsKeep ==
  ASSUME IInv, UNCHANGED << contracts, files, jobs, usdc, eth >>
  PROVE  ContractsOK' /\ Grow /\ FilesOK' /\ JobsOK'
<1>1. UNCHANGED contracts /\ UNCHANGED << usdc, eth >> /\ UNCHANGED files /\ UNCHANGED jobs
  OBVIOUS
<1>2. ContractsOK' /\ Grow
  BY <1>1, SameContracts DEF IInv
<1> QED
  BY <1>1, <1>2, FilesKept DEF IInv, JobsOK, Grow, Known

(* A step of a script to its next phase, with what it has to have left.    *)
LEMMA GoesOn ==
  ASSUME IInv, Grow, NEW r \in Run, NEW pc \in Phase \ {"idle"}, Goto(r, pc),
         UNCHANGED << eth, dstAllow, txs >>,
         allow \subseteq allow', logged \subseteq logged',
         pool' \subseteq pool \cup {r}, r \in pool' => pc \in {"sent", "dead"},
         /\ pc \in Approved \/ r \in pool' =>
              << runs[r].cfg[Src].token, runs[r].cfg[Src].lop >> \in allow'
         /\ pc \in Topping => Topped(r, Len(txs))
         /\ pc = "calling" => ~Receipt(r, "call") \/ Ready(r)
         /\ pc \in Signed => Ready(r)
         /\ pc \in Signed \/ r \in pool' => r \in logged'
  PROVE  RunsOK' /\ LeftBehind' /\ QueueOK'
<1>1. /\ runs' = [runs EXCEPT ![r] = [@ EXCEPT !.pc = pc]]
      /\ runs \in [Run -> [pc : Phase, cfg : Config, sdk : Nat]]
  BY DEF Goto, IInv, RunsOK
<1>2. /\ runs' \in [Run -> [pc : Phase, cfg : Config, sdk : Nat]]
      /\ runs'[r].pc = pc
      /\ \A q \in Run : runs'[q].cfg = runs[q].cfg /\ (q # r => runs'[q] = runs[q])
  BY <1>1
<1>3. \A q \in Run : Known(runs[q].cfg)'
  BY <1>2 DEF IInv, RunsOK, Grow, Known
<1>4. RunsOK'
  BY <1>2, <1>3 DEF IInv, RunsOK
<1>5. \A q \in Run, n \in Nat : Topped(q, n)' <=> Topped(q, n)
  BY <1>2 DEF Topped
<1>6. \A q \in Run : (Ready(q)' <=> Ready(q)) /\ (Receipt(q, "call")' <=> Receipt(q, "call"))
  BY <1>2 DEF Ready, Receipt
<1>7. txs \in Seq(Tx) /\ Len(txs) \in Nat
  BY LenProperties DEF IInv, RunsOK
<1>8. LeftBehind'
  <2> SUFFICES ASSUME NEW q \in Run PROVE Left(q, runs[q].pc)'
    BY DEF LeftBehind
  <2>1. CASE q = r
    BY <1>2, <1>5, <1>6, <1>7, <2>1 DEF Left
  <2>2. CASE q # r
    <3>1. Left(q, runs[q].pc) /\ runs'[q] = runs[q] /\ (q \in pool' => q \in pool)
      BY <1>2, <2>2 DEF IInv, LeftBehind
    <3> QED
      BY <1>5, <1>6, <1>7, <3>1 DEF Left
  <2> QED
    BY <2>1, <2>2
<1>9. QueueOK'
  <2> SUFFICES ASSUME NEW i \in 1 .. Len(txs)
               PROVE  /\ runs'[txs[i].run].pc # "idle"
                      /\ txs[i].what = "call" => Topped(txs[i].run, i - 1)'
    BY DEF QueueOK
  <2>1. txs[i].run \in Run /\ i - 1 \in Nat
    BY Sender DEF IInv
  <2>2. /\ runs[txs[i].run].pc # "idle"
        /\ txs[i].what = "call" => Topped(txs[i].run, i - 1)
    BY DEF IInv, QueueOK
  <2>3. runs'[txs[i].run].pc # "idle"
    BY <1>2, <2>1, <2>2
  <2> QED
    BY <1>2, <2>1, <2>2, <2>3 DEF Topped
<1> QED
  BY <1>4, <1>8, <1>9

(* A step of a script that sends a transaction of the Owner.               *)
LEMMA Sends ==
  ASSUME IInv, Grow, NEW r \in Run, NEW what \in {"fund", "clear", "approve", "call"},
         NEW pc \in Topping, Send(r, what, pc), runs[r].pc # "idle",
         << runs[r].cfg[Src].token, runs[r].cfg[Src].lop >> \in allow, r \notin pool,
         what = "fund" \/ Topped(r, Len(txs)), pc = "calling" => what = "call"
  PROVE  RunsOK' /\ LeftBehind' /\ QueueOK'
<1> DEFINE t == [run |-> r, what |-> what]
<1>0. PICK n \in Nat : n = Len(txs)
  BY LenProperties DEF IInv, RunsOK
<1>1. /\ runs' = [runs EXCEPT ![r] = [@ EXCEPT !.pc = pc]]
      /\ runs \in [Run -> [pc : Phase, cfg : Config, sdk : Nat]]
      /\ UNCHANGED << eth, allow, dstAllow, logged, pool >>
  BY DEF Send, Goto, IInv, RunsOK, balances
<1>2. /\ runs' \in [Run -> [pc : Phase, cfg : Config, sdk : Nat]]
      /\ runs'[r].pc = pc
      /\ \A q \in Run : runs'[q].cfg = runs[q].cfg /\ (q # r => runs'[q] = runs[q])
  BY <1>1 DEF Phase, Approved
<1>3. \A q \in Run : Known(runs[q].cfg)'
  BY <1>2 DEF IInv, RunsOK, Grow, Known
<1>4. txs \in Seq(Tx) /\ t \in Tx /\ n \in Nat /\ txs' = Append(txs, t)
  BY <1>0 DEF IInv, RunsOK, Tx, Send
<1> HIDE DEF t
<1>5. /\ txs' \in Seq(Tx) /\ Len(txs') = n + 1 /\ txs'[n + 1] = t
      /\ \A i \in 1 .. n : txs'[i] = txs[i]
      /\ DOMAIN txs = 1 .. n /\ DOMAIN txs' = 1 .. n + 1
  BY <1>0, <1>4, Appended
<1>6. RunsOK'
  BY <1>1, <1>2, <1>3, <1>5 DEF IInv, RunsOK, Topping
<1>7. \A q \in Run : \A m \in 0 .. n : Topped(q, m) => Topped(q, m)'
  BY <1>1, <1>2, <1>4, <1>5 DEF Topped
<1>8. ASSUME NEW q \in Run, Topped(q, n)
      PROVE  Topped(q, n + 1)'
  <2>1. \A j \in 1 .. n : j \in 1 .. n + 1 /\ txs'[j] = txs[j]
    BY <1>4, <1>5
  <2> QED
    BY <1>1, <1>2, <1>8, <2>1 DEF Topped
<1>9. Topped(r, n + 1)'
  <2>1. CASE what = "fund"
    <3>1. txs'[n + 1] = [run |-> r, what |-> "fund"] /\ n + 1 \in 1 .. n + 1
      BY <1>4, <1>5, <2>1 DEF t
    <3> QED
      BY <3>1 DEF Topped
  <2>2. CASE Topped(r, n)
    BY <1>8, <2>2
  <2> QED
    BY <2>1, <2>2, <1>0
<1>10. \A q \in Run : ~Receipt(q, "call") => ~Receipt(q, "call")'
  BY <1>4, <1>5 DEF Receipt
<1>11. pc = "calling" => ~Receipt(r, "call")'
  <2> SUFFICES ASSUME pc = "calling" PROVE ~Receipt(r, "call")'
    OBVIOUS
  <2>1. txs'[n + 1] = [run |-> r, what |-> "call"] /\ n + 1 \in DOMAIN txs'
    BY <1>4, <1>5 DEF t
  <2> QED
    BY <2>1 DEF Receipt
<1>12. LeftBehind'
  <2> SUFFICES ASSUME NEW q \in Run PROVE Left(q, runs[q].pc)'
    BY DEF LeftBehind
  <2>1. CASE q = r
    BY <1>1, <1>2, <1>5, <1>9, <1>11, <2>1 DEF Left, Topped, Receipt, Topping, Signed
  <2>2. CASE q # r
    <3>1. Left(q, runs[q].pc) /\ runs'[q] = runs[q]
      BY <1>2, <2>2 DEF IInv, LeftBehind
    <3>2. Ready(q) => Ready(q)'
      BY <1>1, <3>1 DEF Ready
    <3>3. Topped(q, n) => Topped(q, n + 1)'
      BY <1>8
    <3>4. ~Receipt(q, "call") => ~Receipt(q, "call")'
      BY <1>10
    <3> QED
      BY <1>0, <1>1, <1>5, <3>1, <3>2, <3>3, <3>4 DEF Left, Topped
  <2> QED
    BY <2>1, <2>2
<1>13. QueueOK'
  <2> SUFFICES ASSUME NEW i \in 1 .. n + 1
               PROVE  /\ runs'[txs'[i].run].pc # "idle"
                      /\ txs'[i].what = "call" => Topped(txs[i].run, i - 1)'
    BY <1>5 DEF QueueOK
  <2>1. CASE i \in 1 .. n
    <3>1. txs'[i] = txs[i] /\ i - 1 \in 0 .. n /\ txs[i].run \in Run
      BY <1>4, <1>5, <2>1, Sender, <1>0 DEF IInv
    <3>2. /\ runs[txs[i].run].pc # "idle"
          /\ txs[i].what = "call" => Topped(txs[i].run, i - 1)
      BY <1>0, <2>1 DEF IInv, QueueOK
    <3>3. runs'[txs[i].run].pc # "idle"
      BY <1>2, <3>1, <3>2 DEF Topping
    <3> QED
      BY <1>7, <3>1, <3>2, <3>3 DEF Topped
  <2>2. CASE i = n + 1
    <3>1. txs'[i] = t /\ i - 1 = n /\ n \in 0 .. n
      BY <1>4, <1>5, <2>2
    <3>2. t.run = r /\ t.what = what /\ runs'[r].pc # "idle"
      BY <1>2 DEF t, Topping
    <3>3. what = "call" => Topped(r, n)'
      BY <1>0, <1>7, <3>1 DEF Topped
    <3> QED
      BY <3>1, <3>2, <3>3 DEF Topped
  <2>3. i \in 1 .. n \/ i = n + 1
    BY <1>0
  <2> QED
    BY <2>1, <2>2, <2>3
<1> QED
  BY <1>6, <1>12, <1>13

(* No fill has paid for a script that is still on its way.                 *)
LEMMA SpentKept ==
  ASSUME IInv, NEW r \in Run, UNCHANGED paid,
         r \notin pool => runs[r].pc \notin {"done", "dead"}, pool' \subseteq pool \cup {r},
         \A q \in Run \ {r} : runs'[q] = runs[q]
  PROVE  Spent'
<1> SUFFICES ASSUME NEW p \in paid
             PROVE  p[2][2] \in Run \ pool' /\ runs'[p[2][2]].pc \in {"done", "dead"}
  BY DEF Spent
<1>1. p[2][2] \in Run \ pool /\ runs[p[2][2]].pc \in {"done", "dead"}
  BY DEF IInv, Spent
<1>2. p[2][2] # r
  BY <1>1
<1> QED
  BY <1>1, <1>2

(* The phases of the script, in their order.                               *)
LEMMA NewRunKeeps ==
  ASSUME IInv, Grow, NEW r \in Run, NewRun(r)
  PROVE  RunsOK' /\ LeftBehind' /\ QueueOK' /\ Spent'
<1>1. /\ runs' = [runs EXCEPT ![r] = [pc |-> "approve", cfg |-> scripts, sdk |-> sdk]]
      /\ runs[r].pc = "idle"
      /\ UNCHANGED << logged, pool, allow, dstAllow, eth, txs, paid >>
  BY DEF NewRun, balances, escrows
<1>2. r \notin pool
  BY <1>1 DEF IInv, RunsOK
<1>3. /\ runs' \in [Run -> [pc : Phase, cfg : Config, sdk : Nat]]
      /\ runs'[r] = [pc |-> "approve", cfg |-> scripts, sdk |-> sdk]
      /\ \A q \in Run : q # r => runs'[q] = runs[q]
  BY <1>1 DEF IInv, RunsOK, FilesOK, Phase
<1>4. \A q \in Run : Known(runs[q].cfg)'
  <2> TAKE q \in Run
  <2>1. CASE q = r
    BY <1>3, <2>1 DEF IInv, FilesOK, Grow, Known
  <2>2. CASE q # r
    BY <1>3, <2>2 DEF IInv, RunsOK, Grow, Known
  <2> QED
    BY <2>1, <2>2
<1>5. RunsOK'
  BY <1>1, <1>2, <1>3, <1>4 DEF IInv, RunsOK
<1>6. LeftBehind'
  <2> SUFFICES ASSUME NEW q \in Run PROVE Left(q, runs[q].pc)'
    BY DEF LeftBehind
  <2>1. CASE q = r
    BY <1>1, <1>2, <1>3, <2>1 DEF Left, Approved, Topping, Signed
  <2>2. CASE q # r
    <3>1. Left(q, runs[q].pc) /\ runs'[q] = runs[q]
      BY <1>3, <2>2 DEF IInv, LeftBehind
    <3> QED
      BY <1>1, <3>1 DEF Left, Topped, Ready, Receipt
  <2> QED
    BY <2>1, <2>2
<1>7. QueueOK'
  <2> SUFFICES ASSUME NEW i \in 1 .. Len(txs)
               PROVE  /\ runs'[txs[i].run].pc # "idle"
                      /\ txs[i].what = "call" => Topped(txs[i].run, i - 1)'
    BY <1>1 DEF QueueOK
  <2>1. txs[i].run \in Run /\ txs[i].run # r
    BY <1>1, Sender DEF IInv, QueueOK
  <2>2. runs'[txs[i].run] = runs[txs[i].run]
    BY <1>3, <2>1
  <2> QED
    BY <1>1, <2>2 DEF IInv, QueueOK, Topped
<1>8. Spent'
  BY <1>1, <1>2, <1>3, SpentKept
<1> QED
  BY <1>5, <1>6, <1>7, <1>8

\* From the approval of USDC on, the protocol of the run may take it.
LEMMA ApproveUsdcKeeps ==
  ASSUME IInv, Grow, NEW r \in Run, ApproveUsdc(r)
  PROVE  RunsOK' /\ LeftBehind' /\ QueueOK'
<1>1. r \notin pool
  BY DEF ApproveUsdc, IInv, RunsOK
<1> QED
  BY <1>1, GoesOn DEF ApproveUsdc, Phase, Approved, Topping, Signed

\* A resolver contract that holds ETH is funded already, one that does not will be.
LEMMA ReadBalanceKeeps ==
  ASSUME IInv, Grow, NEW r \in Run, ReadBalance(r)
  PROVE  RunsOK' /\ LeftBehind' /\ QueueOK'
<1>1. r \notin pool /\ << runs[r].cfg[Src].token, runs[r].cfg[Src].lop >> \in allow
  BY DEF ReadBalance, IInv, RunsOK, LeftBehind, Left, Approved
<1>2. UNCHANGED << eth, allow, dstAllow, txs, logged, pool >>
  BY DEF ReadBalance, balances
<1>3. CASE eth[runs[r].cfg[Dst].resolver] = 1
  <2>1. Goto(r, "allowance") /\ Topped(r, Len(txs))
    BY <1>3 DEF ReadBalance, Topped
  <2> QED
    BY <1>1, <1>2, <2>1, GoesOn DEF Phase, Approved, Topping, Signed
<1>4. CASE eth[runs[r].cfg[Dst].resolver] # 1
  <2>1. Goto(r, "fund")
    BY <1>4 DEF ReadBalance
  <2> QED
    BY <1>1, <1>2, <2>1, GoesOn DEF Phase, Approved, Topping, Signed
<1> QED
  BY <1>3, <1>4

\* The transfer is ahead of the approvals in the queue of the Owner.
LEMMA TransferKeeps ==
  ASSUME IInv, Grow, NEW r \in Run, Transfer(r)
  PROVE  RunsOK' /\ LeftBehind' /\ QueueOK'
<1>1. r \notin pool /\ << runs[r].cfg[Src].token, runs[r].cfg[Src].lop >> \in allow
  BY DEF Transfer, IInv, RunsOK, LeftBehind, Left, Approved
<1> QED
  BY <1>1, Sends DEF Transfer, Topping

\* An approval that is sent, or sent after a receipt, comes after the transfer.
LEMMA ApprovalKeeps ==
  ASSUME IInv, Grow, NEW r \in Run, UnlimitedApprove(r) \/ ApproveByContract(r)
  PROVE  RunsOK' /\ LeftBehind' /\ QueueOK'
<1>1. runs[r].pc \in {"allowance", "clearing", "approving"}
  BY DEF UnlimitedApprove, ApproveByContract
<1>2. /\ r \notin pool /\ << runs[r].cfg[Src].token, runs[r].cfg[Src].lop >> \in allow
      /\ Topped(r, Len(txs))
  BY <1>1 DEF IInv, RunsOK, LeftBehind, Left, Approved, Topping
<1>3. \/ Send(r, "clear", "clearing") \/ Send(r, "approve", "approving")
      \/ Send(r, "call", "calling")
  BY DEF UnlimitedApprove, ApproveByContract
<1> QED
  BY <1>1, <1>2, <1>3, Sends DEF Topping

\* A run that signs has seen the receipt of its call, and so of all it sent before.
LEMMA SignOrderKeeps ==
  ASSUME IInv, Grow, NEW r \in Run, SignOrder(r)
  PROVE  RunsOK' /\ LeftBehind' /\ QueueOK'
<1>1. /\ r \notin pool /\ << runs[r].cfg[Src].token, runs[r].cfg[Src].lop >> \in allow
      /\ Ready(r)
  BY DEF SignOrder, IInv, RunsOK, LeftBehind, Left, Approved, Topping
<1>2. UNCHANGED << eth, allow, dstAllow, txs, pool >> /\ Goto(r, "signed")
  BY DEF SignOrder, balances
<1>3. r \in logged' /\ logged \subseteq logged'
  BY DEF SignOrder
<1> QED
  BY <1>1, <1>2, <1>3, GoesOn DEF Phase, Approved, Topping, Signed

\* A fill is sent by a run that is prepared and has logged its secret.
LEMMA SendDeploySrcKeeps ==
  ASSUME IInv, Grow, NEW r \in Run, SendDeploySrc(r)
  PROVE  RunsOK' /\ LeftBehind' /\ QueueOK'
<1>1. /\ << runs[r].cfg[Src].token, runs[r].cfg[Src].lop >> \in allow
      /\ Ready(r) /\ r \in logged
  BY DEF SendDeploySrc, IInv, LeftBehind, Left, Approved, Signed
<1>2. UNCHANGED << eth, allow, dstAllow, txs, logged >> /\ Goto(r, "sent")
  BY DEF SendDeploySrc, balances
<1>3. pool' = pool \cup {r}
  BY DEF SendDeploySrc
<1> QED
  BY <1>1, <1>2, <1>3, GoesOn DEF Phase, Approved, Topping, Signed

\* What a script that dies has sent stays in the queue and in the pool.
LEMMA RunDiesKeeps ==
  ASSUME IInv, Grow, NEW r \in Run, RunDies(r)
  PROVE  RunsOK' /\ LeftBehind' /\ QueueOK'
<1>1. UNCHANGED << eth, allow, dstAllow, txs, logged, pool >> /\ Goto(r, "dead")
  BY DEF RunDies, balances
<1>2. r \in pool => << runs[r].cfg[Src].token, runs[r].cfg[Src].lop >> \in allow /\ r \in logged
  BY DEF IInv, LeftBehind, Left
<1> QED
  BY <1>1, <1>2, GoesOn DEF Phase, Approved, Topping, Signed

\* Every step of the swap script keeps the invariant.
LEMMA SwapScriptCorrect ==
  ASSUME IInv, SwapScript
  PROVE  IInv'
<1>1. PICK r \in Run :
        \/ NewRun(r) \/ ApproveUsdc(r)
        \/ ReadBalance(r) \/ Transfer(r) \/ UnlimitedApprove(r) \/ ApproveByContract(r)
        \/ SignOrder(r) \/ SendDeploySrc(r) \/ RunDies(r)
  BY DEF SwapScript
<1>2. /\ UNCHANGED << contracts, files, jobs, usdc, eth >>
      /\ UNCHANGED << paid, gifts, clones >> /\ logged \subseteq logged'
      /\ \A q \in Run \ {r} : runs'[q] = runs[q]
      /\ pool' \subseteq pool \cup {r}
      /\ runs[r].pc \notin {"done", "dead"}
  <2> DEFINE Kept == /\ UNCHANGED << contracts, files, jobs, usdc, eth >>
                     /\ UNCHANGED << paid, gifts, clones >> /\ logged \subseteq logged'
                     /\ \A q \in Run \ {r} : runs'[q] = runs[q]
                     /\ pool' \subseteq pool \cup {r}
                     /\ runs[r].pc \notin {"done", "dead"}
  <2>1. runs \in [Run -> [pc : Phase, cfg : Config, sdk : Nat]]
    BY DEF IInv, RunsOK
  <2>2. ASSUME NewRun(r) PROVE Kept
    BY <2>1, <2>2 DEF NewRun, balances, escrows
  <2>3. ASSUME ApproveUsdc(r) \/ ReadBalance(r) PROVE Kept
    BY <2>1, <2>3 DEF ApproveUsdc, ReadBalance, Goto, balances, escrows
  <2>4. ASSUME Transfer(r) \/ UnlimitedApprove(r) \/ ApproveByContract(r) PROVE Kept
    BY <2>1, <2>4 DEF Transfer, UnlimitedApprove, ApproveByContract, Send, Goto, balances, escrows
  <2>5. ASSUME SignOrder(r) \/ SendDeploySrc(r) \/ RunDies(r) PROVE Kept
    BY <2>1, <2>5 DEF SignOrder, SendDeploySrc, RunDies, Goto, balances, escrows
  <2> QED
    BY <1>1, <2>2, <2>3, <2>4, <2>5
<1>3. ContractsOK' /\ Grow /\ FilesOK' /\ JobsOK'
  BY <1>2, ScriptsKeep
<1>4. RunsOK' /\ LeftBehind' /\ QueueOK'
  BY <1>1, <1>3, NewRunKeeps, ApproveUsdcKeeps, ReadBalanceKeeps, TransferKeeps, ApprovalKeeps,
     SignOrderKeeps, SendDeploySrcKeeps, RunDiesKeeps
<1>5. Spent'
  BY <1>2, SpentKept
<1>6. FundsInClones' /\ SecretsLogged'
  BY <1>2 DEF IInv, FundsInClones, SecretsLogged
<1> QED
  BY <1>3, <1>4, <1>5, <1>6 DEF IInv

---------------------------------------------------------------------------
(* The chains.                                                             *)

(* The Owner's transactions are mined in their order.                      *)
OwnerMined == FundMined \/ ClearMined \/ ApproveMined \/ CallMined

\* The first transaction of the Owner is mined.
LEMMA OwnerMinedCorrect ==
  ASSUME IInv, OwnerMined
  PROVE  IInv'
<1> DEFINE r == Head(txs).run
           what == Head(txs).what
           res == runs[r].cfg[Dst].resolver
<1>0. PICK n \in Nat : n = Len(txs)
  BY LenProperties DEF IInv, RunsOK
<1>1. /\ txs # << >> /\ txs' = Tail(txs)
      /\ UNCHANGED << contracts, files, jobs, usdc, weth, allow, runs, logged, pool, expired >>
      /\ UNCHANGED << paid, gifts, clones >>
  BY DEF OwnerMined, FundMined, ClearMined, ApproveMined, CallMined, Mines, escrows
<1>2. /\ txs \in Seq(Tx) /\ txs' \in Seq(Tx) /\ n \in Nat \ {0} /\ Len(txs') = n - 1
      /\ Head(txs) = txs[1] /\ Head(txs) \in Tx
      /\ \A i \in 1 .. n - 1 : txs'[i] = txs[i + 1]
      /\ DOMAIN txs = 1 .. n /\ DOMAIN txs' = 1 .. n - 1
  BY <1>0, <1>1, Tailed, LenProperties DEF IInv, RunsOK
<1>3. r \in Run /\ res \in 1 .. Len(eth) /\ eth \in Seq(Nat)
  BY <1>2, RunResolver DEF IInv, ContractsOK, Tx
<1>4. ContractsOK' /\ Grow /\ (what = "fund" => eth'[res] = 1)
  <2>1. CASE FundMined
    <3>1. eth' = [eth EXCEPT ![res] = 1]
      BY <2>1 DEF FundMined
    <3>2. /\ eth' \in Seq(Nat) /\ Len(eth') = Len(eth)
          /\ \A i \in 1 .. Len(eth) : eth'[i] = IF i = res THEN 1 ELSE eth[i]
      BY <1>3, <3>1, ExceptSeq
    <3> QED
      BY <1>1, <1>3, <3>2 DEF IInv, ContractsOK, Grow, contracts, Deployed, Kind
  <2>2. CASE ~FundMined
    <3>1. UNCHANGED eth /\ what # "fund"
      BY <2>2 DEF OwnerMined, ClearMined, ApproveMined, CallMined, Mines
    <3>2. UNCHANGED contracts /\ UNCHANGED << usdc, eth >>
      BY <1>1, <3>1
    <3> QED
      BY <3>1, <3>2, SameContracts DEF IInv
  <2> QED
    BY <2>1, <2>2
<1>5. /\ \A a \in dstAllow : a[1] # Owner => a \in dstAllow'
      /\ what = "call" => << res, runs[r].cfg[Dst].token, runs[r].cfg[Dst].factory >> \in dstAllow'
  <2>1. ASSUME FundMined \/ ClearMined \/ ApproveMined
        PROVE  what # "call" /\ \A a \in dstAllow : a[1] # Owner => a \in dstAllow'
    BY <2>1 DEF FundMined, ClearMined, ApproveMined, Mines, Allowed
  <2>2. ASSUME CallMined
        PROVE  /\ dstAllow \subseteq dstAllow'
               /\ << res, runs[r].cfg[Dst].token, runs[r].cfg[Dst].factory >> \in dstAllow'
    BY <2>2 DEF CallMined, Allowed
  <2> QED
    BY <2>1, <2>2 DEF OwnerMined
<1>6. FilesOK' /\ JobsOK'
  BY <1>1, <1>4, FilesKept DEF IInv, JobsOK, Grow, Known
<1>7. RunsOK'
  BY <1>1, <1>2, <1>4 DEF IInv, RunsOK, Grow, Known
<1> HIDE DEF res
<1>8. \A q \in Run : /\ runs[q].cfg[Dst].resolver \in 1 .. Len(eth)
                     /\ runs[q].cfg[Dst].resolver # Owner
  <2>1. \A q \in Run : runs[q].cfg[Dst].resolver \in Address
    BY DEF IInv, RunsOK, Config, Chain, Dst, Kind
  <2> QED
    BY <2>1, RunResolver DEF IInv, Address, Owner
<1>9. ASSUME NEW q \in Run, NEW m \in 1 .. n, Topped(q, m)
      PROVE  Topped(q, m - 1)'
  <2>1. CASE eth[runs[q].cfg[Dst].resolver] = 1
    BY <1>1, <1>4, <1>8, <2>1 DEF Topped, Grow
  <2>2. CASE \E j \in 1 .. m : txs[j] = [run |-> q, what |-> "fund"]
    <3> PICK j \in 1 .. m : txs[j] = [run |-> q, what |-> "fund"]
      BY <2>2
    <3>1. CASE j = 1
      <4>1. eth'[runs[q].cfg[Dst].resolver] = 1
        BY <1>2, <1>4, <3>1 DEF res
      <4> QED
        BY <1>1, <4>1 DEF Topped
    <3>2. CASE j # 1
      <4>1. j - 1 \in 1 .. m - 1 /\ txs'[j - 1] = txs[j]
        BY <1>2, <3>2
      <4> QED
        BY <4>1 DEF Topped
    <3> QED
      BY <3>1, <3>2
  <2> QED
    BY <1>9, <2>1, <2>2 DEF Topped
<1>10. \A q \in Run : Ready(q) => Ready(q)'
  BY <1>1, <1>4, <1>5, <1>8 DEF Ready, Grow
<1>11. ASSUME NEW q \in Run, ~Receipt(q, "call")
       PROVE  ~Receipt(q, "call")' \/ Ready(q)'
  <2> PICK i \in 1 .. n : txs[i] = [run |-> q, what |-> "call"]
    BY <1>2, <1>11 DEF Receipt
  <2>1. CASE i = 1
    <3>1. r = q /\ what = "call"
      BY <1>2, <2>1
    <3>2. Topped(q, 0)
      BY <1>0, <1>2, <2>1 DEF IInv, QueueOK
    <3>3. eth'[runs[q].cfg[Dst].resolver] = 1
      BY <1>4, <1>8, <3>2 DEF Topped, Grow
    <3> QED
      BY <1>1, <1>5, <3>1, <3>3 DEF Ready, res
  <2>2. CASE i # 1
    <3>1. i - 1 \in DOMAIN txs' /\ txs'[i - 1] = [run |-> q, what |-> "call"]
      BY <1>2, <2>2
    <3> QED
      BY <3>1 DEF Receipt
  <2> QED
    BY <2>1, <2>2
<1>12. LeftBehind'
  <2> SUFFICES ASSUME NEW q \in Run PROVE Left(q, runs[q].pc)'
    BY <1>1 DEF LeftBehind
  <2>1. Left(q, runs[q].pc)
    BY DEF IInv, LeftBehind
  <2>2. Topped(q, Len(txs)) => Topped(q, Len(txs))'
    <3>1. n \in 1 .. n
      BY <1>2
    <3>2. ASSUME Topped(q, n) PROVE Topped(q, n - 1)'
      BY <1>9, <3>1, <3>2
    <3> QED
      BY <1>0, <1>2, <3>2 DEF Topped
  <2> QED
    BY <1>1, <1>10, <1>11, <2>1, <2>2 DEF Left
<1>13. QueueOK'
  <2> SUFFICES ASSUME NEW i \in 1 .. n - 1
               PROVE  /\ runs[txs'[i].run].pc # "idle"
                      /\ txs'[i].what = "call" => Topped(txs[i].run, i - 1)'
    BY <1>1, <1>2 DEF QueueOK
  <2>1. txs'[i] = txs[i + 1] /\ i + 1 \in 1 .. n /\ i \in 1 .. n
    BY <1>2
  <2>2. /\ runs[txs[i + 1].run].pc # "idle"
        /\ txs[i + 1].what = "call" => Topped(txs[i + 1].run, i + 1 - 1)
    BY <1>0, <2>1 DEF IInv, QueueOK
  <2>3. txs[i + 1].run \in Run /\ i + 1 - 1 = i
    BY <1>0, <2>1, Sender DEF IInv
  <2>4. ASSUME Topped(txs[i + 1].run, i) PROVE Topped(txs[i].run, i - 1)'
    BY <1>9, <2>1, <2>3, <2>4 DEF Topped
  <2> QED
    BY <1>1, <2>1, <2>2, <2>3, <2>4 DEF Topped
<1>14. Spent' /\ FundsInClones' /\ SecretsLogged'
  BY <1>1 DEF IInv, Spent, FundsInClones, SecretsLogged
<1> QED
  BY <1>4, <1>6, <1>7, <1>12, <1>13, <1>14 DEF IInv

(* What is left of a fill when it is mined: a script that is there goes on. *)
LEMMA MinedKeeps ==
  ASSUME IInv, Grow, NEW r \in pool, NEW ok \in BOOLEAN, Mined(r, ok),
         pool' = pool \ {r}, UNCHANGED << eth, allow, dstAllow, txs, logged >>
  PROVE  /\ RunsOK' /\ LeftBehind' /\ QueueOK'
         /\ \A q \in Run \ {r} : runs'[q] = runs[q]
         /\ ok => runs'[r].pc \in {"done", "dead"}
<1>1. r \in Run /\ runs[r].pc \in {"sent", "dead"} /\ Left(r, runs[r].pc)
  BY DEF IInv, RunsOK, LeftBehind
<1>2. runs \in [Run -> [pc : Phase, cfg : Config, sdk : Nat]]
  BY DEF IInv, RunsOK
<1>3. \/ runs[r].pc = "dead" /\ Goto(r, "dead")
      \/ ok /\ runs[r].pc = "sent" /\ Goto(r, "done")
      \/ ~ok /\ runs[r].pc = "sent" /\ Goto(r, "failed")
  BY <1>1 DEF Mined, Goto
<1>4. runs[r].pc = "sent" => Ready(r)
  BY <1>1 DEF Left, Signed
<1>5. << runs[r].cfg[Src].token, runs[r].cfg[Src].lop >> \in allow /\ r \in logged
  BY <1>1 DEF Left
<1>6. RunsOK' /\ LeftBehind' /\ QueueOK'
  BY <1>1, <1>3, <1>4, <1>5, GoesOn DEF Phase, Approved, Topping, Signed
<1>7. (\A q \in Run \ {r} : runs'[q] = runs[q]) /\ (ok => runs'[r].pc \in {"done", "dead"})
  BY <1>1, <1>2, <1>3 DEF Goto
<1> QED
  BY <1>6, <1>7

\* A fill is mined: what it paid is at the escrow that was deployed, or a gift is.
LEMMA DeploySrcMinedCorrect ==
  ASSUME IInv, NEW r \in pool, DeploySrcMined(r)
  PROVE  IInv'
<1> DEFINE t == runs[r].cfg[Src].token
<1>1. /\ usdc' = [usdc EXCEPT ![t] = @ - 1] /\ usdc[t] >= 1
      /\ UNCHANGED << contracts, files, jobs, eth >>
      /\ UNCHANGED << eth, allow, dstAllow, txs, logged >> /\ UNCHANGED gifts
  BY DEF DeploySrcMined, Filled, OrderFilled
<1>2. r \in Run
  BY DEF IInv, RunsOK
<1>3. t \in 1 .. Len(usdc) /\ usdc \in Seq(Nat)
  BY <1>2 DEF IInv, RunsOK, ContractsOK, Known, Deployed, Kind, Chain, Src
<1>4. usdc[t] - 1 \in Nat
  BY <1>1, <1>3, ElementOfSeq
<1>5. usdc' \in Seq(Nat) /\ Len(usdc') = Len(usdc)
  BY <1>1, <1>3, <1>4, ExceptSeq
<1>6. ContractsOK' /\ Grow
  BY <1>1, <1>5 DEF IInv, ContractsOK, Grow, contracts, Deployed, Kind
<1>7. FilesOK' /\ JobsOK'
  BY <1>1, <1>6, FilesKept DEF IInv, JobsOK, Grow, Known
<1>8. /\ pool' = pool \ {r} /\ Mined(r, TRUE)
      /\ paid' = paid \cup Payments(r) /\ clones' = clones \cup {Deployable(r)}
  BY DEF DeploySrcMined
<1>9. /\ RunsOK' /\ LeftBehind' /\ QueueOK'
      /\ \A q \in Run \ {r} : runs'[q] = runs[q]
      /\ runs'[r].pc \in {"done", "dead"}
  BY <1>1, <1>6, <1>8, MinedKeeps
<1>10. \A p \in Payments(r) : /\ p[2] = Computed(r) /\ p[1] \in Assets(r)
                              /\ p = << p[1], Computed(r) >>
  BY DEF Payments
<1>11. Computed(r)[2] = r /\ Deployable(r)[2] = r
  BY DEF Computed, Deployable
<1>12. Spent'
  <2> SUFFICES ASSUME NEW p \in paid'
               PROVE  p[2][2] \in Run \ pool' /\ runs'[p[2][2]].pc \in {"done", "dead"}
    BY DEF Spent
  <2>1. CASE p \in paid
    <3>1. p[2][2] \in Run \ pool /\ runs[p[2][2]].pc \in {"done", "dead"}
      BY <2>1 DEF IInv, Spent
    <3> QED
      BY <1>8, <1>9, <3>1
  <2>2. CASE p \in Payments(r)
    <3>1. p[2][2] = r
      BY <1>10, <1>11, <2>2
    <3> QED
      BY <1>2, <1>8, <1>9, <3>1
  <2> QED
    BY <1>8, <2>1, <2>2
<1>13. FundsInClones'
  <2> SUFFICES ASSUME NEW p \in paid'
               PROVE  \/ p[2] \in clones'
                      \/ \E e \in clones' : e[2] = p[2][2] /\ << p[1], e >> \in gifts
    BY <1>1 DEF FundsInClones
  <2>1. CASE p \in paid
    BY <1>8, <2>1 DEF IInv, FundsInClones
  <2>2. CASE p \in Payments(r)
    <3>1. p[2] = Computed(r) /\ p[1] \in Assets(r)
      BY <1>10, <2>2
    <3>2. << p[1], Deployable(r) >> \in paid \cup gifts \cup Payments(r)
      BY <3>1 DEF DeploySrcMined, Filled, PostInteraction
    <3>3. << p[1], Deployable(r) >> \notin paid
      <4> SUFFICES ASSUME << p[1], Deployable(r) >> \in paid PROVE FALSE
        OBVIOUS
      <4>1. << p[1], Deployable(r) >>[2][2] \notin pool
        BY DEF IInv, Spent
      <4> QED
        BY <1>11, <4>1
    <3>4. CASE << p[1], Deployable(r) >> \in gifts
      BY <1>8, <1>11, <3>1, <3>4
    <3>5. CASE << p[1], Deployable(r) >> \in Payments(r)
      <4>1. Deployable(r) = Computed(r)
        BY <1>10, <3>5
      <4> QED
        BY <1>8, <3>1, <4>1
    <3> QED
      BY <3>2, <3>3, <3>4, <3>5
  <2> QED
    BY <1>8, <2>1, <2>2
<1>14. SecretsLogged'
  <2>1. r \in logged
    BY <1>2 DEF IInv, LeftBehind, Left
  <2> QED
    BY <1>1, <1>8, <1>11, <2>1 DEF IInv, SecretsLogged
<1> QED
  BY <1>6, <1>7, <1>9, <1>12, <1>13, <1>14 DEF IInv

\* A fill reverts and pays nothing.
LEMMA DeploySrcRevertsCorrect ==
  ASSUME IInv, NEW r \in pool, DeploySrcReverts(r)
  PROVE  IInv'
<1>1. /\ UNCHANGED << contracts, files, jobs, usdc, eth >>
      /\ UNCHANGED << eth, allow, dstAllow, txs, logged >>
      /\ UNCHANGED << paid, gifts, clones >>
      /\ pool' = pool \ {r} /\ Mined(r, FALSE)
  BY DEF DeploySrcReverts, balances, escrows
<1>2. ContractsOK' /\ Grow /\ FilesOK' /\ JobsOK'
  BY <1>1, ScriptsKeep
<1>3. RunsOK' /\ LeftBehind' /\ QueueOK' /\ \A q \in Run \ {r} : runs'[q] = runs[q]
  BY <1>1, <1>2, MinedKeeps
<1>4. r \in Run
  BY DEF IInv, RunsOK
<1>5. Spent'
  BY <1>1, <1>3, <1>4, SpentKept
<1> QED
  BY <1>1, <1>2, <1>3, <1>5 DEF IInv, FundsInClones, SecretsLogged

(* Time passes, or somebody sends something somewhere.                     *)
LEMMA OthersCorrect ==
  ASSUME IInv, UNCHANGED << contracts, files, jobs, balances, txs, runs, logged, pool >>,
         UNCHANGED << paid, clones >>, gifts \subseteq gifts'
  PROVE  IInv'
<1>1. UNCHANGED << contracts, files, jobs, usdc, eth >> /\ UNCHANGED << allow, dstAllow >>
  BY DEF balances
<1>2. ContractsOK' /\ Grow /\ FilesOK' /\ JobsOK'
  BY <1>1, ScriptsKeep
<1>3. RunsOK'
  BY <1>2 DEF IInv, RunsOK, Grow, Known
<1>4. LeftBehind' /\ QueueOK'
  BY <1>1 DEF IInv, LeftBehind, QueueOK, Left, Topped, Ready, Receipt
<1>5. Spent' /\ FundsInClones' /\ SecretsLogged'
  BY DEF IInv, Spent, FundsInClones, SecretsLogged
<1> QED
  BY <1>2, <1>3, <1>4, <1>5 DEF IInv

\* Every step of the chains keeps the invariant.
LEMMA ChainsCorrect ==
  ASSUME IInv, Chains
  PROVE  IInv'
<1>1. CASE OwnerMined
  BY <1>1, OwnerMinedCorrect
<1>2. CASE \E r \in pool : DeploySrcMined(r) \/ DeploySrcReverts(r)
  BY <1>2, DeploySrcMinedCorrect, DeploySrcRevertsCorrect
<1>3. ASSUME NEW r \in Run, Expire(r) PROVE IInv'
  BY <1>3, OthersCorrect DEF Expire, escrows
<1>4. ASSUME NEW a, NEW e, Give(a, e) PROVE IInv'
  BY <1>4, OthersCorrect DEF Give
<1> QED
  BY <1>1, <1>2, <1>3, <1>4 DEF Chains, OwnerMined

\* Every step keeps the invariant.
LEMMA StepCorrect ==
  ASSUME IInv, [Next]_vars
  PROVE  IInv'
<1>1. CASE Deployment
  BY <1>1, DeploymentKeeps, SwapsKept DEF IInv
<1>2. CASE SwapScript
  BY <1>2, SwapScriptCorrect
<1>3. CASE Chains
  BY <1>3, ChainsCorrect
<1>4. CASE UNCHANGED vars
  <2>1. /\ UNCHANGED << contracts, files, jobs, balances, txs, runs, logged, pool >>
        /\ UNCHANGED << paid, clones >> /\ gifts \subseteq gifts'
    BY <1>4 DEF vars, swaps, escrows
  <2> QED
    BY <2>1, OthersCorrect
<1> QED
  BY <1>1, <1>2, <1>3, <1>4 DEF Next

(* The invariant of any number of scripts and deployments.                 *)
THEOREM Invariant == Spec => []IInv
<1> QED
  BY InitCorrect, StepCorrect, PTL DEF Spec

---------------------------------------------------------------------------
(* Whatever is redeployed while swap scripts run, what the fills paid is   *)
(* at the addresses of deployed escrows, but for what a stranger's payment *)
(* has stood in for.                                                       *)
THEOREM UsdcInClones == Spec => []FundsInClones
<1>1. IInv => FundsInClones
  BY DEF IInv
<1> QED
  BY <1>1, Invariant, PTL

(* The secret of every escrow at the source has been printed, whenever a   *)
(* script dies.                                                            *)
THEOREM NoSecretLost == Spec => []SecretsLogged
<1>1. IInv => SecretsLogged
  BY DEF IInv
<1> QED
  BY <1>1, Invariant, PTL

(* A script that signs an order has prepared the resolver contract of the  *)
(* destination, which keeps its native currency and its allowance.         *)
THEOREM ResolverPrepared == Spec => []DstPrepared
<1>1. IInv => DstPrepared
  BY DEF IInv, LeftBehind, Left, Ready, DstPrepared, Signed
<1> QED
  BY <1>1, Invariant, PTL

(* A fill whose script read files that fit the contracts reverts only for  *)
(* want of USDC or because the order has expired: nothing that others      *)
(* deploy, edit, give or fill makes it.                                    *)
THEOREM FilledIfInStep == Spec => InStepRunsFill
<1> DEFINE A == \A r \in pool \ pool' :
                  InStep(r) /\ Deployable(r) \notin clones' =>
                    usdc[runs[r].cfg[Src].token] = 0 \/ r \in expired
<1>1. ASSUME IInv, [Next]_vars PROVE A
  <2> SUFFICES ASSUME NEW r \in pool, r \notin pool', InStep(r), Deployable(r) \notin clones'
               PROVE  usdc[runs[r].cfg[Src].token] = 0 \/ r \in expired
    OBVIOUS
  <2>1. r \in Run /\ << runs[r].cfg[Src].token, runs[r].cfg[Src].lop >> \in allow
    BY <1>1 DEF IInv, RunsOK, LeftBehind, Left
  <2>2. DeploySrcReverts(r)
    <3>1. ~UNCHANGED pool
      OBVIOUS
    <3>2. SwapScript \/ Chains
      BY <1>1, <3>1, DeploymentKeeps DEF Next, vars, swaps
    <3>3. ~SwapScript
      <4> SUFFICES ASSUME SwapScript PROVE pool \subseteq pool'
        OBVIOUS
      <4> QED
        BY DEF SwapScript, NewRun, ApproveUsdc, ReadBalance, Transfer, UnlimitedApprove,
               ApproveByContract, Send, SignOrder, SendDeploySrc, RunDies
    <3>4. PICK q \in pool : DeploySrcMined(q) \/ DeploySrcReverts(q)
      BY <3>1, <3>2, <3>3 DEF Chains, FundMined, ClearMined, ApproveMined, CallMined, Mines,
                              Expire, Give
    <3>5. q = r
      BY <3>4 DEF DeploySrcMined, DeploySrcReverts
    <3> QED
      BY <3>4, <3>5 DEF DeploySrcMined
  <2>3. PostInteraction(r)
    BY DEF InStep, PostInteraction, Payments, Computed, Deployable, ResolverOf
  <2>4. ~(usdc[runs[r].cfg[Src].token] >= 1) \/ r \in expired
    BY <2>1, <2>2, <2>3 DEF DeploySrcReverts, Filled, OrderFilled, InStep, ResolverOf
  <2>5. runs[r].cfg[Src].token \in 1 .. Len(usdc) /\ usdc \in Seq(Nat)
    BY <1>1, <2>1 DEF IInv, RunsOK, ContractsOK, Known, Deployed, Kind, Chain, Src
  <2>6. usdc[runs[r].cfg[Src].token] \in Nat
    BY <2>5, ElementOfSeq
  <2> QED
    BY <2>4, <2>6
<1> QED
  BY <1>1, Invariant, PTL DEF Spec, InStepRunsFill
=============================================================================
