------------------------------- MODULE Testnet -------------------------------
(***************************************************************************)
(* scripts/: what the deployment scripts, the token scripts and the swap   *)
(* script do to the two test chains, and the configuration files that      *)
(* connect them.                                                           *)
(*                                                                         *)
(* A contract is the number of its deployment on its chain.  A script only *)
(* prints the address of what it deployed; somebody writes it into         *)
(* scripts/deploy-config.ts by hand, and the address of the limit order    *)
(* protocol also into the copy of that file in the SDK, whose EIP-712      *)
(* domain the user signs.  A script reads both files once, when it starts. *)
(* It may die at any await, and nothing it has sent is taken back.         *)
(*                                                                         *)
(* Amounts are in the units of the scripts: 1000 USDC, 100 WETH, 0.01 ETH. *)
(***************************************************************************)
EXTENDS Integers, Sequences, FiniteSets

CONSTANTS Run,          \* executions of test-cross-chain-swap.ts
          MaxDeploys,   \* bound: contracts deployed
          MaxJobs,      \* bound: deployment and token scripts running at once
          MaxMints,     \* bound: USDC the user is given of one contract
          MaxGifts      \* bound: what others send to addresses of escrows

Chain == {"sepolia", "arbTestnet"}
Src == "sepolia"
Dst == "arbTestnet"
Owner == 0    \* the account that owns the resolver contracts
Ether == 0    \* the asset that is not a token: tokens are numbered from 1
Kind == {"lop", "factory", "resolver", "token"}

VARIABLES
  lops,       \* [Chain -> Nat]: limit order protocols deployed
  factories,  \* [Chain -> Seq]: of each factory, the protocol it was built for
  resolvers,  \* [Chain -> Seq]: of each resolver, its factory and protocol
  tokens,     \* [Chain -> Nat]: mock tokens deployed (USDC, WETH)
  scripts,    \* scripts/deploy-config.ts: per chain and kind, an address
  sdk,        \* the limit order protocol of Src in the SDK's copy
  jobs,       \* deployment and token scripts that are running
  usdc,       \* of each USDC contract, the balance of the user
  weth,       \* of each WETH contract, the balance of the resolver's own account
  allow,      \* << token, protocol >>: USDC the user lets the protocol take
  dstAllow,   \* << owner, token, factory >>: WETH the owner lets the factory take
  eth,        \* of each resolver contract of Dst, its native balance, at most 1
  txs,        \* the Owner's transactions on Dst that are sent and not mined
  runs,       \* what each execution of the swap script has reached and has read
  logged,     \* executions that have printed their secret
  pool,       \* executions whose deploySrc is sent and not mined
  expired,    \* executions whose order has expired
  paid,       \* << asset, escrow >>: what the fills have paid
  gifts,      \* << asset, escrow >>: what others have paid
  clones      \* addresses at which a factory deployed an escrow

contracts == << lops, factories, resolvers, tokens >>
files == << scripts, sdk >>
balances == << usdc, weth, allow, dstAllow, eth >>
escrows == << paid, gifts, clones >>
swaps == << txs, runs, logged, pool, expired, escrows >>
vars == << contracts, files, jobs, balances, swaps >>

Deployed(k, c) == CASE k = "lop" -> 1 .. lops[c]
                    [] k = "factory" -> DOMAIN factories[c]
                    [] k = "resolver" -> DOMAIN resolvers[c]
                    [] k = "token" -> 1 .. tokens[c]

Deploys == Cardinality({ d \in Kind \X Chain \X (2 .. 1 + MaxDeploys) :
                         d[3] \in Deployed(d[1], d[2]) })

(* The configuration in the repository: one contract of each kind, and     *)
(* both copies of the file name the same protocol.                         *)
InitConfig == [c \in Chain |-> [k \in Kind |-> 1]]

Idle == [pc |-> "idle", cfg |-> InitConfig, sdk |-> 1]

Init ==
  /\ lops = [c \in Chain |-> 1]
  /\ factories = [c \in Chain |-> << 1 >>]
  /\ resolvers = [c \in Chain |-> << [factory |-> 1, lop |-> 1] >>]
  /\ tokens = [c \in Chain |-> 1]
  /\ scripts = InitConfig
  /\ sdk = 1
  /\ jobs = {}
  /\ usdc = << 0 >> /\ weth = << 0 >>
  /\ allow = {} /\ dstAllow = {}
  /\ eth = << 0 >> /\ txs = << >>
  /\ runs = [r \in Run |-> Idle]
  /\ logged = {} /\ pool = {} /\ expired = {}
  /\ paid = {} /\ gifts = {} /\ clones = {}

---------------------------------------------------------------------------
(* Deployment.  The "what" of a job is the step the script is about to     *)
(* take, its "cfg" what it read of the configuration.                      *)

Start(what, c) ==
  /\ Cardinality(jobs) < MaxJobs
  /\ jobs' = jobs \cup {[what |-> what, chain |-> c, cfg |-> scripts]}
  /\ UNCHANGED << contracts, files, balances, swaps >>

StartLop(c) == Deploys < MaxDeploys /\ Start("lop", c)
StartFactory(c) == Deploys < MaxDeploys /\ Start("factory", c)
StartResolver(c) == Deploys < MaxDeploys /\ Start("resolver", c)
StartSetup == Deploys < MaxDeploys /\ Start("usdc", Src)

(* A script that finds no mock tokens in the configuration would throw;    *)
(* InitConfig has them.                                                    *)
StartMint == usdc[scripts[Src].token] < MaxMints /\ Start("mintUsdc", Src)

(* Too little ETH for the deployer, a failed request, a shell that is      *)
(* closed: what the script has not sent yet is never sent.                 *)
Dies(j) ==
  /\ jobs' = jobs \ {j}
  /\ UNCHANGED << contracts, files, balances, swaps >>

DeployLop(j) ==
  /\ j.what = "lop" /\ Deploys < MaxDeploys
  /\ lops' = [lops EXCEPT ![j.chain] = @ + 1]
  /\ jobs' = jobs \ {j}
  /\ UNCHANGED << factories, resolvers, tokens, files, balances, swaps >>

DeployEscrowFactory(j) ==
  /\ j.what = "factory" /\ Deploys < MaxDeploys
  /\ factories' = [factories EXCEPT ![j.chain] = Append(@, j.cfg[j.chain].lop)]
  /\ jobs' = jobs \ {j}
  /\ UNCHANGED << lops, resolvers, tokens, files, balances, swaps >>

DeployResolver(j) ==
  /\ j.what = "resolver" /\ Deploys < MaxDeploys
  /\ resolvers' = [resolvers EXCEPT ![j.chain] =
                     Append(@, [factory |-> j.cfg[j.chain].factory,
                                lop |-> j.cfg[j.chain].lop])]
  /\ eth' = IF j.chain = Dst THEN Append(eth, 0) ELSE eth
  /\ jobs' = jobs \ {j}
  /\ UNCHANGED << lops, factories, tokens, files, usdc, weth, allow, dstAllow, swaps >>

DeployMockUSDC(j) ==
  /\ j.what = "usdc" /\ Deploys < MaxDeploys
  /\ tokens' = [tokens EXCEPT ![Src] = @ + 1]
  /\ usdc' = Append(usdc, 0)
  /\ jobs' = (jobs \ {j}) \cup {[j EXCEPT !.what = "weth"]}
  /\ UNCHANGED << lops, factories, resolvers, files, weth, allow, dstAllow, eth, swaps >>

DeployMockWETH(j) ==
  /\ j.what = "weth" /\ Deploys < MaxDeploys
  /\ tokens' = [tokens EXCEPT ![Dst] = @ + 1]
  /\ weth' = Append(weth, 0)
  /\ jobs' = jobs \ {j}
  /\ UNCHANGED << lops, factories, resolvers, files, usdc, allow, dstAllow, eth, swaps >>

MintUSDCToUser(j) ==
  /\ j.what = "mintUsdc"
  /\ usdc' = [usdc EXCEPT ![j.cfg[Src].token] = @ + 1]
  /\ jobs' = (jobs \ {j}) \cup {[j EXCEPT !.what = "mintWeth"]}
  /\ UNCHANGED << contracts, files, weth, allow, dstAllow, eth, swaps >>

(* The WETH goes to the account that owns the resolver contract, not to    *)
(* the contract, which is what createDstEscrow takes it from.              *)
MintWETHToResolver(j) ==
  /\ j.what = "mintWeth"
  /\ weth' = [weth EXCEPT ![j.cfg[Dst].token] = @ + 1]
  /\ jobs' = jobs \ {j}
  /\ UNCHANGED << contracts, files, usdc, allow, dstAllow, eth, swaps >>

(* Somebody writes a printed address into one of the two files: the latest *)
(* of its kind, sooner or later or never.                                  *)
EditScripts(c, k, n) ==
  /\ n \in Deployed(k, c) /\ n > scripts[c][k]
  /\ scripts' = [scripts EXCEPT ![c][k] = n]
  /\ UNCHANGED << contracts, sdk, jobs, balances, swaps >>

EditSdk(n) ==
  /\ n \in Deployed("lop", Src) /\ n > sdk
  /\ sdk' = n
  /\ UNCHANGED << contracts, scripts, jobs, balances, swaps >>

---------------------------------------------------------------------------
(* test-cross-chain-swap.ts, up to the return after deploySrc.             *)

Goto(r, pc) == runs' = [runs EXCEPT ![r].pc = pc]

NewRun(r) ==
  /\ runs[r].pc = "idle"
  /\ runs' = [runs EXCEPT ![r] = [pc |-> "approve", cfg |-> scripts, sdk |-> sdk]]
  /\ UNCHANGED << contracts, files, jobs, balances, txs, logged, pool, expired, escrows >>

\* Mutant: the address is taken from the file again instead of from what was read.
ApproveUsdcRereads(r) ==
  /\ runs[r].pc = "approve"
  /\ allow' = allow \cup {<< runs[r].cfg[Src].token, scripts[Src].lop >>}
  /\ Goto(r, "balance")
  /\ UNCHANGED << contracts, files, jobs, usdc, weth, dstAllow, eth >>
  /\ UNCHANGED << txs, logged, pool, expired, escrows >>

ApproveUsdc(r) ==
  /\ runs[r].pc = "approve"
  /\ allow' = allow \cup {<< runs[r].cfg[Src].token, runs[r].cfg[Src].lop >>}
  /\ Goto(r, "balance")
  /\ UNCHANGED << contracts, files, jobs, usdc, weth, dstAllow, eth >>
  /\ UNCHANGED << txs, logged, pool, expired, escrows >>

(* The transactions on Dst are all the Owner's, the key of the resolver in *)
(* every execution: the chain takes them in the order of their nonces,     *)
(* which is the order of sending, whether or not the script still waits.   *)
Send(r, what, pc) ==
  /\ txs' = Append(txs, [run |-> r, what |-> what])
  /\ Goto(r, pc)
  /\ UNCHANGED << contracts, files, jobs, balances, logged, pool, expired, escrows >>

Receipt(r, what) == [run |-> r, what |-> what] \notin { txs[i] : i \in DOMAIN txs }

ReadBalance(r) ==
  /\ runs[r].pc = "balance"
  /\ Goto(r, IF eth[runs[r].cfg[Dst].resolver] = 1 THEN "allowance" ELSE "fund")
  /\ UNCHANGED << contracts, files, jobs, balances, txs, logged, pool, expired, escrows >>

(* Wallet.transfer returns when the transaction is sent.                   *)
Transfer(r) == runs[r].pc = "fund" /\ Send(r, "fund", "allowance")

Allowed(owner, r) == << owner, runs[r].cfg[Dst].token, runs[r].cfg[Dst].factory >>

(* Wallet.unlimitedApprove signs with the key of the wallet: the allowance *)
(* is that of the owner, although the wallet stands for the contract.  One *)
(* that is there is set to zero first, and each receipt is waited for.     *)
UnlimitedApprove(r) ==
  \/ /\ runs[r].pc = "allowance"
     /\ IF Allowed(Owner, r) \in dstAllow
          THEN Send(r, "clear", "clearing")
          ELSE Send(r, "approve", "approving")
  \/ /\ runs[r].pc = "clearing" /\ Receipt(r, "clear")
     /\ Send(r, "approve", "approving")

ApproveByContract(r) ==
  /\ runs[r].pc = "approving" /\ Receipt(r, "approve")
  /\ Send(r, "call", "calling")

Mines(what) ==
  /\ txs # << >> /\ Head(txs).what = what
  /\ txs' = Tail(txs)
  /\ UNCHANGED << contracts, files, jobs, usdc, weth, allow, runs, logged, pool, expired, escrows >>

FundMined ==
  /\ Mines("fund")
  /\ eth' = [eth EXCEPT ![runs[Head(txs).run].cfg[Dst].resolver] = 1]
  /\ UNCHANGED dstAllow

ClearMined ==
  /\ Mines("clear")
  /\ dstAllow' = dstAllow \ {Allowed(Owner, Head(txs).run)}
  /\ UNCHANGED eth

ApproveMined ==
  /\ Mines("approve")
  /\ dstAllow' = dstAllow \cup {Allowed(Owner, Head(txs).run)}
  /\ UNCHANGED eth

(* arbitraryCalls: the resolver contract itself approves.                  *)
CallMined ==
  /\ Mines("call")
  /\ LET r == Head(txs).run
     IN dstAllow' = dstAllow \cup {Allowed(runs[r].cfg[Dst].resolver, r)}
  /\ UNCHANGED eth

\* Mutant: the secret stays in memory.
SignOrderQuietly(r) ==
  /\ runs[r].pc = "calling" /\ Receipt(r, "call")
  /\ Goto(r, "signed")
  /\ UNCHANGED << contracts, files, jobs, balances, txs, logged, pool, expired, escrows >>

\* Mutant: the receipt of the last preparing transaction is not waited for.
SignOrderEarly(r) ==
  /\ runs[r].pc = "calling"
  /\ logged' = logged \cup {r}
  /\ Goto(r, "signed")
  /\ UNCHANGED << contracts, files, jobs, balances, txs, pool, expired, escrows >>

(* A fresh secret, an order with a fresh salt and nonce, the user's        *)
(* signature of it, and a log that names the secret.                       *)
SignOrder(r) ==
  /\ runs[r].pc = "calling" /\ Receipt(r, "call")
  /\ logged' = logged \cup {r}
  /\ Goto(r, "signed")
  /\ UNCHANGED << contracts, files, jobs, balances, txs, pool, expired, escrows >>

(* An order lives 120 seconds of auction and 12 more.                      *)
Expire(r) ==
  /\ runs[r].pc = "signed" \/ r \in pool
  /\ r \notin expired
  /\ expired' = expired \cup {r}
  /\ UNCHANGED << contracts, files, jobs, balances, txs, runs, logged, pool, escrows >>

SendDeploySrc(r) ==
  /\ runs[r].pc = "signed"
  /\ pool' = pool \cup {r}
  /\ Goto(r, "sent")
  /\ UNCHANGED << contracts, files, jobs, balances, txs, logged, expired, escrows >>

(* Anybody can send an asset to any address: 1000 USDC or 0.001 ETH to     *)
(* that of an escrow here, guessed from a fill that is on its way.         *)
Give(asset, escrow) ==
  /\ Cardinality(gifts) < MaxGifts
  /\ << asset, escrow >> \notin gifts
  /\ gifts' = gifts \cup {<< asset, escrow >>}
  /\ UNCHANGED << contracts, files, jobs, balances, txs, runs, logged, pool, expired >>
  /\ UNCHANGED << paid, clones >>

ResolverOf(r) == resolvers[Src][runs[r].cfg[Src].resolver]

(* The escrow whose address Resolver.deploySrc computes and pays the       *)
(* safety deposit and, as the order's target, the user's USDC to.          *)
Computed(r) == << ResolverOf(r).factory, r >>

(* The escrow the order's own factory deploys after the transfer.          *)
Deployable(r) == << runs[r].cfg[Src].factory, r >>

Assets(r) == {Ether, runs[r].cfg[Src].token}

Payments(r) == Assets(r) \X {Computed(r)}

(* LimitOrderProtocol.fillOrderArgs: the signature is for this protocol's  *)
(* domain, the order has not expired, and the user lets the protocol take  *)
(* the token, of which there is enough.                                    *)
OrderFilled(r) ==
  LET lop == ResolverOf(r).lop  token == runs[r].cfg[Src].token
  IN /\ runs[r].sdk = lop /\ r \notin expired
     /\ << token, lop >> \in allow /\ usdc[token] >= 1

\* Mutant: the factory deploys the escrow without a look at its balance.
PostInteractionUnchecked(r) == factories[Src][runs[r].cfg[Src].factory] = ResolverOf(r).lop

(* BaseEscrowFactory._postInteraction: called by the factory's protocol    *)
(* only, and the escrow it has deployed must hold the deposit and the      *)
(* token, from wherever they came.                                         *)
PostInteraction(r) ==
  /\ factories[Src][runs[r].cfg[Src].factory] = ResolverOf(r).lop
  /\ \A a \in Assets(r) : << a, Deployable(r) >> \in paid \cup gifts \cup Payments(r)

Filled(r) == OrderFilled(r) /\ PostInteraction(r)

(* The outcome is the chain's: it does not wait for the script, and the    *)
(* script that is still there learns of it.                                *)
Mined(r, ok) ==
  runs' = [runs EXCEPT ![r].pc = IF @ # "sent" THEN @ ELSE IF ok THEN "done" ELSE "failed"]

DeploySrcMined(r) ==
  /\ r \in pool /\ Filled(r)
  /\ usdc' = [usdc EXCEPT ![runs[r].cfg[Src].token] = @ - 1]
  /\ paid' = paid \cup Payments(r)
  /\ clones' = clones \cup {Deployable(r)}
  /\ pool' = pool \ {r}
  /\ Mined(r, TRUE)
  /\ UNCHANGED << contracts, files, jobs, weth, allow, dstAllow, eth >>
  /\ UNCHANGED << txs, logged, expired, gifts >>

DeploySrcReverts(r) ==
  /\ r \in pool /\ ~Filled(r)
  /\ pool' = pool \ {r}
  /\ Mined(r, FALSE)
  /\ UNCHANGED << contracts, files, jobs, balances, txs, logged, expired, escrows >>

(* Any failed request ends the script, one of printBalance, which nobody   *)
(* awaits, included.                                                       *)
RunDies(r) ==
  /\ runs[r].pc \notin {"idle", "done", "failed", "dead"}
  /\ Goto(r, "dead")
  /\ UNCHANGED << contracts, files, jobs, balances, txs, logged, pool, expired, escrows >>

Deployment ==
  \/ \E c \in Chain : StartLop(c) \/ StartFactory(c) \/ StartResolver(c)
  \/ StartSetup \/ StartMint
  \/ \E j \in jobs : \/ Dies(j)
                     \/ DeployLop(j) \/ DeployEscrowFactory(j) \/ DeployResolver(j)
                     \/ DeployMockUSDC(j) \/ DeployMockWETH(j)
                     \/ MintUSDCToUser(j) \/ MintWETHToResolver(j)
  \/ \E c \in Chain, k \in Kind : \E n \in Deployed(k, c) : EditScripts(c, k, n)
  \/ \E n \in Deployed("lop", Src) : EditSdk(n)

SwapScript ==
  \E r \in Run :
    \/ NewRun(r) \/ ApproveUsdc(r)
    \/ ReadBalance(r) \/ Transfer(r) \/ UnlimitedApprove(r) \/ ApproveByContract(r)
    \/ SignOrder(r) \/ SendDeploySrc(r) \/ RunDies(r)

Chains ==
  \/ FundMined \/ ClearMined \/ ApproveMined \/ CallMined
  \/ \E r \in Run : Expire(r)
  \/ \E r \in pool : DeploySrcMined(r) \/ DeploySrcReverts(r)
  \/ \E r \in pool, f \in DOMAIN factories[Src], a \in {Ether} \cup 1 .. tokens[Src] :
       Give(a, << f, r >>)

Next == Deployment \/ SwapScript \/ Chains

Spec == Init /\ [][Next]_vars

---------------------------------------------------------------------------
(* What the two files say when a script reads them fits what was deployed. *)
InStep(r) ==
  LET src == runs[r].cfg[Src]
  IN /\ runs[r].sdk = src.lop
     /\ factories[Src][src.factory] = src.lop
     /\ resolvers[Src][src.resolver] = [factory |-> src.factory, lop |-> src.lop]

(* Whatever was redeployed and in whatever order the files were edited,    *)
(* what a fill paid, the user's USDC and the resolver's deposit, is at the *)
(* address of a deployed escrow, which somebody can withdraw from or       *)
(* cancel (Resolver.sol 54-81 pays the address it computes before it knows *)
(* whether it will exist), unless a stranger paid the same to the escrow   *)
(* that the order's factory did deploy.                                    *)
FundsInClones ==
  \A p \in paid :
    \/ p[2] \in clones
    \/ \E e \in clones : e[2] = p[2][2] /\ << p[1], e >> \in gifts

(* No escrow at the source whose secret is known to nobody: a script that  *)
(* dies, before or after its transaction is mined, leaves the secret in    *)
(* its log (test-cross-chain-swap.ts 274 before 326).                      *)
SecretsLogged == \A e \in clones : e[2] \in logged

(* A script that started when the files fitted the chain fills its order,  *)
(* whatever is deployed and edited meanwhile and whatever other scripts    *)
(* run: its deploySrc reverts only when the user has no USDC left or the   *)
(* order has expired.                                                      *)
InStepRunsFill == [][\A r \in pool \ pool' :
                       InStep(r) /\ Deployable(r) \notin clones' =>
                         usdc[runs[r].cfg[Src].token] = 0 \/ r \in expired]_vars

(* A script that got as far as the order has a destination resolver that   *)
(* holds 0.01 ETH, although nobody waits for the transfer, and lets the    *)
(* factory of the configuration take its WETH: the contract, not only the  *)
(* account that owns it.                                                   *)
DstPrepared ==
  \A r \in Run : runs[r].pc \in {"signed", "sent", "done", "failed"} =>
    LET dst == runs[r].cfg[Dst]
    IN eth[dst.resolver] = 1 /\ << dst.resolver, dst.token, dst.factory >> \in dstAllow
=============================================================================
