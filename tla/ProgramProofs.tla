---------------------------- MODULE ProgramProofs ----------------------------
(***************************************************************************)
(* LmPool and Deploy for any stakers, amounts, programs and wallets: a     *)
(* liquidity mining program keeps the custody of its liquidity, the two    *)
(* computations of its next epoch agree, the contract accepts what the bot *)
(* pays, an epoch is stuck only because of rounding, what it leaves unpaid *)
(* is below the rounding error, and the transactions of the deployment     *)
(* tool form a chain that can be submitted.                                *)
(***************************************************************************)
EXTENDS Deploy, SumProofs, SequenceTheorems

Claims == [s \in DOMAIN bundles |-> bundles[s].vlq]

\* The fields of the pool that are there, whatever is in those about rewards.
PoolShape ==
    /\ pool = [budget |-> pool.budget, lq |-> pool.lq, vlq |-> pool.vlq,
               tmp |-> pool.tmp, epochIx |-> pool.epochIx]
    /\ pool.lq \in Nat
    /\ pool.vlq \in Int

BundleShape ==
    /\ DOMAIN bundles \subseteq Stakers
    /\ bundles = [s \in DOMAIN bundles |-> bundles[s]]
    /\ \A s \in DOMAIN bundles :
          /\ bundles[s] = [vlq |-> bundles[s].vlq, tmp |-> bundles[s].tmp]
          /\ bundles[s].vlq \in Amounts

\* A deposit has no bundle yet, and the bundle of a redeem is still there.
OrdersMatch ==
    \A s \in DOMAIN orders :
        /\ s \in Stakers
        /\ orders[s].lq \in Amounts
        /\ orders[s].kind = "deposit" => s \notin DOMAIN bundles
        /\ orders[s].kind = "redeem" => s \in DOMAIN bundles

CustodyInv ==
    /\ PoolShape
    /\ BundleShape
    /\ OrdersMatch
    /\ pool.lq = MaxValue - pool.vlq
    /\ pool.lq = 0 => DOMAIN orders = {}

VaultStep == Custody!Next \/ UNCHANGED Custody!vaultVars
-----------------------------------------------------------------------------
LEMMA ConstantFacts ==
    /\ Deployer \in Stakers
    /\ Amounts \subseteq Nat \ {0}
    /\ InitialLq \in Amounts
    /\ MaxValue \in Nat
    /\ ProgramBudget \in Nat
    /\ EpochNum \in Nat \ {0}
    /\ ProgramBudget >= EpochNum
    /\ MaxRoundingError \in Nat
  BY PoolAssumption

LEMMA InitCustody == PoolInit => CustodyInv /\ Custody!Init
<1> SUFFICES ASSUME PoolInit PROVE CustodyInv /\ Custody!Init
  OBVIOUS
<1>1. PoolShape /\ pool.lq = MaxValue - pool.vlq
  BY ConstantFacts DEF PoolInit, PoolShape
<1>2. DOMAIN bundles = {} /\ DOMAIN orders = {}
  BY DEF PoolInit
<1>3. BundleShape /\ OrdersMatch
  BY <1>2 DEF PoolInit, BundleShape, OrdersMatch
<1>4. Custody!Init
  BY <1>2, ConstantFacts DEF PoolInit, Custody!Init
<1> QED
  BY <1>1, <1>2, <1>3, <1>4 DEF CustodyInv

\* A step that moves no liquidity, and no bundle and no deposit.
LEMMA StepWithoutLiquidity ==
    ASSUME CustodyInv, pool' = pool, bundles' = bundles,
           OrdersMatch', pool.lq = 0 => DOMAIN orders' = {}
    PROVE  CustodyInv' /\ VaultStep
  BY DEF CustodyInv, PoolShape, BundleShape, VaultStep, Custody!vaultVars

LEMMA CreateStep ==
    ASSUME CustodyInv, NEW d \in Delegations, Create(d)
    PROVE  CustodyInv' /\ VaultStep
<1>1. /\ pool.lq = 0 /\ DOMAIN bundles = {} /\ DOMAIN orders = {} /\ orders' = orders
      /\ MaxValue - pool.vlq = 0
  BY DEF CustodyInv, Create
<1>2. /\ PoolShape' /\ pool'.lq = InitialLq /\ MaxValue - pool'.vlq = InitialLq
      /\ pool'.lq = MaxValue - pool'.vlq
  BY ConstantFacts DEF Create, FreshPool, PoolShape
<1>3. /\ DOMAIN bundles' = {Deployer}
      /\ bundles' = [s \in {Deployer} |-> bundles'[s]]
      /\ bundles'[Deployer] = FreshBundle(d)
  BY <1>1 DEF Create, With
<1>4. BundleShape' /\ bundles'[Deployer].vlq = InitialLq
  BY <1>3, ConstantFacts DEF FreshBundle, BundleShape
<1>5. OrdersMatch'
  BY <1>1 DEF OrdersMatch
<1>6. pool'.lq # 0
  BY <1>2, ConstantFacts
<1>7. Custody!Stake(Deployer, InitialLq)
  BY <1>1, <1>2, <1>3, <1>4, ConstantFacts DEF Custody!Stake
<1> QED
  BY <1>2, <1>4, <1>5, <1>6, <1>7, ConstantFacts DEF CustodyInv, VaultStep, Custody!Next

LEMMA AskDepositStep ==
    ASSUME CustodyInv, NEW s \in Stakers, NEW n \in Amounts, NEW erg \in Ergs,
           AskDeposit(s, n, erg)
    PROVE  CustodyInv' /\ VaultStep
<1>1. /\ pool' = pool /\ bundles' = bundles /\ pool.lq > 0 /\ s \notin DOMAIN bundles
      /\ orders' = With(orders, s, [kind |-> "deposit", lq |-> n,
                                    epochs |-> NumEpochsRemain(height), erg |-> erg])
  BY DEF AskDeposit, Live
<1>2. OrdersMatch'
  BY <1>1 DEF CustodyInv, OrdersMatch, With
<1> QED
  BY <1>1, <1>2, StepWithoutLiquidity

LEMMA AskRedeemStep ==
    ASSUME CustodyInv, NEW s \in Stakers, NEW n \in Amounts, NEW erg \in Ergs,
           AskRedeem(s, n, erg)
    PROVE  CustodyInv' /\ VaultStep
<1>1. /\ pool' = pool /\ bundles' = bundles /\ pool.lq > 0 /\ s \in DOMAIN bundles
      /\ orders' = With(orders, s, [kind |-> "redeem", lq |-> n, erg |-> erg])
  BY DEF AskRedeem, Live
<1>2. OrdersMatch'
  BY <1>1 DEF CustodyInv, OrdersMatch, With
<1> QED
  BY <1>1, <1>2, StepWithoutLiquidity

\* An order leaves the backlog and nothing else happens.
LEMMA OrderGone ==
    ASSUME CustodyInv, NEW s \in DOMAIN orders, pool' = pool, bundles' = bundles,
           orders' = Without(orders, s)
    PROVE  CustodyInv' /\ VaultStep
<1>1. OrdersMatch' /\ (pool.lq = 0 => DOMAIN orders' = {})
  BY DEF CustodyInv, OrdersMatch, Without
<1> QED
  BY <1>1, StepWithoutLiquidity

LEMMA RunDepositStep ==
    ASSUME CustodyInv, NEW s \in Stakers, RunDeposit(s)
    PROVE  CustodyInv' /\ VaultStep
<1>1. s \in DOMAIN orders /\ orders[s].kind = "deposit" /\ orders' = Without(orders, s)
  BY DEF RunDeposit
<1>2. CASE pool' = pool /\ bundles' = bundles
  BY <1>1, <1>2, OrderGone
<1>3. CASE /\ pool' = Deposited(pool, orders[s])
           /\ bundles' = With(bundles, s, [vlq |-> orders[s].lq,
                                tmp |-> NumEpochsRemain(height) * orders[s].lq])
  <2> DEFINE n == orders[s].lq
  <2>1. n \in Amounts /\ s \notin DOMAIN bundles
    BY <1>1 DEF CustodyInv, OrdersMatch
  <2>2. n \in Nat /\ n > 0
    <3> HIDE DEF n
    <3> QED
      BY <2>1, ConstantFacts
  <2>3. pool.lq \in Nat /\ pool.vlq \in Int /\ pool.lq = MaxValue - pool.vlq
    BY DEF CustodyInv, PoolShape
  <2>4. /\ pool'.lq = pool.lq + n /\ pool'.vlq = pool.vlq - n
        /\ pool' = [budget |-> pool'.budget, lq |-> pool'.lq, vlq |-> pool'.vlq,
                    tmp |-> pool'.tmp, epochIx |-> pool'.epochIx]
    BY <1>3 DEF CustodyInv, PoolShape, Deposited
  <2>5. /\ DOMAIN bundles' = DOMAIN bundles \cup {s}
        /\ bundles'[s] = [vlq |-> n, tmp |-> NumEpochsRemain(height) * orders[s].lq]
        /\ \A x \in DOMAIN bundles : bundles'[x] = bundles[x]
        /\ bundles' = [x \in DOMAIN bundles' |-> bundles'[x]]
    BY <1>3, <2>1 DEF With
  <2> HIDE DEF n
  <2>6. BundleShape'
    BY <2>1, <2>5 DEF CustodyInv, BundleShape
  <2>7. OrdersMatch'
    BY <1>1, <2>5 DEF CustodyInv, OrdersMatch, Without
  <2>8. /\ pool'.lq = MaxValue - pool'.vlq /\ pool'.lq # 0
        /\ pool'.lq \in Nat /\ pool'.vlq \in Int
        /\ MaxValue - pool'.vlq = (MaxValue - pool.vlq) + n
    BY <2>2, <2>3, <2>4, ConstantFacts
  <2>9. PoolShape'
    BY <2>4, <2>8 DEF PoolShape
  <2>10. PICK m \in Amounts : m = n
    BY <2>1
  <2>11. Custody!Stake(s, m)
    BY <2>1, <2>4, <2>5, <2>8, <2>10 DEF Custody!Stake
  <2>12. VaultStep
    BY <2>11 DEF VaultStep, Custody!Next
  <2> QED
    BY <2>6, <2>7, <2>8, <2>9, <2>12 DEF CustodyInv
<1> QED
  BY <1>2, <1>3 DEF RunDeposit

LEMMA RunRedeemStep ==
    ASSUME CustodyInv, NEW s \in Stakers, RunRedeem(s)
    PROVE  CustodyInv' /\ VaultStep
<1>1. s \in DOMAIN orders /\ orders[s].kind = "redeem" /\ orders' = Without(orders, s)
  BY DEF RunRedeem
<1>2. CASE pool' = pool /\ bundles' = bundles
  BY <1>1, <1>2, OrderGone
<1>3. CASE /\ RedeemVerdict(pool, bundles[s], orders[s]) = "ok"
           /\ Redeemed(pool, bundles[s], orders[s]).lq > 0
           /\ pool' = Redeemed(pool, bundles[s], orders[s])
           /\ bundles' = Without(bundles, s)
  <2> DEFINE n == bundles[s].vlq
  <2>1. orders[s].lq = n
    BY <1>3 DEF RedeemVerdict
  <2>2. s \in DOMAIN bundles /\ n \in Nat
    BY <1>1, ConstantFacts DEF CustodyInv, OrdersMatch, BundleShape
  <2>3. pool.lq \in Nat /\ pool.vlq \in Int /\ pool.lq = MaxValue - pool.vlq
    BY DEF CustodyInv, PoolShape
  <2>4. /\ pool'.lq = pool.lq - n /\ pool'.vlq = pool.vlq + n
        /\ pool' = [budget |-> pool'.budget, lq |-> pool'.lq, vlq |-> pool'.vlq,
                    tmp |-> pool'.tmp, epochIx |-> pool'.epochIx]
    BY <1>3, <2>1 DEF CustodyInv, PoolShape, Redeemed
  <2>5. /\ DOMAIN bundles' = DOMAIN bundles \ {s}
        /\ \A x \in DOMAIN bundles' : bundles'[x] = bundles[x]
        /\ bundles' = [x \in DOMAIN bundles' |-> bundles'[x]]
    BY <1>3 DEF Without
  <2>6. pool'.lq > 0
    BY <1>3
  <2> HIDE DEF n
  <2>7. /\ pool'.lq = MaxValue - pool'.vlq /\ pool'.lq # 0
        /\ pool'.lq \in Nat /\ pool'.vlq \in Int
        /\ MaxValue - pool'.vlq = (MaxValue - pool.vlq) - n
    BY <2>2, <2>3, <2>4, <2>6, ConstantFacts
  <2>8. PoolShape'
    BY <2>4, <2>7 DEF PoolShape
  <2>9. BundleShape'
    BY <2>5 DEF CustodyInv, BundleShape
  <2>10. OrdersMatch'
    BY <1>1, <2>5 DEF CustodyInv, OrdersMatch, Without
  <2>11. Custody!TakeBack(s)
    BY <2>2, <2>4, <2>5, <2>7 DEF Custody!TakeBack, n
  <2> QED
    BY <2>7, <2>8, <2>9, <2>10, <2>11 DEF CustodyInv, VaultStep, Custody!Next
<1> QED
  BY <1>2, <1>3 DEF RunRedeem

LEMMA RunCompoundStep ==
    ASSUME CustodyInv, NEW batch \in Batches, NEW f \in Funds, RunCompound(batch, f)
    PROVE  CustodyInv' /\ VaultStep
<1>1. pool' = Distributed(pool, batch) /\ orders' = orders
  BY DEF RunCompound
<1>2. /\ pool'.lq = pool.lq /\ pool'.vlq = pool.vlq
      /\ pool' = [budget |-> pool'.budget, lq |-> pool'.lq, vlq |-> pool'.vlq,
                  tmp |-> pool'.tmp, epochIx |-> pool'.epochIx]
  BY <1>1 DEF CustodyInv, PoolShape, Distributed
<1>3. bundles' = [s \in DOMAIN bundles |->
                    IF s \in batch
                    THEN [bundles[s] EXCEPT !.tmp = @ - ChargedTmp(pool, bundles[s])]
                    ELSE bundles[s]]
  BY DEF RunCompound
<1>4. DOMAIN bundles' = DOMAIN bundles /\ bundles' = [s \in DOMAIN bundles' |-> bundles'[s]]
  BY <1>3
<1>5. \A s \in DOMAIN bundles :
         bundles'[s] = [vlq |-> bundles[s].vlq, tmp |-> bundles'[s].tmp]
  BY <1>3 DEF CustodyInv, BundleShape
<1>6. ASSUME NEW s \in DOMAIN bundles
      PROVE  bundles'[s].vlq = bundles[s].vlq
  <2> DEFINE v == bundles[s].vlq
             t == bundles'[s].tmp
  <2>1. bundles'[s] = [vlq |-> v, tmp |-> t]
    BY <1>5
  <2>2. [vlq |-> v, tmp |-> t].vlq = v
    OBVIOUS
  <2> QED
    BY <2>1, <2>2
<1>7. BundleShape'
  BY <1>4, <1>5, <1>6 DEF CustodyInv, BundleShape
<1>8. OrdersMatch'
  BY <1>1, <1>4 DEF CustodyInv, OrdersMatch
<1>9. Claims' = Claims
  BY <1>4, <1>6 DEF Claims
<1>10. UNCHANGED Custody!vaultVars
  BY <1>2, <1>9 DEF Custody!vaultVars, Claims
<1> QED
  BY <1>1, <1>2, <1>7, <1>8, <1>10 DEF CustodyInv, PoolShape, VaultStep

\* Any step of the pool, and one that leaves it alone.
LEMMA PoolStep ==
    ASSUME CustodyInv, [LmPoolNext]_poolVars
    PROVE  CustodyInv' /\ VaultStep
<1>1. CASE NewBlock \/ UNCHANGED poolVars
  <2>1. pool' = pool /\ bundles' = bundles /\ orders' = orders
    BY <1>1 DEF NewBlock, poolVars
  <2> QED
    BY <2>1, StepWithoutLiquidity DEF CustodyInv, OrdersMatch
<1>2. CASE SomeCompound
  BY <1>2, RunCompoundStep DEF SomeCompound
<1>3. ASSUME NEW s \in Stakers, NEW n \in Amounts, NEW erg \in Ergs,
             AskDeposit(s, n, erg) \/ AskRedeem(s, n, erg)
      PROVE  CustodyInv' /\ VaultStep
  BY <1>3, AskDepositStep, AskRedeemStep
<1>4. ASSUME NEW s \in Stakers, RunOrder(s)
      PROVE  CustodyInv' /\ VaultStep
  BY <1>4, RunDepositStep, RunRedeemStep DEF RunOrder
<1>5. ASSUME NEW d \in Delegations, Create(d)
      PROVE  CustodyInv' /\ VaultStep
  BY <1>5, CreateStep
<1> QED
  BY <1>1, <1>2, <1>3, <1>4, <1>5 DEF LmPoolNext, PoolNext

(***************************************************************************)
(* Whatever orders come, in whatever batches bundles are compounded and    *)
(* whatever the contract refuses, the pool keeps the promise of Vault: its *)
(* liquidity is what stakers brought and have not taken back, and a redeem *)
(* gives a staker exactly what the staker brought (apply_deposit,          *)
(* apply_redeem, distribute_rewards).                                      *)
(***************************************************************************)
THEOREM PoolKeepsCustody == LmPoolSpec => KeepsCustody
<1>1. PoolInit => CustodyInv /\ Custody!Init
  BY InitCustody
<1>2. CustodyInv /\ [LmPoolNext]_poolVars => CustodyInv'
  BY PoolStep
<1>3. CustodyInv /\ [LmPoolNext]_poolVars => [Custody!Next]_(Custody!vaultVars)
  BY PoolStep DEF VaultStep
<1> QED
  BY <1>1, <1>2, <1>3, PTL DEF LmPoolSpec, KeepsCustody, Custody!Spec
-----------------------------------------------------------------------------
\* A step of the tool leaves the pool alone, until the last transaction.
LEMMA BuildKeepsPool ==
    ASSUME GatherTokens \/ MintToken \/ PoolInput \/ InitPool
    PROVE  UNCHANGED <<input, poolVars>>
<1>1. CASE GatherTokens
  BY <1>1 DEF GatherTokens, Build
<1>2. CASE MintToken
  BY <1>2 DEF MintToken, Build
<1>3. CASE PoolInput
  BY <1>3 DEF PoolInput, Build
<1>4. CASE InitPool
  BY <1>4 DEF InitPool, Build
<1> QED
  BY <1>1, <1>2, <1>3, <1>4

LEMMA ProgramStep ==
    ASSUME input \in Delegations, [ProgramNext]_programVars
    PROVE  (input \in Delegations)' /\ [LmPoolNext]_poolVars
<1>1. CASE StartTool \/ SubmitFails
  BY <1>1 DEF StartTool, SubmitFails
<1>2. CASE GatherTokens \/ MintToken \/ PoolInput \/ InitPool
  BY <1>2, BuildKeepsPool
<1>3. CASE SubmitTx
  <2>1. input' = input /\ (Create(input) \/ UNCHANGED poolVars)
    BY <1>3 DEF SubmitTx
  <2>2. Create(input) => \E d \in Delegations : Create(d)
    <3>1. PICK d \in Delegations : d = input
      OBVIOUS
    <3>2. Create(input) => Create(d)
      BY <3>1 DEF Create, FreshPool, FreshBundle
    <3> QED
      BY <3>2
  <2> QED
    BY <2>1, <2>2 DEF LmPoolNext
<1>4. CASE PoolNext /\ UNCHANGED toolVars
  BY <1>4 DEF LmPoolNext, toolVars
<1>5. CASE UNCHANGED programVars
  BY <1>5 DEF programVars, toolVars
<1> QED
  BY <1>1, <1>2, <1>3, <1>4, <1>5 DEF ProgramNext, DeployNext

(***************************************************************************)
(* The same of a program that the deployment tool creates, whatever the    *)
(* wallet holds, however often the tool fails and is run again             *)
(* (spectrum-deploy-lm-pool/src/main.rs).                                  *)
(***************************************************************************)
THEOREM ProgramKeepsCustody == ProgramSpec => KeepsCustody
<1>1. DeployInit => input \in Delegations /\ PoolInit
  BY DEF DeployInit
<1>2. input \in Delegations /\ [ProgramNext]_programVars
        => (input \in Delegations)' /\ [LmPoolNext]_poolVars
  BY ProgramStep
<1>3. ProgramSpec => LmPoolSpec
  BY <1>1, <1>2, PTL DEF ProgramSpec, LmPoolSpec
<1> QED
  BY <1>3, PoolKeepsCustody
-----------------------------------------------------------------------------
\* Quotient and remainder are determined by their product and sum.
LEMMA Quotient ==
    ASSUME NEW a \in Nat, NEW n \in Nat \ {0}, NEW q \in Nat, NEW r \in 0 .. n - 1,
           a = q * n + r
    PROVE  a \div n = q /\ a % n = r
<1> DEFINE k == a \div n
<1>1. k \in Int /\ a = (k * n) + (a % n) /\ (a % n) \in 0 .. n - 1
  OBVIOUS
<1>2. k = q
  OBVIOUS
<1> QED
  BY <1>1, <1>2

LEMMA AllocFacts == EpochAlloc \in Nat \ {0}
<1>1. ProgramBudget \in Nat /\ EpochNum \in Nat \ {0} /\ ProgramBudget >= EpochNum
  BY ConstantFacts
<1>2. (ProgramBudget \div EpochNum) \in Nat /\ ProgramBudget \div EpochNum >= 1
  BY <1>1
<1> QED
  BY <1>2 DEF EpochAlloc

(***************************************************************************)
(* The epoch that the scheduler selects stakers for (epochs_left_to_process *)
(* in the schedule of the pool) is the epoch that distribute_rewards pays   *)
(* for, for every budget left, if the rounding error is less than what one  *)
(* epoch pays, which validate_pool of the deployment ensures.               *)
(***************************************************************************)
THEOREM EpochsAgree ==
    ASSUME NEW p, p.budget \in Nat, MaxRoundingError < EpochAlloc
    PROVE  NextEpoch(p) = EpochIx(p)
<1> DEFINE a == p.budget
           n == EpochAlloc
           m == MaxRoundingError
           q == a \div n
           r == a % n
           u == SatSub(a, m)
<1>1. a \in Nat /\ n \in Nat \ {0} /\ m \in Nat /\ m < n /\ EpochNum \in Nat
  BY AllocFacts, ConstantFacts
<1> HIDE DEF a, n, m
<1>2. q \in Nat /\ r \in 0 .. n - 1 /\ a = q * n + r
  BY <1>1
<1>3. NextEpoch(p) = EpochNum - (u \div n + (IF u % n > 0 THEN 1 ELSE 0)) + 1
  BY DEF NextEpoch, EpochsLeftToProcess, a, n, m
<1>4. EpochIx(p) = IF r <= m THEN EpochNum + 1 - q ELSE EpochNum + 1 - q - 1
  <2>1. EpochCompleted(p) <=> r <= m
    BY DEF EpochCompleted, a, n, m
  <2>2. EpochIx(p) = IF EpochCompleted(p) THEN EpochNum + 1 - q ELSE EpochNum + 1 - q - 1
    BY AllocFacts, ConstantFacts DEF EpochIx, a, n
  <2> QED
    BY <2>1, <2>2
<1> HIDE DEF q, r
<1>5. CASE r > m
  <2> DEFINE w == r - m
  <2>1. u = a - m /\ u \in Nat /\ w \in 0 .. n - 1 /\ u = q * n + w
    BY <1>1, <1>2, <1>5 DEF SatSub
  <2>2. u \div n = q /\ u % n = w
    <3> HIDE DEF u, w
    <3> QED
      BY <2>1, <1>1, <1>2, Quotient
  <2>3. r - m > 0 /\ ~(r <= m)
    BY <1>1, <1>2, <1>5
  <2> HIDE DEF u
  <2> QED
    BY <1>1, <1>2, <1>3, <1>4, <2>2, <2>3
<1>6. CASE r <= m /\ q = 0
  <2>1. a <= m
    BY <1>1, <1>2, <1>6
  <2>2. u = 0
    BY <1>1, <2>1 DEF SatSub
  <2>3. u \div n = 0 /\ u % n = 0
    BY <1>1, <2>2, Quotient
  <2> HIDE DEF u
  <2> QED
    BY <1>1, <1>2, <1>3, <1>4, <1>6, <2>3
<1>7. CASE r <= m /\ q > 0
  <2>1. q - 1 \in Nat /\ q * n = (q - 1) * n + n
    BY <1>1, <1>2, <1>7
  <2>2. (q - 1) * n \in Nat /\ a >= n
    BY <1>1, <1>2, <2>1
  <2>3. u = a - m /\ u \in Nat
    BY <1>1, <2>2 DEF SatSub
  <2> HIDE DEF u
  <2>4. CASE r = m
    <3>1. u = q * n + 0 /\ 0 \in 0 .. n - 1
      BY <1>1, <1>2, <2>3, <2>4
    <3>2. u \div n = q /\ u % n = 0
      BY <1>1, <1>2, <2>3, <3>1, Quotient
    <3> QED
      BY <1>1, <1>2, <1>3, <1>4, <1>7, <3>2
  <2>5. CASE r < m
    <3> DEFINE w == (n + r) - m
               k == q - 1
    <3>1. w \in 0 .. n - 1 /\ k \in Nat /\ u = k * n + w
      BY <1>1, <1>2, <2>1, <2>2, <2>3, <2>5
    <3>2. u \div n = k /\ u % n = w
      <4> HIDE DEF w, k
      <4> QED
        BY <1>1, <2>3, <3>1, Quotient
    <3>3. w > 0
      BY <1>1, <1>2, <2>5
    <3> QED
      BY <1>1, <1>2, <1>3, <1>4, <1>7, <3>2, <3>3
  <2> QED
    BY <1>1, <1>2, <1>7, <2>4, <2>5
<1> QED
  BY <1>1, <1>2, <1>5, <1>6, <1>7
-----------------------------------------------------------------------------
(***************************************************************************)
(* Arithmetic.                                                             *)
(***************************************************************************)
LEMMA TimesLess ==
    ASSUME NEW n \in Nat \ {0}, NEW x \in Int, NEW y \in Int, NEW z \in Int,
           z < n, n * x <= n * y + z
    PROVE  x <= y
<1>1. SUFFICES ASSUME x >= y + 1
               PROVE  FALSE
  OBVIOUS
<1>2. n * x >= n * (y + 1)
  BY <1>1
<1>3. n * (y + 1) = n * y + n
  OBVIOUS
<1>4. n * x \in Int /\ n * y \in Int /\ n * (y + 1) \in Int
  OBVIOUS
<1> QED
  BY <1>2, <1>3, <1>4

\* A bound on a quotient from a bound on a product.
LEMMA Below ==
    ASSUME NEW n \in Nat \ {0}, NEW x \in Int, NEW a \in Int, n * x <= a
    PROVE  x <= a \div n
<1>1. PICK k, z : k = a \div n /\ z = a % n
  OBVIOUS
<1>2. k \in Int /\ a = n * k + z /\ z \in 0 .. n - 1
  BY <1>1
<1>3. x <= k
  BY <1>2, TimesLess
<1> QED
  BY <1>1, <1>3

LEMMA Above ==
    ASSUME NEW n \in Nat \ {0}, NEW x \in Int, NEW a \in Int, a <= n * x
    PROVE  a \div n <= x
<1>1. PICK k, z : k = a \div n /\ z = a % n
  OBVIOUS
<1>2. k \in Int /\ a = n * k + z /\ z \in 0 .. n - 1
  BY <1>1
<1>3. n * k <= n * x + 0
  <2>1. n * k \in Int /\ n * x \in Int
    BY <1>2
  <2> QED
    BY <1>2, <2>1
<1>4. k <= x
  BY <1>2, <1>3, TimesLess
<1> QED
  BY <1>1, <1>4

LEMMA Quotients ==
    ASSUME NEW a \in Nat, NEW n \in Nat \ {0}
    PROVE  a \div n \in Nat /\ a % n \in 0 .. n - 1 /\ a = n * (a \div n) + (a % n)
  OBVIOUS

-----------------------------------------------------------------------------
\* What validate_pool of the deployment tool asks of a program.
Validated ==
    /\ EpochNum < MaxRoundingError
    /\ MaxRoundingError * EpochNum < EpochAlloc

\* The bundle that the deployment creates lasts for all epochs but the first, at
\* least.  The tool does not check this.
DelegatesAll == \A d \in Delegations : d >= EpochNum - 1

LEMMA ValidFacts ==
    ASSUME Validated
    PROVE  /\ MaxRoundingError < EpochAlloc
           /\ \E e \in Nat : /\ ProgramBudget = EpochNum * EpochAlloc + e
                             /\ e < EpochNum
                             /\ e + MaxRoundingError < EpochAlloc
<1>1. PICK n, a, m, b : /\ n = EpochNum /\ a = EpochAlloc /\ m = MaxRoundingError
                        /\ b = ProgramBudget
  OBVIOUS
<1>2. /\ n \in Nat \ {0} /\ a \in Nat \ {0} /\ m \in Nat /\ b \in Nat
      /\ n < m /\ m * n < a /\ a = b \div n
  BY <1>1, ConstantFacts, AllocFacts DEF Validated, EpochAlloc
<1>3. m < a
  <2>1. m <= m * n
    BY <1>2
  <2> QED
    BY <1>2, <2>1
<1>4. PICK e : e = b % n
  OBVIOUS
<1>5. e \in Nat /\ e < n /\ b = n * a + e
  BY <1>2, <1>4, Quotients
<1>6. e + m < a
  <2>1. CASE n = 1
    BY <1>2, <1>5, <2>1
  <2>2. CASE n >= 2
    <3>1. m * n >= m * 2
      BY <1>2, <2>2
    <3> QED
      BY <1>2, <1>5, <3>1
  <2> QED
    BY <1>2, <2>1, <2>2
<1> QED
  BY <1>1, <1>3, <1>5, <1>6

\* What later epochs may take of the budget, rounded.
LEMMA LaterFacts ==
    ASSUME Validated, NEW w \in Nat
    PROVE  /\ (ProgramBudget * w) \div EpochNum \in Nat
           /\ EpochAlloc * w <= (ProgramBudget * w) \div EpochNum
           /\ (ProgramBudget * w) \div EpochNum <= EpochAlloc * w + w
<1>1. PICK e \in Nat : ProgramBudget = EpochNum * EpochAlloc + e /\ e < EpochNum
  BY ValidFacts
<1>2. PICK n, a, t : n = EpochNum /\ a = EpochAlloc /\ t = ProgramBudget
  OBVIOUS
<1>3. n \in Nat \ {0} /\ a \in Nat \ {0} /\ t \in Nat /\ t = n * a + e /\ e < n
  BY <1>1, <1>2, ConstantFacts, AllocFacts
<1>4. t * w = n * (a * w) + e * w
  <2>1. t * w = (n * a) * w + e * w
    BY <1>3
  <2>2. (n * a) * w = n * (a * w)
    BY <1>3
  <2> QED
    BY <2>1, <2>2
<1>5. e * w \in Nat /\ e * w <= n * w
  BY <1>3
<1>6. a * w \in Nat /\ n * (a * w) \in Nat /\ n * w \in Nat
  BY <1>3
<1>7. n * (a * w + w) = n * (a * w) + n * w
  BY <1>3, <1>6
<1>8. t * w \in Nat /\ n * (a * w) <= t * w /\ t * w <= n * (a * w + w)
  BY <1>4, <1>5, <1>6, <1>7
<1>9. (t * w) \div n \in Nat
  BY ONLY <1>3, <1>8, Quotients
<1>10. a * w <= (t * w) \div n
  BY <1>3, <1>6, <1>8, Below
<1>11. (t * w) \div n <= a * w + w
  <2>1. a * w + w \in Int
    BY <1>6
  <2> QED
    BY <1>3, <1>8, <2>1, Above
<1> QED
  BY <1>2, <1>9, <1>10, <1>11

\* Epochs of a budget in terms of its quotient and remainder.
Split(p, q, r) ==
    /\ q \in Nat /\ r \in 0 .. EpochAlloc - 1
    /\ p.budget = EpochAlloc * q + r
    /\ EpochCompleted(p) <=> r <= MaxRoundingError
    /\ EpochIx(p) = IF r <= MaxRoundingError THEN EpochNum + 1 - q ELSE EpochNum - q
    /\ EpochsRemain(p) = IF r <= MaxRoundingError THEN (IF q = 0 THEN 0 ELSE q - 1) ELSE q

LEMMA Splits ==
    ASSUME NEW p, p.budget \in Nat
    PROVE  \E q, r : Split(p, q, r)
<1>1. PICK q, r : q = p.budget \div EpochAlloc /\ r = p.budget % EpochAlloc
  OBVIOUS
<1>2. q \in Nat /\ r \in 0 .. EpochAlloc - 1 /\ p.budget = EpochAlloc * q + r
  BY <1>1, AllocFacts, Quotients
<1>3. EpochCompleted(p) <=> r <= MaxRoundingError
  BY <1>1 DEF EpochCompleted
<1>4. EpochIx(p) = IF r <= MaxRoundingError THEN EpochNum + 1 - q ELSE EpochNum + 1 - q - 1
  <2>1. EpochIx(p) = IF EpochCompleted(p) THEN EpochNum + 1 - q ELSE EpochNum + 1 - q - 1
    BY <1>1, <1>2, AllocFacts, ConstantFacts DEF EpochIx
  <2> QED
    BY <1>3, <2>1
<1>5. EpochNum \in Nat /\ MaxRoundingError \in Nat /\ EpochAlloc \in Nat
  BY ConstantFacts, AllocFacts
<1>6. EpochIx(p) = IF r <= MaxRoundingError THEN EpochNum + 1 - q ELSE EpochNum - q
  BY <1>2, <1>4, <1>5
<1>7. EpochsRemain(p) = IF r <= MaxRoundingError THEN (IF q = 0 THEN 0 ELSE q - 1) ELSE q
  BY <1>2, <1>5, <1>6 DEF EpochsRemain, SatSub
<1>8. Split(p, q, r)
  BY <1>2, <1>3, <1>6, <1>7 DEF Split
<1> QED
  BY <1>8

LEMMA RemainNat ==
    ASSUME NEW p, p.budget \in Nat
    PROVE  EpochsRemain(p) \in Nat /\ EpochIx(p) \in Int
<1>1. PICK q, r : Split(p, q, r)
  BY Splits
<1>2. EpochNum \in Nat
  BY ConstantFacts
<1>3. q \in Nat
  BY <1>1 DEF Split
<1> QED
  BY <1>1, <1>2, <1>3 DEF Split

\* With less budget no more epochs remain.
LEMMA RemainMonotone ==
    ASSUME NEW p, NEW o, p.budget \in Nat, o.budget \in Nat, p.budget <= o.budget
    PROVE  EpochsRemain(p) <= EpochsRemain(o)
<1>1. PICK q, r : Split(p, q, r)
  BY Splits
<1>2. PICK k, z : Split(o, k, z)
  BY Splits
<1>3. PICK n, m : n = EpochAlloc /\ m = MaxRoundingError /\ n \in Nat \ {0} /\ m \in Nat
  BY AllocFacts, ConstantFacts
<1>4. /\ q \in Nat /\ k \in Nat /\ r \in 0 .. n - 1 /\ z \in 0 .. n - 1
      /\ n * q + r <= n * k + z
      /\ EpochsRemain(p) = IF r <= m THEN (IF q = 0 THEN 0 ELSE q - 1) ELSE q
      /\ EpochsRemain(o) = IF z <= m THEN (IF k = 0 THEN 0 ELSE k - 1) ELSE k
  BY <1>1, <1>2, <1>3 DEF Split
<1>5. n * q <= n * k + z
  <2>1. n * q \in Int /\ n * k \in Int
    BY <1>3, <1>4
  <2> QED
    BY <1>3, <1>4, <2>1
<1>6. z < n
  BY <1>3, <1>4
<1>7. q <= k
  BY <1>3, <1>4, <1>5, <1>6, TimesLess
<1>8. CASE q = k
  <2>1. r <= z
    <3>1. n * k \in Int
      BY <1>3, <1>4
    <3> QED
      BY <1>3, <1>4, <1>8, <3>1
  <2> QED
    BY <1>3, <1>4, <1>8, <2>1
<1>9. CASE q < k
  BY <1>3, <1>4, <1>9
<1> QED
  BY <1>4, <1>7, <1>8, <1>9

\* What is owed for an epoch, and what is left of the budget for later ones.
LEMMA OwedFacts ==
    ASSUME Validated, NEW p, p.budget \in 1 .. ProgramBudget
    PROVE  /\ EpochsRemain(p) <= EpochNum
           /\ EpochIx(p) <= EpochNum =>
                 /\ EpochsRemain(p) = EpochNum - EpochIx(p)
                 /\ p.budget - EpochsRemain(p) * EpochAlloc <= EpochAlloc + MaxRoundingError
                 /\ (ProgramBudget * EpochsRemain(p)) \div EpochNum \in Nat
                 /\ (ProgramBudget * EpochsRemain(p)) \div EpochNum + 1 <= p.budget
<1>1. PICK e \in Nat : ProgramBudget = EpochNum * EpochAlloc + e /\ e < EpochNum
                       /\ e + MaxRoundingError < EpochAlloc
  BY ValidFacts
<1>2. PICK n, a, m, t, b, w, x : /\ n = EpochNum /\ a = EpochAlloc /\ m = MaxRoundingError
                                 /\ t = ProgramBudget /\ b = p.budget
                                 /\ w = EpochsRemain(p) /\ x = EpochIx(p)
  OBVIOUS
<1>3. /\ n \in Nat \ {0} /\ a \in Nat \ {0} /\ m \in Nat /\ t \in Nat /\ b \in Nat
      /\ b >= 1 /\ b <= t /\ t = n * a + e /\ e < n /\ e + m < a /\ n < m
  BY <1>1, <1>2, ConstantFacts, AllocFacts DEF Validated
<1>4. PICK q, r : Split(p, q, r)
  BY <1>2, <1>3, Splits
<1>5. /\ q \in Nat /\ r \in 0 .. a - 1 /\ b = a * q + r
      /\ x = IF r <= m THEN n + 1 - q ELSE n - q
      /\ w = IF r <= m THEN (IF q = 0 THEN 0 ELSE q - 1) ELSE q
  BY <1>2, <1>4 DEF Split
<1>6. q <= n
  <2>1. n * a = a * n /\ a * q \in Int /\ a * n \in Int
    BY <1>3, <1>5
  <2>2. a * q <= a * n + e
    BY <1>3, <1>5, <2>1
  <2>3. e < a
    BY <1>3
  <2> QED
    BY <1>3, <1>5, <2>2, <2>3, TimesLess
<1>7. w \in Nat /\ w <= n
  BY <1>3, <1>5, <1>6
<1>8. ASSUME x <= n
      PROVE  /\ w = n - x
             /\ b - w * a <= a + m
             /\ (t * w) \div n \in Nat
             /\ (t * w) \div n + 1 <= b
  <2>1. ~(r <= m) \/ q # 0
    BY <1>3, <1>5, <1>8
  <2>2. w = n - x
    BY <1>3, <1>5, <2>1
  <2>3. w * a \in Nat /\ w * a = a * w
    BY <1>3, <1>7
  <2>4. (~(r <= m) /\ b = w * a + r) \/ (r <= m /\ b = w * a + a + r)
    <3>1. CASE ~(r <= m)
      BY <1>3, <1>5, <2>3, <3>1
    <3>2. CASE r <= m
      <4>1. q = w + 1
        BY <1>3, <1>5, <2>1, <3>2
      <4>2. a * (w + 1) = a * w + a
        BY <1>3, <1>7
      <4> QED
        BY <1>5, <2>3, <3>2, <4>1, <4>2
    <3> QED
      BY <3>1, <3>2
  <2>5. b - w * a <= a + m
    BY <1>3, <1>5, <2>3, <2>4
  <2>6. b >= w * a + m + 1
    BY <1>3, <1>5, <2>3, <2>4
  <2>7. (t * w) \div n \in Nat /\ (t * w) \div n <= w * a + w
    <3>1. a * w = w * a
      BY <1>3, <1>7
    <3> QED
      BY <1>2, <1>7, <3>1, LaterFacts
  <2>8. (t * w) \div n + 1 <= b
    BY <1>3, <1>7, <2>3, <2>6, <2>7
  <2> QED
    BY <2>2, <2>5, <2>7, <2>8
<1> QED
  BY <1>2, <1>7, <1>8

LEMMA CurrentInt ==
    ASSUME height \in Nat
    PROVE  CurrentEpochIx(height) \in Int
<1>1. EpochLen \in Nat \ {0} /\ ProgramStart \in Nat
  BY PoolAssumption
<1>2. PICK i : i = height - ProgramStart + 1
  OBVIOUS
<1>3. i \in Int /\ i \div EpochLen \in Int
  BY <1>1, <1>2
<1>4. CurrentEpochIx(height) =
         IF i < 0 THEN 0 ELSE IF i % EpochLen > 0 THEN i \div EpochLen + 1 ELSE i \div EpochLen
  BY <1>2 DEF CurrentEpochIx
<1> QED
  BY <1>3, <1>4

\* apply_deposit, and the contract, let a bundle in only with as many epochs as
\* the pool has still to pay for.
LEMMA DepositRemain ==
    ASSUME Validated, NEW p, p.budget \in 1 .. ProgramBudget, height \in Nat,
           EpochCompleted(p), PrevEpochsCompounded(p), ~(NumEpochsRemain(height) < 1)
    PROVE  NumEpochsRemain(height) \in Nat /\ EpochsRemain(p) <= NumEpochsRemain(height)
<1>1. PICK e \in Nat : ProgramBudget = EpochNum * EpochAlloc + e /\ e < EpochNum
                       /\ e + MaxRoundingError < EpochAlloc
  BY ValidFacts
<1>2. PICK n, a, m, t, b, c : /\ n = EpochNum /\ a = EpochAlloc /\ m = MaxRoundingError
                              /\ t = ProgramBudget /\ b = p.budget /\ c = CurrentEpochIx(height)
  OBVIOUS
<1>3. /\ n \in Nat \ {0} /\ a \in Nat \ {0} /\ m \in Nat /\ t \in Nat /\ b \in Nat
      /\ b <= t /\ t = n * a + e /\ e + m < a
  BY <1>1, <1>2, ConstantFacts, AllocFacts
<1>4. c \in Int
  BY <1>2, CurrentInt
<1>5. NumEpochsRemain(height) = n - c /\ c <= n - 1
  <2>1. NumEpochsRemain(height) = IF n >= c THEN n - c ELSE 0
    BY <1>2 DEF NumEpochsRemain, SatSub
  <2> QED
    BY <1>3, <1>4, <2>1
<1>6. (t - b) + m >= (c - 1) * a
  <2>1. CurrentEpochIx(height) <= EpochNum
    BY <1>2, <1>3, <1>4, <1>5
  <2> QED
    BY <1>2, <2>1 DEF PrevEpochsCompounded
<1>7. PICK q, r : Split(p, q, r)
  BY <1>2, <1>3, Splits
<1>8. /\ q \in Nat /\ r \in 0 .. a - 1 /\ b = a * q + r /\ r <= m
      /\ EpochsRemain(p) = IF q = 0 THEN 0 ELSE q - 1
  BY <1>2, <1>7 DEF Split
<1>9. a * (c - 1) <= a * (n - q) + (e + m)
  <2>1. a * (n - q) = n * a - a * q /\ a * (c - 1) = (c - 1) * a
    BY <1>3, <1>4, <1>8
  <2>2. n * a \in Int /\ a * q \in Int /\ (c - 1) * a \in Int
    BY <1>3, <1>4, <1>8
  <2> QED
    BY <1>3, <1>6, <1>8, <2>1, <2>2
<1>10. c - 1 <= n - q
  <2>1. c - 1 \in Int /\ n - q \in Int /\ e + m \in Int
    BY <1>3, <1>4, <1>8
  <2> QED
    BY <1>3, <1>9, <2>1, TimesLess
<1> QED
  BY <1>3, <1>4, <1>5, <1>8, <1>10
-----------------------------------------------------------------------------
TmpOf == [s \in DOMAIN bundles |-> bundles[s].tmp]
ChargeOf == [s \in DOMAIN bundles |-> ChargedTmp(pool, bundles[s])]
RewardOf == [s \in DOMAIN bundles |-> Reward(pool, bundles[s])]

\* No bundle has been paid for an epoch that the pool has still to pay for, and
\* the tokens outside the pool are those of the bundles.
StakeInv ==
    /\ pool.budget \in 1 .. ProgramBudget
    /\ pool.tmp \in Int
    /\ \A s \in DOMAIN bundles :
          /\ bundles[s].tmp \in Nat
          /\ bundles[s].tmp >= EpochsRemain(pool) * bundles[s].vlq
    /\ pool.lq = SumOver(Claims, DOMAIN bundles)
    /\ MaxValue - pool.tmp = SumOver(TmpOf, DOMAIN bundles)

RewardInv ==
    /\ height \in Nat
    /\ IsFiniteSet(DOMAIN bundles)
    /\ pool.lq > 0 => StakeInv

\* What a bundle is charged and paid.
LEMMA TermFacts ==
    ASSUME CustodyInv, StakeInv, NEW s \in DOMAIN bundles
    PROVE  /\ ChargeOf[s] = TmpOf[s] - EpochsRemain(pool) * Claims[s]
           /\ ChargeOf[s] \in Nat
           /\ TmpOf[s] \in Nat
           /\ Claims[s] \in Nat \ {0}
           /\ EpochsBurned(pool, bundles[s]) >= 1 => ChargeOf[s] >= 1
           /\ ActualTmp(pool) \in Int => RewardOf[s] \in Nat
           /\ ActualTmp(pool) \in Nat \ {0}
                 => ActualTmp(pool) * RewardOf[s] <= AllocRem(pool) * ChargeOf[s]
<1>1. PICK v, t, r, d, w, k, y :
         /\ v = bundles[s].vlq /\ t = bundles[s].tmp /\ r = EpochsRemain(pool)
         /\ d = ActualTmp(pool) /\ w = AllocRem(pool)
         /\ k = EpochsBurned(pool, bundles[s]) /\ y = Reward(pool, bundles[s])
  OBVIOUS
<1>2. v \in Nat \ {0} /\ t \in Nat /\ t >= r * v
  BY <1>1, ConstantFacts DEF CustodyInv, BundleShape, StakeInv
<1>3. r \in Nat
  <2>1. PICK p : p = pool /\ p.budget \in Nat
    BY ConstantFacts DEF StakeInv
  <2>2. EpochsRemain(p) \in Nat
    BY <2>1, RemainNat
  <2> QED
    BY <1>1, <2>1, <2>2
<1>4. Claims[s] = v /\ TmpOf[s] = t /\ ChargeOf[s] = t - r * v /\ RewardOf[s] = y
  BY <1>1 DEF Claims, TmpOf, ChargeOf, RewardOf, ChargedTmp
<1>5. r * v \in Nat /\ t - r * v \in Nat
  BY <1>2, <1>3
<1>6. k \in Nat /\ v * k <= t - r * v
  <2>1. PICK z : z = t \div v
    OBVIOUS
  <2>2. z \in Nat /\ v * z <= t
    BY <1>2, <2>1, Quotients
  <2>3. k = IF z >= r THEN z - r ELSE 0
    BY <1>1, <2>1 DEF EpochsBurned, SatSub
  <2>4. CASE z >= r
    <3>1. v * (z - r) = v * z - r * v
      BY <1>2, <1>3, <2>2
    <3>2. v * z \in Nat
      BY <1>2, <2>2
    <3> QED
      BY <1>2, <1>3, <1>5, <2>2, <2>3, <2>4, <3>1, <3>2
  <2>5. CASE ~(z >= r)
    BY <1>2, <1>5, <2>3, <2>5
  <2> QED
    BY <2>4, <2>5
<1>7. k >= 1 => t - r * v >= 1
  <2>1. k >= 1 => v * k >= v
    BY <1>2, <1>6
  <2> QED
    BY <1>2, <1>5, <1>6, <2>1
<1>8. w \in Nat
  <2>1. PICK b, x : b = pool.budget /\ x = (ProgramBudget * r) \div EpochNum
    OBVIOUS
  <2>2. ProgramBudget * r \in Nat
    BY <1>3, ConstantFacts
  <2>3. b \in Nat /\ x \in Nat
    <3>1. b \in Nat
      BY <2>1, ConstantFacts DEF StakeInv
    <3>2. EpochNum \in Nat \ {0}
      BY ConstantFacts
    <3>3. (ProgramBudget * r) \div EpochNum \in Nat
      BY ONLY <2>2, <3>2, Quotients
    <3> QED
      BY <2>1, <3>1, <3>3
  <2>4. w = SatSub(SatSub(b, x), 1)
    BY <1>1, <2>1 DEF AllocRem
  <2> QED
    BY <2>3, <2>4 DEF SatSub
<1>9. y = IF d > 0 THEN (w * v * k) \div d ELSE 0
  BY <1>1 DEF Reward
<1>10. w * v * k \in Nat /\ w * v * k <= w * (t - r * v)
  <2>1. w * v * k = w * (v * k) /\ v * k \in Nat
    BY <1>2, <1>6, <1>8
  <2>2. w * (v * k) <= w * (t - r * v)
    BY <1>5, <1>6, <1>8, <2>1
  <2>3. w * (v * k) \in Nat
    BY <1>8, <2>1
  <2> QED
    BY <2>1, <2>2, <2>3
<1>11. d \in Int => y \in Nat
  BY <1>9, <1>10, Quotients
<1>12. ASSUME d \in Nat \ {0}
       PROVE  d * y <= w * (t - r * v)
  <2>1. PICK x : x = w * v * k
    OBVIOUS
  <2>2. y = x \div d /\ x \in Nat
    BY <1>9, <1>10, <1>12, <2>1
  <2>3. d * y <= x
    <3>1. x = d * (x \div d) + (x % d) /\ x % d \in 0 .. d - 1 /\ x \div d \in Nat
      BY <1>12, <2>2, Quotients
    <3>2. d * (x \div d) \in Nat
      BY <1>12, <3>1
    <3> QED
      BY <1>12, <2>2, <3>1, <3>2
  <2>4. d * y \in Int /\ w * (t - r * v) \in Int
    BY <1>5, <1>8, <1>11, <1>12
  <2> QED
    BY <1>10, <2>1, <2>2, <2>3, <2>4
<1> QED
  BY <1>1, <1>2, <1>4, <1>5, <1>7, <1>11, <1>12

\* All that bundles can be charged is what distribute_rewards and the contract
\* compute from the pool.
LEMMA ActualFacts ==
    ASSUME CustodyInv, StakeInv, IsFiniteSet(DOMAIN bundles)
    PROVE  /\ ActualTmp(pool) = SumOver(ChargeOf, DOMAIN bundles)
           /\ ActualTmp(pool) \in Nat
           /\ MaxValue - pool.tmp - pool.lq * EpochsRemain(pool) = ActualTmp(pool)
<1>1. PICK D, r, f, g, h : /\ D = DOMAIN bundles /\ r = EpochsRemain(pool)
                           /\ f = TmpOf /\ g = Claims /\ h = ChargeOf
  OBVIOUS
<1>2. \A s \in D : /\ f[s] \in Int /\ g[s] \in Int /\ h[s] = f[s] - r * g[s]
                   /\ f[s] \in Nat /\ g[s] \in Nat /\ h[s] \in Nat
  BY <1>1, TermFacts
<1>3. r \in Nat
  <2>1. PICK p : p = pool /\ p.budget \in Nat
    BY ConstantFacts DEF StakeInv
  <2>2. EpochsRemain(p) \in Nat
    BY <2>1, RemainNat
  <2> QED
    BY <1>1, <2>1, <2>2
<1>4. IsFiniteSet(D)
  BY <1>1
<1>5. SumOver(h, D) = SumOver(f, D) - r * SumOver(g, D)
  BY ONLY <1>2, <1>3, <1>4, SumLinear
<1>6. SumOver(f, D) \in Nat /\ SumOver(g, D) \in Nat /\ SumOver(h, D) \in Nat
  BY ONLY <1>2, <1>4, SumNat
<1>7. PICK M, t, l, x : M = MaxValue /\ t = pool.tmp /\ l = pool.lq /\ x = SumOver(h, D)
  OBVIOUS
<1>8. /\ M \in Nat /\ t \in Int /\ l \in Nat /\ x \in Nat /\ M - t \in Nat
      /\ x = (M - t) - r * l
  BY <1>1, <1>5, <1>6, <1>7, ConstantFacts DEF StakeInv
<1>9. r * l = l * r /\ l * r \in Nat
  BY <1>3, <1>8
<1>10. ActualTmp(pool) = SatSub(SatSub(M, t), l * r)
  BY <1>1, <1>7 DEF ActualTmp
<1>11. ActualTmp(pool) = x
  BY <1>8, <1>9, <1>10 DEF SatSub
<1> QED
  BY <1>1, <1>7, <1>8, <1>9, <1>11

LEMMA DistributedFacts ==
    ASSUME CustodyInv, StakeInv, IsFiniteSet(DOMAIN bundles), NEW batch \in SUBSET DOMAIN bundles
    PROVE  /\ Distributed(pool, batch).budget = pool.budget - SumOver(RewardOf, batch)
           /\ Distributed(pool, batch).tmp = pool.tmp + SumOver(ChargeOf, batch)
           /\ Distributed(pool, batch).epochIx = EpochIx(pool)
           /\ Distributed(pool, batch).lq = pool.lq
           /\ IsFiniteSet(batch)
           /\ SumOver(RewardOf, batch) \in Nat
           /\ SumOver(ChargeOf, batch) \in Nat
<1>1. IsFiniteSet(batch)
  BY FS_Subset
<1>2. ActualTmp(pool) \in Int
  BY ActualFacts
<1>3. PICK f, g, h, k : /\ f = RewardOf /\ g = [s \in batch |-> Reward(pool, bundles[s])]
                        /\ h = ChargeOf /\ k = [s \in batch |-> ChargedTmp(pool, bundles[s])]
  OBVIOUS
<1>4. \A s \in batch : f[s] \in Nat /\ f[s] \in Int /\ h[s] \in Nat /\ h[s] \in Int
  BY <1>2, <1>3, TermFacts
<1>5. \A s \in batch : g[s] = f[s] /\ k[s] = h[s]
  BY <1>3 DEF RewardOf, ChargeOf
<1>6. SumOver(g, batch) = SumOver(f, batch) /\ SumOver(k, batch) = SumOver(h, batch)
  BY ONLY <1>1, <1>4, <1>5, SumSame
<1>7. SumOver(f, batch) \in Nat /\ SumOver(h, batch) \in Nat
  BY ONLY <1>1, <1>4, SumNat
<1>8. SumFunction(g) = SumOver(g, batch) /\ SumFunction(k) = SumOver(k, batch)
  <2>1. DOMAIN g = batch /\ DOMAIN k = batch
    BY <1>3
  <2> QED
    BY <2>1 DEF SumFunction, SumOver
<1>9. Distributed(pool, batch) =
         [pool EXCEPT !.budget = @ - SumFunction(g), !.tmp = @ + SumFunction(k),
                      !.epochIx = EpochIx(pool)]
  BY <1>3 DEF Distributed
<1>10. PICK p, R, C, x : p = pool /\ R = SumFunction(g) /\ C = SumFunction(k) /\ x = EpochIx(pool)
  OBVIOUS
<1>11. PICK b, l, v, t, y : p = [budget |-> b, lq |-> l, vlq |-> v, tmp |-> t, epochIx |-> y]
  BY <1>10 DEF CustodyInv, PoolShape
<1>12. PICK n : n = [p EXCEPT !.budget = @ - R, !.tmp = @ + C, !.epochIx = x]
  OBVIOUS
<1>13. n.budget = p.budget - R /\ n.tmp = p.tmp + C /\ n.epochIx = x /\ n.lq = p.lq
  BY <1>11, <1>12
<1>14. Distributed(pool, batch) = n
  BY <1>9, <1>10, <1>12
<1> QED
  BY <1>1, <1>3, <1>6, <1>7, <1>8, <1>10, <1>13, <1>14

\* What a batch is charged and paid.
LEMMA BatchFacts ==
    ASSUME CustodyInv, StakeInv, IsFiniteSet(DOMAIN bundles),
           NEW batch \in SUBSET DOMAIN bundles, batch # {}, Distributable(pool, batch),
           AllocRem(pool) \in Nat
    PROVE  /\ SumOver(ChargeOf, batch) \in Nat \ {0}
           /\ SumOver(ChargeOf, batch) <= ActualTmp(pool)
           /\ ActualTmp(pool) \in Nat \ {0}
           /\ SumOver(RewardOf, batch) \in Nat
           /\ ActualTmp(pool) * SumOver(RewardOf, batch)
                 <= AllocRem(pool) * SumOver(ChargeOf, batch)
           /\ SumOver(RewardOf, batch) <= AllocRem(pool)
<1>1. PICK D, f, h, d, w, R, C :
         /\ D = DOMAIN bundles /\ f = RewardOf /\ h = ChargeOf
         /\ d = ActualTmp(pool) /\ w = AllocRem(pool)
         /\ R = SumOver(f, batch) /\ C = SumOver(h, batch)
  OBVIOUS
<1>2. IsFiniteSet(batch) /\ R \in Nat /\ C \in Nat
  BY <1>1, DistributedFacts
<1>3. d = SumOver(h, D) /\ d \in Nat
  BY <1>1, ActualFacts
<1>4. w \in Nat
  BY <1>1
<1>5. C >= 1
  <2>1. \A s \in batch : h[s] \in Nat /\ h[s] >= 1
    BY <1>1, TermFacts DEF Distributable
  <2> QED
    BY <1>1, <1>2, <2>1, SumPositive
<1>6. C <= d
  <2>1. \A s \in D : h[s] \in Nat
    BY <1>1, TermFacts
  <2>2. IsFiniteSet(D) /\ batch \in SUBSET D
    BY <1>1
  <2> QED
    BY <1>1, <1>3, <2>1, <2>2, SumSubset
<1>7. d \in Nat \ {0}
  BY <1>2, <1>3, <1>5, <1>6
<1>8. d * R <= w * C
  <2>1. \A s \in batch : f[s] \in Int /\ h[s] \in Int /\ d * f[s] <= w * h[s]
    <3> SUFFICES ASSUME NEW s \in batch
                 PROVE  f[s] \in Int /\ h[s] \in Int /\ d * f[s] <= w * h[s]
      OBVIOUS
    <3>1. s \in DOMAIN bundles
      OBVIOUS
    <3>2. f[s] \in Nat /\ h[s] \in Nat /\ d * f[s] <= w * h[s]
      BY <1>1, <1>7, <3>1, TermFacts
    <3> QED
      BY <3>2
  <2>2. IsFiniteSet(batch) /\ d \in Int /\ w \in Int
    BY <1>2, <1>4, <1>7
  <2>3. d * SumOver(f, batch) <= w * SumOver(h, batch)
    BY ONLY <2>1, <2>2, SumBound
  <2> QED
    BY <1>1, <2>3
<1>9. R <= w
  <2>1. w * C <= w * d
    BY <1>2, <1>4, <1>6, <1>7
  <2>2. d * R <= d * w + 0
    <3>1. w * C \in Int /\ w * d \in Int /\ w * d = d * w /\ d * R \in Int
      BY <1>2, <1>4, <1>7
    <3> QED
      BY <1>8, <2>1, <3>1
  <2> QED
    BY <1>2, <1>4, <1>7, <2>2, TimesLess
<1> QED
  BY <1>1, <1>2, <1>5, <1>6, <1>7, <1>8, <1>9

\* The contract accepts what distribute_rewards computes, and some of the budget
\* is left.
LEMMA BatchAccepted ==
    ASSUME Validated, CustodyInv, StakeInv, IsFiniteSet(DOMAIN bundles), height \in Nat,
           NEW batch \in SUBSET DOMAIN bundles, batch # {}, Distributable(pool, batch),
           EpochIx(pool) <= EpochNum, EpochIx(pool) < CurrentEpochIx(height),
           NEW next, next = Distributed(pool, batch)
    PROVE  next.budget > 0 /\ AcceptsCompound(pool, next)
<1>1. PICK D, f, h, r, d, w, b, x, R, C :
         /\ D = DOMAIN bundles /\ f = RewardOf /\ h = ChargeOf
         /\ r = EpochsRemain(pool) /\ d = ActualTmp(pool) /\ w = AllocRem(pool)
         /\ b = pool.budget /\ x = (ProgramBudget * r) \div EpochNum
         /\ R = SumOver(f, batch) /\ C = SumOver(h, batch)
  OBVIOUS
<1>2. /\ next.budget = b - R /\ next.tmp = pool.tmp + C /\ next.epochIx = EpochIx(pool)
      /\ IsFiniteSet(batch) /\ R \in Nat /\ C \in Nat
  BY <1>1, DistributedFacts
<1>3. /\ d = SumOver(h, D) /\ d \in Nat
      /\ MaxValue - pool.tmp - pool.lq * r = d
  BY <1>1, ActualFacts
<1>4. /\ r = EpochNum - EpochIx(pool)
      /\ b - r * EpochAlloc <= EpochAlloc + MaxRoundingError
      /\ x \in Nat /\ x + 1 <= b /\ b \in Nat
  <2>1. PICK p : p = pool /\ p.budget \in 1 .. ProgramBudget /\ EpochIx(p) <= EpochNum
    BY DEF StakeInv
  <2>2. /\ EpochsRemain(p) = EpochNum - EpochIx(p)
        /\ p.budget - EpochsRemain(p) * EpochAlloc <= EpochAlloc + MaxRoundingError
        /\ (ProgramBudget * EpochsRemain(p)) \div EpochNum \in Nat
        /\ (ProgramBudget * EpochsRemain(p)) \div EpochNum + 1 <= p.budget
    BY <2>1, OwedFacts
  <2>3. p.budget \in Nat
    BY <2>1, ConstantFacts
  <2> QED
    BY <1>1, <2>1, <2>2, <2>3
<1>5. w = b - x - 1 /\ w \in Nat
  <2>1. w = SatSub(SatSub(b, x), 1)
    BY <1>1 DEF AllocRem
  <2> QED
    BY <1>4, <2>1 DEF SatSub
<1>6. C \in Nat \ {0} /\ d \in Nat \ {0} /\ d * R <= w * C /\ R <= w
  BY <1>1, <1>5, BatchFacts
<1>7. R <= (w * C) \div d
  <2>1. w * C \in Int
    BY <1>2, <1>5
  <2> QED
    BY <1>2, <1>6, <2>1, Below
<1>8. next.budget > 0
  BY <1>2, <1>4, <1>5, <1>6
<1>9. AcceptsCompound(pool, next)
  <2>1. next.epochIx <= CurrentEpochIx(height) - 1
    <3>1. PICK p : p = pool /\ p.budget \in Nat
      BY ConstantFacts DEF StakeInv
    <3>2. EpochIx(p) \in Int
      BY <3>1, RemainNat
    <3>3. CurrentEpochIx(height) \in Int
      BY CurrentInt
    <3> QED
      BY <1>2, <3>1, <3>2, <3>3
  <2>2. EpochNum - next.epochIx = r
    BY <1>2, <1>4
  <2>3. pool.tmp \in Int
    BY DEF StakeInv
  <2>4. next.tmp > pool.tmp /\ next.tmp - pool.tmp = C
    BY <1>2, <1>6, <2>3
  <2>5. pool.budget - next.budget = R
    BY <1>1, <1>2, <1>4
  <2>6. pool.budget - (ProgramBudget * r) \div EpochNum - 1 = w
    BY <1>1, <1>4, <1>5
  <2>7. d > 0
    BY <1>6
  <2>8. pool.budget - r * EpochAlloc <= EpochAlloc + MaxRoundingError
    BY <1>1, <1>4
  <2> QED
    BY <1>3, <1>7, <2>1, <2>2, <2>4, <2>5, <2>6, <2>7, <2>8 DEF AcceptsCompound
<1> QED
  BY <1>8, <1>9
-----------------------------------------------------------------------------
LEMMA InitReward == PoolInit => RewardInv
<1> SUFFICES ASSUME PoolInit PROVE RewardInv
  OBVIOUS
<1>1. height \in Nat /\ ~(pool.lq > 0) /\ DOMAIN bundles = {}
  BY DEF PoolInit
<1> QED
  BY <1>1, FS_EmptySet DEF RewardInv

\* A step that leaves the pool and the bundles alone.
LEMMA RewardFrame ==
    ASSUME RewardInv, pool' = pool, bundles' = bundles, height' \in Nat
    PROVE  RewardInv'
<1>1. StakeInv' <=> StakeInv
  BY DEF StakeInv, TmpOf, Claims, EpochsRemain, EpochIx, EpochCompleted
<1> QED
  BY <1>1 DEF RewardInv

LEMMA CreateReward ==
    ASSUME Validated, RewardInv, CustodyInv, NEW d \in Delegations, d >= EpochNum - 1, Create(d)
    PROVE  RewardInv'
<1>1. PICK n, a, m, t, v, M, x : /\ n = EpochNum /\ a = EpochAlloc /\ m = MaxRoundingError
         /\ t = ProgramBudget /\ v = InitialLq /\ M = MaxValue /\ x = Deployer
  OBVIOUS
<1>2. /\ n \in Nat \ {0} /\ a \in Nat \ {0} /\ m \in Nat /\ t \in Nat /\ t >= n
      /\ v \in Nat \ {0} /\ M \in Nat /\ d \in Nat
  BY <1>1, ConstantFacts, AllocFacts, PoolAssumption
<1>3. /\ DOMAIN bundles = {} /\ height' = height /\ pool' = FreshPool(d)
      /\ bundles' = With(bundles, Deployer, FreshBundle(d))
  BY DEF Create
<1>4. pool'.budget = t /\ pool'.lq = v /\ pool'.tmp = M - v * d
  BY <1>1, <1>3 DEF FreshPool
<1>5. DOMAIN bundles' = {x} /\ bundles'[x].vlq = v /\ bundles'[x].tmp = v * d
  BY <1>1, <1>3 DEF With, FreshBundle
<1>6. v * d \in Nat
  BY <1>2
<1>7. EpochsRemain(pool') \in Nat /\ EpochsRemain(pool') <= n - 1
  <2>1. PICK e \in Nat : t = n * a + e /\ e < n /\ e + m < a
    BY <1>1, ValidFacts
  <2>2. n < m
    BY <1>1 DEF Validated
  <2>3. PICK p : p = pool' /\ p.budget = t
    BY <1>4
  <2>4. PICK q, r : Split(p, q, r)
    BY <1>2, <2>3, Splits
  <2>5. /\ q \in Nat /\ r \in 0 .. a - 1 /\ t = a * q + r
        /\ EpochsRemain(p) = IF r <= m THEN (IF q = 0 THEN 0 ELSE q - 1) ELSE q
    BY <1>1, <2>3, <2>4 DEF Split
  <2>6. t \div a = q /\ t % a = r
    <3>1. t = q * a + r
      BY <1>2, <2>5
    <3> QED
      BY <1>2, <2>5, <3>1, Quotient
  <2>7. t \div a = n /\ t % a = e
    <3>1. e \in 0 .. a - 1
      BY <1>2, <2>1
    <3> QED
      BY <1>2, <2>1, <3>1, Quotient
  <2> QED
    BY <1>2, <2>1, <2>2, <2>3, <2>5, <2>6, <2>7
<1>8. v * d >= EpochsRemain(pool') * v
  <2>1. PICK k : k = EpochsRemain(pool')
    OBVIOUS
  <2>2. k \in Nat /\ k <= d
    BY <1>1, <1>2, <1>7, <2>1
  <2>3. v * k <= v * d /\ v * k = k * v
    BY <1>2, <2>2
  <2> QED
    BY <2>1, <2>3
<1>9. PICK f, g : f = Claims' /\ g = TmpOf'
  OBVIOUS
<1>10. f[x] = v /\ g[x] = v * d
  BY <1>5, <1>9 DEF Claims, TmpOf
<1>11. SumOver(f, {x}) = v /\ SumOver(g, {x}) = v * d
  <2>1. IsFiniteSet({}) /\ x \notin {}
    BY FS_EmptySet
  <2>2. f[x] \in Int /\ g[x] \in Int
    BY <1>2, <1>6, <1>10
  <2>3. {} \cup {x} = {x}
    OBVIOUS
  <2>4. SumOver(f, {} \cup {x}) = f[x] + SumOver(f, {})
    BY <2>1, <2>2, SumAdd
  <2>5. SumOver(g, {} \cup {x}) = g[x] + SumOver(g, {})
    BY <2>1, <2>2, SumAdd
  <2> QED
    BY <1>2, <1>6, <1>10, <2>3, <2>4, <2>5, SumEmpty
<1>12. MaxValue - pool'.tmp = v * d /\ pool'.tmp \in Int /\ pool'.budget \in 1 .. ProgramBudget
  BY <1>1, <1>2, <1>4, <1>6
<1>13. StakeInv'
  BY <1>4, <1>5, <1>6, <1>8, <1>9, <1>11, <1>12 DEF StakeInv
<1>14. IsFiniteSet(DOMAIN bundles')
  <2>1. IsFiniteSet({}) /\ {} \cup {x} = {x}
    BY FS_EmptySet
  <2> QED
    BY <1>5, <2>1, FS_AddElement
<1> QED
  BY <1>3, <1>13, <1>14 DEF RewardInv

LEMMA DepositReward ==
    ASSUME Validated, RewardInv, CustodyInv, NEW s \in Stakers, RunDeposit(s)
    PROVE  RewardInv'
<1>1. /\ s \in DOMAIN orders /\ orders[s].kind = "deposit" /\ height' = height /\ height \in Nat
      /\ pool.lq > 0 /\ StakeInv /\ IsFiniteSet(DOMAIN bundles)
  BY DEF RunDeposit, Live, RewardInv
<1>2. CASE pool' = pool /\ bundles' = bundles
  BY <1>1, <1>2, RewardFrame
<1>3. CASE /\ DepositVerdict(pool, orders[s]) = "ok"
           /\ PrevEpochsCompounded(pool)
           /\ pool' = Deposited(pool, orders[s])
           /\ bundles' = With(bundles, s, [vlq |-> orders[s].lq,
                                tmp |-> NumEpochsRemain(height) * orders[s].lq])
  <2>1. PICK n, r, k, D, f, g, h, j :
           /\ n = orders[s].lq /\ r = NumEpochsRemain(height) /\ k = EpochsRemain(pool)
           /\ D = DOMAIN bundles /\ f = Claims /\ g = Claims' /\ h = TmpOf /\ j = TmpOf'
    OBVIOUS
  <2>2. n \in Nat \ {0} /\ s \notin D
    <3>1. n \in Amounts /\ s \notin D
      BY <1>1, <2>1 DEF CustodyInv, OrdersMatch
    <3> QED
      BY <3>1, ConstantFacts
  <2>3. EpochCompleted(pool) /\ ~(NumEpochsRemain(height) < 1)
    BY <1>3 DEF DepositVerdict
  <2>4. pool.budget \in 1 .. ProgramBudget /\ pool.tmp \in Int /\ pool.lq \in Nat
    BY <1>1 DEF StakeInv, CustodyInv, PoolShape
  <2>5. r \in Nat /\ k \in Nat /\ k <= r
    <3>1. PICK p : p = pool
      OBVIOUS
    <3>2. p.budget \in 1 .. ProgramBudget /\ p.budget \in Nat
      BY <2>4, <3>1, ConstantFacts
    <3>3. EpochsRemain(p) \in Nat
      BY <3>2, RemainNat
    <3>4. NumEpochsRemain(height) \in Nat /\ EpochsRemain(p) <= NumEpochsRemain(height)
      BY <1>1, <1>3, <2>3, <3>1, <3>2, DepositRemain
    <3> QED
      BY <2>1, <3>1, <3>3, <3>4
  <2>6. /\ pool'.budget = pool.budget /\ pool'.lq = pool.lq + n /\ pool'.tmp = pool.tmp - r * n
    BY <1>3, <2>1 DEF Deposited, CustodyInv, PoolShape
  <2>7. /\ DOMAIN bundles' = D \cup {s}
        /\ bundles'[s].vlq = n /\ bundles'[s].tmp = r * n
        /\ \A x \in D : bundles'[x] = bundles[x]
    BY <1>3, <2>1, <2>2 DEF With
  <2>8. EpochsRemain(pool') = k
    BY <2>1, <2>6 DEF EpochsRemain, EpochIx, EpochCompleted
  <2>9. r * n \in Nat /\ k * n <= r * n /\ k * n \in Nat
    BY <2>2, <2>5
  <2>10. \A x \in D \cup {s} :
            bundles'[x].tmp \in Nat /\ bundles'[x].tmp >= k * bundles'[x].vlq
    <3>1. \A x \in D : bundles[x].tmp \in Nat /\ bundles[x].tmp >= k * bundles[x].vlq
      BY <1>1, <2>1 DEF StakeInv
    <3> QED
      BY <2>7, <2>9, <3>1
  <2>11. /\ \A x \in D : f[x] \in Int /\ g[x] = f[x] /\ h[x] \in Int /\ j[x] = h[x]
         /\ g[s] = n /\ j[s] = r * n
    <3>1. \A x \in D : f[x] \in Nat /\ h[x] \in Nat
      BY <1>1, <2>1, TermFacts
    <3>2. \A x \in D : g[x] = f[x] /\ j[x] = h[x]
      BY <2>1, <2>7 DEF Claims, TmpOf
    <3>3. g[s] = n /\ j[s] = r * n
      BY <2>1, <2>7 DEF Claims, TmpOf
    <3> QED
      BY <3>1, <3>2, <3>3
  <2>12. SumOver(g, D \cup {s}) = n + SumOver(f, D)
    <3>1. IsFiniteSet(D) /\ g[s] \in Int
      BY <1>1, <2>1, <2>2, <2>11
    <3> QED
      BY <2>2, <2>11, <3>1, SumWith
  <2>13. SumOver(j, D \cup {s}) = r * n + SumOver(h, D)
    <3>1. IsFiniteSet(D) /\ j[s] \in Int
      BY <1>1, <2>1, <2>9, <2>11
    <3> QED
      BY <2>2, <2>11, <3>1, SumWith
  <2>14. pool.lq = SumOver(f, D) /\ MaxValue - pool.tmp = SumOver(h, D)
    BY <1>1, <2>1 DEF StakeInv
  <2>15. pool'.lq = SumOver(g, D \cup {s})
    BY <2>2, <2>4, <2>6, <2>12, <2>14
  <2>16. MaxValue - pool'.tmp = SumOver(j, D \cup {s}) /\ pool'.tmp \in Int
    BY <2>4, <2>6, <2>9, <2>13, <2>14, ConstantFacts
  <2>17. StakeInv'
    BY <2>1, <2>4, <2>6, <2>7, <2>8, <2>10, <2>15, <2>16 DEF StakeInv
  <2>18. IsFiniteSet(D \cup {s})
    BY <1>1, <2>1, FS_AddElement
  <2> QED
    BY <1>1, <2>7, <2>17, <2>18 DEF RewardInv
<1> QED
  BY <1>2, <1>3 DEF RunDeposit

LEMMA RedeemReward ==
    ASSUME RewardInv, CustodyInv, NEW s \in Stakers, RunRedeem(s)
    PROVE  RewardInv'
<1>1. /\ s \in DOMAIN orders /\ orders[s].kind = "redeem" /\ height' = height /\ height \in Nat
      /\ pool.lq > 0 /\ StakeInv /\ IsFiniteSet(DOMAIN bundles)
  BY DEF RunRedeem, Live, RewardInv
<1>2. CASE pool' = pool /\ bundles' = bundles
  BY <1>1, <1>2, RewardFrame
<1>3. CASE /\ RedeemVerdict(pool, bundles[s], orders[s]) = "ok"
           /\ pool' = Redeemed(pool, bundles[s], orders[s])
           /\ bundles' = Without(bundles, s)
  <2>1. PICK n, t, k, D, f, g, h, j :
           /\ n = bundles[s].vlq /\ t = bundles[s].tmp /\ k = EpochsRemain(pool)
           /\ D = DOMAIN bundles /\ f = Claims /\ g = Claims' /\ h = TmpOf /\ j = TmpOf'
    OBVIOUS
  <2>2. orders[s].lq = n
    BY <1>3, <2>1 DEF RedeemVerdict
  <2>3. s \in D
    BY <1>1, <2>1 DEF CustodyInv, OrdersMatch
  <2>4. f[s] = n /\ h[s] = t
    BY <2>1, <2>3 DEF Claims, TmpOf
  <2>5. \A x \in D : f[x] \in Nat /\ h[x] \in Nat
    BY <1>1, <2>1, TermFacts
  <2>6. pool.budget \in 1 .. ProgramBudget /\ pool.tmp \in Int /\ pool.lq \in Nat
    BY <1>1 DEF StakeInv, CustodyInv, PoolShape
  <2>7. /\ pool'.budget = pool.budget /\ pool'.lq = pool.lq - n /\ pool'.tmp = pool.tmp + t
    BY <1>3, <2>1, <2>2 DEF Redeemed, CustodyInv, PoolShape
  <2>8. DOMAIN bundles' = D \ {s} /\ \A x \in D \ {s} : bundles'[x] = bundles[x]
    BY <1>3, <2>1 DEF Without
  <2>9. EpochsRemain(pool') = k
    BY <2>1, <2>7 DEF EpochsRemain, EpochIx, EpochCompleted
  <2>10. \A x \in D \ {s} : g[x] = f[x] /\ j[x] = h[x]
    BY <2>1, <2>8 DEF Claims, TmpOf
  <2>11. IsFiniteSet(D)
    BY <1>1, <2>1
  <2>12. \A x \in D : f[x] \in Int /\ h[x] \in Int
    BY <2>5
  <2>13. SumOver(g, D \ {s}) = SumOver(f, D) - f[s]
    <3>1. PICK T : T = D \ {s}
      OBVIOUS
    <3>2. \A x \in D : f[x] \in Int
      BY <2>12
    <3>3. \A x \in T : g[x] = f[x]
      BY <2>10, <3>1
    <3>4. SumOver(g, T) = SumOver(f, D) - f[s]
      BY ONLY <2>3, <2>11, <3>1, <3>2, <3>3, SumWithout
    <3> QED
      BY <3>1, <3>4
  <2>14. SumOver(j, D \ {s}) = SumOver(h, D) - h[s]
    <3>1. PICK T : T = D \ {s}
      OBVIOUS
    <3>2. \A x \in D : h[x] \in Int
      BY <2>12
    <3>3. \A x \in T : j[x] = h[x]
      BY <2>10, <3>1
    <3>4. SumOver(j, T) = SumOver(h, D) - h[s]
      BY ONLY <2>3, <2>11, <3>1, <3>2, <3>3, SumWithout
    <3> QED
      BY <3>1, <3>4
  <2>15. pool.lq = SumOver(f, D) /\ MaxValue - pool.tmp = SumOver(h, D)
    BY <1>1, <2>1 DEF StakeInv
  <2>16. n \in Nat /\ t \in Nat
    BY <2>3, <2>4, <2>5
  <2>17. pool'.lq = SumOver(g, D \ {s})
    BY <2>4, <2>7, <2>13, <2>15
  <2>18. MaxValue - pool'.tmp = SumOver(j, D \ {s}) /\ pool'.tmp \in Int
    BY <2>4, <2>6, <2>7, <2>14, <2>15, <2>16, ConstantFacts
  <2>19. \A x \in D \ {s} :
            bundles'[x].tmp \in Nat /\ bundles'[x].tmp >= k * bundles'[x].vlq
    <3>1. \A x \in D : bundles[x].tmp \in Nat /\ bundles[x].tmp >= k * bundles[x].vlq
      BY <1>1, <2>1 DEF StakeInv
    <3> QED
      BY <2>8, <3>1
  <2>20. StakeInv'
    BY <2>1, <2>6, <2>7, <2>8, <2>9, <2>17, <2>18, <2>19 DEF StakeInv
  <2>21. IsFiniteSet(D \ {s})
    BY <2>11, FS_RemoveElement
  <2> QED
    BY <1>1, <2>8, <2>20, <2>21 DEF RewardInv
<1> QED
  BY <1>2, <1>3 DEF RunRedeem

\* What a compound makes of a bundle.
LEMMA CompoundedBundle ==
    ASSUME CustodyInv, NEW batch \in Batches, NEW fund \in Funds, RunCompound(batch, fund),
           NEW s \in DOMAIN bundles
    PROVE  /\ DOMAIN bundles' = DOMAIN bundles
           /\ bundles'[s].vlq = Claims[s]
           /\ bundles'[s].tmp = IF s \in batch THEN TmpOf[s] - ChargeOf[s] ELSE TmpOf[s]
<1>1. bundles' = [y \in DOMAIN bundles |->
                    IF y \in batch
                    THEN [bundles[y] EXCEPT !.tmp = @ - ChargedTmp(pool, bundles[y])]
                    ELSE bundles[y]]
  BY DEF RunCompound
<1>2. PICK b, v, t, x : /\ b = bundles[s] /\ v = b.vlq /\ t = b.tmp
                        /\ x = ChargedTmp(pool, bundles[s])
  OBVIOUS
<1>3. b = [vlq |-> v, tmp |-> t]
  BY <1>2 DEF CustodyInv, BundleShape
<1>4. Claims[s] = v /\ TmpOf[s] = t /\ ChargeOf[s] = x
  BY <1>2 DEF Claims, TmpOf, ChargeOf
<1>5. bundles'[s] = IF s \in batch THEN [b EXCEPT !.tmp = @ - x] ELSE b
  BY <1>1, <1>2
<1>6. [b EXCEPT !.tmp = @ - x].vlq = v /\ [b EXCEPT !.tmp = @ - x].tmp = t - x
  BY <1>3
<1> QED
  BY <1>1, <1>2, <1>4, <1>5, <1>6

LEMMA CompoundReward ==
    ASSUME RewardInv, CustodyInv, NEW batch \in Batches, NEW fund \in Funds,
           RunCompound(batch, fund)
    PROVE  RewardInv'
<1>1. /\ pool.lq > 0 /\ StakeInv /\ IsFiniteSet(DOMAIN bundles) /\ height' = height
      /\ height \in Nat /\ batch \in SUBSET DOMAIN bundles
      /\ pool' = Distributed(pool, batch) /\ pool'.budget > 0
  BY DEF RunCompound, Live, RewardInv, Batches
<1>2. PICK D, f, g, h, c, k, l, R, C :
         /\ D = DOMAIN bundles /\ f = Claims /\ g = Claims' /\ h = TmpOf /\ c = ChargeOf
         /\ k = EpochsRemain(pool) /\ l = EpochsRemain(pool')
         /\ R = SumOver(RewardOf, batch) /\ C = SumOver(ChargeOf, batch)
  OBVIOUS
<1>3. /\ pool'.budget = pool.budget - R /\ pool'.tmp = pool.tmp + C /\ pool'.lq = pool.lq
      /\ R \in Nat /\ C \in Nat
  BY <1>1, <1>2, DistributedFacts
<1>4. pool.budget \in 1 .. ProgramBudget /\ pool.tmp \in Int
  BY <1>1 DEF StakeInv
<1>5. pool'.budget \in 1 .. ProgramBudget
  BY <1>1, <1>3, <1>4, ConstantFacts
<1>6. k \in Nat /\ l \in Nat /\ l <= k
  <2>1. PICK p, o : p = pool' /\ o = pool
    OBVIOUS
  <2>2. p.budget \in Nat /\ o.budget \in Nat /\ p.budget <= o.budget
    BY <1>3, <1>4, <1>5, <2>1, ConstantFacts
  <2>3. EpochsRemain(p) \in Nat /\ EpochsRemain(o) \in Nat /\ EpochsRemain(p) <= EpochsRemain(o)
    BY <2>2, RemainNat, RemainMonotone
  <2> QED
    BY <1>2, <2>1, <2>3
<1>7. DOMAIN bundles' = D
  BY <1>2 DEF RunCompound
<1>8. \A s \in D : /\ bundles'[s].vlq = f[s]
                   /\ bundles'[s].tmp = IF s \in batch THEN h[s] - c[s] ELSE h[s]
  BY <1>2, CompoundedBundle
<1>9. \A s \in D : /\ f[s] \in Nat /\ h[s] \in Nat /\ c[s] \in Nat
                    /\ c[s] = h[s] - k * f[s]
  BY <1>1, <1>2, TermFacts
<1>10. \A s \in D : h[s] >= k * f[s]
  BY <1>1, <1>2 DEF StakeInv, TmpOf, Claims
<1>11. ASSUME NEW s \in D
       PROVE  bundles'[s].tmp \in Nat /\ bundles'[s].tmp >= l * bundles'[s].vlq
  <2>1. PICK v, t, x, u : v = f[s] /\ t = h[s] /\ x = c[s] /\ u = bundles'[s].tmp
    OBVIOUS
  <2>2. /\ v \in Nat /\ t \in Nat /\ x = t - k * v /\ t >= k * v
        /\ u = IF s \in batch THEN t - x ELSE t
    BY <1>8, <1>9, <1>10, <2>1
  <2>3. k * v \in Nat /\ l * v <= k * v /\ l * v \in Nat
    BY <1>6, <2>2
  <2>4. u \in Nat /\ u >= l * v
    BY <2>2, <2>3
  <2> QED
    BY <1>8, <2>1, <2>4
<1>12. g = f
  BY <1>2, <1>7, <1>8 DEF Claims
<1>13. SumOver(TmpOf', D) = SumOver(h, D) - SumOver(c, batch)
  <2>1. PICK j : j = TmpOf'
    OBVIOUS
  <2>2. \A s \in D : /\ h[s] \in Int /\ c[s] \in Int
                     /\ j[s] = IF s \in batch THEN h[s] - c[s] ELSE h[s]
    BY <1>7, <1>8, <1>9, <2>1 DEF TmpOf
  <2>3. IsFiniteSet(D) /\ batch \in SUBSET D
    BY <1>1, <1>2
  <2>4. SumOver(j, D) = SumOver(h, D) - SumOver(c, batch)
    BY ONLY <2>2, <2>3, SumLess
  <2> QED
    BY <2>1, <2>4
<1>14. pool.lq = SumOver(f, D) /\ MaxValue - pool.tmp = SumOver(h, D)
  BY <1>1, <1>2 DEF StakeInv
<1>15. MaxValue - pool'.tmp = SumOver(TmpOf', D) /\ pool'.tmp \in Int
  BY <1>2, <1>3, <1>4, <1>13, <1>14, ConstantFacts
<1>16. StakeInv'
  BY <1>2, <1>3, <1>5, <1>7, <1>11, <1>12, <1>14, <1>15 DEF StakeInv
<1> QED
  BY <1>1, <1>2, <1>7, <1>16 DEF RewardInv

LEMMA RewardStep ==
    ASSUME Validated, DelegatesAll, RewardInv, CustodyInv, [LmPoolNext]_poolVars
    PROVE  RewardInv'
<1>1. CASE NewBlock
  <2>1. pool' = pool /\ bundles' = bundles /\ height' \in Nat
    BY <1>1 DEF NewBlock, RewardInv
  <2> QED
    BY <2>1, RewardFrame
<1>2. CASE UNCHANGED poolVars
  <2>1. pool' = pool /\ bundles' = bundles /\ height' \in Nat
    BY <1>2 DEF poolVars, RewardInv
  <2> QED
    BY <2>1, RewardFrame
<1>3. CASE SomeCompound
  BY <1>3, CompoundReward DEF SomeCompound
<1>4. ASSUME NEW s \in Stakers, NEW n \in Amounts, NEW erg \in Ergs,
             AskDeposit(s, n, erg) \/ AskRedeem(s, n, erg)
      PROVE  RewardInv'
  <2>1. pool' = pool /\ bundles' = bundles /\ height' \in Nat
    BY <1>4 DEF AskDeposit, AskRedeem, RewardInv
  <2> QED
    BY <2>1, RewardFrame
<1>5. ASSUME NEW s \in Stakers, RunOrder(s)
      PROVE  RewardInv'
  BY <1>5, DepositReward, RedeemReward DEF RunOrder
<1>6. ASSUME NEW d \in Delegations, Create(d)
      PROVE  RewardInv'
  BY <1>6, CreateReward DEF DelegatesAll
<1> QED
  BY <1>1, <1>2, <1>3, <1>4, <1>5, <1>6 DEF LmPoolNext, PoolNext

LEMMA RewardAccepted ==
    ASSUME Validated, RewardInv, CustodyInv
    PROVE  CompoundsAccepted
<1> SUFFICES ASSUME Live
             PROVE  /\ NextEpoch(pool) = EpochIx(pool)
                    /\ EpochIx(pool) <= EpochNum /\ EpochIx(pool) < CurrentEpochIx(height) =>
                          \A batch \in Batches : Distributable(pool, batch) =>
                              \A next \in {Distributed(pool, batch)} :
                                  next.budget > 0 /\ AcceptsCompound(pool, next)
  BY DEF CompoundsAccepted
<1>1. StakeInv /\ IsFiniteSet(DOMAIN bundles) /\ height \in Nat
  BY DEF Live, RewardInv
<1>2. NextEpoch(pool) = EpochIx(pool)
  <2>1. pool.budget \in Nat /\ MaxRoundingError < EpochAlloc
    BY <1>1, ConstantFacts, ValidFacts DEF StakeInv
  <2> QED
    BY <2>1, EpochsAgree
<1>3. ASSUME EpochIx(pool) <= EpochNum, EpochIx(pool) < CurrentEpochIx(height),
             NEW batch \in Batches, Distributable(pool, batch),
             NEW next \in {Distributed(pool, batch)}
      PROVE  next.budget > 0 /\ AcceptsCompound(pool, next)
  <2>1. batch \in SUBSET DOMAIN bundles /\ Cardinality(batch) \in 1 .. BatchSize
    BY DEF Batches
  <2>2. BatchSize \in Nat
    BY PoolAssumption
  <2>3. batch # {}
    BY <2>1, <2>2, FS_EmptySet
  <2>4. next = Distributed(pool, batch)
    OBVIOUS
  <2> QED
    BY <1>1, <1>3, <2>1, <2>3, <2>4, BatchAccepted
<1> QED
  BY <1>2, <1>3

(***************************************************************************)
(* If the first bundle is created for all epochs but the first at least    *)
(* and the program is one that validate_pool lets through, then the        *)
(* contract never refuses a batch of distribute_rewards for an epoch that  *)
(* is over, and never is the whole budget paid, whatever was deposited,    *)
(* redeemed and compounded in between.                                     *)
(***************************************************************************)
THEOREM PoolCompoundsAccepted ==
    ASSUME Validated, DelegatesAll
    PROVE  LmPoolSpec => []CompoundsAccepted
<1>1. PoolInit => CustodyInv /\ RewardInv
  BY InitCustody, InitReward
<1>2. CustodyInv /\ RewardInv /\ [LmPoolNext]_poolVars => CustodyInv' /\ RewardInv'
  BY PoolStep, RewardStep
<1>3. CustodyInv /\ RewardInv => CompoundsAccepted
  BY RewardAccepted
<1> QED
  BY <1>1, <1>2, <1>3, PTL DEF LmPoolSpec

\* The tool creates a pool only of a program it has validated.
ToolInv ==
    /\ input \in Delegations
    /\ CustodyInv
    /\ Validated => RewardInv
    /\ Validated \/ (pool.lq = 0 /\ tool \notin {"building", "submitting"})

LEMMA ToolInit == DeployInit => ToolInv
<1> SUFFICES ASSUME DeployInit PROVE ToolInv
  OBVIOUS
<1>1. input \in Delegations /\ PoolInit /\ tool = "idle"
  BY DEF DeployInit
<1>2. pool.lq = 0
  BY <1>1 DEF PoolInit
<1> QED
  BY <1>1, <1>2, InitCustody, InitReward DEF ToolInv

LEMMA ToolStep ==
    ASSUME DelegatesAll, ToolInv, [ProgramNext]_programVars
    PROVE  ToolInv'
<1>1. (input \in Delegations)' /\ [LmPoolNext]_poolVars
  BY ProgramStep DEF ToolInv
<1>2. CustodyInv'
  BY <1>1, PoolStep DEF ToolInv
<1>3. Validated => RewardInv'
  BY <1>1, RewardStep DEF ToolInv
<1>4. ASSUME ~Validated
      PROVE  pool'.lq = 0 /\ tool' \notin {"building", "submitting"}
  <2>1. pool.lq = 0 /\ tool \notin {"building", "submitting"} /\ ~Live
    BY <1>4 DEF ToolInv, Live
  <2>2. CASE StartTool
    <3>1. ~ValidatePool
      BY <1>4 DEF ValidatePool, Validated, EpochAlloc
    <3>2. tool' = "refused" /\ pool' = pool
      BY <2>2, <3>1 DEF StartTool, poolVars
    <3> QED
      BY <2>1, <3>2
  <2>3. CASE GatherTokens \/ MintToken \/ PoolInput \/ InitPool
    BY <2>1, <2>3, Zenon DEF GatherTokens, MintToken, PoolInput, InitPool
  <2>4. CASE SubmitTx \/ SubmitFails
    BY <2>1, <2>4 DEF SubmitTx, SubmitFails
  <2>5. CASE PoolNext /\ UNCHANGED toolVars
    <3>1. tool' = tool
      BY <2>5 DEF toolVars
    <3>2. NewBlock
      BY <2>1, <2>5 DEF PoolNext, SomeCompound, RunCompound, AskDeposit, AskRedeem, RunOrder,
                        RunDeposit, RunRedeem
    <3> QED
      BY <2>1, <3>1, <3>2 DEF NewBlock
  <2>6. CASE UNCHANGED programVars
    BY <2>1, <2>6 DEF programVars, poolVars, toolVars
  <2> QED
    BY <2>2, <2>3, <2>4, <2>5, <2>6 DEF ProgramNext, DeployNext
<1> QED
  BY <1>1, <1>2, <1>3, <1>4 DEF ToolInv

(***************************************************************************)
(* The same of a program that the deployment tool creates: what the tool   *)
(* validates (validate_pool of spectrum-deploy-lm-pool/src/main.rs) is     *)
(* enough, but for num_epochs_to_delegate, which it does not look at.      *)
(***************************************************************************)
THEOREM ProgramCompoundsAccepted ==
    ASSUME DelegatesAll
    PROVE  ProgramSpec => []CompoundsAccepted
<1>1. DeployInit => ToolInv
  BY ToolInit
<1>2. ToolInv /\ [ProgramNext]_programVars => ToolInv'
  BY ToolStep
<1>3. ToolInv => CompoundsAccepted
  <2>1. ToolInv /\ Validated => CompoundsAccepted
    BY RewardAccepted DEF ToolInv
  <2>2. ToolInv /\ ~Validated => CompoundsAccepted
    BY DEF ToolInv, CompoundsAccepted, Live
  <2> QED
    BY <2>1, <2>2
<1> QED
  BY <1>1, <1>2, <1>3, PTL DEF ProgramSpec
-----------------------------------------------------------------------------
\* A bundle has the same number of temporal tokens for each virtual one.
WholeEpochs == \A s \in DOMAIN bundles : \E j \in Nat : bundles[s].tmp = bundles[s].vlq * j

\* The reward of a bundle is rounded by less than one token.
LEMMA RoundingFacts ==
    ASSUME CustodyInv, StakeInv, WholeEpochs, NEW s \in DOMAIN bundles,
           AllocRem(pool) \in Nat, ActualTmp(pool) \in Nat \ {0}
    PROVE  AllocRem(pool) * ChargeOf[s]
              <= ActualTmp(pool) * RewardOf[s] + (ActualTmp(pool) - 1)
<1>1. PICK v, t, r, d, w, k, y :
         /\ v = bundles[s].vlq /\ t = bundles[s].tmp /\ r = EpochsRemain(pool)
         /\ d = ActualTmp(pool) /\ w = AllocRem(pool)
         /\ k = EpochsBurned(pool, bundles[s]) /\ y = Reward(pool, bundles[s])
  OBVIOUS
<1>2. PICK j \in Nat : t = v * j
  BY <1>1 DEF WholeEpochs
<1>3. v \in Nat \ {0} /\ t >= r * v
  BY <1>1, ConstantFacts DEF CustodyInv, BundleShape, StakeInv
<1>4. r \in Nat
  <2>1. PICK p : p = pool /\ p.budget \in Nat
    BY ConstantFacts DEF StakeInv
  <2>2. EpochsRemain(p) \in Nat
    BY <2>1, RemainNat
  <2> QED
    BY <1>1, <2>1, <2>2
<1>5. ChargeOf[s] = t - r * v /\ RewardOf[s] = y
  BY <1>1 DEF ChargeOf, RewardOf, ChargedTmp
<1>6. t \div v = j
  <2>1. t = j * v + 0 /\ t \in Nat /\ 0 \in 0 .. v - 1
    BY <1>2, <1>3
  <2> QED
    BY <1>3, <2>1, Quotient
<1>7. r <= j
  <2>1. v * r <= v * j + 0
    BY <1>2, <1>3, <1>4
  <2>2. 0 < v
    BY <1>3
  <2> QED
    BY <1>3, <1>4, <2>1, <2>2, TimesLess
<1>8. k = j - r
  BY <1>1, <1>4, <1>6, <1>7 DEF EpochsBurned, SatSub
<1>9. v * k = t - r * v /\ v * k \in Nat
  BY <1>2, <1>3, <1>4, <1>7, <1>8
<1>10. d \in Nat \ {0} /\ w \in Nat
  BY <1>1
<1>11. PICK x : x = w * v * k
  OBVIOUS
<1>12. x = w * (v * k) /\ x \in Nat
  <2>1. w * v * k = w * (v * k)
    BY <1>3, <1>4, <1>7, <1>8, <1>10
  <2>2. w * (v * k) \in Nat
    BY <1>9, <1>10
  <2> QED
    BY <1>11, <2>1, <2>2
<1>13. y = x \div d
  BY <1>1, <1>10, <1>11 DEF Reward
<1>14. y \in Nat /\ x <= d * y + (d - 1)
  <2>1. x = d * (x \div d) + (x % d) /\ x % d \in 0 .. d - 1 /\ x \div d \in Nat
    BY <1>10, <1>12, Quotients
  <2>2. d * (x \div d) \in Nat
    BY <1>10, <2>1
  <2> QED
    BY <1>10, <1>12, <1>13, <2>1, <2>2
<1> QED
  BY <1>1, <1>5, <1>9, <1>12, <1>14

\* When a batch is charged all that is left, what is owed is paid but for less
\* than one token for each bundle.
LEMMA LastBatch ==
    ASSUME CustodyInv, StakeInv, WholeEpochs, IsFiniteSet(DOMAIN bundles),
           NEW batch \in SUBSET DOMAIN bundles, batch # {}, Distributable(pool, batch),
           AllocRem(pool) \in Nat,
           \A s \in DOMAIN bundles \ batch : ChargeOf[s] = 0
    PROVE  AllocRem(pool) + 1 <= SumOver(RewardOf, batch) + Cardinality(batch)
<1>1. PICK D, f, h, d, w, R, C, N :
         /\ D = DOMAIN bundles /\ f = RewardOf /\ h = ChargeOf
         /\ d = ActualTmp(pool) /\ w = AllocRem(pool)
         /\ R = SumOver(f, batch) /\ C = SumOver(h, batch) /\ N = Cardinality(batch)
  OBVIOUS
<1>2. R \in Nat /\ C \in Nat /\ d \in Nat \ {0} /\ w \in Nat
  BY <1>1, BatchFacts
<1>3. IsFiniteSet(batch) /\ N \in Nat \ {0}
  <2>1. IsFiniteSet(batch)
    BY FS_Subset
  <2> QED
    BY <1>1, <2>1, FS_EmptySet, FS_CardinalityType
<1>4. \A s \in D : f[s] \in Nat /\ h[s] \in Nat /\ w * h[s] <= d * f[s] + (d - 1)
  <2> SUFFICES ASSUME NEW s \in DOMAIN bundles
               PROVE  f[s] \in Nat /\ h[s] \in Nat /\ w * h[s] <= d * f[s] + (d - 1)
    BY <1>1
  <2>1. f[s] \in Nat /\ h[s] \in Nat
    BY <1>1, <1>2, TermFacts
  <2>2. AllocRem(pool) * ChargeOf[s]
          <= ActualTmp(pool) * RewardOf[s] + (ActualTmp(pool) - 1)
    BY <1>1, <1>2, RoundingFacts
  <2> QED
    BY <1>1, <2>1, <2>2
<1>5. C = d
  <2>1. /\ IsFiniteSet(D) /\ batch \in SUBSET D /\ \A s \in D : h[s] \in Int
        /\ \A s \in D \ batch : h[s] = 0
    BY <1>1, <1>4
  <2>2. SumOver(h, D) = SumOver(h, batch)
    BY ONLY <2>1, SumZero
  <2> QED
    BY <1>1, <2>2, ActualFacts
<1>6. w * C <= d * R + (d - 1) * N
  <2>1. \A s \in batch : h[s] \in Int /\ f[s] \in Int /\ w * h[s] <= d * f[s] + (d - 1)
    BY <1>1, <1>4
  <2>2. IsFiniteSet(batch) /\ w \in Int /\ d \in Int /\ d - 1 \in Int
    BY <1>2, <1>3
  <2>3. w * SumOver(h, batch) <= d * SumOver(f, batch) + (d - 1) * Cardinality(batch)
    BY ONLY <2>1, <2>2, SumGap
  <2> QED
    BY <1>1, <2>3
<1>7. d * w <= d * (R + N - 1) + (d - 1)
  <2>1. (d - 1) * N = d * N - N /\ d * (R + N - 1) = d * R + d * N - d /\ w * C = d * w
    BY <1>2, <1>3, <1>5
  <2>2. d * N \in Int /\ d * R \in Int /\ d * w \in Int
    BY <1>2, <1>3
  <2> QED
    BY <1>2, <1>3, <1>6, <2>1, <2>2
<1>8. w <= R + N - 1
  <2>1. R + N - 1 \in Int /\ d - 1 \in Int /\ d - 1 < d
    BY <1>2, <1>3
  <2> QED
    BY <1>2, <1>7, <2>1, TimesLess
<1> QED
  BY <1>1, <1>2, <1>3, <1>8

\* An epoch that is open is the one last paid for; when nobody is left to be
\* paid, what is open is due to rounding.
OpenEpoch ==
    /\ pool.epochIx = EpochIx(pool)
    /\ (\A s \in DOMAIN bundles : ChargeOf[s] = 0)
          => pool.budget <= (ProgramBudget * EpochsRemain(pool)) \div EpochNum + lastBatch

StuckInv ==
    /\ WholeEpochs
    /\ lastBatch \in Nat
    /\ pool.lq > 0 /\ ~EpochCompleted(pool) => OpenEpoch

LEMMA CompoundOpens ==
    ASSUME Validated, CustodyInv, RewardInv, WholeEpochs, NEW batch \in Batches,
           NEW fund \in Funds, RunCompound(batch, fund), ~EpochCompleted(pool')
    PROVE  OpenEpoch'
<1>1. /\ StakeInv /\ IsFiniteSet(DOMAIN bundles) /\ batch \in SUBSET DOMAIN bundles
      /\ pool' = Distributed(pool, batch) /\ Distributable(pool, batch)
      /\ lastBatch' = Cardinality(batch) /\ pool'.budget > 0
  BY DEF RunCompound, Live, RewardInv, Batches
<1>2. batch # {}
  BY PoolAssumption, FS_EmptySet DEF Batches
<1>3. PICK p, o, n, a, m, t, b, c, R, i :
         /\ p = pool /\ o = pool' /\ n = EpochNum /\ a = EpochAlloc /\ m = MaxRoundingError
         /\ t = ProgramBudget /\ b = p.budget /\ c = o.budget
         /\ R = SumOver(RewardOf, batch) /\ i = EpochIx(p)
  OBVIOUS
<1>4. c = b - R /\ o.epochIx = i /\ R \in Nat
  BY <1>1, <1>3, DistributedFacts
<1>5. /\ n \in Nat \ {0} /\ a \in Nat \ {0} /\ m \in Nat /\ t \in Nat /\ m < a
      /\ b \in 1 .. t /\ b \in Nat /\ c \in Nat
  BY <1>1, <1>3, <1>4, ConstantFacts, AllocFacts, ValidFacts DEF StakeInv
<1>6. PICK q, r : Split(p, q, r)
  BY <1>3, <1>5, Splits
<1>7. PICK k, z : Split(o, k, z)
  BY <1>3, <1>5, Splits
<1>8. /\ q \in Nat /\ r \in 0 .. a - 1 /\ b = a * q + r
      /\ i = IF r <= m THEN n + 1 - q ELSE n - q
  BY <1>3, <1>6 DEF Split
<1>9. /\ k \in Nat /\ z \in 0 .. a - 1 /\ c = a * k + z /\ ~(z <= m)
      /\ EpochIx(o) = n - k /\ EpochsRemain(o) = k
  BY <1>3, <1>7 DEF Split
<1>10. i <= n
  <2> SUFFICES ASSUME ~(i <= n)
               PROVE  FALSE
    OBVIOUS
  <2>1. r <= m /\ q = 0
    BY <1>5, <1>8
  <2>2. b <= m
    BY <1>5, <1>8, <2>1
  <2>3. a * k \in Nat
    BY <1>5, <1>9
  <2>4. c > m
    BY <1>5, <1>9, <2>3
  <2> QED
    BY <1>4, <1>5, <2>2, <2>4
<1>11. PICK w, x : w = EpochsRemain(p) /\ x = (t * w) \div n
  OBVIOUS
<1>12. /\ w = n - i /\ b - w * a <= a + m /\ x \in Nat /\ x + 1 <= b
  <2>1. p.budget \in 1 .. ProgramBudget /\ EpochIx(p) <= EpochNum
    BY <1>3, <1>5, <1>10
  <2>2. /\ EpochsRemain(p) = EpochNum - EpochIx(p)
        /\ p.budget - EpochsRemain(p) * EpochAlloc <= EpochAlloc + MaxRoundingError
        /\ (ProgramBudget * EpochsRemain(p)) \div EpochNum \in Nat
        /\ (ProgramBudget * EpochsRemain(p)) \div EpochNum + 1 <= p.budget
    BY <2>1, OwedFacts
  <2> QED
    BY <1>3, <1>11, <2>2
<1>13. w \in Nat
  <2>1. EpochsRemain(p) \in Nat
    BY <1>3, <1>5, RemainNat
  <2> QED
    BY <1>11, <2>1
<1>14. AllocRem(pool) = b - x - 1 /\ AllocRem(pool) \in Nat
  <2>1. AllocRem(pool) = SatSub(SatSub(b, x), 1)
    BY <1>3, <1>11 DEF AllocRem
  <2> QED
    BY <1>5, <1>12, <2>1 DEF SatSub
<1>15. R <= b - x - 1
  BY <1>1, <1>2, <1>3, <1>14, BatchFacts
<1>16. a * w <= x
  BY <1>3, <1>11, <1>13, LaterFacts
<1>17. k = w
  <2>1. a * w \in Int /\ a * k \in Int /\ w * a = a * w /\ a * (w + 1) = a * w + a
    BY <1>5, <1>9, <1>13
  <2>2. a * w <= a * k + (z - 1)
    BY <1>4, <1>5, <1>9, <1>12, <1>15, <1>16, <2>1
  <2>3. w <= k
    <3>1. z - 1 \in Int /\ z - 1 < a
      BY <1>5, <1>9
    <3> QED
      BY <1>5, <1>9, <1>13, <2>2, <3>1, TimesLess
  <2>4. a * k <= a * w + (a - 1)
    BY <1>4, <1>5, <1>9, <1>12, <2>1
  <2>5. k <= w
    <3>1. a - 1 \in Int /\ a - 1 < a
      BY <1>5
    <3> QED
      BY <1>5, <1>9, <1>13, <2>4, <3>1, TimesLess
  <2> QED
    BY <1>9, <1>13, <2>3, <2>5
<1>18. o.epochIx = EpochIx(o)
  <2>1. i \in Int
    BY <1>3, <1>5, RemainNat
  <2> QED
    BY <1>4, <1>5, <1>9, <1>12, <1>13, <1>17, <2>1
<1>19. ASSUME \A s \in DOMAIN bundles' : ChargeOf'[s] = 0
       PROVE  c <= x + Cardinality(batch)
  <2>1. ASSUME NEW s \in DOMAIN bundles \ batch
        PROVE  ChargeOf[s] = 0
    <3>1. /\ DOMAIN bundles' = DOMAIN bundles
          /\ bundles'[s].vlq = Claims[s] /\ bundles'[s].tmp = TmpOf[s]
      BY CompoundedBundle
    <3>2. ChargeOf'[s] = TmpOf[s] - k * Claims[s]
      BY <1>3, <1>9, <3>1 DEF ChargeOf, ChargedTmp
    <3>3. ChargeOf[s] = TmpOf[s] - w * Claims[s]
      BY <1>1, <1>3, <1>11, TermFacts
    <3> QED
      BY <1>17, <1>19, <3>1, <3>2, <3>3
  <2>2. AllocRem(pool) + 1 <= SumOver(RewardOf, batch) + Cardinality(batch)
    BY <1>1, <1>2, <1>14, <2>1, LastBatch
  <2>3. Cardinality(batch) \in Nat
    BY <1>1, FS_Subset, FS_CardinalityType
  <2> QED
    BY <1>3, <1>4, <1>5, <1>12, <1>14, <2>2, <2>3
<1>20. (t * EpochsRemain(o)) \div n = x
  BY <1>9, <1>11, <1>17
<1> QED
  BY <1>1, <1>3, <1>18, <1>19, <1>20 DEF OpenEpoch

LEMMA CompoundStuck ==
    ASSUME Validated, CustodyInv, RewardInv, StuckInv, NEW batch \in Batches,
           NEW fund \in Funds, RunCompound(batch, fund)
    PROVE  StuckInv'
<1>1. ~EpochCompleted(pool') => OpenEpoch'
  BY CompoundOpens DEF StuckInv
<1>2. lastBatch' \in Nat
  <2>1. lastBatch' = Cardinality(batch) /\ batch \in SUBSET DOMAIN bundles
    BY DEF RunCompound, Batches
  <2>2. IsFiniteSet(batch)
    BY <2>1, FS_Subset DEF RewardInv
  <2> QED
    BY <2>1, <2>2, FS_CardinalityType
<1>3. StakeInv
  BY DEF RunCompound, Live, RewardInv
<1>4. EpochsRemain(pool) \in Nat
  <2>1. PICK p : p = pool /\ p.budget \in Nat
    BY <1>3, ConstantFacts DEF StakeInv
  <2> QED
    BY <2>1, RemainNat
<1>5. ASSUME NEW s \in DOMAIN bundles
      PROVE  /\ DOMAIN bundles' = DOMAIN bundles
             /\ \E j \in Nat : bundles'[s].tmp = bundles'[s].vlq * j
  <2>1. /\ DOMAIN bundles' = DOMAIN bundles
        /\ bundles'[s].vlq = Claims[s]
        /\ bundles'[s].tmp = IF s \in batch THEN TmpOf[s] - ChargeOf[s] ELSE TmpOf[s]
    BY CompoundedBundle
  <2>2. /\ ChargeOf[s] = TmpOf[s] - EpochsRemain(pool) * Claims[s]
        /\ TmpOf[s] \in Nat /\ Claims[s] \in Nat
    BY <1>3, TermFacts
  <2>3. PICK j \in Nat : TmpOf[s] = Claims[s] * j
    BY DEF StuckInv, WholeEpochs, TmpOf, Claims
  <2>4. TmpOf[s] - ChargeOf[s] = Claims[s] * EpochsRemain(pool)
    <3>1. PICK t, r, v : t = TmpOf[s] /\ r = EpochsRemain(pool) /\ v = Claims[s]
      OBVIOUS
    <3>2. t - (t - r * v) = v * r
      BY <1>4, <2>2, <3>1
    <3> QED
      BY <2>2, <3>1, <3>2
  <2> QED
    BY <1>4, <2>1, <2>3, <2>4
<1>6. WholeEpochs'
  <2>1. DOMAIN bundles' = DOMAIN bundles
    BY DEF RunCompound
  <2> QED
    BY <1>5, <2>1 DEF WholeEpochs
<1> QED
  BY <1>1, <1>2, <1>6 DEF StuckInv

\* A step that leaves the pool, its bundles and the history alone.
LEMMA StuckFrame ==
    ASSUME StuckInv, pool' = pool, bundles' = bundles, lastBatch' = lastBatch
    PROVE  StuckInv'
  BY DEF StuckInv, WholeEpochs, OpenEpoch, ChargeOf, ChargedTmp, EpochsRemain, EpochIx,
         EpochCompleted

LEMMA CreateStuck ==
    ASSUME Validated, CustodyInv, StuckInv, NEW d \in Delegations, Create(d)
    PROVE  StuckInv'
<1>1. /\ DOMAIN bundles = {} /\ lastBatch' = lastBatch
      /\ pool'.budget = ProgramBudget
      /\ bundles' = With(bundles, Deployer, FreshBundle(d))
  BY DEF Create, FreshPool
<1>2. DOMAIN bundles' = {Deployer} /\ bundles'[Deployer] = FreshBundle(d)
  BY <1>1 DEF With
<1>3. d \in Nat
  BY PoolAssumption
<1>4. WholeEpochs'
  BY <1>2, <1>3 DEF WholeEpochs, FreshBundle
<1>5. EpochCompleted(pool')
  <2>1. PICK e \in Nat : /\ ProgramBudget = EpochNum * EpochAlloc + e /\ e < EpochNum
                         /\ e + MaxRoundingError < EpochAlloc
    BY ValidFacts
  <2>2. PICK n, a, t, m : n = EpochNum /\ a = EpochAlloc /\ t = ProgramBudget /\ m = MaxRoundingError
    OBVIOUS
  <2>3. /\ n \in Nat \ {0} /\ a \in Nat \ {0} /\ t \in Nat /\ m \in Nat /\ t = n * a + e
        /\ e < n /\ n < m /\ e + m < a
    BY <2>1, <2>2, ConstantFacts, AllocFacts DEF Validated
  <2>4. t % a = e
    <3>1. e \in 0 .. a - 1
      BY <2>3
    <3> QED
      BY <2>3, <3>1, Quotient
  <2> QED
    BY <1>1, <2>2, <2>3, <2>4 DEF EpochCompleted
<1> QED
  BY <1>1, <1>4, <1>5 DEF StuckInv

\* While an epoch is open no liquidity moves, unless the pool is the stuck one.
LEMMA OrderStuck ==
    ASSUME ~StuckPool, CustodyInv, RewardInv, StuckInv, NEW s \in Stakers, RunOrder(s)
    PROVE  StuckInv'
<1>1. lastBatch' = lastBatch
  BY DEF RunOrder, RunDeposit, RunRedeem
<1>2. CASE pool' = pool /\ bundles' = bundles
  BY <1>1, <1>2, StuckFrame
<1>3. CASE /\ DepositVerdict(pool, orders[s]) = "ok"
           /\ s \in DOMAIN orders
           /\ PrevEpochsCompounded(pool)
           /\ pool' = Deposited(pool, orders[s])
           /\ bundles' = With(bundles, s, [vlq |-> orders[s].lq,
                                tmp |-> NumEpochsRemain(height) * orders[s].lq])
  <2>1. EpochCompleted(pool) /\ ~(NumEpochsRemain(height) < 1)
    BY <1>3 DEF DepositVerdict
  <2>2. pool'.budget = pool.budget
    BY <1>3 DEF Deposited, CustodyInv, PoolShape
  <2>3. EpochCompleted(pool')
    BY <2>1, <2>2 DEF EpochCompleted
  <2>4. NumEpochsRemain(height) \in Nat /\ orders[s].lq \in Nat
    <3>1. orders[s].lq \in Amounts
      BY <1>3 DEF CustodyInv, OrdersMatch
    <3>2. orders[s].lq \in Nat
      BY <3>1, ConstantFacts
    <3>3. CurrentEpochIx(height) \in Int /\ EpochNum \in Nat
      BY CurrentInt, ConstantFacts DEF RewardInv
    <3>4. NumEpochsRemain(height) \in Nat
      BY <3>3 DEF NumEpochsRemain, SatSub
    <3> QED
      BY <3>2, <3>4
  <2>5. WholeEpochs'
    <3>1. PICK n, r : n = orders[s].lq /\ r = NumEpochsRemain(height)
      OBVIOUS
    <3>2. n \in Nat /\ r \in Nat /\ r * n = n * r
      BY <2>4, <3>1
    <3>3. bundles' = With(bundles, s, [vlq |-> n, tmp |-> r * n])
      BY <1>3, <3>1
    <3>4. \A x \in DOMAIN bundles : \E j \in Nat : bundles[x].tmp = bundles[x].vlq * j
      BY DEF StuckInv, WholeEpochs
    <3>5. /\ DOMAIN bundles' = DOMAIN bundles \cup {s}
          /\ bundles'[s].tmp = bundles'[s].vlq * r
          /\ \A x \in DOMAIN bundles : x # s => bundles'[x] = bundles[x]
      BY <3>2, <3>3 DEF With
    <3> QED
      BY <3>2, <3>4, <3>5 DEF WholeEpochs
  <2> QED
    BY <1>1, <2>3, <2>5 DEF StuckInv
<1>4. CASE /\ RedeemVerdict(pool, bundles[s], orders[s]) = "ok"
           /\ pool' = Redeemed(pool, bundles[s], orders[s])
           /\ bundles' = Without(bundles, s)
  <2>1. EpochCompleted(pool)
    BY <1>4 DEF RedeemVerdict
  <2>2. pool'.budget = pool.budget
    BY <1>4 DEF Redeemed, CustodyInv, PoolShape
  <2>3. EpochCompleted(pool')
    BY <2>1, <2>2 DEF EpochCompleted
  <2>4. WholeEpochs'
    BY <1>4 DEF Without, StuckInv, WholeEpochs
  <2> QED
    BY <1>1, <2>3, <2>4 DEF StuckInv
<1> QED
  BY <1>2, <1>3, <1>4 DEF RunOrder, RunDeposit, RunRedeem

LEMMA StuckStep ==
    ASSUME Validated, ~StuckPool, CustodyInv, RewardInv, StuckInv, [LmPoolNext]_poolVars
    PROVE  StuckInv'
<1>1. CASE NewBlock \/ UNCHANGED poolVars
  <2>1. pool' = pool /\ bundles' = bundles /\ lastBatch' = lastBatch
    BY <1>1 DEF NewBlock, poolVars
  <2> QED
    BY <2>1, StuckFrame
<1>2. CASE SomeCompound
  BY <1>2, CompoundStuck DEF SomeCompound
<1>3. ASSUME NEW s \in Stakers, NEW n \in Amounts, NEW erg \in Ergs,
             AskDeposit(s, n, erg) \/ AskRedeem(s, n, erg)
      PROVE  StuckInv'
  <2>1. pool' = pool /\ bundles' = bundles /\ lastBatch' = lastBatch
    BY <1>3 DEF AskDeposit, AskRedeem
  <2> QED
    BY <2>1, StuckFrame
<1>4. ASSUME NEW s \in Stakers, RunOrder(s)
      PROVE  StuckInv'
  BY <1>4, OrderStuck
<1>5. ASSUME NEW d \in Delegations, Create(d)
      PROVE  StuckInv'
  BY <1>5, CreateStuck
<1> QED
  BY <1>1, <1>2, <1>3, <1>4, <1>5 DEF LmPoolNext, PoolNext

LEMMA InitStuck == PoolInit => StuckInv
<1> SUFFICES ASSUME PoolInit PROVE StuckInv
  OBVIOUS
<1>1. lastBatch \in Nat /\ ~(pool.lq > 0) /\ DOMAIN bundles = {}
  BY DEF PoolInit
<1> QED
  BY <1>1 DEF StuckInv, WholeEpochs

LEMMA OnlyRounding ==
    ASSUME Validated, CustodyInv, RewardInv, StuckInv
    PROVE  StuckOnlyByRounding
<1> SUFFICES ASSUME Live, ~EpochCompleted(pool), Eligible \cup Overdue = {}
             PROVE  MaxRoundingError < EpochNum - pool.epochIx + lastBatch
  BY DEF StuckOnlyByRounding
<1>1. StakeInv /\ OpenEpoch /\ WholeEpochs /\ lastBatch \in Nat
  BY DEF Live, RewardInv, StuckInv
<1>2. PICK p, n, a, m, b, w : /\ p = pool /\ n = EpochNum /\ a = EpochAlloc
         /\ m = MaxRoundingError /\ b = p.budget /\ w = EpochsRemain(p)
  OBVIOUS
<1>3. /\ n \in Nat \ {0} /\ a \in Nat \ {0} /\ m \in Nat /\ m < a /\ b \in Nat
  BY <1>1, <1>2, ConstantFacts, AllocFacts, ValidFacts DEF StakeInv
<1>4. PICK q, r : Split(p, q, r)
  BY <1>2, <1>3, Splits
<1>5. /\ q \in Nat /\ r \in 0 .. a - 1 /\ b = a * q + r /\ ~(r <= m)
      /\ EpochIx(p) = n - q /\ w = q
  BY <1>2, <1>4 DEF Split
<1>6. NextEpoch(p) = n - w
  BY <1>2, <1>3, <1>5, EpochsAgree
<1>7. ASSUME NEW s \in DOMAIN bundles
      PROVE  ChargeOf[s] = 0
  <2>1. PICK v, t, j : v = bundles[s].vlq /\ t = bundles[s].tmp /\ j \in Nat /\ t = v * j
    BY <1>1 DEF WholeEpochs
  <2>2. v \in Nat \ {0} /\ t >= w * v
    BY <1>1, <1>2, <2>1, ConstantFacts DEF CustodyInv, BundleShape, StakeInv
  <2>3. t \div v = j
    <3>1. t = j * v + 0 /\ t \in Nat /\ 0 \in 0 .. v - 1
      BY <2>1, <2>2
    <3> QED
      BY <2>1, <2>2, <3>1, Quotient
  <2>4. LowerEpochIx(bundles[s]) = n - j + 1
    BY <1>2, <2>1, <2>3 DEF LowerEpochIx
  <2>5. ~(n - j + 1 = n - w) /\ ~(n - j + 1 < n - w)
    BY <1>2, <1>6, <2>4 DEF Eligible, Overdue
  <2>6. j <= w
    BY <1>3, <1>5, <2>1, <2>5
  <2>7. v * j <= v * w /\ v * w = w * v /\ v * w \in Int /\ v * j \in Int
    BY <1>5, <2>1, <2>2, <2>6
  <2>8. t - w * v = 0
    BY <2>1, <2>2, <2>7
  <2> QED
    BY <1>2, <2>1, <2>8 DEF ChargeOf, ChargedTmp
<1>8. PICK x, l : x = (ProgramBudget * w) \div n /\ l = lastBatch
  OBVIOUS
<1>9. b <= x + l
  BY <1>1, <1>2, <1>7, <1>8 DEF OpenEpoch
<1>10. x \in Nat /\ x <= a * w + w
  BY <1>2, <1>5, <1>8, LaterFacts
<1>11. m < w + l
  <2>1. a * w \in Int /\ a * q = a * w
    BY <1>3, <1>5
  <2> QED
    BY <1>1, <1>3, <1>5, <1>8, <1>9, <1>10, <2>1
<1>12. pool.epochIx = n - w
  BY <1>1, <1>2, <1>5 DEF OpenEpoch
<1>13. EpochNum - pool.epochIx + lastBatch = w + l
  BY <1>1, <1>2, <1>3, <1>5, <1>8, <1>12
<1> QED
  BY <1>2, <1>11, <1>13

(***************************************************************************)
(* If validate_pool lets the program through, the first bundle is created  *)
(* for all epochs but the first at least (DelegatesAll, which no code      *)
(* checks), and the pool is not the one that apply_redeem exempts: an      *)
(* epoch that stays open with nobody left to be paid does so because of    *)
(* rounding, that is with a rounding error smaller than the later epochs   *)
(* and the last batch together, whatever is deposited, redeemed and        *)
(* compounded (distribute_rewards, apply_deposit, apply_redeem).           *)
(***************************************************************************)
THEOREM PoolStuckOnlyByRounding ==
    ASSUME Validated, DelegatesAll, ~StuckPool
    PROVE  LmPoolSpec => []StuckOnlyByRounding
<1> DEFINE Inv == CustodyInv /\ RewardInv /\ StuckInv
<1>1. PoolInit => Inv
  BY InitCustody, InitReward, InitStuck
<1>2. Inv /\ [LmPoolNext]_poolVars => Inv'
  BY PoolStep, RewardStep, StuckStep
<1>3. Inv => StuckOnlyByRounding
  BY OnlyRounding
<1> QED
  BY <1>1, <1>2, <1>3, PTL DEF LmPoolSpec

LEMMA ToolRounds ==
    ASSUME DelegatesAll, ~StuckPool, ToolInv, Validated => StuckInv, [ProgramNext]_programVars
    PROVE  ToolInv' /\ (Validated => StuckInv')
<1>1. ToolInv'
  BY ToolStep
<1>2. [LmPoolNext]_poolVars
  BY ProgramStep DEF ToolInv
<1> QED
  BY <1>1, <1>2, StuckStep DEF ToolInv

(***************************************************************************)
(* The same of a program that the deployment tool creates, under the same  *)
(* two conditions that the tool does not check: num_epochs_to_delegate is  *)
(* all epochs but the first at least, and the pool is not the exempted one.*)
(***************************************************************************)
THEOREM ProgramStuckOnlyByRounding ==
    ASSUME DelegatesAll, ~StuckPool
    PROVE  ProgramSpec => []StuckOnlyByRounding
<1> DEFINE Inv == ToolInv /\ (Validated => StuckInv)
<1>1. DeployInit => Inv
  BY ToolInit, InitStuck DEF DeployInit
<1>2. Inv /\ [ProgramNext]_programVars => Inv'
  BY ToolRounds
<1>3. Inv => StuckOnlyByRounding
  <2>1. Inv /\ Validated => StuckOnlyByRounding
    BY OnlyRounding DEF ToolInv
  <2>2. Inv /\ ~Validated => StuckOnlyByRounding
    BY DEF ToolInv, StuckOnlyByRounding, Live
  <2> QED
    BY <2>1, <2>2
<1> QED
  BY <1>1, <1>2, <1>3, PTL DEF ProgramSpec

-----------------------------------------------------------------------------
\* Two disjoint sets of bundles, all of them due, are paid no more than is owed.
LEMMA ApartFacts ==
    ASSUME CustodyInv, StakeInv, IsFiniteSet(DOMAIN bundles), AllocRem(pool) \in Nat,
           NEW batch \in SUBSET DOMAIN bundles, NEW left \in SUBSET DOMAIN bundles,
           batch # {}, batch \cap left = {}, Distributable(pool, batch \cup left)
    PROVE  /\ SumOver(RewardOf, left) \in Nat
           /\ SumOver(RewardOf, batch) + SumOver(RewardOf, left) <= AllocRem(pool)
<1>1. PICK f, S : f = RewardOf /\ S = batch \cup left
  OBVIOUS
<1>2. S \in SUBSET DOMAIN bundles /\ S # {} /\ Distributable(pool, S)
  BY <1>1
<1>3. SumOver(f, S) <= AllocRem(pool)
  BY <1>1, <1>2, BatchFacts
<1>4. IsFiniteSet(S) /\ IsFiniteSet(left) /\ IsFiniteSet(batch)
  BY <1>2, FS_Subset
<1>5. \A s \in S : f[s] \in Nat
  BY <1>1, <1>2, ActualFacts, TermFacts
<1>6. PICK g : g = [s \in S |-> IF s \in batch THEN f[s] - f[s] ELSE f[s]]
  OBVIOUS
<1>7. \A s \in S : /\ f[s] \in Int /\ f[s] \in Int
                   /\ g[s] = IF s \in batch THEN f[s] - f[s] ELSE f[s]
  BY <1>5, <1>6
<1>8. batch \in SUBSET S /\ left \in SUBSET S
  BY <1>1
<1>9. SumOver(g, S) = SumOver(f, S) - SumOver(f, batch)
  BY ONLY <1>4, <1>7, <1>8, SumLess
<1>10. SumOver(g, left) = SumOver(f, left)
  <2>1. \A s \in left : f[s] \in Int /\ g[s] = f[s]
    BY <1>1, <1>6, <1>7, <1>8
  <2> QED
    BY ONLY <1>4, <2>1, SumSame
<1>11. SumOver(g, left) <= SumOver(g, S)
  <2>1. \A s \in S : g[s] \in Nat
    BY <1>5, <1>7
  <2> QED
    BY ONLY <1>4, <1>8, <2>1, SumSubset
<1>12. SumOver(f, left) \in Nat /\ SumOver(f, batch) \in Nat /\ SumOver(f, S) \in Nat
  <2>1. (\A s \in left : f[s] \in Nat) /\ (\A s \in batch : f[s] \in Nat)
    BY <1>5, <1>8
  <2> QED
    BY ONLY <1>4, <1>5, <2>1, SumNat
<1>13. AllocRem(pool) \in Nat
  OBVIOUS
<1> QED
  BY <1>1, <1>3, <1>9, <1>10, <1>11, <1>12, <1>13

\* What is left of the budget for an epoch when the next one begins.
LEMMA ClosedFacts ==
    ASSUME Validated, NEW p, NEW o, p.budget \in 1 .. ProgramBudget, o.budget \in Nat,
           o.budget <= p.budget, NextEpoch(o) > NextEpoch(p)
    PROVE  /\ AllocRem(p) \in Nat
           /\ AllocRem(p) - (p.budget - o.budget) <= MaxRoundingError
<1>1. PICK n, a, m, t, b, c, w, x, y :
         /\ n = EpochNum /\ a = EpochAlloc /\ m = MaxRoundingError /\ t = ProgramBudget
         /\ b = p.budget /\ c = o.budget /\ w = EpochsRemain(p) /\ x = EpochIx(p)
         /\ y = (t * w) \div n
  OBVIOUS
<1>2. /\ n \in Nat \ {0} /\ a \in Nat \ {0} /\ m \in Nat /\ t \in Nat /\ m < a
      /\ b \in Nat /\ c \in Nat /\ c <= b /\ b >= 1
  BY <1>1, ConstantFacts, AllocFacts, ValidFacts
<1>3. w \in Nat /\ x \in Int
  BY <1>1, <1>2, RemainNat
<1>4. PICK q, r : Split(o, q, r)
  BY <1>1, <1>2, Splits
<1>5. /\ q \in Nat /\ r \in 0 .. a - 1 /\ c = a * q + r
      /\ EpochIx(o) = IF r <= m THEN n + 1 - q ELSE n - q
  BY <1>1, <1>4 DEF Split
<1>6. EpochIx(o) > x
  <2>1. NextEpoch(o) = EpochIx(o) /\ NextEpoch(p) = EpochIx(p)
    BY <1>1, <1>2, EpochsAgree
  <2> QED
    BY <1>1, <2>1
<1>7. x <= n /\ w = n - x
  <2>1. x <= n
    BY <1>2, <1>3, <1>5, <1>6
  <2> QED
    BY <1>1, <2>1, OwedFacts
<1>8. y \in Nat /\ y + 1 <= b /\ a * w <= y
  BY <1>1, <1>2, <1>3, <1>7, OwedFacts, LaterFacts
<1>9. AllocRem(p) = b - y - 1 /\ AllocRem(p) \in Nat
  <2>1. AllocRem(p) = SatSub(SatSub(b, y), 1)
    BY <1>1 DEF AllocRem
  <2> QED
    BY <1>2, <1>8, <2>1 DEF SatSub
<1>10. c <= a * w + m
  <2>1. CASE r <= m
    <3>1. q <= w
      BY <1>2, <1>3, <1>5, <1>6, <1>7, <2>1
    <3>2. a * q <= a * w /\ a * q \in Int /\ a * w \in Int
      BY <1>2, <1>3, <1>5, <3>1
    <3> QED
      BY <1>2, <1>5, <2>1, <3>2
  <2>2. CASE ~(r <= m)
    <3>1. q + 1 <= w
      BY <1>2, <1>3, <1>5, <1>6, <1>7, <2>2
    <3>2. a * (q + 1) <= a * w /\ a * (q + 1) = a * q + a /\ a * q \in Int /\ a * w \in Int
      BY <1>2, <1>3, <1>5, <3>1
    <3> QED
      BY <1>2, <1>5, <3>2
  <2> QED
    BY <2>1, <2>2
<1>11. a * w \in Int
  BY <1>2, <1>3
<1> QED
  BY <1>1, <1>2, <1>8, <1>9, <1>10, <1>11

SkippedStep ==
    Live /\ NextEpoch(pool') > NextEpoch(pool) =>
        LET skipped == {s \in DOMAIN bundles : /\ EpochsBurned(pool, bundles[s]) >= 1
                                               /\ bundles'[s] = bundles[s]}
        IN  SumFunction([s \in skipped |-> Reward(pool, bundles[s])]) <= MaxRoundingError

LEMMA CompoundSkips ==
    ASSUME Validated, CustodyInv, RewardInv, NEW batch \in Batches, NEW fund \in Funds,
           RunCompound(batch, fund), NextEpoch(pool') > NextEpoch(pool)
    PROVE  SkippedStep
<1> DEFINE skipped == {s \in DOMAIN bundles : /\ EpochsBurned(pool, bundles[s]) >= 1
                                              /\ bundles'[s] = bundles[s]}
           g == [s \in skipped |-> Reward(pool, bundles[s])]
<1>1. /\ StakeInv /\ IsFiniteSet(DOMAIN bundles) /\ batch \in SUBSET DOMAIN bundles
      /\ Distributable(pool, batch) /\ pool' = Distributed(pool, batch) /\ pool'.budget > 0
  BY DEF RunCompound, Live, RewardInv, Batches
<1>2. batch # {}
  <2>1. Cardinality(batch) \in 1 .. BatchSize /\ BatchSize \in Nat
    BY PoolAssumption DEF Batches
  <2> QED
    BY <2>1, FS_EmptySet
<1>3. batch \cap skipped = {}
  <2> SUFFICES ASSUME NEW s \in batch, bundles'[s] = bundles[s]
               PROVE  FALSE
    OBVIOUS
  <2>1. s \in DOMAIN bundles /\ EpochsBurned(pool, bundles[s]) >= 1
    BY <1>1 DEF Distributable
  <2>2. ChargeOf[s] \in Nat /\ ChargeOf[s] >= 1 /\ TmpOf[s] \in Nat
    BY <1>1, <2>1, TermFacts
  <2>3. bundles'[s].tmp = TmpOf[s] - ChargeOf[s]
    BY <2>1, CompoundedBundle
  <2>4. TmpOf[s] = bundles[s].tmp
    BY <2>1 DEF TmpOf
  <2>5. bundles'[s].tmp = bundles[s].tmp
    OBVIOUS
  <2> QED
    BY <2>2, <2>3, <2>4, <2>5
<1>4. skipped \in SUBSET DOMAIN bundles /\ Distributable(pool, batch \cup skipped)
  BY <1>1 DEF Distributable
<1>5. PICK R : R = SumOver(RewardOf, batch)
  OBVIOUS
<1>6. pool'.budget = pool.budget - R /\ R \in Nat
  BY <1>1, <1>5, DistributedFacts
<1>7. pool.budget \in 1 .. ProgramBudget /\ pool.budget \in Nat
  BY <1>1, ConstantFacts DEF StakeInv
<1>8. AllocRem(pool) \in Nat /\ AllocRem(pool) - R <= MaxRoundingError
  <2>1. PICK p, o : p = pool /\ o = pool'
    OBVIOUS
  <2>2. /\ p.budget \in 1 .. ProgramBudget /\ o.budget \in Nat /\ o.budget <= p.budget
        /\ p.budget \in Nat /\ o.budget = p.budget - R /\ NextEpoch(o) > NextEpoch(p)
    <3>1. pool'.budget \in Nat /\ pool'.budget <= pool.budget
      BY <1>1, <1>6, <1>7
    <3> QED
      BY <1>6, <1>7, <2>1, <3>1
  <2>3. AllocRem(p) \in Nat /\ AllocRem(p) - (p.budget - o.budget) <= MaxRoundingError
    BY <2>2, ClosedFacts
  <2>4. p.budget - o.budget = R
    BY <1>6, <2>2
  <2> QED
    BY <2>1, <2>3, <2>4
<1>9. PICK L, w, m : L = SumOver(RewardOf, skipped) /\ w = AllocRem(pool) /\ m = MaxRoundingError
  OBVIOUS
<1>10. L \in Nat /\ R + L <= w
  <2> HIDE DEF skipped
  <2> QED
    BY <1>1, <1>2, <1>3, <1>4, <1>5, <1>8, <1>9, ApartFacts
<1>11. L <= m
  BY <1>6, <1>8, <1>9, <1>10, ConstantFacts
<1>12. SumFunction(g) = L
  <2>1. PICK S, f, h : S = skipped /\ f = RewardOf /\ h = g
    OBVIOUS
  <2>2. IsFiniteSet(S)
    BY <1>1, <1>4, <2>1, FS_Subset
  <2>3. \A s \in S : f[s] \in Int /\ h[s] = f[s]
    <3> SUFFICES ASSUME NEW s \in skipped
                 PROVE  RewardOf[s] \in Int /\ g[s] = RewardOf[s]
      BY <2>1
    <3>1. s \in DOMAIN bundles
      OBVIOUS
    <3>2. RewardOf[s] \in Nat
      BY <1>1, <3>1, ActualFacts, TermFacts
    <3>3. g[s] = Reward(pool, bundles[s])
      OBVIOUS
    <3> QED
      BY <3>1, <3>2, <3>3 DEF RewardOf
  <2>4. SumOver(h, S) = SumOver(f, S)
    BY ONLY <2>2, <2>3, SumSame
  <2>5. DOMAIN h = S
    BY <2>1
  <2>6. SumFunction(h) = SumOver(h, S)
    BY <2>5 DEF SumFunction, SumOver
  <2> QED
    BY <1>9, <2>1, <2>4, <2>6
<1> QED
  BY <1>9, <1>11, <1>12 DEF SkippedStep

\* The next epoch depends on the budget, which orders leave alone.
LEMMA SameEpoch ==
    ASSUME Validated, RewardInv, Live, pool'.budget = pool.budget
    PROVE  ~(NextEpoch(pool') > NextEpoch(pool))
<1>1. PICK p, o : p = pool /\ o = pool'
  OBVIOUS
<1>2. p.budget \in Nat
  BY <1>1, ConstantFacts DEF Live, RewardInv, StakeInv
<1>3. o.budget = p.budget
  BY <1>1
<1>4. NextEpoch(o) = NextEpoch(p)
  BY <1>3 DEF NextEpoch, EpochsLeftToProcess
<1>5. NextEpoch(p) \in Int
  BY <1>2, EpochsAgree, RemainNat, ValidFacts
<1> QED
  BY <1>1, <1>4, <1>5

LEMMA OrderBudget ==
    ASSUME CustodyInv, NEW s \in Stakers, RunOrder(s)
    PROVE  pool'.budget = pool.budget
<1>1. PICK p, n, k : p = pool /\ n = orders[s].lq /\ k = NumEpochsRemain(height)
  OBVIOUS
<1>2. PICK b, l, v, t, y : p = [budget |-> b, lq |-> l, vlq |-> v, tmp |-> t, epochIx |-> y]
  BY <1>1 DEF CustodyInv, PoolShape
<1>3. Deposited(p, orders[s]).budget = p.budget
  BY <1>2 DEF Deposited
<1>4. Redeemed(p, bundles[s], orders[s]).budget = p.budget
  BY <1>2 DEF Redeemed
<1>5. \/ pool' = p
      \/ pool' = Deposited(p, orders[s])
      \/ pool' = Redeemed(p, bundles[s], orders[s])
  BY <1>1 DEF RunOrder, RunDeposit, RunRedeem
<1> QED
  BY <1>1, <1>3, <1>4, <1>5

LEMMA StepSkips ==
    ASSUME Validated, CustodyInv, RewardInv, [LmPoolNext]_poolVars
    PROVE  SkippedStep
<1> SUFFICES ASSUME Live, NextEpoch(pool') > NextEpoch(pool)
             PROVE  SkippedStep
  BY DEF SkippedStep
<1>1. CASE SomeCompound
  BY <1>1, CompoundSkips DEF SomeCompound
<1>2. ASSUME NEW d \in Delegations, Create(d)
      PROVE  FALSE
  BY <1>2 DEF Create, Live
<1>3. CASE pool' = pool
  BY <1>3, SameEpoch
<1>4. ASSUME NEW s \in Stakers, NEW n \in Amounts, NEW erg \in Ergs,
             AskDeposit(s, n, erg) \/ AskRedeem(s, n, erg)
      PROVE  pool' = pool
  BY <1>4 DEF AskDeposit, AskRedeem
<1>5. ASSUME NEW s \in Stakers, RunOrder(s)
      PROVE  FALSE
  BY <1>5, SameEpoch, OrderBudget
<1>6. CASE NewBlock \/ UNCHANGED poolVars
  BY <1>3, <1>6 DEF NewBlock, poolVars
<1> QED
  BY <1>1, <1>2, <1>3, <1>4, <1>5, <1>6 DEF LmPoolNext, PoolNext

(***************************************************************************)
(* For a program that validate_pool lets through, with a first bundle for  *)
(* all epochs but the first at least (DelegatesAll): when an epoch counts  *)
(* as completed, all those that distribute_rewards has not paid for it, or *)
(* for an earlier one, are together owed max_rounding_error at most, for   *)
(* any stakers, batches and orders.                                        *)
(***************************************************************************)
THEOREM PoolSkipsLittle ==
    ASSUME Validated, DelegatesAll
    PROVE  LmPoolSpec => SkippedOwedLittle
<1>1. PoolInit => CustodyInv /\ RewardInv
  BY InitCustody, InitReward
<1>2. CustodyInv /\ RewardInv /\ [LmPoolNext]_poolVars => CustodyInv' /\ RewardInv'
  BY PoolStep, RewardStep
<1>3. CustodyInv /\ RewardInv /\ [LmPoolNext]_poolVars => [SkippedStep]_poolVars
  BY StepSkips
<1>4. [][SkippedStep]_poolVars => SkippedOwedLittle
  BY DEF SkippedStep, SkippedOwedLittle
<1> QED
  BY <1>1, <1>2, <1>3, <1>4, PTL DEF LmPoolSpec

(***************************************************************************)
(* The same of a program that the deployment tool creates; DelegatesAll is *)
(* the one condition that the tool does not check.                         *)
(***************************************************************************)
THEOREM ProgramSkipsLittle ==
    ASSUME DelegatesAll
    PROVE  ProgramSpec => SkippedOwedLittle
<1>1. DeployInit => ToolInv
  BY ToolInit
<1>2. ToolInv /\ [ProgramNext]_programVars => ToolInv'
  BY ToolStep
<1>3. ToolInv /\ [ProgramNext]_programVars => [SkippedStep]_poolVars
  <2> SUFFICES ASSUME ToolInv, [ProgramNext]_programVars
               PROVE  SkippedStep
    OBVIOUS
  <2>1. CASE Validated
    <3>1. [LmPoolNext]_poolVars
      BY ProgramStep DEF ToolInv
    <3> QED
      BY <2>1, <3>1, StepSkips DEF ToolInv
  <2>2. CASE ~Validated
    BY <2>2 DEF ToolInv, SkippedStep, Live
  <2> QED
    BY <2>1, <2>2
<1>4. [][SkippedStep]_poolVars => SkippedOwedLittle
  BY DEF SkippedStep, SkippedOwedLittle
<1> QED
  BY <1>1, <1>2, <1>3, <1>4, PTL DEF ProgramSpec

-----------------------------------------------------------------------------
\* The chain of transactions of the deployment tool: sums over boxes first.

\* The value of boxes, and their tokens of a kind, as sums over functions.
Values(S) == [b \in S |-> b.value]
Amount(S, k) == [b \in S |-> b.tokens[k]]

\* Two functions that satisfy the same equations of a sum agree on it.
LEMMA SumFound ==
    ASSUME NEW f, NEW S, IsFiniteSet(S), NEW g, Sums(g, f, S)
    PROVE  g[S] = SumOver(f, S)
<1>1. PICK h : h = (CHOOSE k : Sums(k, f, S)) /\ Sums(h, f, S)
  BY SumsExist
<1>2. S \in SUBSET (S \cap S)
  OBVIOUS
<1>3. g[S] = h[S]
  BY ONLY <1>1, <1>2, IsFiniteSet(S), Sums(g, f, S), SumsAgree
<1> QED
  BY <1>1, <1>3, SumIs

\* The equations of the two sums, as the community module writes them.
ValueSums(g, S) ==
    g = [s \in SUBSET S |-> IF s = {} THEN 0 ELSE Picked(s).value + g[s \ {Picked(s)}]]
TokenSums(g, S, k) ==
    g = [s \in SUBSET S |-> IF s = {} THEN 0 ELSE Picked(s).tokens[k] + g[s \ {Picked(s)}]]

\* The fold of the community module is a choice of a function on subsets.
LEMMA ValueFold == \A S : Value(S) = (CHOOSE g : ValueSums(g, S))[S]
  BY DEF Value, MapThenSumSet, MapThenFoldSet, Picked, ValueSums
LEMMA TokenFold == \A S, k : Total(S, k) = (CHOOSE g : TokenSums(g, S, k))[S]
  BY DEF Total, MapThenSumSet, MapThenFoldSet, Picked, TokenSums

\* The value of finitely many boxes is a sum in the sense of SumProofs.
LEMMA ValueIs ==
    ASSUME NEW S, IsFiniteSet(S)
    PROVE  Value(S) = SumOver(Values(S), S)
<1>1. \A s \in SUBSET S : s # {} => Values(S)[Picked(s)] = Picked(s).value
  BY PickedIn DEF Values
<1>2. ASSUME NEW g
      PROVE  ValueSums(g, S) <=> Sums(g, Values(S), S)
  BY <1>1 DEF ValueSums, Sums
<1>3. \E g : ValueSums(g, S)
  BY <1>2, SumsExist
<1>4. PICK g : g = (CHOOSE h : ValueSums(h, S)) /\ ValueSums(g, S)
  BY <1>3
<1>5. g[S] = SumOver(Values(S), S)
  BY <1>2, <1>4, SumFound
<1> QED
  BY <1>4, <1>5, ValueFold

\* So is the number of their tokens of a kind.
LEMMA TotalIs ==
    ASSUME NEW S, IsFiniteSet(S), NEW k
    PROVE  Total(S, k) = SumOver(Amount(S, k), S)
<1>1. \A s \in SUBSET S : s # {} => Amount(S, k)[Picked(s)] = Picked(s).tokens[k]
  BY PickedIn DEF Amount
<1>2. ASSUME NEW g
      PROVE  TokenSums(g, S, k) <=> Sums(g, Amount(S, k), S)
  BY <1>1 DEF TokenSums, Sums
<1>3. \E g : TokenSums(g, S, k)
  BY <1>2, SumsExist
<1>4. PICK g : g = (CHOOSE h : TokenSums(h, S, k)) /\ TokenSums(g, S, k)
  BY <1>3
<1>5. g[S] = SumOver(Amount(S, k), S)
  BY <1>2, <1>4, SumFound
<1> QED
  BY <1>4, <1>5, TokenFold

\* No boxes hold nothing.
LEMMA NothingThere == Value({}) = 0 /\ \A k : Total({}, k) = 0
<1>1. PICK S : S = {}
  OBVIOUS
<1>2. IsFiniteSet(S)
  BY <1>1, FS_EmptySet
<1>3. Value(S) = SumOver(Values(S), S) /\ \A k : Total(S, k) = SumOver(Amount(S, k), S)
  BY ONLY <1>2, ValueIs, TotalIs
<1> QED
  BY <1>1, <1>3, SumEmpty

\* The value of boxes is a number when theirs are.
LEMMA ValueInt ==
    ASSUME NEW S, IsFiniteSet(S), \A b \in S : b.value \in Int
    PROVE  Value(S) \in Int
<1>1. \A b \in S : Values(S)[b] \in Int
  BY DEF Values
<1> QED
  BY <1>1, ValueIs, SumInt

\* The number of tokens is a number when theirs are.
LEMMA TotalInt ==
    ASSUME NEW S, IsFiniteSet(S), NEW k, \A b \in S : b.tokens[k] \in Int
    PROVE  Total(S, k) \in Int
<1>1. \A b \in S : Amount(S, k)[b] \in Int
  BY DEF Amount
<1> QED
  BY <1>1, TotalIs, SumInt

\* One more box adds its value.
LEMMA ValueAdd ==
    ASSUME NEW S, IsFiniteSet(S), NEW x, x \notin S, \A b \in S \cup {x} : b.value \in Int
    PROVE  Value(S \cup {x}) = x.value + Value(S)
<1>1. PICK T : T = S \cup {x}
  OBVIOUS
<1>2. IsFiniteSet(T)
  BY <1>1, FS_AddElement
<1>3. PICK f : f = Values(S)
  OBVIOUS
<1>4. PICK g : g = Values(T)
  OBVIOUS
<1>5. g[x] = x.value /\ g[x] \in Int /\ \A b \in S : f[b] \in Int /\ g[b] = f[b]
  BY <1>1, <1>3, <1>4 DEF Values
<1>6. SumOver(g, S \cup {x}) = g[x] + SumOver(f, S)
  BY ONLY <1>5, IsFiniteSet(S), x \notin S, SumWith
<1>7. Value(T) = SumOver(g, T) /\ Value(S) = SumOver(f, S)
  BY <1>2, <1>3, <1>4, ValueIs
<1> QED
  BY <1>1, <1>5, <1>6, <1>7

\* One more box adds its tokens.
LEMMA TotalAdd ==
    ASSUME NEW S, IsFiniteSet(S), NEW x, x \notin S, NEW k,
           \A b \in S \cup {x} : b.tokens[k] \in Int
    PROVE  Total(S \cup {x}, k) = x.tokens[k] + Total(S, k)
<1>1. PICK T : T = S \cup {x}
  OBVIOUS
<1>2. IsFiniteSet(T)
  BY <1>1, FS_AddElement
<1>3. PICK f : f = Amount(S, k)
  OBVIOUS
<1>4. PICK g : g = Amount(T, k)
  OBVIOUS
<1>5. g[x] = x.tokens[k] /\ g[x] \in Int /\ \A b \in S : f[b] \in Int /\ g[b] = f[b]
  BY <1>1, <1>3, <1>4 DEF Amount
<1>6. SumOver(g, S \cup {x}) = g[x] + SumOver(f, S)
  BY ONLY <1>5, IsFiniteSet(S), x \notin S, SumWith
<1>7. Total(T, k) = SumOver(g, T) /\ Total(S, k) = SumOver(f, S)
  BY <1>2, <1>3, <1>4, TotalIs
<1> QED
  BY <1>1, <1>5, <1>6, <1>7

\* Fewer boxes hold no more tokens.
LEMMA TotalSubset ==
    ASSUME NEW S, IsFiniteSet(S), NEW k, \A b \in S : b.tokens[k] \in Nat, NEW T \in SUBSET S
    PROVE  Total(T, k) <= Total(S, k)
<1>1. IsFiniteSet(T)
  BY FS_Subset
<1>2. PICK f : f = Amount(S, k)
  OBVIOUS
<1>3. PICK g : g = Amount(T, k)
  OBVIOUS
<1>4. (\A b \in S : f[b] \in Nat) /\ \A b \in T : f[b] \in Int /\ g[b] = f[b]
  BY <1>2, <1>3 DEF Amount
<1>5. SumOver(g, T) = SumOver(f, T)
  BY ONLY <1>1, <1>4, SumSame
<1>6. SumOver(f, T) <= SumOver(f, S)
  BY ONLY <1>4, IsFiniteSet(S), T \in SUBSET S, SumSubset
<1> QED
  BY <1>1, <1>2, <1>3, <1>5, <1>6, TotalIs

\* The value and the tokens of four boxes, and of one more.
Four(a, b, c, d) == {a, b, c, d}

\* The sums over four boxes that differ.
LEMMA FourBoxes ==
    ASSUME NEW a, NEW b, NEW c, NEW d, a # b, a # c, a # d, b # c, b # d, c # d,
           \A x \in Four(a, b, c, d) : x.value \in Int /\ \A k \in TokenKinds : x.tokens[k] \in Int
    PROVE  /\ IsFiniteSet(Four(a, b, c, d))
           /\ Value(Four(a, b, c, d)) = a.value + b.value + c.value + d.value
           /\ \A k \in TokenKinds :
                 Total(Four(a, b, c, d), k)
                     = a.tokens[k] + b.tokens[k] + c.tokens[k] + d.tokens[k]
<1>0. IsFiniteSet({})
  BY FS_EmptySet
<1>1. PICK A : A = {} \cup {a}
  OBVIOUS
<1>2. PICK B : B = A \cup {b}
  OBVIOUS
<1>3. PICK C : C = B \cup {c}
  OBVIOUS
<1>4. PICK D : D = C \cup {d}
  OBVIOUS
<1>5. D = Four(a, b, c, d)
  BY <1>1, <1>2, <1>3, <1>4 DEF Four
<1>6. IsFiniteSet(A) /\ IsFiniteSet(B) /\ IsFiniteSet(C) /\ IsFiniteSet(D)
  <2>1. IsFiniteSet(A)
    BY <1>0, <1>1, FS_AddElement
  <2>2. IsFiniteSet(B)
    BY <1>2, <2>1, FS_AddElement
  <2>3. IsFiniteSet(C)
    BY <1>3, <2>2, FS_AddElement
  <2> QED
    BY <1>4, <2>1, <2>2, <2>3, FS_AddElement
<1>7. b \notin A /\ c \notin B /\ d \notin C
  BY <1>1, <1>2, <1>3
<1>8. \A x \in D : x.value \in Int /\ \A k \in TokenKinds : x.tokens[k] \in Int
  BY <1>5
<1>9. Value(D) = a.value + b.value + c.value + d.value
  <2>1. Value(A) = a.value + Value({})
    BY <1>0, <1>1, <1>2, <1>3, <1>4, <1>8, ValueAdd
  <2>2. Value(B) = b.value + Value(A)
    BY <1>2, <1>3, <1>4, <1>6, <1>7, <1>8, ValueAdd
  <2>3. Value(C) = c.value + Value(B)
    BY <1>3, <1>4, <1>6, <1>7, <1>8, ValueAdd
  <2>4. Value(D) = d.value + Value(C)
    BY <1>4, <1>6, <1>7, <1>8, ValueAdd
  <2>5. {a.value, b.value, c.value, d.value} \subseteq Int
    BY <1>1, <1>2, <1>3, <1>4, <1>8
  <2> QED
    BY <2>1, <2>2, <2>3, <2>4, <2>5, NothingThere
<1>10. ASSUME NEW k \in TokenKinds
       PROVE  Total(D, k) = a.tokens[k] + b.tokens[k] + c.tokens[k] + d.tokens[k]
  <2>1. Total(A, k) = a.tokens[k] + Total({}, k)
    BY <1>0, <1>1, <1>2, <1>3, <1>4, <1>8, TotalAdd
  <2>2. Total(B, k) = b.tokens[k] + Total(A, k)
    BY <1>2, <1>3, <1>4, <1>6, <1>7, <1>8, TotalAdd
  <2>3. Total(C, k) = c.tokens[k] + Total(B, k)
    BY <1>3, <1>4, <1>6, <1>7, <1>8, TotalAdd
  <2>4. Total(D, k) = d.tokens[k] + Total(C, k)
    BY <1>4, <1>6, <1>7, <1>8, TotalAdd
  <2>5. {a.tokens[k], b.tokens[k], c.tokens[k], d.tokens[k]} \subseteq Int
    BY <1>1, <1>2, <1>3, <1>4, <1>8
  <2> QED
    BY <2>1, <2>2, <2>3, <2>4, <2>5, NothingThere
<1> QED
  BY <1>5, <1>6, <1>9, <1>10

-----------------------------------------------------------------------------
\* What the selection of boxes takes.

\* There are finitely many kinds of tokens.
LEMMA KindsFinite == IsFiniteSet(TokenKinds)
<1>1. TokenKinds = {"lq"} \cup {"reward"} \cup {"nft"} \cup {"vlq"} \cup {"tmp"} \cup {"key"} \cup {"other"}
  BY DEF TokenKinds
<1>2. IsFiniteSet({"lq"})
  BY FS_Singleton
<1>3. IsFiniteSet({"lq"} \cup {"reward"} \cup {"nft"})
  BY <1>2, FS_AddElement
<1>4. IsFiniteSet({"lq"} \cup {"reward"} \cup {"nft"} \cup {"vlq"} \cup {"tmp"})
  BY <1>3, FS_AddElement
<1> QED
  BY <1>1, <1>4, FS_AddElement

\* The number of wanted kinds that a box has is a natural number.
LEMMA HitsNat == \A b, want : Hits(b, want) \in Nat
<1> TAKE b, want
<1>1. {k \in TokenKinds : want[k] > 0 /\ b.tokens[k] > 0} \in SUBSET TokenKinds
  OBVIOUS
<1> QED
  BY <1>1, KindsFinite, FS_Subset, FS_CardinalityType DEF Hits

\* Each place in the order of the selection is taken by some box.
LEMMA Places ==
    ASSUME NEW boxes, NEW want, NEW L \in Nat, DOMAIN boxes = 1 .. L, NEW n \in 1 .. L
    PROVE  \E i \in 1 .. L : Cardinality(Ahead(boxes, want, i)) = n - 1
<1> DEFINE D == 1 .. L
           place == [i \in D |-> Cardinality(Ahead(boxes, want, i))]
<1>1. IsFiniteSet(D) /\ Cardinality(D) = L
  BY FS_Interval
<1>2. ASSUME NEW i \in D
      PROVE  /\ Ahead(boxes, want, i) \in SUBSET (D \ {i})
             /\ IsFiniteSet(Ahead(boxes, want, i))
             /\ Cardinality(Ahead(boxes, want, i)) \in 0 .. L - 1
  <2>1. Ahead(boxes, want, i) \in SUBSET (D \ {i})
    BY HitsNat DEF Ahead, Sooner
  <2>2. IsFiniteSet(D \ {i}) /\ Cardinality(D \ {i}) = L - 1
    BY <1>1, FS_RemoveElement
  <2>3. IsFiniteSet(Ahead(boxes, want, i)) /\ Cardinality(Ahead(boxes, want, i)) <= L - 1
    BY <2>1, <2>2, FS_Subset
  <2> QED
    BY <2>1, <2>3, FS_CardinalityType
<1>3. ASSUME NEW i \in D, NEW j \in D, Sooner(boxes, want, i, j)
      PROVE  Cardinality(Ahead(boxes, want, i)) # Cardinality(Ahead(boxes, want, j))
  <2>1. PICK h : h = [x \in D |-> Hits(boxes[x], want)]
    OBVIOUS
  <2>2. \A x \in D : h[x] \in Nat
    BY <2>1, HitsNat
  <2>3. \A x, y \in D : Sooner(boxes, want, x, y) <=> h[x] > h[y] \/ (h[x] = h[y] /\ x > y)
    BY <2>1 DEF Sooner
  <2>4. Ahead(boxes, want, i) \in SUBSET Ahead(boxes, want, j)
    <3>1. ASSUME NEW x \in D, Sooner(boxes, want, x, i)
          PROVE  Sooner(boxes, want, x, j)
      BY <1>3, <2>2, <2>3, <3>1
    <3> QED
      BY <3>1 DEF Ahead
  <2>5. i \in Ahead(boxes, want, j) /\ i \notin Ahead(boxes, want, i)
    BY <1>3, <1>2 DEF Ahead
  <2> QED
    BY <1>2, <2>4, <2>5, FS_Subset
<1>4. ASSUME NEW i \in D, NEW j \in D, i # j
      PROVE  place[i] # place[j]
  <2>1. Sooner(boxes, want, i, j) \/ Sooner(boxes, want, j, i)
    BY <1>4, HitsNat DEF Sooner
  <2> QED
    BY <1>3, <2>1
<1>5. SUFFICES ASSUME \A i \in D : place[i] # n - 1
               PROVE  FALSE
  OBVIOUS
<1>6. PICK T : T = (0 .. L - 1) \ {n - 1}
  OBVIOUS
<1>7. IsFiniteSet(T) /\ Cardinality(T) = L - 1
  <2>1. IsFiniteSet(0 .. L - 1) /\ Cardinality(0 .. L - 1) = L
    BY FS_Interval
  <2>2. n - 1 \in 0 .. L - 1
    OBVIOUS
  <2> QED
    BY <1>6, <2>1, <2>2, FS_RemoveElement
<1>8. place \in [D -> T]
  BY <1>2, <1>5, <1>6
<1>9. \A i, j \in D : i # j => place[i] # place[j]
  BY <1>4
<1>10. Cardinality(T) < Cardinality(D)
  BY <1>1, <1>7
<1> HIDE DEF D, place
<1> QED
  BY <1>1, <1>7, <1>8, <1>9, <1>10, FS_PigeonHole

\* The recursive function of the selection.
TakesAll(g, boxes, target, want) ==
    g = [n \in 0 .. Len(boxes) |->
            IF n = 0 THEN <<>>
            ELSE IF Takes(g[n - 1], SelectionOrder(boxes, want)[n], target, want)
                 THEN Append(g[n - 1], SelectionOrder(boxes, want)[n]) ELSE g[n - 1]]

\* The selection is the last value of a function that satisfies TakesAll.
LEMMA SelectIs ==
    \A boxes, target, want :
        Select(boxes, target, want) = (CHOOSE g : TakesAll(g, boxes, target, want))[Len(boxes)]
  BY DEF Select, TakesAll

\* There is such a function.
LEMMA TakesExist ==
    ASSUME NEW boxes, NEW target, NEW want, Len(boxes) \in Nat
    PROVE  \E g : TakesAll(g, boxes, target, want)
<1> DEFINE L == Len(boxes)
           Next1(r, n) == IF Takes(r, SelectionOrder(boxes, want)[n], target, want)
                          THEN Append(r, SelectionOrder(boxes, want)[n]) ELSE r
           Rule(g, n) == g[n] = IF n = 0 THEN <<>> ELSE Next1(g[n - 1], n)
           A == {m \in Nat : \E g : /\ g = [n \in 0 .. L |-> g[n]]
                                    /\ \A n \in 0 .. L : n <= m => Rule(g, n)}
<1> HIDE DEF Next1
<1>1. 0 \in A
  <2>1. PICK g : g = [n \in 0 .. L |-> <<>>]
    OBVIOUS
  <2>2. g = [n \in 0 .. L |-> g[n]] /\ \A n \in 0 .. L : n <= 0 => Rule(g, n)
    BY <2>1
  <2> HIDE DEF Rule
  <2> QED
    BY <2>2
<1>2. ASSUME NEW m \in Nat, m \in A
      PROVE  m + 1 \in A
  <2>1. PICK g : g = [n \in 0 .. L |-> g[n]] /\ \A n \in 0 .. L : n <= m => Rule(g, n)
    BY <1>2
  <2>2. PICK h : h = [n \in 0 .. L |-> IF n <= m THEN g[n] ELSE Next1(g[n - 1], n)]
    OBVIOUS
  <2>3. ASSUME NEW n \in 0 .. L, n <= m + 1
        PROVE  Rule(h, n)
    <3>1. CASE n = 0
      BY <2>1, <2>2, <3>1
    <3>2. CASE n # 0
      <4>1. n - 1 \in 0 .. L /\ n - 1 <= m
        BY <2>3, <3>2
      <4>2. h[n - 1] = g[n - 1]
        BY <2>2, <4>1
      <4>3. h[n] = Next1(g[n - 1], n)
        BY <2>1, <2>2, <3>2
      <4> QED
        BY <3>2, <4>2, <4>3
    <3> QED
      BY <3>1, <3>2
  <2>4. h = [n \in 0 .. L |-> h[n]]
    BY <2>2
  <2>5. m + 1 \in Nat
    OBVIOUS
  <2> HIDE DEF Rule
  <2> QED
    BY <2>3, <2>4, <2>5
<1>3. Nat \subseteq A
  <2> HIDE DEF A
  <2> QED
    BY <1>1, <1>2, Induction
<1>4. PICK g : g = [n \in 0 .. L |-> g[n]] /\ \A n \in 0 .. L : n <= L => Rule(g, n)
  BY <1>3
<1>5. TakesAll(g, boxes, target, want)
  BY <1>4 DEF TakesAll, Next1
<1> QED
  BY <1>5

\* Each stage of the selection, from the one before.
LEMMA Stages ==
    ASSUME NEW boxes, NEW target, NEW want, Len(boxes) \in Nat
    PROVE  \E g : /\ Select(boxes, target, want) = g[Len(boxes)]
                  /\ g[0] = <<>>
                  /\ \A n \in 1 .. Len(boxes) :
                        g[n] = IF Takes(g[n - 1], SelectionOrder(boxes, want)[n], target, want)
                               THEN Append(g[n - 1], SelectionOrder(boxes, want)[n])
                               ELSE g[n - 1]
<1>1. PICK g : g = (CHOOSE h : TakesAll(h, boxes, target, want)) /\ TakesAll(g, boxes, target, want)
  BY TakesExist
<1>2. Select(boxes, target, want) = g[Len(boxes)]
  BY <1>1, SelectIs
<1>3. g[0] = <<>>
  <2>1. 0 \in 0 .. Len(boxes)
    OBVIOUS
  <2> QED
    BY <1>1, <2>1 DEF TakesAll
<1>4. ASSUME NEW n \in 1 .. Len(boxes)
      PROVE  g[n] = IF Takes(g[n - 1], SelectionOrder(boxes, want)[n], target, want)
                    THEN Append(g[n - 1], SelectionOrder(boxes, want)[n])
                    ELSE g[n - 1]
  <2>1. n \in 0 .. Len(boxes) /\ n # 0
    OBVIOUS
  <2> QED
    BY <1>1, <2>1 DEF TakesAll
<1> QED
  BY <1>2, <1>3, <1>4

\* Only boxes that are offered are selected.
LEMMA SelectedOffered ==
    ASSUME NEW S, NEW boxes \in Seq(S), NEW target, NEW want
    PROVE  /\ Select(boxes, target, want) \in Seq(S)
           /\ ToSet(Select(boxes, target, want)) \subseteq ToSet(boxes)
           /\ \A b \in ToSet(Select(boxes, target, want)) : b.mine
<1> DEFINE L == Len(boxes)
           order == SelectionOrder(boxes, want)
           R == {b \in ToSet(boxes) : b.mine}
<1>0. L \in Nat /\ DOMAIN boxes = 1 .. L
  OBVIOUS
<1>1. ASSUME NEW n \in 1 .. L
      PROVE  order[n] \in ToSet(boxes)
  <2>1. \E i \in 1 .. L : Cardinality(Ahead(boxes, want, i)) = n - 1
    BY <1>0, Places
  <2>2. PICK i \in 1 .. L : order[n] = boxes[i]
    BY <1>0, <2>1 DEF SelectionOrder
  <2> QED
    BY <1>0, <2>2 DEF ToSet
<1> HIDE DEF order
<1>2. PICK g : /\ Select(boxes, target, want) = g[L]
               /\ g[0] = <<>>
               /\ \A n \in 1 .. L :
                     g[n] = IF Takes(g[n - 1], order[n], target, want)
                            THEN Append(g[n - 1], order[n]) ELSE g[n - 1]
  BY <1>0, Stages DEF order
<1> DEFINE A == {n \in Nat : n <= L => g[n] \in Seq(R)}
<1>3. 0 \in A
  <2>1. <<>> \in Seq(R)
    OBVIOUS
  <2> QED
    BY <1>2, <2>1
<1>4. ASSUME NEW n \in Nat, n \in A
      PROVE  n + 1 \in A
  <2>1. SUFFICES ASSUME n + 1 <= L
                 PROVE  g[n + 1] \in Seq(R)
    OBVIOUS
  <2>2. n + 1 \in 1 .. L /\ (n + 1) - 1 = n /\ g[n] \in Seq(R)
    BY <1>0, <1>4, <2>1
  <2>3. CASE Takes(g[n], order[n + 1], target, want)
    <3>1. order[n + 1] \in R
      BY <1>1, <2>2, <2>3 DEF Takes
    <3>2. g[n + 1] = Append(g[n], order[n + 1])
      BY <1>2, <2>2, <2>3
    <3> HIDE DEF R
    <3> QED
      BY <2>2, <3>1, <3>2
  <2>4. CASE ~Takes(g[n], order[n + 1], target, want)
    BY <1>2, <2>2, <2>4
  <2> QED
    BY <2>3, <2>4
<1>5. Nat \subseteq A
  <2> HIDE DEF A
  <2> QED
    BY <1>3, <1>4, Induction
<1>6. Select(boxes, target, want) \in Seq(R)
  BY <1>0, <1>2, <1>5
<1>7. R \subseteq S
  BY DEF ToSet
<1>8. PICK sel : sel = Select(boxes, target, want)
  OBVIOUS
<1>9. ToSet(sel) \subseteq R
  BY <1>6, <1>8 DEF ToSet
<1>10. sel \in Seq(S)
  <2> HIDE DEF R
  <2> QED
    BY <1>6, <1>7, <1>8
<1> QED
  BY <1>8, <1>9, <1>10

\* The number of tokens is a natural number when no box owes tokens.
LEMMA TotalNat ==
    ASSUME NEW S, IsFiniteSet(S), NEW k, \A b \in S : b.tokens[k] \in Nat
    PROVE  Total(S, k) \in Nat
<1>1. \A b \in S : Amount(S, k)[b] \in Nat
  BY DEF Amount
<1> QED
  BY <1>1, TotalIs, SumNat

\* No token is wanted: the last box comes first.
LEMMA LastFirst ==
    ASSUME NEW boxes, NEW L \in Nat, DOMAIN boxes = 1 .. L, NEW n \in 1 .. L
    PROVE  SelectionOrder(boxes, None)[n] = boxes[L + 1 - n]
<1>1. \A b : Hits(b, None) = 0
  <2> TAKE b
  <2>1. {k \in TokenKinds : None[k] > 0 /\ b.tokens[k] > 0} = {}
    BY DEF None
  <2> QED
    BY <2>1, FS_EmptySet DEF Hits
<1>2. ASSUME NEW i \in 1 .. L
      PROVE  Cardinality(Ahead(boxes, None, i)) = L - i
  <2>1. Ahead(boxes, None, i) = i + 1 .. L
    BY <1>1 DEF Ahead, Sooner
  <2>2. i + 1 \in Int /\ L \in Int
    OBVIOUS
  <2>3. Cardinality(i + 1 .. L) = IF i + 1 > L THEN 0 ELSE L - (i + 1) + 1
    BY ONLY <2>2, FS_Interval
  <2> QED
    BY <2>1, <2>3
<1>3. PICK c : c = CHOOSE i \in 1 .. L : Cardinality(Ahead(boxes, None, i)) = n - 1
  OBVIOUS
<1>4. c \in 1 .. L /\ Cardinality(Ahead(boxes, None, c)) = n - 1
  BY <1>3, Places
<1>5. c = L + 1 - n
  BY <1>2, <1>4
<1> QED
  BY <1>3, <1>5 DEF SelectionOrder

\* The boxes of the sequences of at most two.
LEMMA ToSetSmall ==
    /\ ToSet(<<>>) = {}
    /\ \A a : ToSet(<<a>>) = {a}
    /\ \A a, b : ToSet(<<a, b>>) = {a, b}
<1>1. ToSet(<<>>) = {}
  BY DEF ToSet
<1>2. \A a : ToSet(<<a>>) = {a}
  <2> TAKE a
  <2>1. DOMAIN <<a>> = {1} /\ <<a>>[1] = a
    OBVIOUS
  <2>2. PICK s : s = <<a>>
    OBVIOUS
  <2> QED
    BY <2>1, <2>2 DEF ToSet
<1>3. \A a, b : ToSet(<<a, b>>) = {a, b}
  <2> TAKE a, b
  <2>1. DOMAIN <<a, b>> = {1, 2} /\ <<a, b>>[1] = a /\ <<a, b>>[2] = b
    OBVIOUS
  <2>2. PICK s : s = <<a, b>>
    OBVIOUS
  <2> QED
    BY <2>1, <2>2 DEF ToSet
<1> QED
  BY <1>1, <1>2, <1>3

\* One more box at the end of a short sequence.
LEMMA AppendSmall ==
    \A a, b : Append(<<>>, b) = <<b>> /\ Append(<<a>>, b) = <<a, b>>
<1> TAKE a, b
<1>1. Append(<<>>, b) = <<b>>
  OBVIOUS
<1>2. PICK s : s = <<a>>
  OBVIOUS
<1>3. s \in Seq({a}) /\ Len(s) = 1 /\ s[1] = a
  BY <1>2
<1>4. Append(s, b) = <<a, b>>
  <2>1. PICK t : t = Append(s, b)
    OBVIOUS
  <2>2. s \in Seq({a, b}) /\ b \in {a, b}
    BY <1>3
  <2>3. t \in Seq({a, b}) /\ Len(t) = 2 /\ t[1] = a /\ t[2] = b
    <3>1. PICK S : S = {a, b}
      OBVIOUS
    <3>2. s \in Seq(S) /\ b \in S
      BY <2>2, <3>1
    <3>3. t \in Seq(S) /\ Len(t) = 2 /\ t[2] = b /\ t[1] = s[1]
      <4>1. /\ t \in Seq(S) /\ Len(t) = Len(s) + 1 /\ t[Len(s) + 1] = b
            /\ \A i \in 1 .. Len(s) : t[i] = s[i]
        BY ONLY <2>1, <3>2, AppendProperties
      <4> QED
        BY <1>3, <4>1
    <3> QED
      BY <1>3, <3>1, <3>3
  <2>4. PICK u : u = <<a, b>>
    OBVIOUS
  <2>5. u \in Seq({a, b}) /\ Len(u) = 2 /\ u[1] = a /\ u[2] = b
    BY <2>4
  <2>6. \A i \in 1 .. Len(t) : t[i] = u[i]
    BY <2>3, <2>5
  <2>7. t = u
    BY ONLY <2>3, <2>5, <2>6, SeqEqual
  <2> QED
    BY <2>1, <2>4, <2>7
<1> QED
  BY <1>1, <1>2, <1>4

\* What the first takes of a box without tokens do to the value.
LEMMA TwoBoxes ==
    ASSUME NEW a, NEW b, a # b, a.value \in Int, b.value \in Int
    PROVE  /\ Value(ToSet(<<>>)) = 0
           /\ Value(ToSet(<<a>>)) = a.value
           /\ Value(ToSet(<<b>>)) = b.value
           /\ Value(ToSet(<<a, b>>)) = a.value + b.value
<1>0. IsFiniteSet({})
  BY FS_EmptySet
<1>1. PICK A : A = {a}
  OBVIOUS
<1>2. PICK B : B = {b}
  OBVIOUS
<1>3. PICK C : C = {a, b}
  OBVIOUS
<1>4. A = {} \cup {a} /\ B = {} \cup {b} /\ C = A \cup {b} /\ b \notin A
  BY <1>1, <1>2, <1>3
<1>5. IsFiniteSet(A)
  BY <1>1, FS_Singleton
<1>6. Value(A) = a.value + Value({}) /\ Value(B) = b.value + Value({})
  BY <1>0, <1>4, ValueAdd
<1>7. Value(C) = b.value + Value(A)
  BY <1>1, <1>4, <1>5, ValueAdd
<1>8. Value(A) = a.value /\ Value(B) = b.value /\ Value(C) = a.value + b.value
  BY <1>6, <1>7, NothingThere
<1> QED
  BY <1>1, <1>2, <1>3, <1>8, NothingThere, ToSetSmall

\* A sequence has finitely many elements.
LEMMA SeqFinite ==
    ASSUME NEW S, NEW seq \in Seq(S)
    PROVE  IsFiniteSet(ToSet(seq))
<1>1. seq \in [1 .. Len(seq) -> ToSet(seq)] /\ Len(seq) \in Nat
  BY DEF ToSet
<1>2. seq \in Surjection(1 .. Len(seq), ToSet(seq))
  BY <1>1 DEF Surjection, ToSet
<1> QED
  BY <1>1, <1>2, FS_NatSurjection DEF ExistsSurjection

\* Boxes without tokens satisfy a wish for none.
LEMMA NoWish ==
    ASSUME NEW taken, IsFiniteSet(ToSet(taken)), \A x \in ToSet(taken) : x.tokens = None,
           NEW target \in Int, Value(ToSet(taken)) \in Int, Value(ToSet(taken)) >= target, NEW b
    PROVE  ~Takes(taken, b, target, None)
<1>1. ASSUME NEW k \in TokenKinds
      PROVE  Total(ToSet(taken), k) \in Nat /\ None[k] = 0
  <2>1. \A x \in ToSet(taken) : x.tokens[k] \in Nat
    BY DEF None
  <2> QED
    BY <2>1, TotalNat DEF None
<1> QED
  BY <1>1 DEF Takes

\* Of the four boxes of a transaction the next one takes the last and the second.
LEMMA MintSelects ==
    ASSUME NEW outs, DOMAIN outs = 1 .. 4, Len(outs) = 4, NEW target \in Int,
           outs[2].tokens = None, outs[2].value = target,
           outs[2].mine, ~outs[3].mine,
           outs[4].tokens = None, outs[4].value \in Nat, outs[2] # outs[4]
    PROVE  ToSet(Select(outs, target, None)) \subseteq {outs[2], outs[4]}
<1> DEFINE order == SelectionOrder(outs, None)
<1>1. order[1] = outs[4] /\ order[2] = outs[3] /\ order[3] = outs[2] /\ order[4] = outs[1]
  <2>1. \A n \in 1 .. 4 : order[n] = outs[4 + 1 - n]
    <3> TAKE n \in 1 .. 4
    <3>1. 4 \in Nat
      OBVIOUS
    <3> QED
      BY ONLY <3>1, n \in 1 .. 4, DOMAIN outs = 1 .. 4, LastFirst
  <2> HIDE DEF order
  <2> QED
    BY <2>1
<1> HIDE DEF order
<1>2. PICK g : /\ Select(outs, target, None) = g[4]
               /\ g[0] = <<>>
               /\ \A n \in 1 .. 4 :
                     g[n] = IF Takes(g[n - 1], order[n], target, None)
                            THEN Append(g[n - 1], order[n]) ELSE g[n - 1]
  <2>1. Len(outs) \in Nat
    OBVIOUS
  <2>2. \E g : /\ Select(outs, target, None) = g[Len(outs)]
               /\ g[0] = <<>>
               /\ \A n \in 1 .. Len(outs) :
                     g[n] = IF Takes(g[n - 1], order[n], target, None)
                            THEN Append(g[n - 1], order[n]) ELSE g[n - 1]
    BY ONLY <2>1, Stages DEF order
  <2> QED
    BY ONLY <2>2, Len(outs) = 4
<1>3. /\ g[1] = IF Takes(g[0], outs[4], target, None) THEN Append(g[0], outs[4]) ELSE g[0]
      /\ g[2] = IF Takes(g[1], outs[3], target, None) THEN Append(g[1], outs[3]) ELSE g[1]
      /\ g[3] = IF Takes(g[2], outs[2], target, None) THEN Append(g[2], outs[2]) ELSE g[2]
      /\ g[4] = IF Takes(g[3], outs[1], target, None) THEN Append(g[3], outs[1]) ELSE g[3]
  <2>1. /\ g[1] = IF Takes(g[1 - 1], order[1], target, None) THEN Append(g[1 - 1], order[1]) ELSE g[1 - 1]
        /\ g[2] = IF Takes(g[2 - 1], order[2], target, None) THEN Append(g[2 - 1], order[2]) ELSE g[2 - 1]
        /\ g[3] = IF Takes(g[3 - 1], order[3], target, None) THEN Append(g[3 - 1], order[3]) ELSE g[3 - 1]
        /\ g[4] = IF Takes(g[4 - 1], order[4], target, None) THEN Append(g[4 - 1], order[4]) ELSE g[4 - 1]
    BY <1>2
  <2>2. 1 - 1 = 0 /\ 2 - 1 = 1 /\ 3 - 1 = 2 /\ 4 - 1 = 3
    OBVIOUS
  <2> QED
    BY <1>1, <2>1, <2>2
<1>4. ~Takes(g[1], outs[3], target, None)
  BY DEF Takes
<1>5. g[2] = <<>> \/ g[2] = <<outs[4]>>
  BY <1>2, <1>3, <1>4
<1>6. PICK a : a = outs[4]
  OBVIOUS
<1>7. PICK b : b = outs[2]
  OBVIOUS
<1>8. /\ Value(ToSet(<<>>)) = 0 /\ Value(ToSet(<<a>>)) = a.value
      /\ Value(ToSet(<<b>>)) = b.value /\ Value(ToSet(<<a, b>>)) = a.value + b.value
  BY ONLY <1>6, <1>7, outs[2] # outs[4], outs[2].value = target, target \in Int,
          outs[4].value \in Nat, TwoBoxes
<1>9. /\ g[3] \in {<<>>, <<a>>, <<b>>, <<a, b>>}
      /\ Value(ToSet(g[3])) \in Int /\ Value(ToSet(g[3])) >= target
  <2>1. CASE Takes(g[2], outs[2], target, None)
    <3>1. g[3] \in {<<b>>, <<a, b>>}
      <4>1. Append(<<>>, b) = <<b>> /\ Append(<<a>>, b) = <<a, b>>
        BY AppendSmall
      <4>2. g[3] = Append(g[2], b)
        BY <1>3, <1>7, <2>1
      <4> QED
        BY <1>5, <1>6, <4>1, <4>2
    <3> QED
      BY <1>6, <1>7, <1>8, <3>1
  <2>2. CASE ~Takes(g[2], outs[2], target, None)
    <3>1. g[3] = g[2] /\ ~(Value(ToSet(g[2])) < target)
      BY <1>3, <2>2 DEF Takes
    <3> QED
      BY <1>5, <1>6, <1>8, <3>1
  <2> QED
    BY <2>1, <2>2
<1>10. ToSet(g[3]) \subseteq {outs[2], outs[4]}
  BY <1>6, <1>7, <1>9, ToSetSmall
<1>11. IsFiniteSet(ToSet(g[3])) /\ \A x \in ToSet(g[3]) : x.tokens = None
  <2>1. IsFiniteSet({outs[2]} \cup {outs[4]})
    <3>1. IsFiniteSet({outs[2]})
      BY FS_Singleton
    <3> QED
      BY ONLY <3>1, FS_AddElement
  <2>2. ToSet(g[3]) \in SUBSET ({outs[2]} \cup {outs[4]})
    BY <1>10
  <2> QED
    BY <1>10, <2>1, <2>2, FS_Subset
<1>12. ~Takes(g[3], outs[1], target, None)
  BY ONLY <1>9, <1>11, target \in Int, NoWish
<1> QED
  BY <1>2, <1>3, <1>10, <1>12

\* With the tokens left over set aside, the second box is all that is taken.
LEMMA RestSelects ==
    ASSUME NEW boxes, DOMAIN boxes = 1 .. 3, Len(boxes) = 3, NEW target \in Nat,
           boxes[2].mine, boxes[2].tokens = None, boxes[2].value = target, ~boxes[3].mine
    PROVE  Value(ToSet(Select(boxes, target, None))) = target
<1> DEFINE order == SelectionOrder(boxes, None)
<1>1. order[1] = boxes[3] /\ order[2] = boxes[2] /\ order[3] = boxes[1]
  <2>1. \A n \in 1 .. 3 : order[n] = boxes[3 + 1 - n]
    <3> TAKE n \in 1 .. 3
    <3>1. 3 \in Nat
      OBVIOUS
    <3> QED
      BY ONLY <3>1, n \in 1 .. 3, DOMAIN boxes = 1 .. 3, LastFirst
  <2> HIDE DEF order
  <2> QED
    BY <2>1
<1> HIDE DEF order
<1>2. PICK g : /\ Select(boxes, target, None) = g[3]
               /\ g[0] = <<>>
               /\ \A n \in 1 .. 3 :
                     g[n] = IF Takes(g[n - 1], order[n], target, None)
                            THEN Append(g[n - 1], order[n]) ELSE g[n - 1]
  <2>1. Len(boxes) \in Nat
    OBVIOUS
  <2>2. \E g : /\ Select(boxes, target, None) = g[Len(boxes)]
               /\ g[0] = <<>>
               /\ \A n \in 1 .. Len(boxes) :
                     g[n] = IF Takes(g[n - 1], order[n], target, None)
                            THEN Append(g[n - 1], order[n]) ELSE g[n - 1]
    BY ONLY <2>1, Stages DEF order
  <2> QED
    BY ONLY <2>2, Len(boxes) = 3
<1>3. /\ g[1] = IF Takes(g[0], boxes[3], target, None) THEN Append(g[0], boxes[3]) ELSE g[0]
      /\ g[2] = IF Takes(g[1], boxes[2], target, None) THEN Append(g[1], boxes[2]) ELSE g[1]
      /\ g[3] = IF Takes(g[2], boxes[1], target, None) THEN Append(g[2], boxes[1]) ELSE g[2]
  <2>1. /\ g[1] = IF Takes(g[1 - 1], order[1], target, None) THEN Append(g[1 - 1], order[1]) ELSE g[1 - 1]
        /\ g[2] = IF Takes(g[2 - 1], order[2], target, None) THEN Append(g[2 - 1], order[2]) ELSE g[2 - 1]
        /\ g[3] = IF Takes(g[3 - 1], order[3], target, None) THEN Append(g[3 - 1], order[3]) ELSE g[3 - 1]
    BY <1>2
  <2>2. 1 - 1 = 0 /\ 2 - 1 = 1 /\ 3 - 1 = 2
    OBVIOUS
  <2> QED
    BY <1>1, <2>1, <2>2
<1>4. g[1] = <<>>
  <2>1. ~Takes(g[0], boxes[3], target, None)
    BY DEF Takes
  <2> QED
    BY <1>2, <1>3, <2>1
<1>5. PICK b : b = boxes[2]
  OBVIOUS
<1>6. Value(ToSet(<<>>)) = 0 /\ Value(ToSet(<<b>>)) = target
  <2>2. PICK d : d # b /\ d.value \in Int
    <3>1. [value |-> 0] # [value |-> 1]
      <4>1. [value |-> 0].value = 0 /\ [value |-> 1].value = 1
        OBVIOUS
      <4> QED
        BY <4>1
    <3>2. [value |-> 0].value \in Int /\ [value |-> 1].value \in Int
      OBVIOUS
    <3> QED
      BY <3>1, <3>2
  <2>3. b.value = target /\ b.value \in Int
    BY <1>5
  <2> QED
    BY ONLY <2>2, <2>3, TwoBoxes
<1>7. g[2] \in {<<>>, <<b>>} /\ Value(ToSet(g[2])) = target
  <2>1. CASE Takes(g[1], boxes[2], target, None)
    <3>1. g[2] = <<b>>
      BY <1>3, <1>4, <1>5, <2>1, AppendSmall
    <3> QED
      BY <1>6, <3>1
  <2>2. CASE ~Takes(g[1], boxes[2], target, None)
    <3>1. g[2] = <<>> /\ ~(Value(ToSet(<<>>)) < target)
      BY <1>3, <1>4, <2>2 DEF Takes
    <3> QED
      BY <1>6, <3>1
  <2> QED
    BY <2>1, <2>2
<1>8. IsFiniteSet(ToSet(g[2])) /\ \A x \in ToSet(g[2]) : x.tokens = None
  <2>1. ToSet(g[2]) = {} \/ ToSet(g[2]) = {b}
    BY <1>7, ToSetSmall
  <2> QED
    BY <1>5, <2>1, FS_EmptySet, FS_Singleton
<1>9. ~Takes(g[2], boxes[1], target, None)
  <2>1. target \in Int /\ Value(ToSet(g[2])) \in Int /\ Value(ToSet(g[2])) >= target
    BY <1>7
  <2> QED
    BY ONLY <1>8, <2>1, NoWish
<1> QED
  BY <1>2, <1>3, <1>7, <1>9

-----------------------------------------------------------------------------
\* The transactions of the tool and their outputs.

\* The way a transaction is built: it is added to the chain, or the tool ends.
Ends(made) ==
    \/ \E i \in DOMAIN made : made[i].mine /\ made[i].value \in 1 .. DustLimit - 1
    \/ \E i \in DOMAIN made : made[i].value = 0

\* Build either adds the transaction or ends the tool.
LEMMA BuildCases ==
    ASSUME NEW sel, NEW target, NEW want, NEW made, Build(sel, target, want, made)
    PROVE  /\ UNCHANGED <<ledger, input, submitted, attempts, poolVars>>
           /\ \/ /\ txs' = txs
                 /\ tool' \in {"refused", "panicked"}
              \/ /\ Suffices(sel, target, want)
                 /\ ~Ends(made)
                 /\ txs' = Append(txs, Sign(sel, made))
                 /\ tool' = IF Len(txs) = 5 THEN "submitting" ELSE "building"
  BY DEF Build, Ends

\* A box, whatever it holds.
BoxSet == [id : Nat \X Nat \X Nat, value : Int, tokens : [TokenKinds -> Int], mine : BOOLEAN]

\* What Sign gives the outputs, the counters as parameters.
Signed(a, t, made) ==
    [j \in DOMAIN made |-> [id |-> <<a, t, j>>, value |-> made[j].value,
                            tokens |-> made[j].tokens, mine |-> made[j].mine]]

\* Sign is Signed with the counters of the state.
LEMMA SignIs ==
    \A sel, made : Sign(sel, made) = [ins |-> sel, outs |-> Signed(attempts, Len(txs), made)]
  BY DEF Sign, Signed

\* The outputs of a transaction of the tool, but for the last transaction.
Shaped(outs, a, t, tokens, value) ==
    /\ outs \in Seq(BoxSet) /\ Len(outs) = 4
    /\ \A j \in 1 .. 4 : outs[j].id = <<a, t, j>>
    /\ outs[1].tokens = tokens
    /\ outs[2].mine /\ outs[2].value = value /\ outs[2].tokens = None
    /\ ~outs[3].mine /\ outs[3].tokens = None
    /\ outs[4].value \in Nat /\ outs[4].tokens \in [TokenKinds -> Nat]

\* The outputs the tool asks for, but for the last transaction.
FourMade(v1, t1, v2, v3, v4, t4) == <<Box(v1, t1), Box(v2, None), Fee(v3), Box(v4, t4)>>

\* What is known of them when they are signed.
FourFacts(outs, a, t, v1, t1, v2, v3, v4, t4) ==
    /\ Shaped(outs, a, t, t1, v2)
    /\ outs[4].tokens = t4
    /\ Value(ToSet(outs)) = v1 + v2 + v3 + v4
    /\ \A k \in TokenKinds : Total(ToSet(outs), k) = t1[k] + t4[k]

\* No tokens of any kind.
LEMMA NoneType == None \in [TokenKinds -> Nat] /\ \A k \in TokenKinds : None[k] = 0
  BY DEF None

\* A function on 1 .. n is a sequence of length n.
LEMMA FunctionSeq ==
    ASSUME NEW S, NEW n \in Nat, NEW f \in [1 .. n -> S]
    PROVE  f \in Seq(S) /\ Len(f) = n
<1>1. f \in Seq(S)
  OBVIOUS
<1>2. Len(f) = n
  OBVIOUS
<1> QED
  BY <1>1, <1>2

\* The outputs of a transaction before the last: their shape and their sums.
LEMMA FourSigned ==
    ASSUME NEW a \in Nat, NEW t \in Nat, NEW v1 \in Nat, NEW t1 \in [TokenKinds -> Nat],
           NEW v2 \in Nat, NEW v3 \in Nat, NEW v4 \in Nat, NEW t4 \in [TokenKinds -> Nat],
           NEW outs, outs = Signed(a, t, FourMade(v1, t1, v2, v3, v4, t4))
    PROVE  FourFacts(outs, a, t, v1, t1, v2, v3, v4, t4)
<1>1. PICK made : made = FourMade(v1, t1, v2, v3, v4, t4)
  OBVIOUS
<1>2. /\ DOMAIN made = 1 .. 4
      /\ made[1] = Box(v1, t1) /\ made[2] = Box(v2, None)
      /\ made[3] = Fee(v3) /\ made[4] = Box(v4, t4)
  BY <1>1 DEF FourMade
<1>3. DOMAIN outs = 1 .. 4
  BY <1>1, <1>2 DEF Signed
<1>0. ASSUME NEW j \in 1 .. 4
      PROVE  outs[j] = [id |-> <<a, t, j>>, value |-> made[j].value,
                        tokens |-> made[j].tokens, mine |-> made[j].mine]
  BY <1>1, <1>2 DEF Signed
<1>4. outs[1] = [id |-> <<a, t, 1>>, value |-> v1, tokens |-> t1, mine |-> TRUE]
  <2>1. made[1].value = v1 /\ made[1].tokens = t1 /\ made[1].mine = TRUE
    BY <1>2 DEF Box
  <2>2. outs[1] = [id |-> <<a, t, 1>>, value |-> made[1].value,
                   tokens |-> made[1].tokens, mine |-> made[1].mine]
    BY <1>0
  <2> QED
    BY ONLY <2>1, <2>2
<1>5. outs[2] = [id |-> <<a, t, 2>>, value |-> v2, tokens |-> None, mine |-> TRUE]
  <2>1. made[2].value = v2 /\ made[2].tokens = None /\ made[2].mine = TRUE
    BY <1>2 DEF Box
  <2>2. outs[2] = [id |-> <<a, t, 2>>, value |-> made[2].value,
                   tokens |-> made[2].tokens, mine |-> made[2].mine]
    BY <1>0
  <2> QED
    BY ONLY <2>1, <2>2
<1>6. outs[3] = [id |-> <<a, t, 3>>, value |-> v3, tokens |-> None, mine |-> FALSE]
  <2>1. made[3].value = v3 /\ made[3].tokens = None /\ made[3].mine = FALSE
    BY <1>2 DEF Fee, Guarded
  <2>2. outs[3] = [id |-> <<a, t, 3>>, value |-> made[3].value,
                   tokens |-> made[3].tokens, mine |-> made[3].mine]
    BY <1>0
  <2> QED
    BY ONLY <2>1, <2>2
<1>7. outs[4] = [id |-> <<a, t, 4>>, value |-> v4, tokens |-> t4, mine |-> TRUE]
  <2>1. made[4].value = v4 /\ made[4].tokens = t4 /\ made[4].mine = TRUE
    BY <1>2 DEF Box
  <2>2. outs[4] = [id |-> <<a, t, 4>>, value |-> made[4].value,
                   tokens |-> made[4].tokens, mine |-> made[4].mine]
    BY <1>0
  <2> QED
    BY ONLY <2>1, <2>2
<1>8. outs[1] \in BoxSet /\ outs[2] \in BoxSet /\ outs[3] \in BoxSet /\ outs[4] \in BoxSet
  BY <1>4, <1>5, <1>6, <1>7, NoneType DEF BoxSet
<1>9. outs \in Seq(BoxSet) /\ Len(outs) = 4
  <2>1. \A j \in 1 .. 4 : outs[j] \in BoxSet
    BY <1>8
  <2>2. outs = [j \in 1 .. 4 |-> outs[j]]
    BY <1>1, <1>2, <1>3 DEF Signed
  <2>3. outs \in [1 .. 4 -> BoxSet]
    BY <2>1, <2>2
  <2>4. PICK n \in Nat : n = 4
    OBVIOUS
  <2>5. outs \in [1 .. n -> BoxSet]
    BY <2>3, <2>4
  <2>6. outs \in Seq(BoxSet) /\ Len(outs) = n
    BY ONLY <2>5, n \in Nat, FunctionSeq
  <2> QED
    BY <2>4, <2>6
<1>10. Shaped(outs, a, t, t1, v2)
  <2>1. \A j \in 1 .. 4 : outs[j].id = <<a, t, j>>
    BY <1>4, <1>5, <1>6, <1>7
  <2> QED
    BY <1>4, <1>5, <1>6, <1>7, <1>9, <2>1 DEF Shaped
<1>11. PICK b1, b2, b3, b4 : b1 = outs[1] /\ b2 = outs[2] /\ b3 = outs[3] /\ b4 = outs[4]
  OBVIOUS
<1>12. ToSet(outs) = Four(b1, b2, b3, b4)
  BY <1>3, <1>11 DEF ToSet, Four
<1>13. b1 # b2 /\ b1 # b3 /\ b1 # b4 /\ b2 # b3 /\ b2 # b4 /\ b3 # b4
  <2>1. b1.id[3] = 1 /\ b2.id[3] = 2 /\ b3.id[3] = 3 /\ b4.id[3] = 4
    BY <1>4, <1>5, <1>6, <1>7, <1>11
  <2> QED
    BY <2>1
<1>14. /\ b1.value = v1 /\ b2.value = v2 /\ b3.value = v3 /\ b4.value = v4
       /\ \A k \in TokenKinds : /\ b1.tokens[k] = t1[k] /\ b2.tokens[k] = 0
                                /\ b3.tokens[k] = 0 /\ b4.tokens[k] = t4[k]
                                /\ t1[k] \in Nat /\ t4[k] \in Nat
  BY <1>4, <1>5, <1>6, <1>7, <1>11, NoneType
<1>15. \A x \in Four(b1, b2, b3, b4) : x.value \in Int /\ \A k \in TokenKinds : x.tokens[k] \in Int
  BY <1>14 DEF Four
<1>16. /\ Value(Four(b1, b2, b3, b4)) = b1.value + b2.value + b3.value + b4.value
       /\ \A k \in TokenKinds :
             Total(Four(b1, b2, b3, b4), k)
                 = b1.tokens[k] + b2.tokens[k] + b3.tokens[k] + b4.tokens[k]
  BY ONLY <1>13, <1>15, FourBoxes
<1>17. \A k \in TokenKinds : Total(ToSet(outs), k) = t1[k] + t4[k]
  BY <1>12, <1>14, <1>16
<1> QED
  BY <1>7, <1>10, <1>12, <1>14, <1>16, <1>17 DEF FourFacts

\* The five outputs of the last transaction.
FiveFacts(a, b, c, d, e) ==
    /\ Value(Four(a, b, c, d) \cup {e}) = a.value + b.value + c.value + d.value + e.value
    /\ \A k \in TokenKinds :
          Total(Four(a, b, c, d) \cup {e}, k)
              = a.tokens[k] + b.tokens[k] + c.tokens[k] + d.tokens[k] + e.tokens[k]

\* The sums over five boxes that differ.
LEMMA FiveBoxes ==
    ASSUME NEW a, NEW b, NEW c, NEW d, NEW e, a # b, a # c, a # d, b # c, b # d, c # d,
           e \notin Four(a, b, c, d),
           \A x \in Four(a, b, c, d) \cup {e} :
               x.value \in Int /\ \A k \in TokenKinds : x.tokens[k] \in Int
    PROVE  FiveFacts(a, b, c, d, e)
<1>1. /\ IsFiniteSet(Four(a, b, c, d))
      /\ Value(Four(a, b, c, d)) = a.value + b.value + c.value + d.value
      /\ \A k \in TokenKinds :
            Total(Four(a, b, c, d), k) = a.tokens[k] + b.tokens[k] + c.tokens[k] + d.tokens[k]
  BY FourBoxes
<1>2. Value(Four(a, b, c, d) \cup {e}) = e.value + Value(Four(a, b, c, d))
  BY <1>1, ValueAdd
<1>3. ASSUME NEW k \in TokenKinds
      PROVE  Total(Four(a, b, c, d) \cup {e}, k) = e.tokens[k] + Total(Four(a, b, c, d), k)
  BY <1>1, TotalAdd
<1>4. /\ {a.value, b.value, c.value, d.value, e.value} \subseteq Int
      /\ \A k \in TokenKinds :
            {a.tokens[k], b.tokens[k], c.tokens[k], d.tokens[k], e.tokens[k]} \subseteq Int
  BY DEF Four
<1>5. ASSUME NEW k \in TokenKinds
      PROVE  Total(Four(a, b, c, d) \cup {e}, k)
                 = a.tokens[k] + b.tokens[k] + c.tokens[k] + d.tokens[k] + e.tokens[k]
  <2>1. {a.tokens[k], b.tokens[k], c.tokens[k], d.tokens[k], e.tokens[k]} \subseteq Int
    BY <1>4
  <2>2. Total(Four(a, b, c, d), k) = a.tokens[k] + b.tokens[k] + c.tokens[k] + d.tokens[k]
    BY <1>1
  <2>3. Total(Four(a, b, c, d) \cup {e}, k) = e.tokens[k] + Total(Four(a, b, c, d), k)
    BY <1>3
  <2> QED
    BY ONLY <2>1, <2>2, <2>3
<1>6. Value(Four(a, b, c, d) \cup {e}) = a.value + b.value + c.value + d.value + e.value
  BY <1>1, <1>2, <1>4
<1> QED
  BY <1>5, <1>6 DEF FiveFacts

-----------------------------------------------------------------------------
\* The chain of transactions.

\* A transaction.
TxSet == [ins : Seq(BoxSet), outs : Seq(BoxSet)]

\* It returns the ERG and the tokens it takes.
Balanced(tx) ==
    /\ Value(ToSet(tx.ins)) = Value(ToSet(tx.outs))
    /\ \A k \in TokenKinds : Total(ToSet(tx.ins), k) <= Total(ToSet(tx.outs), k)

\* The tokens of the first output of a transaction.
FirstTokens(i) == IF i = 1 THEN Deposit0 ELSE IF i = 5 THEN PoolTokens ELSE Minted(i)

\* Transaction i of attempt a, but for the last.
ShapedTx(tx, i, a) ==
    /\ Shaped(tx.outs, a, i - 1, FirstTokens(i), CalcTargetBalance(6 - i))
    /\ i # 1 => tx.outs[4].tokens = None

\* Where the inputs of a transaction come from.
Sourced(ts, i, S) ==
    /\ i \in 2 .. 4 => S \subseteq {ts[i - 1].outs[2], ts[i - 1].outs[4]}
    /\ i = 5 => S \subseteq {ts[1].outs[1], ts[2].outs[1], ts[3].outs[1], ts[4].outs[1], ts[4].outs[2]}
    /\ i = 6 => S \subseteq ToSet(ts[5].outs)

\* The outputs belong to attempt a.
Numbered(tx, a) == \A b \in ToSet(tx.outs) : b.id[1] = a

\* A chain that is built by attempt a.
ChainOf(ts, a) ==
    \A i \in 1 .. Len(ts) :
        /\ Balanced(ts[i])
        /\ Sourced(ts, i, ToSet(ts[i].ins))
        /\ i <= 5 => ShapedTx(ts[i], i, a)
        /\ Numbered(ts[i], a)

\* Boxes of the attempts before a.
Older(boxes, a) == \A b \in boxes : b.id[1] < a

(***************************************************************************)
(* The invariant of the chain.  It names every box by the attempt, the     *)
(* transaction and the place that made it: transactions 2 to 4 spend from  *)
(* the second and fourth box of the one before, the fifth the first boxes  *)
(* of the four before and the change, the sixth those of the fifth, and    *)
(* the first only boxes of earlier attempts.                               *)
(***************************************************************************)
ChainInv ==
    /\ txs \in Seq(TxSet) /\ Len(txs) <= 6 /\ ChainOf(txs, attempts)
    /\ attempts \in Nat /\ submitted \in Nat /\ input \in Delegations
    /\ ledger \in SUBSET BoxSet /\ IsFiniteSet(ledger) /\ Older(ledger, attempts + 1)
    /\ tool = "building" => Len(txs) <= 5 /\ submitted = 0 /\ Older(ledger, attempts)
    /\ tool = "submitting" => Len(txs) = 6 /\ submitted \in 0 .. 5
    /\ submitted = 0 /\ Len(txs) > 0 =>
          Older(ledger, attempts) /\ ToSet(txs[1].ins) \subseteq ledger

\* No transaction is built at the start, and all boxes are of attempt 0.
LEMMA ChainInit == DeployInit => ChainInv
<1> SUFFICES ASSUME DeployInit PROVE ChainInv
  OBVIOUS
<1>1. ledger \in Wallets /\ txs = <<>> /\ submitted = 0 /\ tool = "idle" /\ attempts = 0 /\ input \in Delegations
  BY DEF DeployInit
<1>2. IsFiniteSet(ledger) /\ ledger \subseteq [id : {0} \X {0} \X Nat, value : Nat,
                                              tokens : [TokenKinds -> Nat], mine : BOOLEAN]
  BY <1>1, DeployAssumption
<1>3. ASSUME NEW b \in ledger
      PROVE  b \in BoxSet /\ b.id[1] < 0 + 1
  <2>1. b \in [id : {0} \X {0} \X Nat, value : Nat, tokens : [TokenKinds -> Nat], mine : BOOLEAN]
    BY <1>2
  <2>2. b.id[1] = 0 /\ b.id \in Nat \X Nat \X Nat
    BY <2>1
  <2>3. b.tokens \in [TokenKinds -> Int] /\ b.value \in Int
    BY <2>1
  <2> QED
    BY <2>1, <2>2, <2>3 DEF BoxSet
<1>4. txs \in Seq(TxSet) /\ Len(txs) = 0
  BY <1>1
<1> QED
  BY <1>1, <1>2, <1>3, <1>4 DEF ChainInv, ChainOf, Older

\* What an Append does to the chain.
LEMMA AppendTx ==
    ASSUME NEW ts \in Seq(TxSet), NEW tx \in TxSet, NEW new, new = Append(ts, tx)
    PROVE  /\ new \in Seq(TxSet) /\ Len(new) = Len(ts) + 1
           /\ \A i \in 1 .. Len(ts) : new[i] = ts[i]
           /\ new[Len(ts) + 1] = tx
  BY AppendProperties

\* A transaction is added to the chain.
LEMMA AddTx ==
    ASSUME ChainInv, tool = "building", NEW tx \in TxSet, NEW n \in 1 .. 6, n = Len(txs) + 1,
           txs' = Append(txs, tx), tool' = IF Len(txs) = 5 THEN "submitting" ELSE "building",
           UNCHANGED <<ledger, input, submitted, attempts>>,
           Balanced(tx), Sourced(txs, n, ToSet(tx.ins)), n <= 5 => ShapedTx(tx, n, attempts),
           Numbered(tx, attempts), n = 1 => ToSet(tx.ins) \subseteq ledger
    PROVE  ChainInv'
<1>1. /\ txs' \in Seq(TxSet) /\ Len(txs') = n
      /\ \A i \in 1 .. Len(txs) : txs'[i] = txs[i]
      /\ txs'[n] = tx /\ Len(txs) \in Nat /\ n - 1 = Len(txs)
  <2>1. txs \in Seq(TxSet)
    BY DEF ChainInv
  <2>2. /\ txs' \in Seq(TxSet) /\ Len(txs') = Len(txs) + 1
        /\ \A i \in 1 .. Len(txs) : txs'[i] = txs[i]
        /\ txs'[Len(txs) + 1] = tx
    BY ONLY <2>1, tx \in TxSet, txs' = Append(txs, tx), AppendTx
  <2>3. Len(txs) \in Nat
    BY <2>1
  <2> QED
    BY <2>2, <2>3
<1>2. ASSUME NEW i \in 1 .. n
      PROVE  /\ Balanced(txs'[i])
             /\ Sourced(txs', i, ToSet(txs'[i].ins))
             /\ i <= 5 => ShapedTx(txs'[i], i, attempts)
             /\ Numbered(txs'[i], attempts)
  <2>1. CASE i = n
    <3>1. Sourced(txs', n, ToSet(tx.ins))
      <4>1. CASE n \in 2 .. 4
        <5>1. txs'[n - 1] = txs[n - 1]
          <6>1. n - 1 \in 1 .. Len(txs)
            BY <1>1, <4>1
          <6> QED
            BY <1>1, <6>1
        <5> QED
          BY <4>1, <5>1 DEF Sourced
      <4>2. CASE n = 5
        <5>1. txs'[1] = txs[1] /\ txs'[2] = txs[2] /\ txs'[3] = txs[3] /\ txs'[4] = txs[4]
          BY <1>1, <4>2
        <5> QED
          BY <4>2, <5>1 DEF Sourced
      <4>3. CASE n = 6
        <5>1. txs'[5] = txs[5]
          BY <1>1, <4>3
        <5> QED
          BY <4>3, <5>1 DEF Sourced
      <4>4. CASE n = 1
        BY <4>4 DEF Sourced
      <4> QED
        BY <4>1, <4>2, <4>3, <4>4
    <3> QED
      BY <1>1, <2>1, <3>1
  <2>2. CASE i # n
    <3>1. i \in 1 .. Len(txs) /\ txs'[i] = txs[i]
      BY <1>1, <2>2
    <3>2. /\ Balanced(txs[i])
          /\ Sourced(txs, i, ToSet(txs[i].ins))
          /\ i <= 5 => ShapedTx(txs[i], i, attempts)
          /\ Numbered(txs[i], attempts)
      BY <3>1 DEF ChainInv, ChainOf
    <3>3. Sourced(txs', i, ToSet(txs[i].ins))
      <4>1. \A j \in 1 .. i : txs'[j] = txs[j]
        BY <1>1, <3>1
      <4>2. i \in 2 .. 4 => txs'[i - 1] = txs[i - 1]
        BY <4>1
      <4>3. i = 5 => txs'[1] = txs[1] /\ txs'[2] = txs[2] /\ txs'[3] = txs[3] /\ txs'[4] = txs[4]
        BY <4>1
      <4>4. i = 6 => txs'[5] = txs[5]
        BY <4>1
      <4> QED
        BY <3>2, <4>2, <4>3, <4>4 DEF Sourced
    <3> QED
      BY <3>1, <3>2, <3>3
  <2> QED
    BY <2>1, <2>2
<1>3. ChainOf(txs', attempts')
  BY <1>1, <1>2 DEF ChainOf
<1>4. submitted = 0 /\ Older(ledger, attempts)
  BY DEF ChainInv
<1>5. ToSet(txs'[1].ins) \subseteq ledger
  <2>1. CASE n = 1
    BY <1>1, <2>1
  <2>2. CASE n # 1
    BY <1>1, <1>4, <2>2 DEF ChainInv
  <2> QED
    BY <2>1, <2>2
<1>6. /\ tool' = "building" => Len(txs') <= 5
      /\ tool' = "submitting" => Len(txs') = 6
  BY <1>1
<1>7. Older(ledger', attempts' + 1) /\ Older(ledger', attempts')
  BY <1>4 DEF ChainInv
<1> QED
  BY <1>1, <1>3, <1>4, <1>5, <1>6, <1>7 DEF ChainInv

\* The tool ends, or the node has not taken a transaction: the chain stays.
LEMMA ToolEnds ==
    ASSUME ChainInv, tool' \in {"refused", "panicked"},
           UNCHANGED <<txs, ledger, input, submitted, attempts>>
    PROVE  ChainInv'
  BY DEF ChainInv

\* A new attempt starts with an empty chain and a number of its own.
LEMMA StartChain ==
    ASSUME ChainInv, StartTool
    PROVE  ChainInv'
<1>1. /\ attempts' = attempts + 1 /\ txs' = <<>> /\ submitted' = 0
      /\ tool' \in {"building", "refused"} /\ ledger' = ledger /\ input' = input
  BY DEF StartTool
<1>2. txs' \in Seq(TxSet) /\ Len(txs') = 0
  BY <1>1
<1>3. Older(ledger', attempts') /\ Older(ledger', attempts' + 1) /\ attempts' \in Nat
  <2>1. \A b \in ledger : b.id[1] < attempts + 1 /\ b.id[1] \in Nat
    BY DEF ChainInv, Older, BoxSet
  <2>2. attempts \in Nat
    BY DEF ChainInv
  <2> QED
    BY <1>1, <2>1, <2>2 DEF Older
<1>4. ChainOf(txs', attempts')
  BY <1>2 DEF ChainOf
<1> QED
  BY <1>1, <1>2, <1>3, <1>4 DEF ChainInv

\* The node takes a transaction: its outputs are of this attempt.
LEMMA SubmitChain ==
    ASSUME ChainInv, SubmitTx
    PROVE  ChainInv'
<1>1. PICK tx : tx = txs[submitted + 1]
  OBVIOUS
<1>2. /\ ledger' = (ledger \ ToSet(tx.ins)) \cup ToSet(tx.outs)
      /\ input' = input /\ attempts' = attempts
      /\ \/ tool' = "done" /\ txs' = <<>> /\ submitted' = 0
         \/ submitted' = submitted + 1 /\ tool' = tool /\ txs' = txs /\ submitted # 5
  BY <1>1 DEF SubmitTx
<1>3. Len(txs) = 6 /\ submitted \in 0 .. 5 /\ tool = "submitting" /\ txs \in Seq(TxSet)
  BY DEF ChainInv, SubmitTx
<1>4. submitted + 1 \in 1 .. Len(txs)
  BY <1>3
<1>5. tx \in TxSet /\ Numbered(tx, attempts)
  BY <1>1, <1>3, <1>4, ElementOfSeq DEF ChainInv, ChainOf
<1>6. tx.outs \in Seq(BoxSet)
  BY <1>5 DEF TxSet
<1>7. IsFiniteSet(ToSet(tx.outs)) /\ ToSet(tx.outs) \subseteq BoxSet
  BY <1>6, SeqFinite DEF ToSet
<1>8. ledger' \in SUBSET BoxSet /\ IsFiniteSet(ledger')
  <2>1. IsFiniteSet(ledger) /\ ledger \in SUBSET BoxSet
    BY DEF ChainInv
  <2>2. IsFiniteSet(ledger \ ToSet(tx.ins))
    BY <2>1, FS_Difference
  <2> QED
    BY <1>2, <1>7, <2>1, <2>2, FS_Union
<1>9. Older(ledger', attempts + 1)
  <2>1. ASSUME NEW b \in ledger'
        PROVE  b.id[1] < attempts + 1
    <3>1. b \in ledger \/ b \in ToSet(tx.outs)
      BY <1>2
    <3>2. attempts \in Nat
      BY DEF ChainInv
    <3> QED
      BY <1>5, <3>1, <3>2 DEF ChainInv, Older, Numbered
  <2> QED
    BY <2>1 DEF Older
<1>10. /\ txs' \in Seq(TxSet) /\ Len(txs') <= 6 /\ ChainOf(txs', attempts) /\ submitted' \in Nat
       /\ tool' = "building" => FALSE
       /\ tool' = "submitting" => Len(txs') = 6 /\ submitted' \in 0 .. 5
       /\ ~(submitted' = 0 /\ Len(txs') > 0)
  <2>1. CASE tool' = "done" /\ txs' = <<>> /\ submitted' = 0
    <3>1. txs' \in Seq(TxSet) /\ Len(txs') = 0
      BY <2>1
    <3>2. ChainOf(txs', attempts)
      BY <3>1 DEF ChainOf
    <3> QED
      BY <2>1, <3>1, <3>2
  <2>2. CASE submitted' = submitted + 1 /\ tool' = tool /\ txs' = txs /\ submitted # 5
    <3>1. submitted + 1 \in 1 .. 5 /\ submitted + 1 # 0
      BY <1>3, <2>2
    <3>2. ChainOf(txs', attempts)
      BY <2>2 DEF ChainInv
    <3>3. txs' \in Seq(TxSet) /\ Len(txs') = 6 /\ Len(txs') <= 6
      <4>1. txs' = txs
        BY <2>2
      <4>2. txs' \in Seq(TxSet) /\ Len(txs') = 6
        BY ONLY <1>3, <4>1, Zenon
      <4> QED
        BY ONLY <4>2
    <3>4. submitted' \in Nat /\ submitted' \in 0 .. 5 /\ submitted' # 0 /\ tool' # "building"
      BY <1>3, <2>2, <3>1
    <3> QED
      BY ONLY <3>2, <3>3, <3>4
  <2> QED
    BY <1>2, <2>1, <2>2
<1>11. attempts' \in Nat /\ input' \in Delegations
  BY <1>2 DEF ChainInv
<1> QED
  BY <1>2, <1>8, <1>9, <1>10, <1>11 DEF ChainInv

-----------------------------------------------------------------------------
\* The transactions one by one.

\* The constants of the tool are natural numbers.
LEMMA ToolConstants ==
    /\ TxFee \in Nat /\ ErgPerBox \in Nat /\ FatBox \in Nat /\ MinBox \in Nat
    /\ InitialLq \in Nat /\ InitialLq > 0 /\ ProgramBudget \in Nat /\ ProgramBudget > 0
    /\ MaxValue \in Nat /\ MaxValue > 0
  BY DeployAssumption, PoolAssumption

\* Each transaction leaves the target balance of the next.
LEMMA Targets ==
    /\ \A n \in 1 .. 6 : CalcTargetBalance(n) \in Nat
    /\ \A n \in 2 .. 6 : CalcTargetBalance(n) = CalcTargetBalance(n - 1) + ErgPerBox + TxFee
    /\ CalcTargetBalance(1) = TxFee + 3 * FatBox
<1>1. PICK s \in Nat : s = ErgPerBox + TxFee
  BY ToolConstants
<1>2. PICK l \in Nat : l = TxFee + 3 * FatBox
  BY ToolConstants
<1>3. \A n \in Int : CalcTargetBalance(n) = s * (n - 1) + l
  <2> TAKE n \in Int
  <2>1. PICK p \in Int : p = s * (n - 1)
    OBVIOUS
  <2>2. CalcTargetBalance(n) = p + TxFee + 3 * FatBox
    BY <1>1, <2>1 DEF CalcTargetBalance
  <2> QED
    BY <1>2, <2>1, <2>2, ToolConstants
<1>4. ASSUME NEW n \in 1 .. 6
      PROVE  CalcTargetBalance(n) \in Nat
  <2>1. n - 1 \in Nat
    OBVIOUS
  <2>2. s * (n - 1) \in Nat
    BY <2>1
  <2> QED
    BY <1>3, <2>2
<1>5. ASSUME NEW n \in 2 .. 6
      PROVE  CalcTargetBalance(n) = CalcTargetBalance(n - 1) + ErgPerBox + TxFee
  <2>1. s * (n - 1) = s * ((n - 1) - 1) + s
    OBVIOUS
  <2>2. s * ((n - 1) - 1) \in Int
    OBVIOUS
  <2>3. CalcTargetBalance(n) = s * (n - 1) + l /\ CalcTargetBalance(n - 1) = s * ((n - 1) - 1) + l
    <3>1. n \in Int /\ n - 1 \in Int
      OBVIOUS
    <3> QED
      BY ONLY <1>3, <3>1
  <2> QED
    BY <1>1, <2>1, <2>2, <2>3, ToolConstants
<1>6. CalcTargetBalance(1) = l
  <2>1. CalcTargetBalance(1) = s * (1 - 1) + l
    BY <1>3
  <2> QED
    BY <2>1
<1> QED
  BY <1>2, <1>4, <1>5, <1>6

\* Kinds of tokens that the boxes of the tool hold.
LEMMA TokenTypes ==
    /\ Deposit0 \in [TokenKinds -> Nat] /\ PoolTokens \in [TokenKinds -> Nat]
    /\ \A i \in 2 .. 4 : Minted(i) \in [TokenKinds -> Nat]
    /\ Minted(2)["nft"] > 0 /\ Minted(3)["vlq"] > 0 /\ Minted(4)["tmp"] > 0
    /\ Deposit0["reward"] > 0
    /\ \A k \in TokenKinds :
          Deposit0[k] + Minted(2)[k] + Minted(3)[k] + Minted(4)[k] = PoolTokens[k]
<1>1. /\ Minted(2) = Tokens([nft |-> 1])
      /\ Minted(3) = Tokens([vlq |-> MaxValue])
      /\ Minted(4) = Tokens([tmp |-> MaxValue])
  BY DEF Minted
<1>2. ASSUME NEW k \in TokenKinds
      PROVE  /\ Minted(2)[k] = IF k = "nft" THEN 1 ELSE 0
             /\ Minted(3)[k] = IF k = "vlq" THEN MaxValue ELSE 0
             /\ Minted(4)[k] = IF k = "tmp" THEN MaxValue ELSE 0
             /\ Deposit0[k] = IF k = "lq" THEN InitialLq
                              ELSE IF k = "reward" THEN ProgramBudget ELSE 0
             /\ PoolTokens[k] = IF k = "lq" THEN InitialLq
                                ELSE IF k = "reward" THEN ProgramBudget
                                ELSE IF k = "nft" THEN 1
                                ELSE IF k \in {"vlq", "tmp"} THEN MaxValue ELSE 0
  BY <1>1 DEF Tokens, Deposit0, PoolTokens
<1>3. {"nft", "vlq", "tmp", "reward"} \subseteq TokenKinds
  BY DEF TokenKinds
<1>4. Deposit0 \in [TokenKinds -> Nat] /\ PoolTokens \in [TokenKinds -> Nat]
  <2>1. \A k \in TokenKinds : Deposit0[k] \in Nat /\ PoolTokens[k] \in Nat
    BY <1>2, ToolConstants
  <2>2. Deposit0 = [k \in TokenKinds |-> Deposit0[k]] /\ PoolTokens = [k \in TokenKinds |-> PoolTokens[k]]
    BY DEF Deposit0, PoolTokens, Tokens
  <2> QED
    BY <2>1, <2>2
<1>5. ASSUME NEW i \in 2 .. 4
      PROVE  Minted(i) \in [TokenKinds -> Nat]
  <2>1. \A k \in TokenKinds : Minted(2)[k] \in Nat /\ Minted(3)[k] \in Nat /\ Minted(4)[k] \in Nat
    BY <1>2, ToolConstants
  <2>2. /\ Minted(2) = [k \in TokenKinds |-> Minted(2)[k]]
        /\ Minted(3) = [k \in TokenKinds |-> Minted(3)[k]]
        /\ Minted(4) = [k \in TokenKinds |-> Minted(4)[k]]
    BY <1>1 DEF Tokens
  <2>3. /\ Minted(2) \in [TokenKinds -> Nat] /\ Minted(3) \in [TokenKinds -> Nat]
        /\ Minted(4) \in [TokenKinds -> Nat]
    BY <2>1, <2>2
  <2>4. i = 2 \/ i = 3 \/ i = 4
    OBVIOUS
  <2> QED
    BY <2>3, <2>4
<1>6. /\ Minted(2)["nft"] > 0 /\ Minted(3)["vlq"] > 0 /\ Minted(4)["tmp"] > 0
      /\ Deposit0["reward"] > 0
  BY <1>2, <1>3, ToolConstants
<1>7. ASSUME NEW k \in TokenKinds
      PROVE  Deposit0[k] + Minted(2)[k] + Minted(3)[k] + Minted(4)[k] = PoolTokens[k]
  BY <1>2, ToolConstants
<1> QED
  BY <1>4, <1>5, <1>6, <1>7

\* A transaction that pays for one box and the fee, and leaves the rest.
LEMMA StepTx ==
    ASSUME NEW a \in Nat, NEW i \in 1 .. 5, NEW sel \in Seq(BoxSet),
           NEW first \in [TokenKinds -> Nat], NEW rest \in [TokenKinds -> Nat],
           first = FirstTokens(i), i # 1 => rest = None,
           Value(ToSet(sel)) \in Int, Value(ToSet(sel)) >= CalcTargetBalance(7 - i),
           \A k \in TokenKinds : Total(ToSet(sel), k) <= first[k] + rest[k],
           NEW made, made = <<Box(ErgPerBox, first), Box(CalcTargetBalance(6 - i), None), Fee(TxFee),
                              Box(Value(ToSet(sel)) - CalcTargetBalance(7 - i), rest)>>,
           NEW tx, tx = [ins |-> sel, outs |-> Signed(a, i - 1, made)]
    PROVE  tx \in TxSet /\ Balanced(tx) /\ ShapedTx(tx, i, a) /\ Numbered(tx, a)
<1>1. PICK outs : outs = Signed(a, i - 1, made)
  OBVIOUS
<1>2. PICK v : v = Value(ToSet(sel))
  OBVIOUS
<1>3. /\ CalcTargetBalance(7 - i) = CalcTargetBalance(6 - i) + ErgPerBox + TxFee
      /\ CalcTargetBalance(7 - i) \in Nat /\ CalcTargetBalance(6 - i) \in Nat
  <2>1. PICK n \in 2 .. 6 : n = 7 - i
    OBVIOUS
  <2>2. n - 1 = 6 - i /\ n - 1 \in 1 .. 6 /\ n \in 1 .. 6
    BY <2>1
  <2>3. CalcTargetBalance(n) = CalcTargetBalance(n - 1) + ErgPerBox + TxFee
    BY Targets
  <2>4. CalcTargetBalance(n) \in Nat /\ CalcTargetBalance(n - 1) \in Nat
    BY <2>2, Targets
  <2> QED
    BY <2>1, <2>2, <2>3, <2>4
<1>4. PICK c, d : c = CalcTargetBalance(6 - i) /\ d = CalcTargetBalance(7 - i)
  OBVIOUS
<1>5. PICK r : r = v - d
  OBVIOUS
<1>6. c \in Nat /\ d = c + ErgPerBox + TxFee /\ d \in Nat /\ v \in Int /\ v >= d /\ r \in Nat
  <2>1. c \in Nat /\ d = c + ErgPerBox + TxFee /\ d \in Nat /\ v \in Int /\ v >= d
    BY <1>2, <1>3, <1>4
  <2> QED
    BY ONLY <1>5, <2>1
<1>7. outs = Signed(a, i - 1, FourMade(ErgPerBox, first, c, TxFee, r, rest))
  BY <1>1, <1>2, <1>4, <1>5 DEF FourMade
<1>8. i - 1 \in Nat /\ ErgPerBox \in Nat /\ TxFee \in Nat
  BY ToolConstants
<1>9. /\ Shaped(outs, a, i - 1, first, c)
      /\ outs[4].tokens = rest
      /\ Value(ToSet(outs)) = ErgPerBox + c + TxFee + r
      /\ \A k \in TokenKinds : Total(ToSet(outs), k) = first[k] + rest[k]
  <2>1. PICK t \in Nat : t = i - 1
    BY <1>8
  <2>2. outs = Signed(a, t, FourMade(ErgPerBox, first, c, TxFee, r, rest))
    BY <1>7, <2>1
  <2>3. /\ Shaped(outs, a, t, first, c)
        /\ outs[4].tokens = rest
        /\ Value(ToSet(outs)) = ErgPerBox + c + TxFee + r
        /\ \A k \in TokenKinds : Total(ToSet(outs), k) = first[k] + rest[k]
    <3>1. PICK e \in Nat, f \in Nat : e = ErgPerBox /\ f = TxFee
      BY <1>8
    <3>2. c \in Nat /\ r \in Nat /\ outs = Signed(a, t, FourMade(e, first, c, f, r, rest))
      BY <1>6, <2>2, <3>1
    <3>3. FourFacts(outs, a, t, e, first, c, f, r, rest)
      BY ONLY <3>2, e \in Nat, f \in Nat, t \in Nat, a \in Nat, first \in [TokenKinds -> Nat],
              rest \in [TokenKinds -> Nat], FourSigned
    <3> QED
      BY <3>1, <3>3 DEF FourFacts
  <2> QED
    BY <2>1, <2>3
<1>10. tx.ins = sel /\ tx.outs = outs
  BY <1>1
<1>11. outs \in Seq(BoxSet)
  BY <1>9 DEF Shaped
<1>12. tx \in TxSet
  BY <1>1, <1>11 DEF TxSet
<1>13. Value(ToSet(outs)) = v
  BY <1>5, <1>6, <1>8, <1>9
<1>14. Balanced(tx)
  BY <1>2, <1>9, <1>10, <1>13 DEF Balanced
<1>15. ShapedTx(tx, i, a)
  BY <1>4, <1>9, <1>10 DEF ShapedTx
<1>16. Numbered(tx, a)
  <2>1. DOMAIN outs = 1 .. 4 /\ \A j \in 1 .. 4 : outs[j].id = <<a, i - 1, j>>
    BY <1>9, <1>11 DEF Shaped
  <2>2. \A j \in 1 .. 4 : outs[j].id[1] = a
    BY <2>1
  <2>3. \A b \in ToSet(outs) : b.id[1] = a
    BY ONLY <2>1, <2>2 DEF ToSet
  <2> QED
    BY <1>10, <2>3 DEF Numbered
<1> QED
  BY <1>12, <1>14, <1>15, <1>16

\* What the sums say of a selection of boxes.
LEMMA SumsOfSeq ==
    ASSUME NEW sel \in Seq(BoxSet)
    PROVE  /\ IsFiniteSet(ToSet(sel)) /\ ToSet(sel) \subseteq BoxSet
           /\ Value(ToSet(sel)) \in Int
           /\ \A k \in TokenKinds : Total(ToSet(sel), k) \in Int
<1>1. IsFiniteSet(ToSet(sel))
  BY SeqFinite
<1>2. ToSet(sel) \subseteq BoxSet
  BY DEF ToSet
<1>3. \A b \in ToSet(sel) : b.value \in Int /\ \A k \in TokenKinds : b.tokens[k] \in Int
  BY <1>2 DEF BoxSet
<1>4. Value(ToSet(sel)) \in Int
  BY <1>1, <1>3, ValueInt
<1>5. ASSUME NEW k \in TokenKinds
      PROVE  Total(ToSet(sel), k) \in Int
  BY <1>1, <1>3, TotalInt
<1> QED
  BY <1>1, <1>2, <1>4, <1>5

\* TX 0 keeps the invariant: it spends boxes of the wallet and returns their tokens.
LEMMA GatherChain ==
    ASSUME ChainInv, GatherTokens
    PROVE  ChainInv'
<1> DEFINE M == {b \in ledger : b.mine}
<1>1. PICK utxos \in SetToSeqs(M) :
         Build(Select(utxos, CalcTargetBalance(6), Deposit0), CalcTargetBalance(6), Deposit0,
               <<Box(ErgPerBox, Deposit0), Box(CalcTargetBalance(5), None), Fee(TxFee),
                 Box(Value(ToSet(Select(utxos, CalcTargetBalance(6), Deposit0))) - CalcTargetBalance(6),
                     Leftover(Select(utxos, CalcTargetBalance(6), Deposit0)))>>)
  BY DEF GatherTokens
<1>2. tool = "building" /\ txs = <<>> /\ Len(txs) = 0
  BY DEF GatherTokens
<1>3. PICK sel : sel = Select(utxos, CalcTargetBalance(6), Deposit0)
  OBVIOUS
<1>4. PICK rest : rest = Leftover(sel)
  OBVIOUS
<1>5. PICK made : made = <<Box(ErgPerBox, Deposit0), Box(CalcTargetBalance(5), None), Fee(TxFee),
                           Box(Value(ToSet(sel)) - CalcTargetBalance(6), rest)>>
  OBVIOUS
<1>6. Build(sel, CalcTargetBalance(6), Deposit0, made)
  BY <1>1, <1>3, <1>4, <1>5
<1>7. M \in SUBSET BoxSet /\ IsFiniteSet(M)
  BY FS_Subset DEF ChainInv
<1> HIDE DEF M
<1>8. utxos \in Seq(M)
  <2>1. PICK n \in Nat : n = Cardinality(M)
    BY <1>7, FS_CardinalityType
  <2>2. utxos \in [1 .. n -> M]
    BY <2>1 DEF SetToSeqs
  <2> QED
    BY ONLY <2>2, n \in Nat, FunctionSeq
<1>9. sel \in Seq(M)
  BY ONLY <1>3, <1>8, SelectedOffered
<1>10. sel \in Seq(BoxSet) /\ ToSet(sel) \subseteq ledger
  <2>1. M \subseteq BoxSet /\ M \subseteq ledger
    BY <1>7 DEF M
  <2>2. sel \in Seq(BoxSet)
    BY <1>9, <2>1, SeqMonotonic
  <2>3. ToSet(sel) \subseteq M
    BY <1>9 DEF ToSet
  <2> QED
    BY <2>1, <2>2, <2>3
<1>11. PICK v : v = Value(ToSet(sel))
  OBVIOUS
<1>12. v \in Int /\ \A k \in TokenKinds : Total(ToSet(sel), k) \in Int
  BY <1>10, <1>11, SumsOfSeq
<1>13. rest \in [TokenKinds -> Nat] /\ \A k \in TokenKinds : Total(ToSet(sel), k) <= Deposit0[k] + rest[k]
  <2>1. ASSUME NEW k \in TokenKinds
        PROVE  rest[k] \in Nat /\ Total(ToSet(sel), k) <= Deposit0[k] + rest[k]
    <3>1. rest[k] = SatSub(Total(ToSet(sel), k), Deposit0[k])
      BY <1>4 DEF Leftover
    <3>2. Deposit0[k] \in Nat /\ Total(ToSet(sel), k) \in Int
      BY <1>12, TokenTypes
    <3> QED
      BY ONLY <3>1, <3>2 DEF SatSub
  <2>2. rest = [k \in TokenKinds |-> rest[k]]
    BY <1>4 DEF Leftover
  <2> QED
    BY <2>1, <2>2
<1>14. /\ UNCHANGED <<ledger, input, submitted, attempts>>
       /\ \/ txs' = txs /\ tool' \in {"refused", "panicked"}
          \/ /\ v >= CalcTargetBalance(6)
             /\ txs' = Append(txs, Sign(sel, made))
             /\ tool' = IF Len(txs) = 5 THEN "submitting" ELSE "building"
  BY <1>6, <1>11, BuildCases DEF Suffices
<1>15. CASE txs' = txs /\ tool' \in {"refused", "panicked"}
  BY <1>14, <1>15, ToolEnds
<1>16. CASE /\ v >= CalcTargetBalance(6)
            /\ txs' = Append(txs, Sign(sel, made))
            /\ tool' = IF Len(txs) = 5 THEN "submitting" ELSE "building"
  <2>1. PICK tx : tx = [ins |-> sel, outs |-> Signed(attempts, 0, made)]
    OBVIOUS
  <2>2. Sign(sel, made) = tx
    BY <1>2, <2>1, SignIs
  <2>3. PICK i \in 1 .. 5 : i = 1
    OBVIOUS
  <2>4. /\ Deposit0 = FirstTokens(i) /\ 7 - i = 6 /\ 6 - i = 5 /\ i - 1 = 0 /\ attempts \in Nat
        /\ Deposit0 \in [TokenKinds -> Nat]
    BY <2>3, TokenTypes DEF FirstTokens, ChainInv
  <2>5. tx \in TxSet /\ Balanced(tx) /\ ShapedTx(tx, i, attempts) /\ Numbered(tx, attempts)
    <3>1. PICK a \in Nat : a = attempts
      BY <2>4
    <3>2. tx = [ins |-> sel, outs |-> Signed(a, i - 1, made)]
      BY <2>1, <2>4, <3>1
    <3>3. made = <<Box(ErgPerBox, Deposit0), Box(CalcTargetBalance(6 - i), None), Fee(TxFee),
                   Box(Value(ToSet(sel)) - CalcTargetBalance(7 - i), rest)>>
      BY <1>5, <2>4
    <3>4. Value(ToSet(sel)) \in Int /\ Value(ToSet(sel)) >= CalcTargetBalance(7 - i) /\ (i # 1 => rest = None)
      BY <1>11, <1>12, <1>16, <2>3, <2>4
    <3>5. tx \in TxSet /\ Balanced(tx) /\ ShapedTx(tx, i, a) /\ Numbered(tx, a)
      BY ONLY <1>10, <1>13, <2>4, <3>2, <3>3, <3>4, i \in 1 .. 5, a \in Nat, StepTx
    <3> QED
      BY <3>1, <3>5
  <2>6. PICK n \in 1 .. 6 : n = 1
    OBVIOUS
  <2>7. n = Len(txs) + 1 /\ Sourced(txs, n, ToSet(tx.ins)) /\ ToSet(tx.ins) \subseteq ledger
    BY <1>2, <1>10, <2>1, <2>6 DEF Sourced
  <2> QED
    BY <1>2, <1>14, <1>16, <2>2, <2>3, <2>5, <2>6, <2>7, AddTx
<1> QED
  BY <1>14, <1>15, <1>16

\* Boxes without tokens have no tokens of any kind.
LEMMA NoTokens ==
    ASSUME NEW S, IsFiniteSet(S), NEW k \in TokenKinds, \A b \in S : b.tokens = None
    PROVE  Total(S, k) = 0
<1>1. PICK f : f = Amount(S, k)
  OBVIOUS
<1>2. \A b \in S : f[b] = 0 /\ f[b] \in Int
  BY <1>1, NoneType DEF Amount
<1>3. PICK T \in SUBSET S : T = {}
  OBVIOUS
<1>4. SumOver(f, S) = SumOver(f, T)
  BY <1>2, SumZero
<1> QED
  BY <1>1, <1>3, <1>4, TotalIs, SumEmpty

\* The least of a set of two possible numbers is one of them.
LEMMA LeastOf ==
    ASSUME NEW S \in SUBSET {1, 4}, 4 \in S
    PROVE  Min(S) \in {1, 4}
<1>1. \E x \in S : \A y \in S : x =< y
  OBVIOUS
<1>2. Min(S) \in S
  BY <1>1 DEF Min
<1> QED
  BY <1>2

\* The box of the tokens left over is set aside: nothing is left for change.
LEMMA SetAside ==
    ASSUME ChainInv, Len(txs) = 1, txs[1].outs[4].tokens # None
    PROVE  Value(ToSet(Select(FundsFor(1), CalcTargetBalance(5), None))) = CalcTargetBalance(5)
<1>1. PICK outs : outs = txs[1].outs
  OBVIOUS
<1>2. Shaped(outs, attempts, 0, Deposit0, CalcTargetBalance(5))
  <2>1. ShapedTx(txs[1], 1, attempts)
    BY DEF ChainInv, ChainOf
  <2> QED
    BY <1>1, <2>1 DEF ShapedTx, FirstTokens
<1>3. PICK rest : rest = outs[4].tokens
  OBVIOUS
<1>4. PICK marked : marked = {j \in DOMAIN outs :
                                \E k \in TokenKinds : rest[k] > 0 /\ outs[j].tokens[k] = rest[k]}
  OBVIOUS
<1>5. outs \in Seq(BoxSet) /\ Len(outs) = 4 /\ DOMAIN outs = 1 .. 4
  BY <1>2 DEF Shaped
<1>6. marked \in SUBSET {1, 4} /\ 4 \in marked
  <2>1. rest \in [TokenKinds -> Nat] /\ outs[2].tokens = None /\ outs[3].tokens = None
    BY <1>2, <1>3 DEF Shaped
  <2>2. PICK k \in TokenKinds : rest[k] > 0
    <3>1. rest # None
      BY <1>1, <1>3
    <3> QED
      BY <2>1, <3>1 DEF None
  <2>3. 4 \in marked
    BY <1>3, <1>4, <1>5, <2>2
  <2>4. 2 \notin marked /\ 3 \notin marked
    BY <1>4, <2>1, NoneType
  <2>5. marked \subseteq 1 .. 4
    BY <1>4, <1>5
  <2> QED
    BY <2>3, <2>4, <2>5
<1>7. PICK m \in {1, 4} : m = Min(marked)
  BY <1>6, LeastOf
<1>8. PICK funds : funds = SwapRemove(outs, m)
  OBVIOUS
<1>9. FundsFor(1) = funds
  BY <1>1, <1>3, <1>4, <1>7, <1>8 DEF FundsFor
<1>10. /\ DOMAIN funds = 1 .. 3 /\ funds \in [1 .. 3 -> BoxSet]
       /\ funds[2] = outs[2] /\ funds[3] = outs[3]
  <2>1. Len(outs) - 1 = 3
    BY <1>5
  <2>2. funds = [j \in 1 .. 3 |-> IF j = m THEN outs[4] ELSE outs[j]]
    BY <1>5, <1>8, <2>1 DEF SwapRemove
  <2>3. \A j \in 1 .. 4 : outs[j] \in BoxSet
    <3> TAKE j \in 1 .. 4
    <3>1. j \in 1 .. Len(outs)
      BY <1>5
    <3> QED
      BY ONLY <1>5, <3>1, ElementOfSeq
  <2> QED
    BY <2>2, <2>3
<1>11. Len(funds) = 3
  <2>1. PICK n \in Nat : n = 3
    OBVIOUS
  <2>2. funds \in [1 .. n -> BoxSet]
    BY <1>10, <2>1
  <2>3. Len(funds) = n
    BY ONLY <2>2, n \in Nat, FunctionSeq
  <2> QED
    BY <2>1, <2>3
<1>12. PICK target \in Nat : target = CalcTargetBalance(5)
  BY Targets
<1>13. funds[2].mine /\ funds[2].tokens = None /\ funds[2].value = target /\ ~funds[3].mine
  BY <1>2, <1>10, <1>12 DEF Shaped
<1>14. Value(ToSet(Select(funds, target, None))) = target
  BY ONLY <1>10, <1>11, <1>13, target \in Nat, RestSelects
<1> QED
  BY <1>9, <1>12, <1>14

\* TX 1 to 3 keep the invariant: they spend the second and the fourth box of the one before.
LEMMA MintChain ==
    ASSUME ChainInv, MintToken
    PROVE  ChainInv'
<1>1. PICK n \in 1 .. 3 : n = Len(txs)
  BY DEF MintToken
<1>2. PICK i \in 2 .. 4 : i = n + 1
  OBVIOUS
<1>3. 6 - n = 7 - i /\ (7 - i) - 1 = 6 - i /\ i - 1 = n
  BY <1>2
<1>4. PICK sel : sel = Select(FundsFor(n), CalcTargetBalance(7 - i), None)
  OBVIOUS
<1>5. PICK made : made = <<Box(ErgPerBox, Minted(i)), Box(CalcTargetBalance(6 - i), None), Fee(TxFee),
                           Box(Value(ToSet(sel)) - CalcTargetBalance(7 - i), None)>>
  OBVIOUS
<1>6. Build(sel, CalcTargetBalance(7 - i), None, made)
  <2>1. LET left == 6 - Len(txs)
            s == Select(FundsFor(Len(txs)), CalcTargetBalance(left), None)
            outs == <<Box(ErgPerBox, Minted(Len(txs) + 1)), Box(CalcTargetBalance(left - 1), None),
                      Fee(TxFee), Box(Value(ToSet(s)) - CalcTargetBalance(left), None)>>
        IN  Build(s, CalcTargetBalance(left), None, outs)
    BY DEF MintToken
  <2> QED
    BY ONLY <1>1, <1>2, <1>3, <1>4, <1>5, <2>1
<1>7. PICK outs : outs = txs[n].outs
  OBVIOUS
<1>8. PICK target \in Nat : target = CalcTargetBalance(7 - i)
  <2>1. 7 - i \in 1 .. 6
    OBVIOUS
  <2> QED
    BY <2>1, Targets
<1>9. ShapedTx(txs[n], n, attempts)
  BY <1>1 DEF ChainInv, ChainOf
<1>10. Shaped(outs, attempts, n - 1, FirstTokens(n), target)
  BY <1>3, <1>7, <1>8, <1>9 DEF ShapedTx
<1>11. outs \in Seq(BoxSet) /\ Len(outs) = 4 /\ DOMAIN outs = 1 .. 4
  BY <1>10 DEF Shaped
<1>12. tool = "building" /\ UNCHANGED <<ledger, input, submitted, attempts>>
  BY <1>6, BuildCases DEF MintToken
<1>13. CASE n = 1 /\ outs[4].tokens # None
  <2>1. Value(ToSet(sel)) = target
    <3>1. 7 - i = 5
      BY <1>2, <1>13
    <3>2. Len(txs) = 1 /\ txs[1].outs[4].tokens # None
      BY <1>1, <1>7, <1>13
    <3>3. Value(ToSet(Select(FundsFor(1), CalcTargetBalance(5), None))) = CalcTargetBalance(5)
      BY <3>2, SetAside
    <3> QED
      BY <1>4, <1>8, <1>13, <3>1, <3>3
  <2>2. DOMAIN made = 1 .. 4 /\ made[4] = Box(target - target, None)
    BY <1>5, <1>8, <2>1
  <2>3. made[4].value = 0
    <3>1. target - target = 0
      OBVIOUS
    <3> QED
      BY <2>2, <3>1 DEF Box
  <2>4. Ends(made)
    BY <2>2, <2>3 DEF Ends
  <2>5. txs' = txs /\ tool' \in {"refused", "panicked"}
    BY <1>6, <2>4, BuildCases
  <2> QED
    BY <1>12, <2>5, ToolEnds
<1>14. CASE ~(n = 1 /\ outs[4].tokens # None)
  <2>1. outs[4].tokens = None
    BY <1>7, <1>9, <1>14 DEF ShapedTx
  <2>2. FundsFor(n) = outs
    BY <1>7, <1>14 DEF FundsFor
  <2>3. sel = Select(outs, target, None)
    BY <1>4, <1>8, <2>2
  <2>4. sel \in Seq(BoxSet)
    BY ONLY <1>11, <2>3, SelectedOffered
  <2>5. outs[2] # outs[4]
    <3>1. outs[2].id = <<attempts, n - 1, 2>> /\ outs[4].id = <<attempts, n - 1, 4>>
      BY <1>10 DEF Shaped
    <3>2. outs[2].id[3] = 2 /\ outs[4].id[3] = 4
      BY <3>1
    <3> QED
      BY <3>2
  <2>6. ToSet(sel) \subseteq {outs[2], outs[4]}
    <3>1. /\ outs[2].tokens = None /\ outs[2].value = target /\ outs[2].mine /\ ~outs[3].mine
          /\ outs[4].value \in Nat /\ target \in Int
      BY <1>10 DEF Shaped
    <3> QED
      BY ONLY <1>11, <2>1, <2>3, <2>5, <3>1, MintSelects
  <2>7. \A k \in TokenKinds : Total(ToSet(sel), k) = 0
    <3>1. \A b \in ToSet(sel) : b.tokens = None
      BY <1>10, <2>1, <2>6 DEF Shaped
    <3>2. IsFiniteSet(ToSet(sel))
      BY <2>4, SumsOfSeq
    <3> QED
      BY <3>1, <3>2, NoTokens
  <2>8. \/ txs' = txs /\ tool' \in {"refused", "panicked"}
        \/ /\ Value(ToSet(sel)) >= CalcTargetBalance(7 - i)
           /\ txs' = Append(txs, Sign(sel, made))
           /\ tool' = IF Len(txs) = 5 THEN "submitting" ELSE "building"
    BY <1>6, BuildCases DEF Suffices
  <2>9. CASE txs' = txs /\ tool' \in {"refused", "panicked"}
    BY <1>12, <2>9, ToolEnds
  <2>10. CASE /\ Value(ToSet(sel)) >= CalcTargetBalance(7 - i)
              /\ txs' = Append(txs, Sign(sel, made))
              /\ tool' = IF Len(txs) = 5 THEN "submitting" ELSE "building"
    <3>1. PICK tx : tx = [ins |-> sel, outs |-> Signed(attempts, n, made)]
      OBVIOUS
    <3>2. Sign(sel, made) = tx
      BY <1>1, <3>1, SignIs
    <3>3. PICK a \in Nat : a = attempts
      BY DEF ChainInv
    <3>4. PICK first : first = Minted(i)
      OBVIOUS
    <3>5. first \in [TokenKinds -> Nat] /\ first = FirstTokens(i) /\ None \in [TokenKinds -> Nat]
      BY <3>4, TokenTypes, NoneType DEF FirstTokens
    <3>6. tx = [ins |-> sel, outs |-> Signed(a, i - 1, made)]
      BY <1>3, <3>1, <3>3
    <3>7. made = <<Box(ErgPerBox, first), Box(CalcTargetBalance(6 - i), None), Fee(TxFee),
                   Box(Value(ToSet(sel)) - CalcTargetBalance(7 - i), None)>>
      BY <1>5, <3>4
    <3>8. Value(ToSet(sel)) \in Int /\ Value(ToSet(sel)) >= CalcTargetBalance(7 - i)
      BY <2>4, <2>10, SumsOfSeq
    <3>9. \A k \in TokenKinds : Total(ToSet(sel), k) <= first[k] + None[k]
      BY <2>7, <3>5, NoneType
    <3>10. i \in 1 .. 5 /\ (i # 1 => None = None)
      OBVIOUS
    <3>11. tx \in TxSet /\ Balanced(tx) /\ ShapedTx(tx, i, a) /\ Numbered(tx, a)
      BY ONLY <2>4, <3>5, <3>6, <3>7, <3>8, <3>9, <3>10, a \in Nat, StepTx
    <3>12. Sourced(txs, i, ToSet(tx.ins))
      BY <1>3, <1>7, <2>6, <3>1 DEF Sourced
    <3>13. i \in 1 .. 6 /\ i = Len(txs) + 1 /\ i # 1
      BY <1>1, <1>2
    <3> QED
      BY <1>12, <2>10, <3>2, <3>3, <3>11, <3>12, <3>13, AddTx
  <2> QED
    BY <2>8, <2>9, <2>10
<1> QED
  BY <1>13, <1>14

\* The box with a token is the first when the first has it.
LEMMA FirstFound ==
    ASSUME NEW outs, NEW k, DOMAIN outs = 1 .. 4, outs[1].tokens[k] > 0
    PROVE  FindBoxWithToken(outs, k) = outs[1]
<1>1. PICK S : S = {j \in DOMAIN outs : outs[j].tokens[k] > 0}
  OBVIOUS
<1>2. 1 \in S /\ S \subseteq 1 .. 4
  BY <1>1
<1>3. Min(S) \in S /\ \A y \in S : Min(S) =< y
  <2>1. \E x \in S : \A y \in S : x =< y
    BY <1>2
  <2> QED
    BY <2>1 DEF Min
<1>4. Min(S) = 1
  <2>1. PICK m : m = Min(S)
    OBVIOUS
  <2>2. m \in 1 .. 4 /\ m =< 1
    BY <1>2, <1>3, <2>1
  <2> QED
    BY <2>1, <2>2
<1> QED
  BY <1>1, <1>4 DEF FindBoxWithToken

\* The outputs of the first four transactions, when the fifth is built.
LEMMA PoolParts ==
    ASSUME ChainInv, Len(txs) = 4, NEW j \in 1 .. 4
    PROVE  /\ Shaped(txs[j].outs, attempts, j - 1, FirstTokens(j), CalcTargetBalance(6 - j))
           /\ DOMAIN txs[j].outs = 1 .. 4
           /\ txs[j].outs[1] \in BoxSet /\ txs[j].outs[2] \in BoxSet
           /\ txs[j].outs[1].id = <<attempts, j - 1, 1>> /\ txs[j].outs[2].id = <<attempts, j - 1, 2>>
           /\ txs[j].outs[1].tokens = FirstTokens(j) /\ txs[j].outs[2].tokens = None
<1>1. ShapedTx(txs[j], j, attempts)
  BY DEF ChainInv, ChainOf
<1>2. PICK outs : outs = txs[j].outs
  OBVIOUS
<1>3. Shaped(outs, attempts, j - 1, FirstTokens(j), CalcTargetBalance(6 - j))
  BY <1>1, <1>2 DEF ShapedTx
<1>4. outs \in Seq(BoxSet) /\ Len(outs) = 4 /\ DOMAIN outs = 1 .. 4
  BY <1>3 DEF Shaped
<1>5. outs[1] \in BoxSet /\ outs[2] \in BoxSet
  <2>1. 1 \in 1 .. Len(outs) /\ 2 \in 1 .. Len(outs)
    BY <1>4
  <2> QED
    BY ONLY <1>4, <2>1, ElementOfSeq
<1>6. /\ outs[1].id = <<attempts, j - 1, 1>> /\ outs[2].id = <<attempts, j - 1, 2>>
      /\ outs[1].tokens = FirstTokens(j) /\ outs[2].tokens = None
  BY <1>3 DEF Shaped
<1> QED
  BY <1>2, <1>3, <1>4, <1>5, <1>6

\* The boxes from which TX 4 takes its tokens are the first of their transactions.
LEMMA PoolFound ==
    ASSUME ChainInv, Len(txs) = 4
    PROVE  /\ FindBoxWithToken(txs[2].outs, "nft") = txs[2].outs[1]
           /\ FindBoxWithToken(txs[1].outs, "reward") = txs[1].outs[1]
           /\ FindBoxWithToken(txs[3].outs, "vlq") = txs[3].outs[1]
           /\ FindBoxWithToken(txs[4].outs, "tmp") = txs[4].outs[1]
<1>1. \A j \in 1 .. 4 : DOMAIN txs[j].outs = 1 .. 4 /\ txs[j].outs[1].tokens = FirstTokens(j)
  BY PoolParts
<1>2. /\ FirstTokens(1) = Deposit0 /\ FirstTokens(2) = Minted(2)
      /\ FirstTokens(3) = Minted(3) /\ FirstTokens(4) = Minted(4)
  BY DEF FirstTokens
<1>3. /\ txs[2].outs[1].tokens["nft"] > 0 /\ txs[1].outs[1].tokens["reward"] > 0
      /\ txs[3].outs[1].tokens["vlq"] > 0 /\ txs[4].outs[1].tokens["tmp"] > 0
  BY <1>1, <1>2, TokenTypes
<1>4. /\ DOMAIN txs[1].outs = 1 .. 4 /\ DOMAIN txs[2].outs = 1 .. 4
      /\ DOMAIN txs[3].outs = 1 .. 4 /\ DOMAIN txs[4].outs = 1 .. 4
  BY <1>1
<1> QED
  BY ONLY <1>3, <1>4, FirstFound

\* The inputs that TX 4 is selected from hold what the pool is made of.
LEMMA FiveParts ==
    ASSUME ChainInv, Len(txs) = 4, NEW ins,
           ins = <<txs[2].outs[1], txs[1].outs[1], txs[3].outs[1], txs[4].outs[1], txs[4].outs[2]>>
    PROVE  /\ ins \in Seq(BoxSet)
           /\ ToSet(ins) = {txs[1].outs[1], txs[2].outs[1], txs[3].outs[1], txs[4].outs[1], txs[4].outs[2]}
           /\ \A b \in ToSet(ins), k \in TokenKinds : b.tokens[k] \in Nat
           /\ \A k \in TokenKinds : Total(ToSet(ins), k) = PoolTokens[k]
<1>1. PICK b1, b2, b3, b4, b5 : /\ b1 = txs[1].outs[1] /\ b2 = txs[2].outs[1]
                                /\ b3 = txs[3].outs[1] /\ b4 = txs[4].outs[1] /\ b5 = txs[4].outs[2]
  OBVIOUS
<1>2. ins = <<b2, b1, b3, b4, b5>>
  BY <1>1
<1>3. /\ b1 \in BoxSet /\ b2 \in BoxSet /\ b3 \in BoxSet /\ b4 \in BoxSet /\ b5 \in BoxSet
      /\ b1.id = <<attempts, 1 - 1, 1>> /\ b2.id = <<attempts, 2 - 1, 1>> /\ b3.id = <<attempts, 3 - 1, 1>>
      /\ b4.id = <<attempts, 4 - 1, 1>> /\ b5.id = <<attempts, 4 - 1, 2>>
      /\ b1.tokens = Deposit0 /\ b2.tokens = Minted(2) /\ b3.tokens = Minted(3)
      /\ b4.tokens = Minted(4) /\ b5.tokens = None
  <2>1. \A j \in 1 .. 4 :
           /\ txs[j].outs[1] \in BoxSet /\ txs[j].outs[2] \in BoxSet
           /\ txs[j].outs[1].id = <<attempts, j - 1, 1>> /\ txs[j].outs[2].id = <<attempts, j - 1, 2>>
           /\ txs[j].outs[1].tokens = FirstTokens(j) /\ txs[j].outs[2].tokens = None
    BY PoolParts
  <2>2. /\ FirstTokens(1) = Deposit0 /\ FirstTokens(2) = Minted(2)
        /\ FirstTokens(3) = Minted(3) /\ FirstTokens(4) = Minted(4)
    BY DEF FirstTokens
  <2>3. 1 \in 1 .. 4 /\ 2 \in 1 .. 4 /\ 3 \in 1 .. 4 /\ 4 \in 1 .. 4
    OBVIOUS
  <2> QED
    BY ONLY <1>1, <2>1, <2>2, <2>3
<1>4. /\ b1.id[2] = 0 /\ b2.id[2] = 1 /\ b3.id[2] = 2 /\ b4.id[2] = 3 /\ b5.id[2] = 3
      /\ b4.id[3] = 1 /\ b5.id[3] = 2
  BY <1>3
<1>5. /\ b2 # b1 /\ b2 # b3 /\ b2 # b4 /\ b1 # b3 /\ b1 # b4 /\ b3 # b4
      /\ b5 \notin Four(b2, b1, b3, b4)
  BY <1>4 DEF Four
<1>6. ins \in [1 .. 5 -> BoxSet] /\ ToSet(ins) = Four(b2, b1, b3, b4) \cup {b5}
  <2>1. /\ DOMAIN ins = 1 .. 5 /\ ins[1] = b2 /\ ins[2] = b1 /\ ins[3] = b3 /\ ins[4] = b4
        /\ ins[5] = b5 /\ ins = [j \in 1 .. 5 |-> ins[j]]
    BY <1>2
  <2>2. \A j \in 1 .. 5 : ins[j] \in BoxSet
    BY <1>3, <2>1
  <2>3. ToSet(ins) = Four(b2, b1, b3, b4) \cup {b5}
    BY <2>1 DEF ToSet, Four
  <2> QED
    BY <2>1, <2>2, <2>3
<1>7. ins \in Seq(BoxSet)
  <2>1. PICK n \in Nat : n = 5
    OBVIOUS
  <2>2. ins \in [1 .. n -> BoxSet]
    BY <1>6, <2>1
  <2> QED
    BY ONLY <2>2, n \in Nat, FunctionSeq
<1>8. ASSUME NEW b \in ToSet(ins), NEW k \in TokenKinds
      PROVE  b.tokens[k] \in Nat
  <2>1. /\ Deposit0[k] \in Nat /\ Minted(2)[k] \in Nat /\ Minted(3)[k] \in Nat
        /\ Minted(4)[k] \in Nat /\ None[k] \in Nat
    BY TokenTypes, NoneType
  <2> QED
    BY <1>3, <1>6, <2>1 DEF Four
<1>9. ASSUME NEW k \in TokenKinds
      PROVE  Total(ToSet(ins), k) = PoolTokens[k]
  <2>1. \A x \in Four(b2, b1, b3, b4) \cup {b5} :
            x.value \in Int /\ \A kk \in TokenKinds : x.tokens[kk] \in Int
    BY <1>3 DEF Four, BoxSet
  <2>2. Total(Four(b2, b1, b3, b4) \cup {b5}, k)
            = b2.tokens[k] + b1.tokens[k] + b3.tokens[k] + b4.tokens[k] + b5.tokens[k]
    <3>1. FiveFacts(b2, b1, b3, b4, b5)
      BY ONLY <1>5, <2>1, FiveBoxes
    <3> QED
      BY <3>1 DEF FiveFacts
  <2>3. /\ Deposit0[k] \in Nat /\ Minted(2)[k] \in Nat /\ Minted(3)[k] \in Nat
        /\ Minted(4)[k] \in Nat /\ None[k] = 0
    BY TokenTypes, NoneType
  <2>4. Deposit0[k] + Minted(2)[k] + Minted(3)[k] + Minted(4)[k] = PoolTokens[k]
    BY TokenTypes
  <2>5. Total(ToSet(ins), k) = Minted(2)[k] + Deposit0[k] + Minted(3)[k] + Minted(4)[k] + None[k]
    BY <1>3, <1>6, <2>2, Zenon
  <2> QED
    BY ONLY <2>3, <2>4, <2>5
<1>10. ToSet(ins) = {b1, b2, b3, b4, b5}
  BY <1>6 DEF Four
<1> QED
  BY <1>1, <1>7, <1>8, <1>9, <1>10

\* TX 4 keeps the invariant: it collects the tokens of the four before.
LEMMA PoolChain ==
    ASSUME ChainInv, PoolInput
    PROVE  ChainInv'
<1>1. tool = "building" /\ Len(txs) = 4
  BY DEF PoolInput
<1>2. PICK ins : ins = <<txs[2].outs[1], txs[1].outs[1], txs[3].outs[1], txs[4].outs[1], txs[4].outs[2]>>
  OBVIOUS
<1>3. PICK sel : sel = Select(ins, CalcTargetBalance(2), PoolTokens)
  OBVIOUS
<1>4. PICK made : made = <<Box(ErgPerBox, PoolTokens), Box(CalcTargetBalance(1), None), Fee(TxFee),
                           Box(Value(ToSet(sel)) - CalcTargetBalance(2), None)>>
  OBVIOUS
<1>5. Build(sel, CalcTargetBalance(2), PoolTokens, made)
  <2>1. LET in5 == <<FindBoxWithToken(txs[2].outs, "nft"), FindBoxWithToken(txs[1].outs, "reward"),
                     FindBoxWithToken(txs[3].outs, "vlq"), FindBoxWithToken(txs[4].outs, "tmp"),
                     txs[4].outs[2]>>
            s == Select(in5, CalcTargetBalance(2), PoolTokens)
            outs == <<Box(ErgPerBox, PoolTokens), Box(CalcTargetBalance(1), None), Fee(TxFee),
                      Box(Value(ToSet(s)) - CalcTargetBalance(2), None)>>
        IN  Build(s, CalcTargetBalance(2), PoolTokens, outs)
    BY DEF PoolInput
  <2>2. /\ FindBoxWithToken(txs[2].outs, "nft") = txs[2].outs[1]
        /\ FindBoxWithToken(txs[1].outs, "reward") = txs[1].outs[1]
        /\ FindBoxWithToken(txs[3].outs, "vlq") = txs[3].outs[1]
        /\ FindBoxWithToken(txs[4].outs, "tmp") = txs[4].outs[1]
    BY <1>1, PoolFound
  <2> QED
    BY ONLY <1>2, <1>3, <1>4, <2>1, <2>2
<1>6. /\ ins \in Seq(BoxSet)
      /\ ToSet(ins) = {txs[1].outs[1], txs[2].outs[1], txs[3].outs[1], txs[4].outs[1], txs[4].outs[2]}
      /\ \A b \in ToSet(ins), k \in TokenKinds : b.tokens[k] \in Nat
      /\ \A k \in TokenKinds : Total(ToSet(ins), k) = PoolTokens[k]
  BY <1>1, <1>2, FiveParts
<1>7. sel \in Seq(BoxSet) /\ ToSet(sel) \subseteq ToSet(ins)
  BY ONLY <1>3, <1>6, SelectedOffered
<1>8. \A k \in TokenKinds : Total(ToSet(sel), k) <= PoolTokens[k] + None[k]
  <2> TAKE k \in TokenKinds
  <2>1. IsFiniteSet(ToSet(ins))
    BY <1>6, SumsOfSeq
  <2>2. Total(ToSet(sel), k) <= Total(ToSet(ins), k)
    BY <1>6, <1>7, <2>1, TotalSubset
  <2>3. PoolTokens[k] \in Nat /\ None[k] = 0 /\ Total(ToSet(ins), k) = PoolTokens[k]
    BY <1>6, TokenTypes, NoneType
  <2> QED
    BY ONLY <2>2, <2>3
<1>9. /\ UNCHANGED <<ledger, input, submitted, attempts>>
      /\ \/ txs' = txs /\ tool' \in {"refused", "panicked"}
         \/ /\ Value(ToSet(sel)) >= CalcTargetBalance(2)
            /\ txs' = Append(txs, Sign(sel, made))
            /\ tool' = IF Len(txs) = 5 THEN "submitting" ELSE "building"
  BY <1>5, BuildCases DEF Suffices
<1>10. CASE txs' = txs /\ tool' \in {"refused", "panicked"}
  BY <1>9, <1>10, ToolEnds
<1>11. CASE /\ Value(ToSet(sel)) >= CalcTargetBalance(2)
            /\ txs' = Append(txs, Sign(sel, made))
            /\ tool' = IF Len(txs) = 5 THEN "submitting" ELSE "building"
  <2>1. PICK i \in 1 .. 5 : i = 5
    OBVIOUS
  <2>2. 7 - i = 2 /\ 6 - i = 1 /\ i - 1 = 4 /\ i = Len(txs) + 1 /\ i \in 1 .. 6 /\ i # 1
    BY <1>1, <2>1
  <2>3. PICK a \in Nat : a = attempts
    BY DEF ChainInv
  <2>4. PICK tx : tx = [ins |-> sel, outs |-> Signed(a, i - 1, made)]
    OBVIOUS
  <2>5. Sign(sel, made) = tx
    BY <1>1, <2>2, <2>3, <2>4, SignIs
  <2>6. PICK first : first = PoolTokens
    OBVIOUS
  <2>7. first \in [TokenKinds -> Nat] /\ first = FirstTokens(i) /\ None \in [TokenKinds -> Nat]
    BY <2>1, <2>6, TokenTypes, NoneType DEF FirstTokens
  <2>8. made = <<Box(ErgPerBox, first), Box(CalcTargetBalance(6 - i), None), Fee(TxFee),
                 Box(Value(ToSet(sel)) - CalcTargetBalance(7 - i), None)>>
    BY <1>4, <2>2, <2>6
  <2>9. Value(ToSet(sel)) \in Int /\ Value(ToSet(sel)) >= CalcTargetBalance(7 - i)
    BY <1>7, <1>11, <2>2, SumsOfSeq
  <2>10. (\A k \in TokenKinds : Total(ToSet(sel), k) <= first[k] + None[k]) /\ (i # 1 => None = None)
    BY <1>8, <2>6
  <2>11. tx \in TxSet /\ Balanced(tx) /\ ShapedTx(tx, i, a) /\ Numbered(tx, a)
    BY ONLY <1>7, <2>4, <2>7, <2>8, <2>9, <2>10, a \in Nat, i \in 1 .. 5, StepTx
  <2>12. Sourced(txs, i, ToSet(tx.ins))
    BY <1>6, <1>7, <2>1, <2>4 DEF Sourced
  <2> QED
    BY <1>1, <1>9, <1>11, <2>2, <2>3, <2>5, <2>11, <2>12, AddTx
<1> QED
  BY <1>9, <1>10, <1>11

\* What the signature of a transaction adds to its outputs.
SignedFacts(outs, a, t, made, n) ==
    /\ outs \in Seq(BoxSet) /\ DOMAIN outs = 1 .. n
    /\ \A j \in 1 .. n : /\ outs[j].id = <<a, t, j>> /\ outs[j].value = made[j].value
                         /\ outs[j].tokens = made[j].tokens
    /\ \A i, j \in 1 .. n : i # j => outs[i] # outs[j]

\* The outputs of any transaction: their ids, and that they differ.
LEMMA SignedBoxes ==
    ASSUME NEW a \in Nat, NEW t \in Nat, NEW n \in Nat, NEW made, DOMAIN made = 1 .. n,
           \A j \in 1 .. n : /\ made[j].value \in Int /\ made[j].mine \in BOOLEAN
                             /\ made[j].tokens \in [TokenKinds -> Int],
           NEW outs, outs = Signed(a, t, made)
    PROVE  SignedFacts(outs, a, t, made, n)
<1>1. DOMAIN outs = 1 .. n
  BY DEF Signed
<1>2. ASSUME NEW j \in 1 .. n
      PROVE  outs[j] = [id |-> <<a, t, j>>, value |-> made[j].value,
                        tokens |-> made[j].tokens, mine |-> made[j].mine]
  BY DEF Signed
<1>3. ASSUME NEW j \in 1 .. n
      PROVE  outs[j] \in BoxSet
  <2>1. j \in Nat
    OBVIOUS
  <2>2. <<a, t, j>> \in Nat \X Nat \X Nat
    BY <2>1
  <2>3. /\ made[j].value \in Int /\ made[j].mine \in BOOLEAN
        /\ made[j].tokens \in [TokenKinds -> Int]
    OBVIOUS
  <2>4. PICK d, v, f, m : /\ d = <<a, t, j>> /\ v = made[j].value
                          /\ f = made[j].tokens /\ m = made[j].mine
    OBVIOUS
  <2>5. outs[j] = [id |-> d, value |-> v, tokens |-> f, mine |-> m]
    BY <1>2, <2>4
  <2>6. d \in Nat \X Nat \X Nat /\ v \in Int /\ f \in [TokenKinds -> Int] /\ m \in BOOLEAN
    BY <2>2, <2>3, <2>4
  <2> QED
    BY ONLY <2>5, <2>6 DEF BoxSet
<1>4. outs \in [1 .. n -> BoxSet]
  <2>1. outs = [j \in 1 .. n |-> outs[j]]
    BY <1>1 DEF Signed
  <2> QED
    BY <1>3, <2>1
<1>5. outs \in Seq(BoxSet)
  BY ONLY <1>4, n \in Nat, FunctionSeq
<1>6. \A j \in 1 .. n : /\ outs[j].id = <<a, t, j>> /\ outs[j].value = made[j].value
                        /\ outs[j].tokens = made[j].tokens
  <2> TAKE j \in 1 .. n
  <2>1. outs[j] = [id |-> <<a, t, j>>, value |-> made[j].value,
                   tokens |-> made[j].tokens, mine |-> made[j].mine]
    BY <1>2
  <2> QED
    BY ONLY <2>1
<1>7. ASSUME NEW i \in 1 .. n, NEW j \in 1 .. n, i # j
      PROVE  outs[i] # outs[j]
  <2>1. outs[i].id = <<a, t, i>> /\ outs[j].id = <<a, t, j>>
    BY <1>6
  <2>2. outs[i].id[3] = i /\ outs[j].id[3] = j
    BY <2>1
  <2> QED
    BY <1>7, <2>2
<1> QED
  BY ONLY <1>1, <1>5, <1>6, <1>7 DEF SignedFacts

\* The sums over the outputs of the last transaction, which are four or five.
LEMMA FourLast ==
    ASSUME NEW outs, NEW a, NEW t, NEW made, SignedFacts(outs, a, t, made, 4)
    PROVE  /\ Value(ToSet(outs)) = made[1].value + made[2].value + made[3].value + made[4].value
           /\ \A k \in TokenKinds :
                 Total(ToSet(outs), k) = made[1].tokens[k] + made[2].tokens[k]
                                             + made[3].tokens[k] + made[4].tokens[k]
<1>1. PICK b1, b2, b3, b4 : b1 = outs[1] /\ b2 = outs[2] /\ b3 = outs[3] /\ b4 = outs[4]
  OBVIOUS
<1>2. 1 \in 1 .. 4 /\ 2 \in 1 .. 4 /\ 3 \in 1 .. 4 /\ 4 \in 1 .. 4
  OBVIOUS
<1>3. ToSet(outs) = Four(b1, b2, b3, b4)
  BY <1>1 DEF ToSet, Four, SignedFacts
<1>4. b1 # b2 /\ b1 # b3 /\ b1 # b4 /\ b2 # b3 /\ b2 # b4 /\ b3 # b4
  BY <1>1, <1>2 DEF SignedFacts
<1>5. /\ b1.value = made[1].value /\ b2.value = made[2].value
      /\ b3.value = made[3].value /\ b4.value = made[4].value
      /\ b1.tokens = made[1].tokens /\ b2.tokens = made[2].tokens
      /\ b3.tokens = made[3].tokens /\ b4.tokens = made[4].tokens
  BY ONLY <1>1, <1>2, SignedFacts(outs, a, t, made, 4) DEF SignedFacts
<1>6. \A x \in Four(b1, b2, b3, b4) : x.value \in Int /\ \A k \in TokenKinds : x.tokens[k] \in Int
  <2>1. \A x \in ToSet(outs) : x \in BoxSet
    <3>1. outs \in Seq(BoxSet)
      BY DEF SignedFacts
    <3> QED
      BY ONLY <3>1, SumsOfSeq
  <2> QED
    BY ONLY <1>3, <2>1 DEF BoxSet
<1>7. /\ Value(Four(b1, b2, b3, b4)) = b1.value + b2.value + b3.value + b4.value
      /\ \A k \in TokenKinds :
            Total(Four(b1, b2, b3, b4), k)
                = b1.tokens[k] + b2.tokens[k] + b3.tokens[k] + b4.tokens[k]
  BY ONLY <1>4, <1>6, FourBoxes
<1> QED
  BY ONLY <1>3, <1>5, <1>7

\* The same for five outputs.
LEMMA FiveLast ==
    ASSUME NEW outs, NEW a, NEW t, NEW made, SignedFacts(outs, a, t, made, 5)
    PROVE  /\ Value(ToSet(outs)) = made[1].value + made[2].value + made[3].value
                                       + made[4].value + made[5].value
           /\ \A k \in TokenKinds :
                 Total(ToSet(outs), k) = made[1].tokens[k] + made[2].tokens[k] + made[3].tokens[k]
                                             + made[4].tokens[k] + made[5].tokens[k]
<1>1. PICK b1, b2, b3, b4, b5 : /\ b1 = outs[1] /\ b2 = outs[2] /\ b3 = outs[3] /\ b4 = outs[4]
                                /\ b5 = outs[5]
  OBVIOUS
<1>2. 1 \in 1 .. 5 /\ 2 \in 1 .. 5 /\ 3 \in 1 .. 5 /\ 4 \in 1 .. 5 /\ 5 \in 1 .. 5
  OBVIOUS
<1>3. ToSet(outs) = Four(b1, b2, b3, b4) \cup {b5}
  BY <1>1 DEF ToSet, Four, SignedFacts
<1>4. /\ b1 # b2 /\ b1 # b3 /\ b1 # b4 /\ b2 # b3 /\ b2 # b4 /\ b3 # b4
      /\ b5 \notin Four(b1, b2, b3, b4)
  <2>1. /\ b1 # b2 /\ b1 # b3 /\ b1 # b4 /\ b2 # b3 /\ b2 # b4 /\ b3 # b4
        /\ b5 # b1 /\ b5 # b2 /\ b5 # b3 /\ b5 # b4
    BY <1>1, <1>2 DEF SignedFacts
  <2> QED
    BY <2>1 DEF Four
<1>5. /\ b1.value = made[1].value /\ b2.value = made[2].value
      /\ b3.value = made[3].value /\ b4.value = made[4].value /\ b5.value = made[5].value
      /\ b1.tokens = made[1].tokens /\ b2.tokens = made[2].tokens
      /\ b3.tokens = made[3].tokens /\ b4.tokens = made[4].tokens /\ b5.tokens = made[5].tokens
  BY ONLY <1>1, <1>2, SignedFacts(outs, a, t, made, 5) DEF SignedFacts
<1>6. \A x \in Four(b1, b2, b3, b4) \cup {b5} :
          x.value \in Int /\ \A k \in TokenKinds : x.tokens[k] \in Int
  <2>1. \A x \in ToSet(outs) : x \in BoxSet
    <3>1. outs \in Seq(BoxSet)
      BY DEF SignedFacts
    <3> QED
      BY ONLY <3>1, SumsOfSeq
  <2> QED
    BY ONLY <1>3, <2>1 DEF BoxSet
<1>7. FiveFacts(b1, b2, b3, b4, b5)
  BY ONLY <1>4, <1>6, FiveBoxes
<1> QED
  BY ONLY <1>3, <1>5, <1>7 DEF FiveFacts

\* The keys of the bundle that the operator receives.
KeyBox == Box(FatBox, Tokens([key |-> MaxValue - 1]))

\* The pool and the first bundle hold all that the pool is made of.
LEMMA LastTokens ==
    ASSUME input \in Delegations
    PROVE  /\ PoolBox.value = FatBox /\ KeyBox.value = FatBox /\ BundleBox.value = FatBox
           /\ PoolBox.mine \in BOOLEAN /\ KeyBox.mine \in BOOLEAN /\ BundleBox.mine \in BOOLEAN
           /\ PoolBox.tokens \in [TokenKinds -> Int] /\ KeyBox.tokens \in [TokenKinds -> Int]
           /\ BundleBox.tokens \in [TokenKinds -> Int]
           /\ \A k \in TokenKinds :
                 PoolTokens[k] <= PoolBox.tokens[k] + KeyBox.tokens[k] + BundleBox.tokens[k]
<1>1. PICK m \in Int : m = InitialLq * input
  <2>1. InitialLq \in Nat /\ input \in Nat
    BY ToolConstants, PoolAssumption
  <2>2. InitialLq * input \in Int
    BY <2>1
  <2> QED
    BY <2>2
<1>2. PICK p : p = Tokens([lq |-> InitialLq, reward |-> ProgramBudget, nft |-> 1,
                           vlq |-> MaxValue - InitialLq, tmp |-> MaxValue - m])
  OBVIOUS
<1>3. PICK b : b = Tokens([vlq |-> InitialLq, tmp |-> m, key |-> 1])
  OBVIOUS
<1>4. PICK q : q = Tokens([key |-> MaxValue - 1])
  OBVIOUS
<1>5. PoolBox = Guarded(FatBox, p) /\ BundleBox = Guarded(FatBox, b) /\ KeyBox = Box(FatBox, q)
  <2>1. PoolBox = Guarded(FatBox, p)
    BY <1>1, <1>2 DEF PoolBox, FreshPool
  <2>2. BundleBox = Guarded(FatBox, b)
    BY <1>1, <1>3 DEF BundleBox, FreshBundle
  <2> QED
    BY <1>4, <2>1, <2>2 DEF KeyBox
<1>6. ASSUME NEW k \in TokenKinds
      PROVE  /\ p[k] = IF k = "lq" THEN InitialLq ELSE IF k = "reward" THEN ProgramBudget
                       ELSE IF k = "nft" THEN 1 ELSE IF k = "vlq" THEN MaxValue - InitialLq
                       ELSE IF k = "tmp" THEN MaxValue - m ELSE 0
             /\ b[k] = IF k = "vlq" THEN InitialLq ELSE IF k = "tmp" THEN m
                       ELSE IF k = "key" THEN 1 ELSE 0
             /\ q[k] = IF k = "key" THEN MaxValue - 1 ELSE 0
             /\ PoolTokens[k] = IF k = "lq" THEN InitialLq
                                ELSE IF k = "reward" THEN ProgramBudget
                                ELSE IF k = "nft" THEN 1
                                ELSE IF k \in {"vlq", "tmp"} THEN MaxValue ELSE 0
  BY <1>2, <1>3, <1>4 DEF Tokens, PoolTokens
<1>7. \A k \in TokenKinds : /\ p[k] \in Int /\ b[k] \in Int /\ q[k] \in Int
                            /\ PoolTokens[k] <= p[k] + q[k] + b[k]
  <2> TAKE k \in TokenKinds
  <2> QED
    BY ONLY <1>6, ToolConstants, k \in TokenKinds, m \in Int
<1>8. p \in [TokenKinds -> Int] /\ b \in [TokenKinds -> Int] /\ q \in [TokenKinds -> Int]
  <2>1. /\ p = [k \in TokenKinds |-> p[k]] /\ b = [k \in TokenKinds |-> b[k]]
        /\ q = [k \in TokenKinds |-> q[k]]
    BY <1>2, <1>3, <1>4 DEF Tokens
  <2> QED
    BY <1>7, <2>1
<1>9. /\ PoolBox.value = FatBox /\ KeyBox.value = FatBox /\ BundleBox.value = FatBox
      /\ PoolBox.mine = FALSE /\ KeyBox.mine = TRUE /\ BundleBox.mine = FALSE
      /\ PoolBox.tokens = p /\ KeyBox.tokens = q /\ BundleBox.tokens = b
  BY ONLY <1>5 DEF Box, Guarded
<1> QED
  BY ONLY <1>7, <1>8, <1>9

\* The outputs of TX 4 hold what the pool is made of, and nothing else.
LEMMA LastFunds ==
    ASSUME ChainInv, Len(txs) = 5, NEW outs, outs = txs[5].outs
    PROVE  /\ outs \in Seq(BoxSet)
           /\ \A b \in ToSet(outs), k \in TokenKinds : b.tokens[k] \in Nat
           /\ \A k \in TokenKinds : Total(ToSet(outs), k) = PoolTokens[k]
<1>1. Shaped(outs, attempts, 5 - 1, PoolTokens, CalcTargetBalance(6 - 5)) /\ outs[4].tokens = None
  <2>1. ShapedTx(txs[5], 5, attempts)
    BY DEF ChainInv, ChainOf
  <2> QED
    BY <2>1 DEF ShapedTx, FirstTokens
<1>2. outs \in Seq(BoxSet) /\ Len(outs) = 4 /\ DOMAIN outs = 1 .. 4
  BY <1>1 DEF Shaped
<1>3. PICK b1, b2, b3, b4 : b1 = outs[1] /\ b2 = outs[2] /\ b3 = outs[3] /\ b4 = outs[4]
  OBVIOUS
<1>4. b1.tokens = PoolTokens /\ b2.tokens = None /\ b3.tokens = None /\ b4.tokens = None
  BY <1>1, <1>3 DEF Shaped
<1>5. ToSet(outs) = Four(b1, b2, b3, b4)
  BY <1>2, <1>3 DEF ToSet, Four
<1>6. b1 # b2 /\ b1 # b3 /\ b1 # b4 /\ b2 # b3 /\ b2 # b4 /\ b3 # b4
  <2>1. /\ b1.id = <<attempts, 5 - 1, 1>> /\ b2.id = <<attempts, 5 - 1, 2>>
        /\ b3.id = <<attempts, 5 - 1, 3>> /\ b4.id = <<attempts, 5 - 1, 4>>
    BY <1>1, <1>3 DEF Shaped
  <2>2. b1.id[3] = 1 /\ b2.id[3] = 2 /\ b3.id[3] = 3 /\ b4.id[3] = 4
    BY <2>1
  <2> QED
    BY <2>2
<1>7. \A x \in Four(b1, b2, b3, b4) : x.value \in Int /\ \A k \in TokenKinds : x.tokens[k] \in Int
  <2>1. \A x \in ToSet(outs) : x \in BoxSet
    BY ONLY <1>2, SumsOfSeq
  <2> QED
    BY ONLY <1>5, <2>1 DEF BoxSet
<1>8. \A k \in TokenKinds :
          Total(Four(b1, b2, b3, b4), k)
              = b1.tokens[k] + b2.tokens[k] + b3.tokens[k] + b4.tokens[k]
  BY ONLY <1>6, <1>7, FourBoxes
<1>9. \A k \in TokenKinds : PoolTokens[k] \in Nat /\ None[k] = 0
  BY TokenTypes, NoneType
<1>10. \A k \in TokenKinds : Total(ToSet(outs), k) = PoolTokens[k]
  BY ONLY <1>4, <1>5, <1>8, <1>9
<1>11. \A b \in ToSet(outs), k \in TokenKinds : b.tokens[k] \in Nat
  BY ONLY <1>4, <1>5, <1>9 DEF Four
<1> QED
  BY ONLY <1>2, <1>10, <1>11

\* What the last transaction makes: all that is there to be spent.
LastMade(rest) ==
    <<PoolBox, KeyBox, BundleBox>>
        \o (IF rest >= MinBox THEN <<Box(rest, None), Fee(TxFee)>> ELSE <<Fee(TxFee + rest)>>)

\* What is known of its outputs when they are signed.
LastFacts(outs, a, t, rest) ==
    /\ outs \in Seq(BoxSet)
    /\ \A b \in ToSet(outs) : b.id[1] = a /\ b.id[2] = t
    /\ Value(ToSet(outs)) = 3 * FatBox + TxFee + rest
    /\ \A k \in TokenKinds : PoolTokens[k] <= Total(ToSet(outs), k)

\* They return all the ERG and all the tokens.
LEMMA LastBalanced ==
    ASSUME input \in Delegations, NEW a \in Nat, NEW t \in Nat, NEW rest \in Nat,
           NEW made, made = LastMade(rest), NEW outs, outs = Signed(a, t, made)
    PROVE  LastFacts(outs, a, t, rest)
<1>1. PICK p, q, b : p = PoolBox /\ q = KeyBox /\ b = BundleBox
  OBVIOUS
<1>2. /\ p.value = FatBox /\ q.value = FatBox /\ b.value = FatBox
      /\ p.mine \in BOOLEAN /\ q.mine \in BOOLEAN /\ b.mine \in BOOLEAN
      /\ p.tokens \in [TokenKinds -> Int] /\ q.tokens \in [TokenKinds -> Int]
      /\ b.tokens \in [TokenKinds -> Int]
      /\ \A k \in TokenKinds : PoolTokens[k] <= p.tokens[k] + q.tokens[k] + b.tokens[k]
  BY <1>1, LastTokens
<1>3. ASSUME NEW k \in TokenKinds
      PROVE  /\ p.tokens[k] \in Int /\ q.tokens[k] \in Int /\ b.tokens[k] \in Int
             /\ None[k] = 0 /\ PoolTokens[k] \in Int
  BY <1>2, TokenTypes, NoneType
<1>4. FatBox \in Nat /\ TxFee \in Nat /\ None \in [TokenKinds -> Int]
  BY ToolConstants, NoneType
<1>5. ASSUME NEW n \in Nat, SignedFacts(outs, a, t, made, n)
      PROVE  outs \in Seq(BoxSet) /\ \A x \in ToSet(outs) : x.id[1] = a /\ x.id[2] = t
  <2>1. outs \in Seq(BoxSet) /\ DOMAIN outs = 1 .. n /\ \A j \in 1 .. n : outs[j].id = <<a, t, j>>
    BY <1>5 DEF SignedFacts
  <2>2. \A j \in 1 .. n : outs[j].id[1] = a /\ outs[j].id[2] = t
    BY <2>1
  <2> QED
    BY ONLY <2>1, <2>2 DEF ToSet
<1>6. CASE rest >= MinBox
  <2>1. PICK c, f : c = Box(rest, None) /\ f = Fee(TxFee)
    OBVIOUS
  <2>2. /\ c.value = rest /\ c.tokens = None /\ c.mine \in BOOLEAN
        /\ f.value = TxFee /\ f.tokens = None /\ f.mine \in BOOLEAN
    BY <2>1 DEF Box, Fee, Guarded
  <2>3. made = <<p, q, b>> \o <<c, f>>
    BY <1>1, <1>6, <2>1 DEF LastMade
  <2>4. /\ DOMAIN made = 1 .. 5
        /\ made[1] = p /\ made[2] = q /\ made[3] = b /\ made[4] = c /\ made[5] = f
    BY ONLY <2>3
  <2>5. PICK n \in Nat : n = 5
    OBVIOUS
  <2>6. \A j \in 1 .. n : /\ made[j].value \in Int /\ made[j].mine \in BOOLEAN
                          /\ made[j].tokens \in [TokenKinds -> Int]
    BY <1>2, <1>4, <2>2, <2>4, <2>5
  <2>7. DOMAIN made = 1 .. n
    BY <2>4, <2>5
  <2>8. SignedFacts(outs, a, t, made, n)
    BY ONLY <2>6, <2>7, a \in Nat, t \in Nat, n \in Nat, outs = Signed(a, t, made), SignedBoxes
  <2>9. SignedFacts(outs, a, t, made, 5)
    BY ONLY <2>5, <2>8
  <2>10. /\ Value(ToSet(outs)) = p.value + q.value + b.value + c.value + f.value
         /\ \A k \in TokenKinds :
               Total(ToSet(outs), k) = p.tokens[k] + q.tokens[k] + b.tokens[k] + c.tokens[k] + f.tokens[k]
    BY ONLY <2>4, <2>9, FiveLast
  <2>11. Value(ToSet(outs)) = 3 * FatBox + TxFee + rest
    BY ONLY <1>2, <1>4, <2>2, <2>10, rest \in Nat
  <2>12. ASSUME NEW k \in TokenKinds
         PROVE  PoolTokens[k] <= Total(ToSet(outs), k)
    <3>1. Total(ToSet(outs), k) = p.tokens[k] + q.tokens[k] + b.tokens[k] + None[k] + None[k]
      BY ONLY <2>2, <2>10, k \in TokenKinds
    <3>2. PoolTokens[k] <= p.tokens[k] + q.tokens[k] + b.tokens[k]
      BY <1>2
    <3> QED
      BY ONLY <1>3, <3>1, <3>2, k \in TokenKinds
  <2> QED
    BY <1>5, <2>8, <2>11, <2>12 DEF LastFacts
<1>7. CASE ~(rest >= MinBox)
  <2>1. PICK f : f = Fee(TxFee + rest)
    OBVIOUS
  <2>2. f.value = TxFee + rest /\ f.tokens = None /\ f.mine \in BOOLEAN
    BY <2>1 DEF Fee, Guarded
  <2>3. made = <<p, q, b>> \o <<f>>
    BY <1>1, <1>7, <2>1 DEF LastMade
  <2>4. DOMAIN made = 1 .. 4 /\ made[1] = p /\ made[2] = q /\ made[3] = b /\ made[4] = f
    BY ONLY <2>3
  <2>5. PICK n \in Nat : n = 4
    OBVIOUS
  <2>6. \A j \in 1 .. n : /\ made[j].value \in Int /\ made[j].mine \in BOOLEAN
                          /\ made[j].tokens \in [TokenKinds -> Int]
    BY <1>2, <1>4, <2>2, <2>4, <2>5
  <2>7. DOMAIN made = 1 .. n
    BY <2>4, <2>5
  <2>8. SignedFacts(outs, a, t, made, n)
    BY ONLY <2>6, <2>7, a \in Nat, t \in Nat, n \in Nat, outs = Signed(a, t, made), SignedBoxes
  <2>9. SignedFacts(outs, a, t, made, 4)
    BY ONLY <2>5, <2>8
  <2>10. /\ Value(ToSet(outs)) = p.value + q.value + b.value + f.value
         /\ \A k \in TokenKinds :
               Total(ToSet(outs), k) = p.tokens[k] + q.tokens[k] + b.tokens[k] + f.tokens[k]
    BY ONLY <2>4, <2>9, FourLast
  <2>11. Value(ToSet(outs)) = 3 * FatBox + TxFee + rest
    BY ONLY <1>2, <1>4, <2>2, <2>10, rest \in Nat
  <2>12. ASSUME NEW k \in TokenKinds
         PROVE  PoolTokens[k] <= Total(ToSet(outs), k)
    <3>1. Total(ToSet(outs), k) = p.tokens[k] + q.tokens[k] + b.tokens[k] + None[k]
      BY ONLY <2>2, <2>10, k \in TokenKinds
    <3>2. PoolTokens[k] <= p.tokens[k] + q.tokens[k] + b.tokens[k]
      BY <1>2
    <3> QED
      BY ONLY <1>3, <3>1, <3>2, k \in TokenKinds
  <2> QED
    BY <1>5, <2>8, <2>11, <2>12 DEF LastFacts
<1> QED
  BY <1>6, <1>7

\* TX 5 keeps the invariant: it spends the outputs of TX 4.
LEMMA LastChain ==
    ASSUME ChainInv, InitPool
    PROVE  ChainInv'
<1>1. tool = "building" /\ Len(txs) = 5
  BY DEF InitPool
<1>2. PICK funds : funds = txs[5].outs
  OBVIOUS
<1>3. PICK sel : sel = Select(funds, CalcTargetBalance(1), PoolTokens)
  OBVIOUS
<1>4. PICK rest : rest = Value(ToSet(sel)) - CalcTargetBalance(1)
  OBVIOUS
<1>5. PICK made : made = LastMade(rest)
  OBVIOUS
<1>6. Build(sel, CalcTargetBalance(1), PoolTokens, made)
  <2>1. LET s == Select(txs[5].outs, CalcTargetBalance(1), PoolTokens)
            r == Value(ToSet(s)) - CalcTargetBalance(1)
            three == <<PoolBox, Box(FatBox, Tokens([key |-> MaxValue - 1])), BundleBox>>
            change == IF r >= MinBox THEN <<Box(r, None), Fee(TxFee)>>
                      ELSE <<Fee(TxFee + r)>>
        IN  Build(s, CalcTargetBalance(1), PoolTokens, three \o change)
    BY DEF InitPool
  <2> QED
    BY ONLY <1>2, <1>3, <1>4, <1>5, <2>1 DEF LastMade, KeyBox
<1>7. /\ funds \in Seq(BoxSet)
      /\ \A b \in ToSet(funds), k \in TokenKinds : b.tokens[k] \in Nat
      /\ \A k \in TokenKinds : Total(ToSet(funds), k) = PoolTokens[k]
  BY <1>1, <1>2, LastFunds
<1>8. sel \in Seq(BoxSet) /\ ToSet(sel) \subseteq ToSet(funds)
  BY ONLY <1>3, <1>7, SelectedOffered
<1>9. \A k \in TokenKinds : Total(ToSet(sel), k) <= PoolTokens[k] /\ Total(ToSet(sel), k) \in Int
  <2> TAKE k \in TokenKinds
  <2>1. IsFiniteSet(ToSet(funds))
    BY <1>7, SumsOfSeq
  <2>2. Total(ToSet(sel), k) <= Total(ToSet(funds), k)
    BY <1>7, <1>8, <2>1, TotalSubset
  <2> QED
    BY <1>7, <1>8, <2>2, SumsOfSeq
<1>10. /\ UNCHANGED <<ledger, input, submitted, attempts>>
       /\ \/ txs' = txs /\ tool' \in {"refused", "panicked"}
          \/ /\ Value(ToSet(sel)) >= CalcTargetBalance(1)
             /\ txs' = Append(txs, Sign(sel, made))
             /\ tool' = IF Len(txs) = 5 THEN "submitting" ELSE "building"
  BY <1>6, BuildCases DEF Suffices
<1>11. CASE txs' = txs /\ tool' \in {"refused", "panicked"}
  BY <1>10, <1>11, ToolEnds
<1>12. CASE /\ Value(ToSet(sel)) >= CalcTargetBalance(1)
            /\ txs' = Append(txs, Sign(sel, made))
            /\ tool' = IF Len(txs) = 5 THEN "submitting" ELSE "building"
  <2>1. PICK n \in 1 .. 6 : n = 6
    OBVIOUS
  <2>2. PICK a \in Nat : a = attempts
    BY DEF ChainInv
  <2>3. PICK t \in Nat : t = 5
    OBVIOUS
  <2>4. PICK outs : outs = Signed(a, t, made)
    OBVIOUS
  <2>5. PICK tx : tx = [ins |-> sel, outs |-> outs]
    OBVIOUS
  <2>6. Sign(sel, made) = tx
    BY <1>1, <2>2, <2>3, <2>4, <2>5, SignIs
  <2>7. /\ Value(ToSet(sel)) \in Int /\ CalcTargetBalance(1) = TxFee + 3 * FatBox
        /\ Value(ToSet(sel)) >= CalcTargetBalance(1) /\ TxFee \in Nat /\ FatBox \in Nat
    BY <1>8, <1>12, SumsOfSeq, Targets, ToolConstants
  <2>8. rest \in Nat /\ Value(ToSet(sel)) = 3 * FatBox + TxFee + rest
    BY ONLY <1>4, <2>7
  <2>9. input \in Delegations
    BY DEF ChainInv
  <2>10. /\ outs \in Seq(BoxSet)
         /\ \A b \in ToSet(outs) : b.id[1] = a /\ b.id[2] = t
         /\ Value(ToSet(outs)) = 3 * FatBox + TxFee + rest
         /\ \A k \in TokenKinds : PoolTokens[k] <= Total(ToSet(outs), k)
    <3>1. LastFacts(outs, a, t, rest)
      BY ONLY <1>5, <2>4, <2>8, <2>9, a \in Nat, t \in Nat, LastBalanced
    <3> QED
      BY ONLY <3>1 DEF LastFacts
  <2>11. tx.ins = sel /\ tx.outs = outs
    BY <2>5
  <2>12. tx \in TxSet
    BY <1>8, <2>5, <2>10 DEF TxSet
  <2>13. \A k \in TokenKinds : Total(ToSet(sel), k) <= Total(ToSet(outs), k)
    <3> TAKE k \in TokenKinds
    <3>1. Total(ToSet(outs), k) \in Int /\ PoolTokens[k] \in Nat
      BY <2>10, SumsOfSeq, TokenTypes
    <3> QED
      BY ONLY <1>9, <2>10, <3>1, k \in TokenKinds
  <2>14. Balanced(tx)
    BY ONLY <2>8, <2>10, <2>11, <2>13 DEF Balanced
  <2>15. Numbered(tx, attempts)
    BY <2>2, <2>10, <2>11 DEF Numbered
  <2>16. Sourced(txs, n, ToSet(tx.ins))
    BY <1>2, <1>8, <2>1, <2>11 DEF Sourced
  <2>17. n = Len(txs) + 1 /\ ~(n <= 5) /\ n # 1
    BY <1>1, <2>1
  <2>18. txs' = Append(txs, tx)
    BY <1>12, <2>6
  <2> QED
    BY <1>1, <1>10, <1>12, <2>12, <2>14, <2>15, <2>16, <2>17, <2>18, AddTx
<1> QED
  BY <1>10, <1>11, <1>12

\* Every step of a program keeps the invariant of the chain.
LEMMA ChainStep ==
    ASSUME ChainInv, [ProgramNext]_programVars
    PROVE  ChainInv'
<1>1. CASE StartTool
  BY <1>1, StartChain
<1>2. CASE GatherTokens
  BY <1>2, GatherChain
<1>3. CASE MintToken
  BY <1>3, MintChain
<1>4. CASE PoolInput
  BY <1>4, PoolChain
<1>5. CASE InitPool
  BY <1>5, LastChain
<1>6. CASE SubmitTx
  BY <1>6, SubmitChain
<1>7. CASE SubmitFails
  <2>1. tool' = "refused" /\ UNCHANGED <<txs, ledger, input, submitted, attempts>>
    BY <1>7 DEF SubmitFails
  <2> QED
    BY <2>1, ToolEnds
<1>8. CASE UNCHANGED toolVars
  BY <1>8 DEF toolVars, ChainInv
<1>9. StartTool \/ GatherTokens \/ MintToken \/ PoolInput \/ InitPool \/ SubmitTx \/ SubmitFails
        \/ UNCHANGED toolVars
  BY DEF ProgramNext, DeployNext, programVars, toolVars
<1> QED
  BY <1>1, <1>2, <1>3, <1>4, <1>5, <1>6, <1>7, <1>8, <1>9

-----------------------------------------------------------------------------
\* Each input is there and is spent once.

\* Where the box that transaction i spends was made.
Spot(i, b, a) ==
    /\ i = 1 => b.id[1] < a
    /\ i # 1 => b.id[1] = a
    /\ i \in 2 .. 4 => b.id[2] = i - 2 /\ b.id[3] \in {2, 4}
    /\ i = 5 => \/ b.id[2] \in 0 .. 3 /\ b.id[3] = 1
                \/ b.id[2] = 3 /\ b.id[3] = 2
    /\ i = 6 => b.id[2] = 4

\* Boxes of one spot are spent by one transaction.
LEMMA SpotsDiffer ==
    ASSUME NEW i \in 1 .. 6, NEW j \in 1 .. 6, NEW b, NEW a \in Nat, Spot(i, b, a), Spot(j, b, a)
    PROVE  i = j
<1>1. (i = 1) <=> (j = 1)
  BY DEF Spot
<1>2. i \in 2 .. 4 /\ j \in 2 .. 4 => i = j
  BY DEF Spot
<1>3. ~(i \in 2 .. 4 /\ j \in {5, 6}) /\ ~(j \in 2 .. 4 /\ i \in {5, 6})
  BY DEF Spot
<1>4. ~(i = 5 /\ j = 6) /\ ~(i = 6 /\ j = 5)
  BY DEF Spot
<1> QED
  BY <1>1, <1>2, <1>3, <1>4

\* The outputs of the transactions that are built.
LEMMA OutputsOf ==
    ASSUME ChainInv, NEW j \in 1 .. Len(txs), j <= 5, NEW h \in 1 .. 4
    PROVE  txs[j].outs[h] \in ToSet(txs[j].outs) /\ txs[j].outs[h].id = <<attempts, j - 1, h>>
<1>1. Shaped(txs[j].outs, attempts, j - 1, FirstTokens(j), CalcTargetBalance(6 - j))
  BY DEF ChainInv, ChainOf, ShapedTx
<1>2. txs[j].outs \in Seq(BoxSet) /\ Len(txs[j].outs) = 4
  BY <1>1 DEF Shaped
<1>3. h \in DOMAIN txs[j].outs
  BY <1>2
<1> QED
  BY <1>1, <1>3 DEF Shaped, ToSet

\* Each input was made at the spot of its transaction, or was in the wallet.
LEMMA SpentSpot ==
    ASSUME ChainInv, submitted = 0, NEW i \in 1 .. Len(txs), NEW b \in ToSet(txs[i].ins)
    PROVE  /\ Spot(i, b, attempts)
           /\ b \in ledger \/ \E j \in 1 .. i - 1 : b \in ToSet(txs[j].outs)
<1>1. Sourced(txs, i, ToSet(txs[i].ins)) /\ attempts \in Nat /\ Len(txs) \in Nat /\ i \in 1 .. 6
  <2>1. txs \in Seq(TxSet) /\ Len(txs) <= 6
    BY DEF ChainInv
  <2>2. Len(txs) \in Nat
    BY <2>1
  <2> QED
    BY <2>1, <2>2 DEF ChainInv, ChainOf
<1>2. CASE i = 1
  <2>1. Older(ledger, attempts) /\ b \in ledger
    BY <1>1, <1>2 DEF ChainInv
  <2> QED
    BY <1>2, <2>1 DEF Older, Spot
<1>3. CASE i \in 2 .. 4
  <2>1. i - 1 \in 1 .. Len(txs) /\ i - 1 <= 5 /\ i - 1 \in 1 .. i - 1 /\ (i - 1) - 1 = i - 2
    BY <1>1, <1>3
  <2>2. PICK h \in {2, 4} : b = txs[i - 1].outs[h]
    BY <1>1, <1>3 DEF Sourced
  <2>3. b \in ToSet(txs[i - 1].outs) /\ b.id = <<attempts, (i - 1) - 1, h>>
    BY <2>1, <2>2, OutputsOf
  <2>4. b.id[1] = attempts /\ b.id[2] = i - 2 /\ b.id[3] = h
    BY <2>1, <2>3
  <2>5. Spot(i, b, attempts)
    BY <1>3, <2>2, <2>4 DEF Spot
  <2> QED
    BY <2>1, <2>3, <2>5
<1>4. CASE i = 5
  <2>1. PICK j \in 1 .. 4, h \in {1, 2} : b = txs[j].outs[h] /\ (h = 2 => j = 4)
    <3>1. b \in {txs[1].outs[1], txs[2].outs[1], txs[3].outs[1], txs[4].outs[1], txs[4].outs[2]}
      BY <1>1, <1>4 DEF Sourced
    <3> QED
      BY <3>1
  <2>2. j \in 1 .. Len(txs) /\ j <= 5 /\ j \in 1 .. i - 1
    BY <1>1, <1>4
  <2>3. b \in ToSet(txs[j].outs) /\ b.id = <<attempts, j - 1, h>>
    BY <2>1, <2>2, OutputsOf
  <2>4. b.id[1] = attempts /\ b.id[2] = j - 1 /\ b.id[3] = h
    BY <2>3
  <2>5. Spot(i, b, attempts)
    <3>1. j - 1 \in 0 .. 3 /\ (h = 2 => j - 1 = 3) /\ (h = 1 \/ h = 2)
      BY <2>1
    <3>2. b.id[2] \in 0 .. 3 /\ (b.id[3] = 1 \/ (b.id[3] = 2 /\ b.id[2] = 3))
      BY ONLY <2>4, <3>1
    <3> QED
      BY ONLY <1>4, <2>4, <3>2 DEF Spot
  <2> QED
    BY <2>2, <2>3, <2>5
<1>5. CASE i = 6
  <2>1. b \in ToSet(txs[5].outs)
    BY <1>1, <1>5 DEF Sourced
  <2>2. 5 \in 1 .. Len(txs) /\ 5 \in 1 .. i - 1
    BY <1>1, <1>5
  <2>3. Shaped(txs[5].outs, attempts, 5 - 1, FirstTokens(5), CalcTargetBalance(6 - 5))
    BY <2>2 DEF ChainInv, ChainOf, ShapedTx
  <2>4. PICK h \in 1 .. 4 : b = txs[5].outs[h]
    <3>1. DOMAIN txs[5].outs = 1 .. 4
      <4>1. txs[5].outs \in Seq(BoxSet) /\ Len(txs[5].outs) = 4
        BY ONLY <2>3 DEF Shaped
      <4> QED
        BY ONLY <4>1
    <3> QED
      BY ONLY <2>1, <3>1 DEF ToSet
  <2>5. b.id = <<attempts, 5 - 1, h>>
    BY <2>3, <2>4 DEF Shaped
  <2>6. b.id[1] = attempts /\ b.id[2] = 4
    BY <2>5
  <2>7. Spot(i, b, attempts)
    BY <1>5, <2>6 DEF Spot
  <2> QED
    BY <2>1, <2>2, <2>7
<1> QED
  BY <1>1, <1>2, <1>3, <1>4, <1>5

\* The invariant implies the soundness of the chain.
LEMMA ChainSound ==
    ASSUME ChainInv
    PROVE  ChainIsSound
<1>1. txs \in Seq(TxSet) /\ Len(txs) \in Nat /\ Len(txs) <= 6 /\ DOMAIN txs = 1 .. Len(txs)
  <2>1. txs \in Seq(TxSet) /\ Len(txs) <= 6
    BY DEF ChainInv
  <2> QED
    BY <2>1
<1>2. ASSUME NEW i \in DOMAIN txs
      PROVE  /\ Value(ToSet(txs[i].ins)) = Value(ToSet(txs[i].outs))
             /\ \A k \in TokenKinds : Total(ToSet(txs[i].ins), k) <= Total(ToSet(txs[i].outs), k)
  BY <1>1 DEF ChainInv, ChainOf, Balanced
<1>3. ASSUME NEW i \in DOMAIN txs, submitted = 0, NEW b \in ToSet(txs[i].ins)
      PROVE  /\ b \in ledger \cup UNION {ToSet(txs[j].outs) : j \in 1 .. i - 1}
             /\ b \notin UNION {ToSet(txs[j].ins) : j \in 1 .. i - 1}
  <2>1. i \in 1 .. Len(txs) /\ i \in 1 .. 6
    BY <1>1
  <2>2. /\ Spot(i, b, attempts)
        /\ b \in ledger \/ \E j \in 1 .. i - 1 : b \in ToSet(txs[j].outs)
    BY <1>3, <2>1, SpentSpot
  <2>3. ASSUME NEW j \in 1 .. i - 1, b \in ToSet(txs[j].ins)
        PROVE  FALSE
    <3>1. j \in 1 .. Len(txs) /\ j \in 1 .. 6 /\ j # i
      BY <1>1, <2>1
    <3>2. Spot(j, b, attempts)
      BY <1>3, <2>3, <3>1, SpentSpot
    <3>3. attempts \in Nat
      BY DEF ChainInv
    <3> QED
      BY <2>1, <2>2, <3>1, <3>2, <3>3, SpotsDiffer
  <2> QED
    BY <2>2, <2>3
<1> QED
  BY <1>2, <1>3 DEF ChainIsSound

\* The chain of transactions of the deployment tool spends boxes that are
\* there when those before it are done, no box twice, and gives back all the
\* ERG and all the tokens it takes: for every wallet, every order in which the
\* explorer lists it, and all fees, margins and programs.
THEOREM ToolChainIsSound == ProgramSpec => []ChainIsSound
<1>1. ChainInv /\ [ProgramNext]_programVars => ChainInv'
  BY ChainStep
<1>2. ChainInv => ChainIsSound
  BY ChainSound
<1> QED
  BY ChainInit, <1>1, <1>2, PTL DEF ProgramSpec
=============================================================================
