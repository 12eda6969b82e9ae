------------------------------- MODULE Client -------------------------------
(***************************************************************************)
(* The SDK beside the program.  A wallet reads accounts, builds one         *)
(* transaction of several instructions from what it read (its draft), and   *)
(* submits it later, when the accounts may have changed: stake, unstake and *)
(* claimRewards of api.ts.  A submitted transaction runs as a whole or not  *)
(* at all, and only once; a draft may also be lost, refused or expire.      *)
(* Everybody else, and the wallet itself, may send single instructions.     *)
(*                                                                         *)
(* Claims from several distributors touch different treasuries and reward   *)
(* entries, so the order the wallet names the distributors in is left out.  *)
(* A definition marked as a faulty variant is not part of the model.        *)
(***************************************************************************)
EXTENDS RewardsCenter, Interface, Layouts, Functions

CONSTANTS
    Clients,   \* the wallets that use the SDK
    Listed,    \* Listed[m]: tags the metadata of m carries, verified or not
    Standard,  \* Standard[m]: what the SDK takes mint m for
    Accounts   \* kinds of token account: "ata", the associated one, and others

ASSUME ClientAssumption ==
    /\ Clients \subseteq Users
    /\ Listed \in [Mints -> SUBSET Tags]
    /\ \A m \in Mints : Verified[m] \subseteq Listed[m]
    /\ Standard \in [Mints -> {"pnft", "ccs", "edition"}]
    /\ "ata" \in Accounts
    /\ IsFiniteSet(Distributors)

(* The distributors whose reward entries for e the wallet can address. *)
DistributorsFor(e) == {d \in Distributors : PoolOfDistributor(d) = PoolOf(e)}

(* What an instruction lists for its payment: the accepted payment info as *)
(* it was when it was read, or None, nothing the program accepts.          *)
PaymentList == PaymentAccount \cup {None}

(* opens: initEntry comes first; record: the authorization record is among *)
(* the remaining accounts; account: where the token is taken from.         *)
StakeDraft ==
    [kind : {"stake"}, entry : Entries, opens : BOOLEAN, record : BOOLEAN,
     account : Accounts, listed : PaymentList]

(* updates: updateTotalStakeSeconds comes first, then, for each distributor *)
(* of claims, initRewardEntry if it is in inits, and claimRewards to the    *)
(* token account of payee with the accounts of claims_listed.  An unstake,  *)
(* with those of listed, ends the transaction.                              *)
RewardDraft ==
    [kind : {"unstake", "claim"}, entry : Entries, updates : BOOLEAN,
     claims : SUBSET Distributors, inits : SUBSET Distributors,
     payee : Users \cup {None}, listed : PaymentList,
     claims_listed : [Distributors -> PaymentList]]

ASSUME DraftAssumption == None \notin StakeDraft \cup RewardDraft

VARIABLES
    draft,    \* draft[w]: the transaction wallet w has built, or None
    account   \* account[m]: which of its owner's accounts holds token m

clientVars == <<centerVars, draft, account>>

ClientInit ==
    /\ CenterInit
    /\ draft = [w \in Clients |-> None]
    /\ account \in [Mints -> Accounts]

-----------------------------------------------------------------------------
(* Reading accounts and building a transaction.                            *)

(* Accounts that do not exist are missing from what is fetched. *)
Fetched(ds) == {d \in ds : distributor[d] # None}
Unopened(ds, e) == {d \in ds : reward[<<d, e>>] = None}

(* The SDK looks at every creator and collection of the metadata. *)
RecordListed(p, m) ==
    /\ pool[p].terms.requires_authorization
    /\ pool[p].terms.allowed \cap Listed[m] = {}

Build(w, b) ==
    /\ draft[w] = None
    /\ draft' = [draft EXCEPT ![w] = b]
    /\ UNCHANGED <<centerVars, account>>

(* The SDK lists the payment info the pool or the distributor names, while *)
(* the program accepts the one at PaymentKey; of any other it takes nothing.*)
ReadPayment(key) == IF key = PaymentKey THEN payment ELSE None

(* The token is taken from the account the caller names, or else from the  *)
(* associated one.  A payment info that is missing makes stake throw.      *)
BuildStake(w, e, a) ==
    LET key == pool[PoolOf(e)].terms.stake_payment_info
    IN  /\ pool[PoolOf(e)] # None                   \* else "Stake pool not found"
        /\ key = PaymentKey => payment # None
        /\ Build(w, [kind |-> "stake", entry |-> e, opens |-> entry[e] = None,
                     record |-> RecordListed(PoolOf(e), MintOf(e)),
                     account |-> a, listed |-> ReadPayment(key)])

IsCooling(e) == entry[e] # None /\ entry[e].cooldown_start_seconds # None

(* Faulty variant: the claims are added to every unstake. *)
AlwaysClaims(ds, e) == ds # {}

(* Whether an unstake settles the rewards of the distributors ds first. *)
ClaimsFirst(ds, e) == ds # {} /\ ~IsCooling(e)

(* What the claims from the distributors ds list. *)
ClaimsListed(ds) ==
    [d \in Distributors |->
        IF d \in ds THEN ReadPayment(distributor[d].terms.claim_rewards_payment_info)
        ELSE None]

BuildUnstake(w, e, ds) ==
    LET updates == ClaimsFirst(ds, e)
        claims == IF updates THEN Fetched(ds) ELSE {}
    IN  /\ pool[PoolOf(e)] # None                   \* else "Stake pool not found"
        /\ Build(w, [kind |-> "unstake", entry |-> e, updates |-> updates,
                     claims |-> claims, inits |-> Unopened(claims, e),
                     payee |-> w,
                     listed |-> ReadPayment(pool[PoolOf(e)].terms.unstake_payment_info),
                     claims_listed |-> ClaimsListed(claims)])

(* The staker's token account is used only when claiming for others. *)
PayeeOf(w, e, forUsers) ==
    IF forUsers /\ entry[e] # None THEN entry[e].last_staker ELSE w

BuildClaim(w, e, ds, forUsers) ==
    LET claims == Fetched(ds)
    IN  /\ ds # {}
        /\ Build(w, [kind |-> "claim", entry |-> e, updates |-> TRUE,
                     claims |-> claims, inits |-> Unopened(claims, e),
                     payee |-> PayeeOf(w, e, forUsers), listed |-> None,
                     claims_listed |-> ClaimsListed(claims)])

(* The instruction that moves a mint of each standard. *)
StakeCall ==
    [ccs |-> "stakeCcs", pnft |-> "stakePnft", edition |-> "stakeEdition"]
UnstakeCall ==
    [ccs |-> "unstakeCcs", pnft |-> "unstakePnft", edition |-> "unstakeEdition"]

(* The instructions of a draft. *)
Calls(b) ==
    IF b.kind = "stake"
    THEN {StakeCall[Standard[MintOf(b.entry)]]}
            \cup (IF b.opens THEN {"initEntry"} ELSE {})
    ELSE (IF b.updates THEN {"updateTotalStakeSeconds"} ELSE {})
            \cup (IF b.inits # {} THEN {"initRewardEntry"} ELSE {})
            \cup (IF b.claims # {} THEN {"claimRewards"} ELSE {})
            \cup (IF b.kind = "unstake"
                  THEN {UnstakeCall[Standard[MintOf(b.entry)]]} ELSE {})

(* The transactions that claimRewardReceipt and boost build hold           *)
(* instructions the program does not have, so neither ever goes through.   *)
ReceiptCalls ==
    {"updateTotalStakeSeconds", "initRewardReceipt", "claimRewardReceipt"}
BoostCalls == {"updateTotalStakeSeconds", "boostStakeEntry"}

ASSUME NeverAccepted ==
    \A calls \in {ReceiptCalls, BoostCalls} : \E i \in calls : ~Accepted(i)

-----------------------------------------------------------------------------
(* Submitting.  Every instruction must reach its handler, and each later   *)
(* instruction sees what the earlier ones of the transaction did.          *)

(* Faulty variant: the claims come before the update of the stake entry. *)
NotUpdated(b) == entry[b.entry]

(* The stake entry after the updateTotalStakeSeconds of the transaction. *)
Updated(b) ==
    IF b.updates THEN IncrementTotalStakeSeconds(entry[b.entry]) ELSE entry[b.entry]

CanUpdate(b) ==
    /\ entry[b.entry] # None
    /\ b.updates => /\ entry[b.entry].last_staker # None
                    /\ entry[b.entry].cooldown_start_seconds = None

(* The program takes the authorization record off the remaining accounts   *)
(* when no verified creator or collection allows the mint.                 *)
RecordConsumed(p, m) ==
    /\ pool[p].terms.requires_authorization
    /\ pool[p].terms.allowed \cap Verified[m] = {}

(* The reward account claim_rewards finds for distributor d. *)
RewardOf(b, d) ==
    IF d \in b.inits
    THEN [reward_seconds_received |-> 0,
          multiplier |-> distributor[d].terms.default_multiplier]
    ELSE reward[<<d, b.entry>>]

Unpaid(b, d) ==
    RewardSeconds(Updated(b), distributor[d].terms)
        - RewardOf(b, d).reward_seconds_received

(* The claims of b that are not "Max reward seconds claimed". *)
Charged(b) == {d \in b.claims : Unpaid(b, d) > 0}

Due(b, d) ==
    RewardDue(Unpaid(b, d), distributor[d].terms, RewardOf(b, d).multiplier)

Paid(b, d) == Payable(Due(b, d), treasury[d])

(* Faulty variant: any token account may receive the rewards. *)
CanClaimForAnyone(w, b, d) ==
    LET t == distributor[d].terms
    IN  /\ distributor[d] # None
        /\ d \in b.inits <=> reward[<<d, b.entry>>] = None
        /\ w = entry[b.entry].last_staker \/ w = distributor[d].authority
        /\ Unpaid(b, d) > 0 =>
              /\ t.reward_duration_seconds > 0
              /\ RewardOf(b, d).multiplier # 0 => t.reward_amount > 0
              /\ distributor[d].rewards_issued + Paid(b, d) <= MaxIssued

CanClaim(w, b, d) ==
    LET t == distributor[d].terms
    IN  /\ distributor[d] # None
        /\ d \in b.inits <=> reward[<<d, b.entry>>] = None
        /\ w = entry[b.entry].last_staker \/ w = distributor[d].authority
        /\ b.payee = entry[b.entry].last_staker   \* InvalidUserRewardMintTokenAccount
        /\ Unpaid(b, d) > 0 =>
              /\ t.reward_duration_seconds > 0
              /\ RewardOf(b, d).multiplier # 0 => t.reward_amount > 0
              /\ distributor[d].rewards_issued + Paid(b, d) <= MaxIssued

(* The initRewardEntry and claimRewards instructions of the transaction. *)
Claims(b) ==
    LET paid == [d \in Distributors |-> IF d \in Charged(b) THEN Paid(b, d) ELSE 0]
        marked(d) == IF d \in Charged(b)
                     THEN Marks(Due(b, d), paid[d], distributor[d].terms,
                                RewardOf(b, d).multiplier)
                     ELSE 0
    IN  /\ treasury' = [d \in Distributors |-> treasury[d] - paid[d]]
        /\ distributor' = [d \in Distributors |->
              IF d \in b.claims
              THEN [distributor[d] EXCEPT !.rewards_issued = @ + paid[d]]
              ELSE distributor[d]]
        /\ reward' = [r \in RewardEntries |->
              IF StakeOf(r) = b.entry /\ DistributorOf(r) \in b.claims
              THEN [RewardOf(b, DistributorOf(r)) EXCEPT
                        !.reward_seconds_received = @ + marked(DistributorOf(r))]
              ELSE reward[r]]
        /\ tokens' = IF b.claims = {} THEN tokens
                     ELSE [tokens EXCEPT ![b.payee] = @ +
                              FoldFunctionOnSet(LAMBDA x, y : x + y, 0, paid, b.claims)]

(* The list i serves for a payment: it names the accepted payment info,    *)
(* and if there is something to pay it has accounts, those of the          *)
(* collectors of now, in the order the program takes them.                 *)
ListAccepted(i) ==
    /\ i # None
    /\ payment # None
    /\ payment.price > 0 => /\ i.price > 0
                            /\ i.collectors = payment.collectors
                            /\ "sdk" \in payment.takes

(* What n payments cost. *)
Cost(n) == IF payment = None THEN 0 ELSE n * payment.price

(* n payments of wallet w, with these lists of accounts. *)
Charge(w, lists, n) ==
    /\ \A i \in lists : ListAccepted(i)
    /\ funds[w] >= Cost(n)
    /\ funds' = [funds EXCEPT ![w] = @ - Cost(n)]

(* The lists of the claims that pay. *)
ChargedLists(b) == {b.claims_listed[d] : d \in Charged(b)}

(* The draft of w leaves the wallet, with all its instructions known. *)
Submitted(w, kind) ==
    /\ draft[w] # None
    /\ draft[w].kind = kind
    /\ \A i \in Calls(draft[w]) : Accepted(i)
    /\ draft' = [draft EXCEPT ![w] = None]

(* A stake entry as initEntry leaves it. *)
NewEntry ==
    [amount |-> 0, last_staker |-> None, last_staked_at |-> 0,
     last_updated_at |-> 0, total_stake_seconds |-> 0,
     cooldown_start_seconds |-> None]

(* initEntry, if the draft has it, and stakePnft.  A record the program    *)
(* does not take off the remaining accounts is read as a payment info.     *)
SubmitStake(w) ==
    LET b == draft[w]
        e == b.entry
        p == PoolOf(e)
        m == MintOf(e)
    IN  /\ Submitted(w, "stake")
        /\ pool[p] # None
        /\ b.opens <=> entry[e] = None
        /\ b.record <=> RecordConsumed(p, m)
        /\ token[m] = [owner |-> w, escrow |-> None]
        /\ account[m] = b.account
        /\ pool[p].terms.end_date # None => now <= pool[p].terms.end_date
        /\ MintIsAllowed(p, m)
        /\ Charge(w, {b.listed}, 1)
        /\ entry' = [entry EXCEPT ![e] = AfterStake(IF b.opens THEN NewEntry ELSE @, w)]
        /\ pool' = [pool EXCEPT ![p].total_staked = @ + 1]
        /\ token' = [token EXCEPT ![m].escrow = w]
        /\ UNCHANGED <<authorized, discount, payment, now, rewardVars, account>>

(* unstakePnft after the claims: the cooldown starts, or the stake ends. *)
BeginCooldown(w) ==
    LET b == draft[w]
    IN  /\ pool[PoolOf(b.entry)].terms.cooldown_seconds > 0
        /\ entry[b.entry].cooldown_start_seconds = None
        /\ Charge(w, ChargedLists(b), Cardinality(Charged(b)))
        /\ entry' = [entry EXCEPT ![b.entry] =
                        [Updated(b) EXCEPT !.cooldown_start_seconds = now]]
        /\ UNCHANGED <<pool, token>>

EndStake(w) ==
    LET b == draft[w]
        p == PoolOf(b.entry)
        m == MintOf(b.entry)
    IN  /\ CooldownSatisfied(b.entry)
        /\ Charge(w, ChargedLists(b) \cup {b.listed}, Cardinality(Charged(b)) + 1)
        /\ entry' = [entry EXCEPT ![b.entry] =
                        AfterUnstake(Updated(b), pool[p].terms.reset_on_unstake)]
        /\ pool[p].total_staked > 0
        /\ pool' = [pool EXCEPT ![p].total_staked = @ - 1]
        /\ token[m].escrow = w
        /\ token' = [token EXCEPT ![m].escrow = None]

(* The token is looked for in the wallet's associated account. *)
SubmitUnstake(w) ==
    LET b == draft[w]
        e == b.entry
    IN  /\ Submitted(w, "unstake")
        /\ pool[PoolOf(e)] # None
        /\ CanUpdate(b)
        /\ \A d \in b.claims : CanClaim(w, b, d)
        /\ token[MintOf(e)].owner = w
        /\ account[MintOf(e)] = "ata"
        /\ MinStakeSatisfied(e)
        /\ BeginCooldown(w) \/ EndStake(w)
        /\ Claims(b)
        /\ UNCHANGED <<authorized, discount, payment, now, account>>

SubmitClaim(w) ==
    LET b == draft[w]
    IN  /\ Submitted(w, "claim")
        /\ CanUpdate(b)
        /\ b.claims # {} => pool[PoolOf(b.entry)] # None
        /\ \A d \in b.claims : CanClaim(w, b, d)
        /\ Charge(w, ChargedLists(b), Cardinality(Charged(b)))
        /\ entry' = [entry EXCEPT ![b.entry] = Updated(b)]
        /\ Claims(b)
        /\ UNCHANGED <<pool, authorized, discount, token, payment, now, account>>

(* The draft is dropped: never sent, lost, refused or expired. *)
Expire(w) ==
    /\ draft[w] # None
    /\ draft' = [draft EXCEPT ![w] = None]
    /\ UNCHANGED <<centerVars, account>>

ClientStep(w) ==
    \/ \E e \in Entries :
          \/ \E a \in Accounts : BuildStake(w, e, a)
          \/ \E ds \in SUBSET DistributorsFor(e) :
                \/ BuildUnstake(w, e, ds)
                \/ \E forUsers \in BOOLEAN : BuildClaim(w, e, ds, forUsers)
    \/ SubmitStake(w)
    \/ SubmitUnstake(w)
    \/ SubmitClaim(w)
    \/ Expire(w)

(* A token that is not locked may be moved between accounts of its owner.  *)
MoveToken(m) ==
    /\ token[m].escrow = None
    /\ \E a \in Accounts \ {account[m]} : account' = [account EXCEPT ![m] = a]
    /\ UNCHANGED <<centerVars, draft>>

(* A token that changes hands may arrive in any account of the new owner.  *)
TokensArrive ==
    /\ account' \in [Mints -> Accounts]
    /\ \A m \in Mints : token'[m].owner = token[m].owner => account'[m] = account[m]

ClientNext ==
    \/ CenterNext /\ TokensArrive /\ UNCHANGED draft
    \/ \E m \in Mints : MoveToken(m)
    \/ \E w \in Clients : ClientStep(w)

ClientSpec == ClientInit /\ [][ClientNext]_clientVars

(* A wallet that wants its token back builds the unstake again whenever a  *)
(* draft has failed, and sends it; drafts do not live forever (a recent     *)
(* blockhash ages), and the clock keeps running.                           *)
ClientFairSpec ==
    /\ ClientSpec
    /\ WF_clientVars(Tick /\ UNCHANGED <<rewardVars, draft, account>>)
    /\ \A w \in Clients :
          /\ WF_clientVars(Expire(w))
          /\ SF_clientVars(SubmitUnstake(w))
          /\ \A e \in Entries :
                SF_clientVars(BuildUnstake(w, e, DistributorsFor(e)))

-----------------------------------------------------------------------------
(* The rewards the SDK shows.                                              *)

(* Division of BN: toward zero. *)
TruncDiv(a, b) == IF a < 0 THEN -((-a) \div b) ELSE a \div b

(* Before the cap by what the treasury holds; with "Uncapped" in the place *)
(* of the estimate itself, a faulty variant.                               *)
UncappedRewards(d, e) ==
    LET s == entry[e]
        t == distributor[d].terms
        r == reward[<<d, e>>]
        until == IF s.cooldown_start_seconds # None
                 THEN s.cooldown_start_seconds ELSE now
        seconds == AtMost((until - s.last_staked_at) * s.amount
                              + s.total_stake_seconds,
                          t.max_reward_seconds_received)
        received == IF r = None THEN 0 ELSE r.reward_seconds_received
        multiplier == IF r = None THEN t.default_multiplier ELSE r.multiplier
    IN  TruncDiv(TruncDiv(seconds - received, t.reward_duration_seconds)
                    * t.reward_amount * multiplier, Scale(t))

CalculatePendingRewards(d, e) == AtMost(UncappedRewards(d, e), treasury[d])

-----------------------------------------------------------------------------
(* Properties.                                                             *)

(* Every draft is one the SDK builds, for a wallet's own claims or, when   *)
(* it claims for others, for any staker; only an updating draft claims.    *)
DraftTypeOK ==
    /\ draft \in [Clients -> StakeDraft \cup RewardDraft \cup {None}]
    /\ \A w \in Clients : draft[w] # None /\ draft[w].kind # "stake" =>
          /\ draft[w].inits \subseteq draft[w].claims
          /\ draft[w].claims \subseteq DistributorsFor(draft[w].entry)
          /\ draft[w].claims # {} => draft[w].updates
    /\ account \in [Mints -> Accounts]

ClientTypeOK == TypeOK /\ DraftTypeOK

(* The draft of w goes through in this step. *)
GoesThrough(w) ==
    draft[w] # None /\ draft'[w] = None /\ centerVars' # centerVars

(* The seconds of a stake entry a claim can pay for at this moment: those   *)
(* stored, and those an update before it would credit.  The program refuses *)
(* the update of an entry that names no staker or is cooling.               *)
ClaimableSeconds(s) ==
    IF s.last_staker = None \/ s.cooldown_start_seconds # None
    THEN s.total_stake_seconds ELSE ElapsedSeconds(s)

(* What of it distributor d has not paid for, and what it can pay.         *)
UnpaidNow(d, e) ==
    AtMost(ClaimableSeconds(entry[e]),
           distributor[d].terms.max_reward_seconds_received)
        - (IF reward[<<d, e>>] = None THEN 0
           ELSE reward[<<d, e>>].reward_seconds_received)

PayableNow(d, e) ==
    LET t == distributor[d].terms
        multiplier == IF reward[<<d, e>>] = None THEN t.default_multiplier
                      ELSE reward[<<d, e>>].multiplier
    IN  IF UnpaidNow(d, e) > 0
        THEN Payable(RewardDue(UnpaidNow(d, e), t, multiplier), treasury[d])
        ELSE 0

(* An unstake through the SDK that claims leaves no second behind: each    *)
(* distributor it names pays everything due up to the moment it runs,      *)
(* however long the draft waited and whatever happened to the accounts     *)
(* since they were read, as far as its treasury reaches (api.ts:305, the    *)
(* update before the claims before the unstake that clears last_staker).   *)
UnstakePaysInFull ==
    [][ \A w \in Clients : GoesThrough(w) /\ draft[w].kind = "unstake" =>
          \A d \in draft[w].claims :
            treasury'[d] = treasury[d] - PayableNow(d, draft[w].entry) ]_clientVars

(* A transaction of the SDK, also one claiming for other users from a       *)
(* stale read, changes reward tokens of nobody but the staker the entry    *)
(* names when it runs, and never pays the default address of an entry that *)
(* was unstaked meanwhile (api.ts:578, claim_rewards.rs:29).               *)
PaidToStaker ==
    [][ \A w \in Clients : GoesThrough(w) =>
          \A u \in Users \cup {None} : tokens'[u] # tokens[u] =>
              u = entry[draft[w].entry].last_staker /\ u # None ]_clientVars

(* Every account a transaction of the SDK changes is writable both in the  *)
(* IDL the transaction is built from and in the context of an instruction  *)
(* it holds.                                                               *)
Changed ==
    (IF pool' # pool THEN {"stakePool"} ELSE {})
        \cup (IF entry' # entry THEN {"stakeEntry"} ELSE {})
        \cup (IF token' # token THEN {"stakeTokenRecordAccount"} ELSE {})
        \cup (IF distributor' # distributor THEN {"rewardDistributor"} ELSE {})
        \cup (IF reward' # reward THEN {"rewardEntry"} ELSE {})
        \cup (IF treasury' # treasury THEN {"rewardDistributorTokenAccount"} ELSE {})
        \cup (IF tokens' # tokens THEN {"userRewardMintTokenAccount"} ELSE {})
        \cup (IF funds' # funds THEN {"user"} ELSE {})

ChangesAreDeclared ==
    [][ \A w \in Clients : GoesThrough(w) =>
          Changed \subseteq UNION {WritableBy(i) : i \in Calls(draft[w])} ]_clientVars

(* A wallet that unstakes through the SDK, claiming from every distributor *)
(* of the pool, gets on: a first call starts the cooldown or ends the      *)
(* stake, a later one ends it, within the clock's bound.  The token is in  *)
(* the associated account, the pool names the accepted payment info, and   *)
(* whatever that changes to, from some time on its shares are ones the SDK *)
(* can pay and its price one the wallet can afford (api.ts:282-302,        *)
(* state.rs:66-70).  Excused are new terms, a reset, and a distributor     *)
(* that names another payment info or whose claims cannot succeed (or      *)
(* reach the bound MaxIssued).                                             *)
PayableTerms == {t \in Terms : t.unstake_payment_info = PaymentKey}

StakedBy(w, e, t, cooling) ==
    /\ IsStaked(e)
    /\ token[MintOf(e)].owner = w
    /\ account[MintOf(e)] = "ata"
    /\ pool[PoolOf(e)] # None
    /\ pool[PoolOf(e)].terms = t
    /\ IsCooling(e) = cooling
    /\ cooling => entry[e].cooldown_start_seconds + t.cooldown_seconds <= MaxTime
    /\ entry[e].last_staked_at + t.min_stake_seconds <= MaxTime

SdkCanPay(w, e) ==
    /\ payment # None
    /\ payment.price > 0 =>
          /\ "sdk" \in payment.takes
          /\ funds[w] >= (Cardinality(DistributorsFor(e)) + 1) * payment.price

NeverPays(d) ==
    LET t == distributor[d].terms
    IN  \/ t.claim_rewards_payment_info # PaymentKey
        \/ t.reward_duration_seconds = 0
        \/ t.reward_amount = 0
        \/ distributor[d].rewards_issued + treasury[d] > MaxIssued

UnstakeExcused(e, t) ==
    \/ pool[PoolOf(e)] = None
    \/ pool[PoolOf(e)].terms # t
    \/ entry[e] # None /\ entry[e].last_staked_at + t.min_stake_seconds > MaxTime
    \/ \E d \in Fetched(DistributorsFor(e)) : NeverPays(d)

SdkUnstakeProceeds ==
    \A w \in Clients, e \in Entries, t \in PayableTerms, cooling \in BOOLEAN :
        <>[]SdkCanPay(w, e) =>
            (StakedBy(w, e, t, cooling) ~>
                \/ ~IsStaked(e)
                \/ IsCooling(e) # cooling
                \/ UnstakeExcused(e, t))

(* The estimate for a staked entry the program would update now is what    *)
(* update and claim would pay. *)
Estimated(d, e) ==
    /\ distributor[d] # None
    /\ entry[e] # None
    /\ entry[e].last_staker # None
    /\ entry[e].cooldown_start_seconds = None
    /\ distributor[d].terms.reward_duration_seconds > 0

IsExact(d, e) ==
    LET pending == CalculatePendingRewards(d, e)
    IN  (IF pending < 0 THEN 0 ELSE pending) = PayableNow(d, e)

(* It is exact as long as no update has credited the stake: the seconds of *)
(* earlier stakes, the limit, what was received and the treasury are taken *)
(* into account as the program does (rewardDistribution.ts:160-206).       *)
PendingExact ==
    \A r \in RewardEntries :
        LET s == entry[StakeOf(r)]
        IN  Estimated(DistributorOf(r), StakeOf(r))
            /\ s.last_updated_at = s.last_staked_at
            => IsExact(DistributorOf(r), StakeOf(r))

(* "Calculate claimable rewards and next reward time for a give mint and   *)
(* reward and stake entry" (rewardDistribution.ts:140): while an entry is  *)
(* staked the estimate is never more than can be claimed.                  *)
PendingIsClaimable ==
    \A r \in RewardEntries :
        Estimated(DistributorOf(r), StakeOf(r)) =>
            CalculatePendingRewards(DistributorOf(r), StakeOf(r))
                <= PayableNow(DistributorOf(r), StakeOf(r))
=============================================================================
