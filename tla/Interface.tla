----------------------------- MODULE Interface -----------------------------
(***************************************************************************)
(* The two sides of a call.  The SDK builds an instruction from its IDL,    *)
(* which fixes the order of the accounts, their writable and signer flags   *)
(* and the types of the arguments; the program reads the accounts by        *)
(* position into the context of the instruction it dispatches to.  The      *)
(* module says which calls the program can take at all.                     *)
(*                                                                         *)
(* A definition marked as a faulty variant is not part of the model.        *)
(***************************************************************************)
EXTENDS Naturals, Sequences

(* An account of an instruction. *)
Account(name, writable, signer) ==
    [name |-> name, writable |-> writable, signer |-> signer]

Read(name) == Account(name, FALSE, FALSE)
Mut(name) == Account(name, TRUE, FALSE)
Signer(name) == Account(name, FALSE, TRUE)
MutSigner(name) == Account(name, TRUE, TRUE)

Ix(accounts, args) == [accounts |-> accounts, args |-> args]

-----------------------------------------------------------------------------
(* The IDL of the SDK.                                                     *)

(* Stake pools and entries.                                                *)
initPool ==
    Ix(<<Mut("stakePool"), MutSigner("payer"), Read("systemProgram")>>,
      <<"InitPoolIx">>)
updatePool ==
    Ix(<<Mut("stakePool"), Signer("authority"), MutSigner("payer"),
      Read("systemProgram")>>, <<"UpdatePoolIx">>)
closeStakePool == Ix(<<Mut("stakePool"), MutSigner("authority")>>, <<>>)
initEntry ==
    Ix(<<Mut("stakeEntry"), Mut("stakePool"), Read("stakeMint"),
      Read("stakeMintMetadata"), MutSigner("payer"),
      Read("systemProgram")>>, <<"publicKey">>)
updateTotalStakeSeconds ==
    Ix(<<Mut("stakeEntry"), MutSigner("updater")>>, <<>>)
resetStakeEntry ==
    Ix(<<Read("stakePool"), Mut("stakeEntry"), MutSigner("authority")>>,
      <<>>)
resizeStakeEntry ==
    Ix(<<Mut("stakeEntry"), MutSigner("payer"), Read("systemProgram")>>,
      <<>>)
closeStakeEntry ==
    Ix(<<Read("stakePool"), Mut("stakeEntry"), MutSigner("authority")>>,
      <<>>)

(* Multipliers of stake entries.                                           *)
setStakeEntryMultiplier ==
    Ix(<<Read("stakePool"), Mut("stakeEntry"), MutSigner("authority")>>,
      <<"Opt(u64)">>)
setStakeEntryMultiplierStakeSeconds ==
    Ix(<<Read("stakePool"), Mut("stakeEntry"), MutSigner("authority")>>,
      <<"Opt(u128)">>)
incrementStakeEntryMultiplierStakeSeconds ==
    Ix(<<Read("stakePool"), Mut("stakeEntry"), MutSigner("authority")>>,
      <<"u128">>)
decrementStakeEntryMultiplierStakeSeconds ==
    Ix(<<Read("stakePool"), Mut("stakeEntry"), MutSigner("authority")>>,
      <<"u128">>)

(* Staking, one pair for each token standard.                              *)
stakeEdition ==
    Ix(<<Mut("stakePool"), Mut("stakeEntry"), Read("stakeMint"),
      Read("stakeMintEdition"), Read("stakeMintMetadata"),
      MutSigner("user"), Mut("userEscrow"),
      Mut("userStakeMintTokenAccount"), Read("tokenMetadataProgram"),
      Read("tokenProgram"), Read("systemProgram")>>, <<"u64">>)
unstakeEdition ==
    Ix(<<Mut("stakePool"), Mut("stakeEntry"), Read("stakeMint"),
      Read("stakeMintEdition"), MutSigner("user"), Mut("userEscrow"),
      Mut("userStakeMintTokenAccount"), Read("tokenMetadataProgram"),
      Read("tokenProgram"), Read("systemProgram")>>, <<>>)
stakeCcs ==
    Ix(<<Mut("stakePool"), Mut("stakeEntry"), Read("stakeMint"),
      Read("stakeMintMetadata"), Mut("stakeMintManager"),
      Read("stakeMintManagerRuleset"), MutSigner("user"), Mut("userEscrow"),
      Mut("userStakeMintTokenAccount"), Read("creatorStandardProgram"),
      Read("tokenProgram"), Read("systemProgram")>>, <<"u64">>)
unstakeCcs ==
    Ix(<<Mut("stakePool"), Mut("stakeEntry"), Read("stakeMint"),
      Mut("stakeMintManager"), MutSigner("user"), Mut("userEscrow"),
      Mut("userStakeMintTokenAccount"), Read("creatorStandardProgram"),
      Read("tokenProgram"), Read("systemProgram")>>, <<>>)
stakePnft ==
    Ix(<<Mut("stakePool"), Mut("stakeEntry"), Read("stakeMint"),
      Mut("stakeMintMetadata"), Read("stakeMintEdition"),
      Mut("stakeTokenRecordAccount"), Read("authorizationRules"),
      MutSigner("user"), Mut("userEscrow"),
      Mut("userStakeMintTokenAccount"), Read("tokenMetadataProgram"),
      Read("sysvarInstructions"), Read("authorizationRulesProgram"),
      Read("tokenProgram"), Read("systemProgram")>>, <<>>)
unstakePnft ==
    Ix(<<Mut("stakePool"), Mut("stakeEntry"), Read("stakeMint"),
      Mut("stakeMintMetadata"), Read("stakeMintEdition"),
      Mut("stakeTokenRecordAccount"), Read("authorizationRules"),
      MutSigner("user"), Mut("userEscrow"),
      Mut("userStakeMintTokenAccount"), Read("tokenMetadataProgram"),
      Read("sysvarInstructions"), Read("authorizationRulesProgram"),
      Read("tokenProgram"), Read("systemProgram")>>, <<>>)

(* Authorization records.                                                  *)
authorizeMint ==
    Ix(<<Mut("stakePool"), Mut("stakeAuthorizationRecord"),
      MutSigner("authority"), MutSigner("payer"), Read("systemProgram")>>,
      <<"publicKey">>)
deauthorizeMint ==
    Ix(<<Mut("stakePool"), Mut("stakeAuthorizationRecord"),
      MutSigner("authority")>>, <<>>)

(* Stake boosters and receipts.                                            *)
initStakeBooster ==
    Ix(<<Mut("stakeBooster"), Mut("stakePool"), MutSigner("authority"),
      MutSigner("payer"), Read("systemProgram")>>, <<"InitStakeBoosterIx">>)
updateStakeBooster ==
    Ix(<<Mut("stakeBooster"), Mut("stakePool"), MutSigner("authority")>>,
      <<"UpdateStakeBoosterIx">>)
boostStakeEntry ==
    Ix(<<Mut("stakeBooster"), Mut("stakePool"), Mut("stakeEntry"),
      Read("stakeMint")>>, <<"BoostStakeEntryIx">>)
closeStakeBooster ==
    Ix(<<Mut("stakeBooster"), Mut("stakePool"), MutSigner("authority")>>,
      <<>>)
initReceiptManager ==
    Ix(<<Mut("receiptManager"), Read("stakePool"), MutSigner("payer"),
      Read("systemProgram")>>, <<"InitReceiptManagerIx">>)
updateReceiptManager ==
    Ix(<<Mut("receiptManager"), Signer("authority")>>,
      <<"UpdateReceiptManagerIx">>)
closeReceiptManager ==
    Ix(<<Mut("receiptManager"), MutSigner("authority")>>, <<>>)
initRewardReceipt ==
    Ix(<<Mut("rewardReceipt"), Read("receiptManager"), Read("stakeEntry"),
      MutSigner("payer"), Read("systemProgram")>>, <<>>)
closeRewardReceipt ==
    Ix(<<Mut("rewardReceipt"), Read("receiptManager"),
      MutSigner("authority")>>, <<>>)
claimRewardReceipt ==
    Ix(<<Mut("rewardReceipt"), Mut("receiptManager"), Mut("stakeEntry"),
      MutSigner("payer"), MutSigner("claimer")>>, <<>>)
setRewardReceiptAllowed ==
    Ix(<<Read("receiptManager"), Mut("rewardReceipt"),
      MutSigner("authority")>>, <<"bool">>)

(* Rewards.                                                                *)
initRewardDistributor ==
    Ix(<<Mut("rewardDistributor"), Read("stakePool"), Mut("rewardMint"),
      MutSigner("authority"), MutSigner("payer"), Read("tokenProgram"),
      Read("systemProgram")>>, <<"InitRewardDistributorIx">>)
updateRewardDistributor ==
    Ix(<<Mut("rewardDistributor"), Signer("authority")>>,
      <<"UpdateRewardDistributorIx">>)
closeRewardDistributor ==
    Ix(<<Mut("rewardDistributor"), Read("stakePool"), Mut("rewardMint"),
      Mut("rewardDistributorTokenAccount"), Mut("authorityTokenAccount"),
      MutSigner("signer"), Read("tokenProgram")>>, <<>>)
reclaimFunds ==
    Ix(<<Mut("rewardDistributor"), Mut("rewardDistributorTokenAccount"),
      Mut("authorityTokenAccount"), MutSigner("authority"),
      Read("tokenProgram")>>, <<"u64">>)
initRewardEntry ==
    Ix(<<Mut("rewardEntry"), Read("stakeEntry"), Mut("rewardDistributor"),
      MutSigner("payer"), Read("systemProgram")>>, <<>>)
closeRewardEntry ==
    Ix(<<Read("rewardDistributor"), Mut("rewardEntry"),
      MutSigner("authority")>>, <<>>)
updateRewardEntry ==
    Ix(<<Mut("rewardEntry"), Read("rewardDistributor"),
      Signer("authority")>>, <<"UpdateRewardEntryIx">>)
claimRewards ==
    Ix(<<Mut("rewardEntry"), Mut("rewardDistributor"), Read("stakeEntry"),
      Read("stakePool"), Mut("rewardMint"),
      Mut("userRewardMintTokenAccount"),
      Mut("rewardDistributorTokenAccount"), MutSigner("user"),
      Read("tokenProgram"), Read("systemProgram")>>, <<>>)

(* Payment infos.                                                          *)
initPaymentInfo ==
    Ix(<<Mut("paymentInfo"), MutSigner("payer"), Read("systemProgram")>>,
      <<"InitPaymentInfoIx">>)
updatePaymentInfo ==
    Ix(<<Mut("paymentInfo"), Signer("authority"), MutSigner("payer"),
      Read("systemProgram")>>, <<"UpdatePaymentInfoIx">>)
closePaymentInfo == Ix(<<Mut("paymentInfo"), MutSigner("authority")>>, <<>>)

Idl ==
    [initPool |-> initPool, updatePool |-> updatePool,
      closeStakePool |-> closeStakePool, initEntry |-> initEntry,
      updateTotalStakeSeconds |-> updateTotalStakeSeconds,
      resetStakeEntry |-> resetStakeEntry,
      resizeStakeEntry |-> resizeStakeEntry,
      closeStakeEntry |-> closeStakeEntry,
      setStakeEntryMultiplier |-> setStakeEntryMultiplier,
      setStakeEntryMultiplierStakeSeconds |->
          setStakeEntryMultiplierStakeSeconds,
      incrementStakeEntryMultiplierStakeSeconds |->
          incrementStakeEntryMultiplierStakeSeconds,
      decrementStakeEntryMultiplierStakeSeconds |->
          decrementStakeEntryMultiplierStakeSeconds,
      stakeEdition |-> stakeEdition, unstakeEdition |-> unstakeEdition,
      stakeCcs |-> stakeCcs, unstakeCcs |-> unstakeCcs,
      stakePnft |-> stakePnft, unstakePnft |-> unstakePnft,
      authorizeMint |-> authorizeMint, deauthorizeMint |-> deauthorizeMint,
      initStakeBooster |-> initStakeBooster,
      updateStakeBooster |-> updateStakeBooster,
      boostStakeEntry |-> boostStakeEntry,
      closeStakeBooster |-> closeStakeBooster,
      initReceiptManager |-> initReceiptManager,
      updateReceiptManager |-> updateReceiptManager,
      closeReceiptManager |-> closeReceiptManager,
      initRewardReceipt |-> initRewardReceipt,
      closeRewardReceipt |-> closeRewardReceipt,
      claimRewardReceipt |-> claimRewardReceipt,
      setRewardReceiptAllowed |-> setRewardReceiptAllowed,
      initRewardDistributor |-> initRewardDistributor,
      updateRewardDistributor |-> updateRewardDistributor,
      closeRewardDistributor |-> closeRewardDistributor,
      reclaimFunds |-> reclaimFunds, initRewardEntry |-> initRewardEntry,
      closeRewardEntry |-> closeRewardEntry,
      updateRewardEntry |-> updateRewardEntry,
      claimRewards |-> claimRewards, initPaymentInfo |-> initPaymentInfo,
      updatePaymentInfo |-> updatePaymentInfo,
      closePaymentInfo |-> closePaymentInfo]

-----------------------------------------------------------------------------
(* The contexts of the program, with its names in the case of the IDL, and  *)
(* the instructions it dispatches.  An account is mutable when it is marked *)
(* mut, init or close, a signer when its type is Signer.                    *)

InitPoolCtx ==
    <<Mut("stakePool"), Mut("owner"), MutSigner("payer"),
      Read("systemProgram")>>
UpdatePoolCtx ==
    <<Mut("stakePool"), Signer("authority"), MutSigner("payer"),
      Read("systemProgram")>>
CloseStakePoolCtx == <<Mut("stakePool"), MutSigner("authority")>>
InitDiscountCtx ==
    <<Mut("discountData"), MutSigner("payer"), Read("systemProgram")>>
InitEntryCtx ==
    <<Mut("stakeEntry"), Mut("stakePool"), Read("stakeMint"),
      Read("stakeMintMetadata"), MutSigner("payer"), Read("systemProgram")>>
UpdateTotalStakeSecondsCtx == <<Mut("stakeEntry"), MutSigner("updater")>>
ResetStakeEntryCtx ==
    <<Read("stakePool"), Mut("stakeEntry"), MutSigner("authority")>>
ResizeStakeEntryCtx ==
    <<Mut("stakeEntry"), MutSigner("payer"), Read("systemProgram")>>
CloseStakeEntryCtx ==
    <<Read("stakePool"), Mut("stakeEntry"), MutSigner("authority")>>
StakePNFTCtx ==
    <<Mut("stakePool"), Mut("stakeEntry"), Read("stakeMint"),
      Mut("stakeMintMetadata"), Read("stakeMintEdition"),
      Mut("stakeTokenRecordAccount"), Read("authorizationRules"),
      MutSigner("user"), Mut("userEscrow"),
      Mut("userStakeMintTokenAccount"), Read("tokenMetadataProgram"),
      Read("sysvarInstructions"), Read("authorizationRulesProgram"),
      Read("tokenProgram"), Read("systemProgram")>>
UnstakePNFTCtx ==
    <<Mut("stakePool"), Mut("stakeEntry"), Read("stakeMint"),
      Mut("stakeMintMetadata"), Read("stakeMintEdition"),
      Mut("stakeTokenRecordAccount"), Read("authorizationRules"),
      MutSigner("user"), Mut("userEscrow"),
      Mut("userStakeMintTokenAccount"), Read("tokenMetadataProgram"),
      Read("sysvarInstructions"), Read("authorizationRulesProgram"),
      Read("tokenProgram"), Read("systemProgram")>>
AuthorizeMintCtx ==
    <<Mut("stakePool"), Mut("stakeAuthorizationRecord"),
      MutSigner("authority"), MutSigner("payer"), Read("systemProgram")>>
DeauthorizeMintCtx ==
    <<Mut("stakePool"), Mut("stakeAuthorizationRecord"),
      MutSigner("authority")>>
InitRewardDistributorCtx ==
    <<Mut("rewardDistributor"), Read("stakePool"), Mut("rewardMint"),
      MutSigner("authority"), MutSigner("payer"), Read("tokenProgram"),
      Read("systemProgram")>>
UpdateRewardDistributorCtx == <<Mut("rewardDistributor"), Signer("authority")>>
CloseRewardDistributorCtx ==
    <<Mut("rewardDistributor"), Read("stakePool"), Mut("rewardMint"),
      Mut("rewardDistributorTokenAccount"), Mut("authorityTokenAccount"),
      MutSigner("signer"), Read("tokenProgram")>>
ReclaimFundsCtx ==
    <<Mut("rewardDistributor"), Mut("rewardDistributorTokenAccount"),
      Mut("authorityTokenAccount"), MutSigner("authority"),
      Read("tokenProgram")>>
InitRewardEntryCtx ==
    <<Mut("rewardEntry"), Read("stakeEntry"), Mut("rewardDistributor"),
      MutSigner("payer"), Read("systemProgram")>>
CloseRewardEntryCtx ==
    <<Read("rewardDistributor"), Mut("rewardEntry"),
      MutSigner("authority")>>
UpdateRewardEntryCtx ==
    <<Mut("rewardEntry"), Read("rewardDistributor"), Signer("authority")>>
(* Faulty variant: the reward entry is not declared mutable. *)
ClaimRewardsCtxReadingEntry ==
    <<Read("rewardEntry"), Mut("rewardDistributor"), Read("stakeEntry"),
      Read("stakePool"), Mut("rewardMint"),
      Mut("userRewardMintTokenAccount"),
      Mut("rewardDistributorTokenAccount"), MutSigner("user"),
      Read("tokenProgram"), Read("systemProgram")>>

ClaimRewardsCtx ==
    <<Mut("rewardEntry"), Mut("rewardDistributor"), Read("stakeEntry"),
      Read("stakePool"), Mut("rewardMint"),
      Mut("userRewardMintTokenAccount"),
      Mut("rewardDistributorTokenAccount"), MutSigner("user"),
      Read("tokenProgram"), Read("systemProgram")>>
InitPaymentInfoCtx ==
    <<Mut("paymentInfo"), MutSigner("payer"), Read("systemProgram")>>
UpdatePaymentInfoCtx ==
    <<Mut("paymentInfo"), Signer("authority"), MutSigner("payer"),
      Read("systemProgram")>>
ClosePaymentInfoCtx == <<Mut("paymentInfo"), MutSigner("authority")>>

Program ==
    [initPool |-> Ix(InitPoolCtx, <<"InitPoolIx">>),
      updatePool |-> Ix(UpdatePoolCtx, <<"UpdatePoolIx">>),
      closeStakePool |-> Ix(CloseStakePoolCtx, <<>>),
      initDiscount |-> Ix(InitDiscountCtx, <<"InitDiscountIx">>),
      initEntry |-> Ix(InitEntryCtx, <<"publicKey">>),
      updateTotalStakeSeconds |-> Ix(UpdateTotalStakeSecondsCtx, <<>>),
      resetStakeEntry |-> Ix(ResetStakeEntryCtx, <<>>),
      resizeStakeEntry |-> Ix(ResizeStakeEntryCtx, <<>>),
      closeStakeEntry |-> Ix(CloseStakeEntryCtx, <<>>),
      stakePnft |-> Ix(StakePNFTCtx, <<>>),
      unstakePnft |-> Ix(UnstakePNFTCtx, <<>>),
      authorizeMint |-> Ix(AuthorizeMintCtx, <<"publicKey">>),
      deauthorizeMint |-> Ix(DeauthorizeMintCtx, <<>>),
      initRewardDistributor |->
          Ix(InitRewardDistributorCtx, <<"InitRewardDistributorIx">>),
      updateRewardDistributor |->
          Ix(UpdateRewardDistributorCtx, <<"UpdateRewardDistributorIx">>),
      closeRewardDistributor |-> Ix(CloseRewardDistributorCtx, <<>>),
      reclaimFunds |-> Ix(ReclaimFundsCtx, <<"u64">>),
      initRewardEntry |-> Ix(InitRewardEntryCtx, <<>>),
      closeRewardEntry |-> Ix(CloseRewardEntryCtx, <<>>),
      updateRewardEntry |->
          Ix(UpdateRewardEntryCtx, <<"UpdateRewardEntryIx">>),
      claimRewards |-> Ix(ClaimRewardsCtx, <<>>),
      initPaymentInfo |-> Ix(InitPaymentInfoCtx, <<"InitPaymentInfoIx">>),
      updatePaymentInfo |->
          Ix(UpdatePaymentInfoCtx, <<"UpdatePaymentInfoIx">>),
      closePaymentInfo |-> Ix(ClosePaymentInfoCtx, <<>>)]

-----------------------------------------------------------------------------
(* A call. *)

(* The flags of the IDL grant at least what the context asks for. *)
Fits(call, ctx) ==
    /\ call.args = ctx.args
    /\ Len(call.accounts) = Len(ctx.accounts)
    /\ \A k \in DOMAIN ctx.accounts :
          LET given == call.accounts[k]
              asked == ctx.accounts[k]
          IN  /\ given.name = asked.name
              /\ asked.writable => given.writable
              /\ asked.signer => given.signer

(* Instruction i, built by the SDK, reaches the handler of its name. *)
Accepted(i) ==
    i \in DOMAIN Idl \cap DOMAIN Program /\ Fits(Idl[i], Program[i])

(* The accounts a call of i may change: the runtime refuses a write to an   *)
(* account the transaction did not grant, and the program stores nothing    *)
(* to an account its context does not mark as mutable.                      *)
WritableBy(i) ==
    {a.name : a \in {Idl[i].accounts[k] : k \in
        {n \in DOMAIN Idl[i].accounts :
            Idl[i].accounts[n].writable /\ Program[i].accounts[n].writable}}}

(* Where the two sides have drifted apart.  The program has init_discount,  *)
(* which the IDL lacks, and an owner account in init_pool, which the IDL's  *)
(* initPool does not pass; the IDL has instructions the program no longer   *)
(* dispatches.                                                              *)
NotDispatched ==
    {"setStakeEntryMultiplier", "setStakeEntryMultiplierStakeSeconds",
     "incrementStakeEntryMultiplierStakeSeconds",
     "decrementStakeEntryMultiplierStakeSeconds", "stakeEdition",
     "unstakeEdition", "stakeCcs", "unstakeCcs", "initStakeBooster",
     "updateStakeBooster", "boostStakeEntry", "closeStakeBooster",
     "initReceiptManager", "updateReceiptManager", "closeReceiptManager",
     "initRewardReceipt", "closeRewardReceipt", "claimRewardReceipt",
     "setRewardReceiptAllowed"}

ASSUME InterfaceAssumption ==
    /\ DOMAIN Idl \ DOMAIN Program = NotDispatched
    /\ DOMAIN Program \ DOMAIN Idl = {"initDiscount"}
    /\ {i \in DOMAIN Idl : ~Accepted(i)} = NotDispatched \cup {"initPool"}
=============================================================================
