------------------------------ MODULE Layouts ------------------------------
(***************************************************************************)
(* What the SDK and the program take to be in an account, and in the        *)
(* argument of an instruction.  Both encode the fields in the order they    *)
(* are declared, with no tags: were a field added, dropped or widened on    *)
(* one side only, every field after it would be misread on the other.       *)
(***************************************************************************)
EXTENDS Sequences

(* The IDL: accounts of the program, and arguments of its instructions. *)
stakePoolLayout ==
    <<"bump u8", "authority publicKey", "totalStaked u32",
      "resetOnUnstake bool", "cooldownSeconds Opt(u32)",
      "minStakeSeconds Opt(u32)", "endDate Opt(i64)",
      "stakePaymentInfo publicKey", "unstakePaymentInfo publicKey",
      "requiresAuthorization bool", "allowedCreators publicKey[]",
      "allowedCollections publicKey[]", "identifier string">>
stakeEntryLayout ==
    <<"bump u8", "kind u8", "pool publicKey", "amount u64",
      "stakeMint publicKey", "lastStaker publicKey", "lastStakedAt i64",
      "lastUpdatedAt i64", "totalStakeSeconds u128",
      "usedStakeSeconds u128", "cooldownStartSeconds Opt(i64)",
      "multiplierStakeSeconds Opt(u128)", "multiplierBasisPoints Opt(u64)">>
userEscrowLayout == <<"bump u8", "user publicKey">>
stakeAuthorizationRecordLayout ==
    <<"bump u8", "pool publicKey", "mint publicKey">>
rewardDistributorLayout ==
    <<"bump u8", "stakePool publicKey", "kind u8", "authority publicKey",
      "identifier u64", "rewardMint publicKey", "rewardAmount u64",
      "rewardDurationSeconds u128", "rewardsIssued u128",
      "defaultMultiplier u64", "multiplierDecimals u8",
      "claimRewardsPaymentInfo publicKey",
      "maxRewardSecondsReceived Opt(u128)">>
rewardEntryLayout ==
    <<"bump u8", "stakeEntry publicKey", "rewardDistributor publicKey",
      "rewardSecondsReceived u128", "multiplier u64">>
paymentInfoLayout ==
    <<"bump u8", "authority publicKey", "identifier string",
      "paymentAmount u64", "paymentMint publicKey",
      "paymentShares PaymentShare[]">>
PaymentShareLayout == <<"address publicKey", "basisPoints u16">>
InitPoolIxLayout ==
    <<"allowedCollections publicKey[]", "allowedCreators publicKey[]",
      "requiresAuthorization bool", "authority publicKey",
      "resetOnUnstake bool", "cooldownSeconds Opt(u32)",
      "minStakeSeconds Opt(u32)", "endDate Opt(i64)",
      "stakePaymentInfo publicKey", "unstakePaymentInfo publicKey",
      "identifier string">>
UpdatePoolIxLayout ==
    <<"allowedCollections publicKey[]", "allowedCreators publicKey[]",
      "requiresAuthorization bool", "authority publicKey",
      "resetOnUnstake bool", "cooldownSeconds Opt(u32)",
      "minStakeSeconds Opt(u32)", "endDate Opt(i64)",
      "stakePaymentInfo publicKey", "unstakePaymentInfo publicKey">>
InitRewardDistributorIxLayout ==
    <<"rewardAmount u64", "rewardDurationSeconds u128", "identifier u64",
      "supply Opt(u64)", "defaultMultiplier Opt(u64)",
      "multiplierDecimals Opt(u8)", "maxRewardSecondsReceived Opt(u128)",
      "claimRewardsPaymentInfo publicKey">>
UpdateRewardDistributorIxLayout ==
    <<"defaultMultiplier u64", "multiplierDecimals u8", "rewardAmount u64",
      "rewardDurationSeconds u128", "maxRewardSecondsReceived Opt(u128)",
      "claimRewardsPaymentInfo publicKey">>
UpdateRewardEntryIxLayout == <<"multiplier u64">>
InitPaymentInfoIxLayout ==
    <<"authority publicKey", "identifier string", "paymentAmount u64",
      "paymentMint publicKey", "paymentShares PaymentShare[]">>
UpdatePaymentInfoIxLayout ==
    <<"authority publicKey", "paymentAmount u64", "paymentMint publicKey",
      "paymentShares PaymentShare[]">>

(* The structs of the program, in the names and types of the IDL. *)
StakePoolStruct ==
    <<"bump u8", "authority publicKey", "totalStaked u32",
      "resetOnUnstake bool", "cooldownSeconds Opt(u32)",
      "minStakeSeconds Opt(u32)", "endDate Opt(i64)",
      "stakePaymentInfo publicKey", "unstakePaymentInfo publicKey",
      "requiresAuthorization bool", "allowedCreators publicKey[]",
      "allowedCollections publicKey[]", "identifier string">>
StakeEntryStruct ==
    <<"bump u8", "kind u8", "pool publicKey", "amount u64",
      "stakeMint publicKey", "lastStaker publicKey", "lastStakedAt i64",
      "lastUpdatedAt i64", "totalStakeSeconds u128",
      "usedStakeSeconds u128", "cooldownStartSeconds Opt(i64)",
      "multiplierStakeSeconds Opt(u128)", "multiplierBasisPoints Opt(u64)">>
UserEscrowStruct == <<"bump u8", "user publicKey">>
StakeAuthorizationRecordStruct ==
    <<"bump u8", "pool publicKey", "mint publicKey">>
RewardDistributorStruct ==
    <<"bump u8", "stakePool publicKey", "kind u8", "authority publicKey",
      "identifier u64", "rewardMint publicKey", "rewardAmount u64",
      "rewardDurationSeconds u128", "rewardsIssued u128",
      "defaultMultiplier u64", "multiplierDecimals u8",
      "claimRewardsPaymentInfo publicKey",
      "maxRewardSecondsReceived Opt(u128)">>
RewardEntryStruct ==
    <<"bump u8", "stakeEntry publicKey", "rewardDistributor publicKey",
      "rewardSecondsReceived u128", "multiplier u64">>
PaymentInfoStruct ==
    <<"bump u8", "authority publicKey", "identifier string",
      "paymentAmount u64", "paymentMint publicKey",
      "paymentShares PaymentShare[]">>
PaymentShareStruct == <<"address publicKey", "basisPoints u16">>
InitPoolIxStruct ==
    <<"allowedCollections publicKey[]", "allowedCreators publicKey[]",
      "requiresAuthorization bool", "authority publicKey",
      "resetOnUnstake bool", "cooldownSeconds Opt(u32)",
      "minStakeSeconds Opt(u32)", "endDate Opt(i64)",
      "stakePaymentInfo publicKey", "unstakePaymentInfo publicKey",
      "identifier string">>
UpdatePoolIxStruct ==
    <<"allowedCollections publicKey[]", "allowedCreators publicKey[]",
      "requiresAuthorization bool", "authority publicKey",
      "resetOnUnstake bool", "cooldownSeconds Opt(u32)",
      "minStakeSeconds Opt(u32)", "endDate Opt(i64)",
      "stakePaymentInfo publicKey", "unstakePaymentInfo publicKey">>
InitRewardDistributorIxStruct ==
    <<"rewardAmount u64", "rewardDurationSeconds u128", "identifier u64",
      "supply Opt(u64)", "defaultMultiplier Opt(u64)",
      "multiplierDecimals Opt(u8)", "maxRewardSecondsReceived Opt(u128)",
      "claimRewardsPaymentInfo publicKey">>
UpdateRewardDistributorIxStruct ==
    <<"defaultMultiplier u64", "multiplierDecimals u8", "rewardAmount u64",
      "rewardDurationSeconds u128", "maxRewardSecondsReceived Opt(u128)",
      "claimRewardsPaymentInfo publicKey">>
UpdateRewardEntryIxStruct == <<"multiplier u64">>
InitPaymentInfoIxStruct ==
    <<"authority publicKey", "identifier string", "paymentAmount u64",
      "paymentMint publicKey", "paymentShares PaymentShare[]">>
UpdatePaymentInfoIxStruct ==
    <<"authority publicKey", "paymentAmount u64", "paymentMint publicKey",
      "paymentShares PaymentShare[]">>

(* The SDK decodes what the program encodes, and the other way round. *)
Layouts ==
    {<<stakePoolLayout, StakePoolStruct>>,
     <<stakeEntryLayout, StakeEntryStruct>>,
     <<userEscrowLayout, UserEscrowStruct>>,
     <<stakeAuthorizationRecordLayout, StakeAuthorizationRecordStruct>>,
     <<rewardDistributorLayout, RewardDistributorStruct>>,
     <<rewardEntryLayout, RewardEntryStruct>>,
     <<paymentInfoLayout, PaymentInfoStruct>>,
     <<PaymentShareLayout, PaymentShareStruct>>,
     <<InitPoolIxLayout, InitPoolIxStruct>>,
     <<UpdatePoolIxLayout, UpdatePoolIxStruct>>,
     <<InitRewardDistributorIxLayout, InitRewardDistributorIxStruct>>,
     <<UpdateRewardDistributorIxLayout, UpdateRewardDistributorIxStruct>>,
     <<UpdateRewardEntryIxLayout, UpdateRewardEntryIxStruct>>,
     <<InitPaymentInfoIxLayout, InitPaymentInfoIxStruct>>,
     <<UpdatePaymentInfoIxLayout, UpdatePaymentInfoIxStruct>>}

ASSUME LayoutsAssumption == \A l \in Layouts : l[1] = l[2]
=============================================================================
