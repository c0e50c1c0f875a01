-------------------------- MODULE Treasury_proofs ---------------------------
(***************************************************************************)
(* Proofs about SnowRailTreasury.sol, for any tokens, amounts and accounts *)
(* and for swaps that bring any amount.  The two state properties are      *)
(* inductive together: that no approval stands is what makes the token a   *)
(* swap may pull the one whose allowance it spends.                        *)
(***************************************************************************)
EXTENDS Treasury, TLAPS

\* The inductive invariant.
TreasuryInv == TreasuryTypeOK /\ NoStandingApproval

(***************************************************************************)
(* A swap's approval is spent by the swap itself.  The router can pull     *)
(* only from the token that was just approved, so the first token of the   *)
(* path is `from` and nothing of the approval is left.                     *)
(***************************************************************************)
LEMMA SwapPullsFrom ==
  ASSUME TreasuryTypeOK, NoStandingApproval,
         NEW from \in Tokens, NEW to \in Tokens, NEW pathIn \in Tokens, NEW pathOut \in Tokens,
         NEW amountIn \in Nat, NEW amountOutMin \in Nat, NEW amountOut \in Nat,
         ExecuteSwap(from, to, amountIn, amountOutMin, pathIn, pathOut, amountOut)
  PROVE  /\ pathIn = from
         /\ balance[from] >= amountIn
         /\ approval' = Zeros
<1>1. PICK approved \in ApproveResults(from, amountIn) :
         /\ approved[pathIn] >= amountIn
         /\ balance[pathIn] >= amountIn
         /\ approval' = [approved EXCEPT ![pathIn] = @ - amountIn]
  BY DEF ExecuteSwap
<1>2. amountIn > 0
  BY DEF ExecuteSwap
<1>3. approval = Zeros
  BY DEF TreasuryTypeOK, NoStandingApproval, Zeros
<1>4. approved = [Zeros EXCEPT ![from] = amountIn]
  <2>1. approved # Zeros
    BY <1>1, <1>2 DEF Zeros
  <2> QED BY <1>1, <1>3, <2>1 DEF ApproveResults
<1>5. pathIn = from
  BY <1>1, <1>2, <1>4 DEF Zeros
<1>6. approval' = Zeros
  <2>1. approval' = [t \in Tokens |-> IF t = from THEN amountIn - amountIn ELSE 0]
    BY <1>1, <1>4, <1>5 DEF Zeros
  <2> QED BY <2>1 DEF Zeros
<1> QED BY <1>1, <1>5, <1>6

(***************************************************************************)
(* The two operations other components perform on the treasury keep its    *)
(* types, whatever amount they are asked for: neither takes more than      *)
(* there is.                                                               *)
(***************************************************************************)
LEMMA ExecutePaymentType ==
  ASSUME TreasuryTypeOK, NEW t \in Tokens, NEW amount \in Nat, NEW event \in PaymentEvents,
         ExecutePayment(t, amount, event)
  PROVE  TreasuryTypeOK'
<1>1. balance' \in [Tokens -> Nat]
  <2>1. CASE event = "PaymentExecuted"
    <3>1. balance[t] - amount \in Nat
      BY <2>1 DEF ExecutePayment, TreasuryTypeOK
    <3>2. balance' = [balance EXCEPT ![t] = balance[t] - amount]
      BY <2>1 DEF ExecutePayment
    <3> QED BY <3>1, <3>2 DEF TreasuryTypeOK
  <2>2. CASE event # "PaymentExecuted"
    BY <2>2 DEF ExecutePayment, TreasuryTypeOK
  <2> QED BY <2>1, <2>2
<1> QED BY <1>1 DEF ExecutePayment, TreasuryTypeOK

\* The owner's withdrawal takes no more than there is, or nothing.
LEMMA EmergencyWithdrawType ==
  ASSUME TreasuryTypeOK, NEW sender, NEW t \in Tokens, NEW amount \in Nat, NEW recipient,
         EmergencyWithdraw(sender, t, amount, recipient)
  PROVE  TreasuryTypeOK'
BY SMTT(30) DEF EmergencyWithdraw, TreasuryTypeOK

(***************************************************************************)
(* Every action takes values of the declared types to such values.         *)
(***************************************************************************)
LEMMA TreasuryTypeStep ==
  ASSUME TreasuryTypeOK, NoStandingApproval, TreasuryNext
  PROVE  TreasuryTypeOK'
<1> USE TreasuryAssumption DEF TreasuryTypeOK
<1>1. CASE Pay
  <2>1. PICK t \in Tokens, amount \in Amounts, event \in PaymentEvents :
           ExecutePayment(t, amount, event)
    BY <1>1 DEF Pay
  <2>2. amount \in Nat
    OBVIOUS
  <2> QED BY <2>1, <2>2, ExecutePaymentType
<1>2. CASE Swap
  <2>1. PICK from \in Tokens, to \in Tokens, pathIn \in Tokens, pathOut \in Tokens,
             amountIn \in Amounts, amountOut \in Amounts, amountOutMin \in Amounts :
                ExecuteSwap(from, to, amountIn, amountOutMin, pathIn, pathOut, amountOut)
    BY <1>2 DEF Swap
  <2>2. balance[pathIn] >= amountIn /\ approval' = Zeros
    <3>1. amountIn \in Nat /\ amountOut \in Nat /\ amountOutMin \in Nat
      OBVIOUS
    <3> QED BY <2>1, <3>1, SwapPullsFrom
  <2>3. swapAllowances' \in [Tokens -> [Tokens -> Nat]]
    BY <2>1 DEF ExecuteSwap
  <2>4. balance' \in [Tokens -> Nat]
    <3>1. balance' = [balance EXCEPT ![pathIn] = @ - amountIn, ![pathOut] = @ + amountOut]
      BY <2>1 DEF ExecuteSwap
    <3>2. balance' = [u \in Tokens |-> balance'[u]]
      BY <3>1
    <3>3. ASSUME NEW u \in Tokens
          PROVE  balance'[u] \in Nat
      <4>1. balance[u] \in Nat /\ amountIn \in Nat /\ amountOut \in Nat
        OBVIOUS
      <4>2. CASE u = pathIn
        <5>1. balance'[u] \in {balance[u] - amountIn, balance[u] - amountIn + amountOut}
          BY <3>1, <4>2
        <5> QED BY <2>2, <4>1, <4>2, <5>1
      <4>3. CASE u # pathIn
        <5>1. balance'[u] \in {balance[u], balance[u] + amountOut}
          BY <3>1, <4>3
        <5> QED BY <4>1, <5>1
      <4> QED BY <4>2, <4>3
    <3> QED BY <3>2, <3>3
  <2>5. approval' \in [Tokens -> Nat]
    BY <2>2 DEF Zeros
  <2>6. pulled' \in [Tokens -> Nat] /\ received' \in [Tokens -> Nat]
    BY <2>1 DEF ExecuteSwap
  <2> QED BY <2>1, <2>3, <2>4, <2>5, <2>6 DEF ExecuteSwap
<1>3. CASE Administer
  <2>1. PICK sender \in Accounts :
          \/ \E pair \in SwapPairs, maxAmount \in Amounts :
                AuthorizeSwap(sender, pair[1], pair[2], maxAmount)
          \/ \E newOwner \in Accounts \cup {ZeroAddress} : TransferOwnership(sender, newOwner)
          \/ \E t \in Tokens, amount \in Amounts, recipient \in Accounts \cup {ZeroAddress} :
                EmergencyWithdraw(sender, t, amount, recipient)
    BY <1>3 DEF Administer
  <2>2. ASSUME NEW pair \in SwapPairs, NEW maxAmount \in Amounts,
               AuthorizeSwap(sender, pair[1], pair[2], maxAmount)
        PROVE  TreasuryTypeOK'
    BY <2>2 DEF AuthorizeSwap
  <2>3. ASSUME NEW newOwner \in Accounts \cup {ZeroAddress}, TransferOwnership(sender, newOwner)
        PROVE  TreasuryTypeOK'
    BY <2>3 DEF TransferOwnership
  <2>4. ASSUME NEW t \in Tokens, NEW amount \in Amounts,
               NEW recipient \in Accounts \cup {ZeroAddress},
               EmergencyWithdraw(sender, t, amount, recipient)
        PROVE  TreasuryTypeOK'
    <3>1. amount \in Nat
      OBVIOUS
    <3> QED BY <2>4, <3>1, EmergencyWithdrawType
  <2> QED BY <2>1, <2>2, <2>3, <2>4
<1> QED BY <1>1, <1>2, <1>3 DEF TreasuryNext

(***************************************************************************)
(* No action leaves an approval behind.                                    *)
(***************************************************************************)
LEMMA TreasuryApprovalStep ==
  ASSUME TreasuryInv, TreasuryNext
  PROVE  NoStandingApproval'
<1> USE TreasuryAssumption DEF TreasuryInv
<1>1. CASE Pay
  BY <1>1 DEF Pay, ExecutePayment, NoStandingApproval
<1>2. CASE Swap
  <2>1. PICK from \in Tokens, to \in Tokens, pathIn \in Tokens, pathOut \in Tokens,
             amountIn \in Amounts, amountOut \in Amounts, amountOutMin \in Amounts :
                ExecuteSwap(from, to, amountIn, amountOutMin, pathIn, pathOut, amountOut)
    BY <1>2 DEF Swap
  <2>2. approval' = Zeros
    BY <2>1, SwapPullsFrom
  <2> QED BY <2>2 DEF NoStandingApproval, Zeros
<1>3. CASE Administer
  BY <1>3 DEF Administer, AuthorizeSwap, TransferOwnership, EmergencyWithdraw,
              NoStandingApproval
<1> QED BY <1>1, <1>2, <1>3 DEF TreasuryNext

(***************************************************************************)
(* The invariant holds in every state of the contract.                     *)
(***************************************************************************)
THEOREM TreasuryInvariance == TreasurySpec => []TreasuryInv
<1>1. TreasuryInit => TreasuryInv
  BY TreasuryAssumption
  DEF TreasuryInit, TreasuryInv, TreasuryTypeOK, NoStandingApproval, Zeros
<1>2. TreasuryInv /\ [TreasuryNext]_treasuryVars => TreasuryInv'
  <2>1. CASE TreasuryNext
    BY <2>1, TreasuryTypeStep, TreasuryApprovalStep DEF TreasuryInv
  <2>2. CASE UNCHANGED treasuryVars
    BY <2>2
    DEF treasuryVars, TreasuryInv, TreasuryTypeOK, NoStandingApproval
  <2> QED BY <2>1, <2>2
<1> QED BY <1>1, <1>2, PTL DEF TreasurySpec

(***************************************************************************)
(* The values the contract stores are of their types; in particular no     *)
(* checked subtraction of the contract goes below zero.                    *)
(***************************************************************************)
THEOREM TreasuryTypeCorrect == TreasurySpec => []TreasuryTypeOK
BY TreasuryInvariance, PTL DEF TreasuryInv

(***************************************************************************)
(* Between transactions the router holds no approval of the treasury.      *)
(***************************************************************************)
THEOREM TreasuryLeavesNoApproval == TreasurySpec => []NoStandingApproval
BY TreasuryInvariance, PTL DEF TreasuryInv

(***************************************************************************)
(* Whatever the path says, what the router pulls is taken off an allowance *)
(* of the token it pulls.                                                  *)
(***************************************************************************)
THEOREM TreasuryPullsAreAuthorized == TreasurySpec => PullsAreAuthorized
<1>1. TreasuryInv /\ [TreasuryNext]_treasuryVars => [PullsSpendAllowance]_treasuryVars
  <2> SUFFICES ASSUME TreasuryInv, TreasuryNext, NEW f \in Tokens, pulled'[f] # pulled[f]
               PROVE  \E t \in Tokens :
                        swapAllowances[f][t] - swapAllowances'[f][t] = pulled'[f] - pulled[f]
    BY DEF PullsSpendAllowance
  <2>1. PICK from \in Tokens, to \in Tokens, pathIn \in Tokens, pathOut \in Tokens,
             amountIn \in Amounts, amountOut \in Amounts, amountOutMin \in Amounts :
                ExecuteSwap(from, to, amountIn, amountOutMin, pathIn, pathOut, amountOut)
    BY DEF TreasuryNext, Pay, ExecutePayment, Administer, AuthorizeSwap,
           TransferOwnership, EmergencyWithdraw, Swap
  <2>2. pathIn = from
    BY <2>1, SwapPullsFrom, TreasuryAssumption DEF TreasuryInv
  <2>3. f = from /\ pulled'[f] = pulled[f] + amountIn
    BY <2>1, <2>2 DEF ExecuteSwap, TreasuryInv, TreasuryTypeOK
  <2>4. swapAllowances'[f][to] = swapAllowances[f][to] - amountIn
    BY <2>1, <2>3 DEF ExecuteSwap, TreasuryInv, TreasuryTypeOK
  <2>5. amountIn \in Nat /\ swapAllowances[f][to] \in Nat /\ pulled[f] \in Nat
    BY TreasuryAssumption DEF TreasuryInv, TreasuryTypeOK
  <2>6. swapAllowances[f][to] - swapAllowances'[f][to] = pulled'[f] - pulled[f]
    BY <2>3, <2>4, <2>5
  <2> QED BY <2>6
<1> QED BY <1>1, TreasuryInvariance, PTL DEF TreasurySpec, PullsAreAuthorized
=============================================================================
