------------------------------ MODULE Treasury ------------------------------
(***************************************************************************)
(* SnowRailTreasury.sol: the contract that holds the company's tokens.     *)
(*                                                                         *)
(* A contract call is one atomic step: a failed require, or a revert of    *)
(* the token or of the router, leaves no step behind.  Events are not      *)
(* stored on chain; the one event a service could act on is a parameter of *)
(* ExecutePayment.  The ERC-20 tokens and the DEX router are external and  *)
(* are modelled from the calls the contract makes to them.                 *)
(***************************************************************************)
EXTENDS Naturals

CONSTANTS
  Accounts,     \* addresses that call the contract or receive its ownership
  ZeroAddress,  \* address(0)
  Deployer,     \* msg.sender of the constructor
  Tokens,       \* ERC-20 contracts
  Amounts,      \* the amounts the owner and the swappers ask for
  SwapPairs,    \* bound: the <<from, to>> pairs the owner authorizes
  Funding,      \* Funding[t]: tokens t minted to the treasury beforehand
  MaxInflow     \* bound: the router delivers at most this much of a token

ASSUME TreasuryAssumption ==
  /\ Deployer \in Accounts
  /\ ZeroAddress \notin Accounts
  /\ Amounts \subseteq Nat
  /\ SwapPairs \subseteq Tokens \X Tokens
  /\ Funding \in [Tokens -> Nat]
  /\ MaxInflow \in Nat

VARIABLES
  owner,           \* the account onlyOwner lets through
  swapAllowances,  \* swapAllowances[from][to]: what may still be swapped
  balance,         \* balance[t]: t.balanceOf(treasury)
  approval,        \* approval[t]: t.allowance(treasury, router)
  pulled,          \* history: tokens t the router took
  received         \* history: tokens t the router delivered

treasuryVars ==
  <<owner, swapAllowances, balance, approval, pulled, received>>

TreasuryTypeOK ==
  /\ owner \in Accounts
  /\ swapAllowances \in [Tokens -> [Tokens -> Nat]]
  /\ balance \in [Tokens -> Nat]
  /\ approval \in [Tokens -> Nat]
  /\ pulled \in [Tokens -> Nat]
  /\ received \in [Tokens -> Nat]

Zeros == [t \in Tokens |-> 0]

TreasuryInit ==
  /\ owner = Deployer
  /\ swapAllowances = [f \in Tokens |-> Zeros]
  /\ balance = Funding
  /\ approval = Zeros
  /\ pulled = Zeros
  /\ received = Zeros

-----------------------------------------------------------------------------
(***************************************************************************)
(* executePayment.  `event` is what the call emits.  Too small a balance   *)
(* and a transfer that returns false both end in a mined transaction that  *)
(* emitted PaymentFailed: the call does not revert.                        *)
(***************************************************************************)
PaymentEvents == {"PaymentExecuted", "INSUFFICIENT_FUNDS", "TRANSFER_FAILED"}

\* Mutant: the balance is not checked.
BugPayUnchecked(t, amount, event) ==
  /\ event = "PaymentExecuted"
  /\ balance' = [balance EXCEPT ![t] = @ - amount]
  /\ UNCHANGED <<owner, swapAllowances, approval, pulled, received>>

ExecutePayment(t, amount, event) ==
  /\ \/ event = "INSUFFICIENT_FUNDS" /\ balance[t] < amount /\ UNCHANGED balance
     \/ event = "TRANSFER_FAILED" /\ balance[t] >= amount /\ UNCHANGED balance
     \/ /\ event = "PaymentExecuted"
        /\ balance[t] >= amount
        /\ balance' = [balance EXCEPT ![t] = @ - amount]
  /\ UNCHANGED <<owner, swapAllowances, approval, pulled, received>>

(***************************************************************************)
(* authorizeSwap: the owner overwrites what is left of an allowance.       *)
(***************************************************************************)
AuthorizeSwap(sender, from, to, maxAmount) ==
  /\ sender = owner
  /\ swapAllowances' = [swapAllowances EXCEPT ![from][to] = maxAmount]
  /\ UNCHANGED <<owner, balance, approval, pulled, received>>

(***************************************************************************)
(* The ERC-20 approve executeSwap makes and whose result it ignores: the   *)
(* token sets the router's approval or returns false and leaves it.        *)
(***************************************************************************)
\* Mutant: the router is approved for the whole balance.
BugApproveBalance(t, amount) == {[approval EXCEPT ![t] = balance[t]], approval}

\* Mutant: the approval is set on whatever token the path starts with.
BugApproveAnyToken(t, amount) ==
  {[approval EXCEPT ![u] = amount] : u \in Tokens} \cup {approval}

ApproveResults(t, amount) == {[approval EXCEPT ![t] = amount], approval}

(***************************************************************************)
(* executeSwap.  The path is an argument of its own, related to from and   *)
(* to only by what the router can pull: it takes amountIn of the path's    *)
(* first token with transferFrom and sends amountOut of its last token.    *)
(***************************************************************************)
ExecuteSwap(from, to, amountIn, amountOutMin, pathIn, pathOut, amountOut) ==
  /\ swapAllowances[from][to] >= amountIn
  /\ amountIn > 0 /\ amountOut >= amountOutMin /\ amountOut > 0
  /\ received[pathOut] + amountOut <= MaxInflow
  /\ swapAllowances' = [swapAllowances EXCEPT ![from][to] = @ - amountIn]
  /\ \E approved \in ApproveResults(from, amountIn) :
        /\ approved[pathIn] >= amountIn
        /\ balance[pathIn] >= amountIn
        /\ approval' = [approved EXCEPT ![pathIn] = @ - amountIn]
  /\ balance' = [balance EXCEPT ![pathIn] = @ - amountIn, ![pathOut] = @ + amountOut]
  /\ pulled' = [pulled EXCEPT ![pathIn] = @ + amountIn]
  /\ received' = [received EXCEPT ![pathOut] = @ + amountOut]
  /\ UNCHANGED owner

TransferOwnership(sender, newOwner) ==
  /\ sender = owner
  /\ newOwner # ZeroAddress
  /\ owner' = newOwner
  /\ UNCHANGED <<swapAllowances, balance, approval, pulled, received>>

(***************************************************************************)
(* emergencyWithdraw ignores the result of transfer: the call succeeds     *)
(* whether the token moved the amount or returned false.                   *)
(***************************************************************************)
EmergencyWithdraw(sender, t, amount, recipient) ==
  /\ sender = owner
  /\ recipient # ZeroAddress
  /\ \/ /\ balance[t] >= amount
        /\ balance' = [balance EXCEPT ![t] = @ - amount]
     \/ UNCHANGED balance
  /\ UNCHANGED <<owner, swapAllowances, approval, pulled, received>>

-----------------------------------------------------------------------------
Pay ==
  \E t \in Tokens, amount \in Amounts, event \in PaymentEvents :
     ExecutePayment(t, amount, event)

Swap ==
  \E from, to, pathIn, pathOut \in Tokens, amountIn, amountOut, amountOutMin \in Amounts :
     ExecuteSwap(from, to, amountIn, amountOutMin, pathIn, pathOut, amountOut)

Administer ==
  \E sender \in Accounts :
     \/ \E pair \in SwapPairs, maxAmount \in Amounts :
           AuthorizeSwap(sender, pair[1], pair[2], maxAmount)
     \/ \E newOwner \in Accounts \cup {ZeroAddress} : TransferOwnership(sender, newOwner)
     \/ \E t \in Tokens, amount \in Amounts, recipient \in Accounts \cup {ZeroAddress} :
           EmergencyWithdraw(sender, t, amount, recipient)

TreasuryNext == Pay \/ Swap \/ Administer

TreasurySpec == TreasuryInit /\ [][TreasuryNext]_treasuryVars

-----------------------------------------------------------------------------
(***************************************************************************)
(* Between transactions the router holds no approval of the treasury:      *)
(* whatever path a swap names, and whatever the tokens answered, nothing   *)
(* is left over for a later swap (or the router itself) to pull.           *)
(***************************************************************************)
NoStandingApproval == \A t \in Tokens : approval[t] = 0

(***************************************************************************)
(* The router pulls a token only within a swap of that token, and exactly  *)
(* what that swap took off an allowance of it, although executeSwap never  *)
(* compares fromToken with its path.                                       *)
(***************************************************************************)
PullsSpendAllowance ==
  \A f \in Tokens :
     pulled'[f] # pulled[f] =>
        \E t \in Tokens :
           swapAllowances[f][t] - swapAllowances'[f][t] = pulled'[f] - pulled[f]

PullsAreAuthorized == [][PullsSpendAllowance]_treasuryVars

(***************************************************************************)
(* "@param toToken Destination token address": a swap delivers the token   *)
(* its allowance names.                                                    *)
(***************************************************************************)
SwapDeliversToToken ==
  [][\A t \in Tokens :
        received'[t] # received[t] =>
           \E f \in Tokens : swapAllowances'[f][t] # swapAllowances[f][t]]_treasuryVars
=============================================================================
