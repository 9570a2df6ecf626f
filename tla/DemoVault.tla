------------------------------ MODULE DemoVault ------------------------------
(***************************************************************************)
(* contracts/src/DemoVault.sol beside its Guardian, whose paused() it      *)
(* reads in every withdrawal.  Amounts are uint256 with checked arithmetic *)
(* (Solidity 0.8): an addition past MaxUint reverts.                       *)
(***************************************************************************)
EXTENDS Guardian, Integers

CONSTANTS
    MaxUint,                        \* type(uint256).max
    Amounts                         \* what callers pass

ASSUME AmountAssumption == MaxUint \in Nat /\ Amounts \subseteq 0..MaxUint

VARIABLE demoCredits

vars == <<guardianVars, log, demoCredits>>

DemoCreditIssued(account, amount) ==
    [type |-> "DemoCreditIssued", account |-> account, amount |-> amount]

Withdrawal(account, recipient, sender, amount, remaining) ==
    [type |-> "Withdrawal", account |-> account, recipient |-> recipient,
     triggeredBy |-> sender, amount |-> amount, remainingCredit |-> remaining]

Init ==
    /\ GuardianInit
    /\ demoCredits = [account \in Accounts |-> 0]

\* Mutant of Sum: unchecked arithmetic wraps around.
SumMutant(x, y) == (x + y) % (MaxUint + 1)

\* The checked addition; the guard of FaucetCredit is where it reverts.
Sum(x, y) == x + y

FaucetCredit(account, amount) ==
    /\ account # ZeroAddress /\ amount # 0
    /\ Sum(demoCredits[account], amount) <= MaxUint
    /\ demoCredits' = [demoCredits EXCEPT ![account] = Sum(@, amount)]
    /\ Emit(DemoCreditIssued(account, amount))
    /\ UNCHANGED guardianVars

\* Mutant of WhenNotPaused: the modifier is forgotten.
WhenNotPausedMutant == TRUE

WhenNotPaused == ~paused

WithdrawFrom(account, recipient, sender, amount) ==
    /\ amount # 0 /\ amount <= demoCredits[account]
    /\ demoCredits' = [demoCredits EXCEPT ![account] = @ - amount]
    /\ Emit(Withdrawal(account, recipient, sender, amount, demoCredits[account] - amount))
    /\ UNCHANGED guardianVars

Withdraw(sender, amount) == WhenNotPaused /\ WithdrawFrom(sender, sender, sender, amount)

UnsafeWithdrawFrom(sender, account, amount) ==
    WhenNotPaused /\ WithdrawFrom(account, sender, sender, amount)

VaultNext ==
    \E account \in Accounts, amount \in Amounts :
        \/ FaucetCredit(account, amount)
        \/ Withdraw(account, amount)
        \/ \E sender \in Accounts : UnsafeWithdrawFrom(sender, account, amount)

Next == (GuardianNext /\ UNCHANGED demoCredits) \/ VaultNext

Spec == Init /\ [][Next]_vars

-----------------------------------------------------------------------------
(* Properties. *)

(***************************************************************************)
(* Every variable has its type: credits fit a uint256, no keeper is the    *)
(* owner.                                                                  *)
(***************************************************************************)
TypeOK ==
    /\ paused \in BOOLEAN
    /\ keepers \subseteq Accounts \ {ZeroAddress, Owner}
    /\ usedIncidentRefs \subseteq Refs \ {ZeroHash}
    /\ demoCredits \in [Accounts -> 0..MaxUint]
    /\ Len(log) <= MaxLog

(***************************************************************************)
(* ES-FR-002: the log shows no withdrawal, of either kind, between a pause *)
(* and the next unpause.                                                   *)
(***************************************************************************)
PauseStopsWithdrawals == \A i \in Positions("Withdrawal") : ~PausedAt(i)

\* By how much event i moves the credits of an account.
Movement(i, account) ==
    CASE log[i].type = "DemoCreditIssued" /\ log[i].account = account -> log[i].amount
      [] log[i].type = "Withdrawal" /\ log[i].account = account       -> 0 - log[i].amount
      [] OTHER                                                        -> 0

\* The balances after each event, replayed from the log alone.
Ledger[i \in 0..Len(log)] ==
    IF i = 0 THEN [account \in Accounts |-> 0]
    ELSE LET before == Ledger[i - 1]
         IN  [account \in Accounts |-> before[account] + Movement(i, account)]

(***************************************************************************)
(* The credits are what was issued less what was withdrawn, also at the    *)
(* limit of a uint256, and each Withdrawal event carried the balance it    *)
(* left.                                                                   *)
(***************************************************************************)
LedgerBalances ==
    /\ demoCredits = Ledger[Len(log)]
    /\ \A i \in Positions("Withdrawal") : log[i].remainingCredit = Ledger[i][log[i].account]

=============================================================================
