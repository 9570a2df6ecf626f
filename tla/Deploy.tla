-------------------------------- MODULE Deploy --------------------------------
(***************************************************************************)
(* contracts/deploy.py: a script that creates a Guardian and a DemoVault   *)
(* pointing to it, verifies both and writes the evidence.  An operator     *)
(* runs it again after it failed; what an earlier run sent may still be    *)
(* mined.  The same account may send other transactions meanwhile.         *)
(*                                                                         *)
(* The chain is external: transactions of an account are mined in the      *)
(* order of their nonces, one per nonce, and a contract's address follows  *)
(* from the nonce that created it, so addresses are nonces here.  The node *)
(* that answers reads may lag behind the one that gave the receipt.        *)
(***************************************************************************)
EXTENDS Naturals, FiniteSets, Sequences

CONSTANTS MaxRuns, MaxNonce                 \* bounds

ASSUME BoundsAssumption == {MaxRuns, MaxNonce} \subseteq Nat

VARIABLES
    pc, run,                        \* the script; which run it is
    nonce, guardian, vault,         \* its locals
    pool,                           \* transactions sent and not mined
    mined,                          \* nonce -> the transaction mined with it
    code,                           \* the contracts the node that answers reads has seen
    temporary, evidence             \* files: <<>> missing, <<g>> partial, <<g, v>> whole

localVars == <<nonce, guardian, vault>>
chainVars == <<pool, mined, code>>
fileVars == <<temporary, evidence>>
vars == <<pc, run, localVars, chainVars, fileVars>>

None == 0

Nonces == 1..MaxNonce

Mined == DOMAIN mined

Sent == Mined \cup {t.nonce : t \in pool}

\* The nonce after get_transaction_count(..., "pending"): what is mined and
\* what follows in the pool.
NextNonce == Cardinality({n \in Nonces : 1..n \subseteq Sent}) + 1

Init ==
    /\ pc = "done" /\ run = 0
    /\ nonce = None /\ guardian = None /\ vault = None
    /\ pool = {} /\ mined = <<>> /\ code = {}
    /\ temporary = <<>> /\ evidence = <<>>

-----------------------------------------------------------------------------
(* The script. *)

\* main, up to the nonce: chain and roles are checked before anything is sent.
Main ==
    /\ pc \in {"done", "failed"} /\ run < MaxRuns
    /\ run' = run + 1
    /\ nonce' = NextNonce /\ guardian' = None /\ vault' = None
    /\ pc' = "send_guardian"
    /\ UNCHANGED <<chainVars, fileVars>>

Transaction(r, n, kind, arg) == [run |-> r, nonce |-> n, kind |-> kind, arg |-> arg]

\* The pool with transaction t; it replaces one of the same nonce.
Pooled(t) == {u \in pool : u.nonce # t.nonce} \cup {t}

\* send_raw_transaction: the node refuses a nonce that is mined, and one that
\* is in the pool unless the fee is high enough to replace it.
Send(from, n, kind, arg, to) ==
    /\ pc = from /\ n \in Nonces
    /\ \/ n \notin Mined /\ pool' = Pooled(Transaction(run, n, kind, arg)) /\ pc' = to
       \/ n \in Sent /\ pc' = "failed" /\ UNCHANGED pool

SendGuardian ==
    /\ Send("send_guardian", nonce, "Guardian", None, "guardian_receipt")
    /\ UNCHANGED <<run, localVars, mined, code, fileVars>>

\* Mutant of GuardianAddress: the address is computed from the nonce that
\* comes next instead of being taken from the receipt.
GuardianAddressMutant == NextNonce

\* contractAddress of the receipt.
GuardianAddress == nonce

\* wait_for_transaction_receipt for the hash this run sent, with status 1; a
\* reverted or replaced transaction ends in Abort.
HasReceipt(n, kind) == n \in Mined /\ mined[n].run = run /\ mined[n].kind = kind

GuardianReceipt ==
    /\ pc = "guardian_receipt" /\ HasReceipt(nonce, "Guardian")
    /\ guardian' = GuardianAddress
    /\ pc' = "send_vault"
    /\ UNCHANGED <<run, nonce, vault, chainVars, fileVars>>

SendVault ==
    /\ Send("send_vault", nonce + 1, "DemoVault", guardian, "vault_receipt")
    /\ UNCHANGED <<run, localVars, mined, code, fileVars>>

VaultReceipt ==
    /\ pc = "vault_receipt" /\ HasReceipt(nonce + 1, "DemoVault")
    /\ vault' = nonce + 1
    /\ pc' = "verify"
    /\ UNCHANGED <<run, nonce, guardian, chainVars, fileVars>>

\* The receipt did not come within 180 s or reports a revert, a request or a
\* check failed, the file could not be written, or the process died.
Abort ==
    /\ pc \notin {"done", "failed"}
    /\ pc' = "failed"
    /\ UNCHANGED <<run, localVars, chainVars, fileVars>>

\* Mutant of Verified: an empty answer passes.
VerifiedMutant == TRUE

\* Owner, keeper and paused of the Guardian, guardian of the vault; a call to
\* an address without code raises.
Verified ==
    /\ {guardian, vault} \subseteq code
    /\ mined[guardian].kind = "Guardian" /\ mined[vault].kind = "DemoVault"
    /\ mined[vault].arg = guardian

VerifyDeployment ==
    /\ pc = "verify"
    /\ \/ Verified /\ pc' \in {"write", "done"}         \* --evidence is optional
       \/ ~Verified /\ pc' = "failed"
    /\ UNCHANGED <<run, localVars, chainVars, fileVars>>

\* atomic_write_json: write_text opens and writes, then os.replace.
OpenTemporary ==
    /\ pc = "write" /\ pc' = "writing"
    /\ temporary' = <<guardian>>
    /\ UNCHANGED <<run, localVars, chainVars, evidence>>

WriteTemporary ==
    /\ pc = "writing" /\ pc' = "replace"
    /\ temporary' = <<guardian, vault>>
    /\ UNCHANGED <<run, localVars, chainVars, evidence>>

Replace ==
    /\ pc = "replace" /\ pc' = "done"
    /\ evidence' = temporary /\ temporary' = <<>>
    /\ UNCHANGED <<run, localVars, chainVars>>

-----------------------------------------------------------------------------
(* The chain and the account's other uses.  Blocks are not undone. *)

\* The next nonce is mined; the constructor may revert (out of gas).
Mine ==
    /\ \E t \in pool, kind \in {"as sent", "reverted"} :
        /\ t.nonce = Cardinality(Mined) + 1
        /\ mined' = Append(mined, IF kind = "reverted" THEN [t EXCEPT !.kind = kind] ELSE t)
        /\ pool' = pool \ {t}
    /\ UNCHANGED <<pc, run, localVars, code, fileVars>>

\* With the next nonce, or in place of a transaction that waits.
OtherSends ==
    /\ \E n \in (Nonces \ Mined) \cap 1..NextNonce :
        pool' = Pooled(Transaction(0, n, "other", None))
    /\ UNCHANGED <<pc, run, localVars, mined, code, fileVars>>

NodeCatchesUp ==
    /\ \E n \in Mined : code' = code \cup 1..n
    /\ code' # code
    /\ UNCHANGED <<pc, run, localVars, pool, mined, fileVars>>

Next ==
    \/ Main \/ SendGuardian \/ GuardianReceipt \/ SendVault \/ VaultReceipt \/ Abort
    \/ VerifyDeployment \/ OpenTemporary \/ WriteTemporary \/ Replace
    \/ Mine \/ OtherSends \/ NodeCatchesUp

Spec == Init /\ [][Next]_vars

-----------------------------------------------------------------------------
(* Properties. *)

IsGuardian(n) == n \in Mined /\ mined[n].kind = "Guardian"

\* deploy_contract, main: a vault is only ever created, by whichever run and
\* however late it is mined, for a Guardian its own run created before it: no
\* vault depends on an address another transaction of the account has taken.
VaultsAreGuarded ==
    \A n \in Mined : mined[n].kind = "DemoVault" =>
        LET g == mined[n].arg
        IN  g < n /\ IsGuardian(g) /\ mined[g].run = mined[n].run

\* verify_deployment, atomic_write_json: the evidence file is missing or names
\* a Guardian and its vault that a reader of the node can see; never half a
\* file, a pair of two runs or what a lagging node has not confirmed, whenever
\* the script stops.
EvidenceIsReal ==
    evidence # <<>> =>
        \E g, v \in code : /\ evidence = <<g, v>> /\ IsGuardian(g)
                           /\ mined[v].kind = "DemoVault" /\ mined[v].arg = g

=============================================================================
