----------------------------- MODULE DeployProofs -----------------------------
(***************************************************************************)
(* Whatever the account sends meanwhile, however late it is mined and        *)
(* wherever a run of the script stops: a vault is created only for a         *)
(* Guardian of its own run, and the evidence file names what the chain has.  *)
(* The argument follows the Guardian's address: from the receipt on it is a  *)
(* mined Guardian of this run, so what is built on it, in the pool, in the   *)
(* locals and in the files, stays right as the chain grows.                  *)
(***************************************************************************)
EXTENDS Deploy, FiniteSetTheorems, TLAPS

Tx == [run : Nat, nonce : Nat, kind : {"Guardian", "DemoVault", "other", "reverted"},
       arg : Nat]

Types ==
    /\ run \in Nat /\ nonce \in Nat /\ guardian \in Nat /\ vault \in Nat
    /\ mined \in Seq(Tx) /\ pool \subseteq Tx
    /\ code \subseteq Mined

\* A Guardian run r has created.
GuardianOf(g, r) == IsGuardian(g) /\ mined[g].run = r

\* A transaction that creates a vault follows the Guardian it names.
BuildsOnGuardian(t) ==
    t.kind = "DemoVault" => t.arg < t.nonce /\ GuardianOf(t.arg, t.run)

TransactionsSound ==
    /\ \A t \in pool : BuildsOnGuardian(t)
    /\ \A n \in Mined : mined[n].nonce = n /\ BuildsOnGuardian(mined[n])

\* From its receipt on, the script holds the address of a Guardian it created.
HoldsGuardian ==
    pc \in {"send_vault", "vault_receipt"} => guardian = nonce /\ GuardianOf(guardian, run)

\* What the node has confirmed of a pair.
Confirmed(g, v) ==
    /\ {g, v} \subseteq code
    /\ IsGuardian(g)
    /\ mined[v].kind = "DemoVault" /\ mined[v].arg = g

\* The files while they are written: nothing is written before the checks.
FilesSound ==
    /\ pc \in {"write", "writing", "replace"} => Confirmed(guardian, vault)
    /\ pc = "replace" => temporary = <<guardian, vault>>
    /\ evidence # <<>> => \E g, v \in code : evidence = <<g, v>> /\ Confirmed(g, v)

Inv == Types /\ TransactionsSound /\ HoldsGuardian /\ FilesSound

(***************************************************************************)
(* The next nonce of the account is a number.                                *)
(***************************************************************************)
LEMMA NextNonceType == NextNonce \in Nat
<1>1. IsFiniteSet(Nonces)
  BY BoundsAssumption, FS_Interval DEF Nonces
<1>2. IsFiniteSet({n \in Nonces : 1..n \subseteq Sent})
  BY <1>1, FS_Subset
<1> QED BY <1>2, FS_CardinalityType DEF NextNonce

(***************************************************************************)
(* Nothing about a mined Guardian, vault or confirmed pair depends on more   *)
(* than the chain and what the node has seen.                                *)
(***************************************************************************)
LEMMA ChainKept ==
    ASSUME UNCHANGED <<mined, code>>
    PROVE  /\ \A g, r : GuardianOf(g, r)' <=> GuardianOf(g, r)
           /\ \A t : BuildsOnGuardian(t)' <=> BuildsOnGuardian(t)
           /\ \A g, v : Confirmed(g, v)' <=> Confirmed(g, v)
BY DEF GuardianOf, IsGuardian, Mined, BuildsOnGuardian, Confirmed

(***************************************************************************)
(* A Guardian, a vault and a confirmed pair stay what they are as the chain  *)
(* grows and the node catches up.                                            *)
(***************************************************************************)
LEMMA ChainGrows ==
    ASSUME code \subseteq Mined, code \subseteq code', Mined \subseteq Mined',
           \A n \in Mined : mined'[n] = mined[n]
    PROVE  /\ \A g, r : GuardianOf(g, r) => GuardianOf(g, r)'
           /\ \A t : BuildsOnGuardian(t) => BuildsOnGuardian(t)'
           /\ \A g, v : Confirmed(g, v) => Confirmed(g, v)'
BY DEF GuardianOf, IsGuardian, BuildsOnGuardian, Confirmed

(***************************************************************************)
(* send_raw_transaction adds to the pool only the transaction it was given.  *)
(***************************************************************************)
LEMMA SendPools ==
    ASSUME NEW from, NEW n, NEW kind, NEW arg, NEW to, Send(from, n, kind, arg, to)
    PROVE  /\ pool' \subseteq pool \cup {Transaction(run, n, kind, arg)}
           /\ pc = from /\ pc' \in {to, "failed"} /\ n \in Nonces
BY DEF Send, Pooled

(***************************************************************************)
(* The steps of the script up to the checks keep the invariant: a vault is   *)
(* sent only with the Guardian its receipt has named.                        *)
(***************************************************************************)
LEMMA ScriptKeeps ==
    ASSUME Inv, Main \/ SendGuardian \/ GuardianReceipt \/ SendVault \/ VaultReceipt \/ Abort
    PROVE  Inv'
<1>0. /\ Types /\ TransactionsSound /\ HoldsGuardian /\ FilesSound
      /\ Nonces \subseteq Nat
  BY BoundsAssumption DEF Inv, Nonces
<1>1. UNCHANGED <<mined, code, evidence, temporary>> /\ Mined' = Mined
  BY DEF Main, SendGuardian, GuardianReceipt, SendVault, VaultReceipt, Abort, chainVars,
         fileVars, Mined
<1>2. /\ \A g, r : GuardianOf(g, r)' <=> GuardianOf(g, r)
      /\ \A t : BuildsOnGuardian(t)' <=> BuildsOnGuardian(t)
      /\ \A g, v : Confirmed(g, v)' <=> Confirmed(g, v)
  BY <1>1, ChainKept
<1>3. ASSUME pool' = pool PROVE TransactionsSound'
  BY <1>0, <1>1, <1>2, <1>3 DEF TransactionsSound
<1>4. pc' \notin {"write", "writing", "replace"} => FilesSound'
  BY <1>0, <1>1, <1>2 DEF FilesSound
<1>5. CASE Main
  <2>1. Types'
    BY <1>0, <1>1, <1>5, NextNonceType DEF Main, chainVars, Types, None
  <2> QED BY <1>3, <1>4, <1>5, <2>1 DEF Main, chainVars, HoldsGuardian, Inv
<1>6. CASE SendGuardian
  <2>1. /\ pool' \subseteq pool \cup {Transaction(run, nonce, "Guardian", None)}
        /\ pc' \in {"guardian_receipt", "failed"}
    BY <1>6, SendPools DEF SendGuardian
  <2>2. UNCHANGED <<run, nonce, guardian, vault>>
    BY <1>6 DEF SendGuardian, localVars
  <2>3. /\ Transaction(run, nonce, "Guardian", None) \in Tx
        /\ Transaction(run, nonce, "Guardian", None).kind # "DemoVault"
    BY <1>0 DEF Types, Transaction, Tx, None
  <2>4. Types'
    BY <1>0, <1>1, <2>1, <2>2, <2>3 DEF Types
  <2>5. TransactionsSound'
    BY <1>0, <1>1, <1>2, <2>1, <2>3 DEF TransactionsSound, BuildsOnGuardian
  <2> QED BY <1>4, <2>1, <2>4, <2>5 DEF HoldsGuardian, Inv
<1>7. CASE GuardianReceipt
  <2>1. /\ pc' = "send_vault" /\ guardian' = nonce /\ UNCHANGED <<run, nonce, vault, pool>>
        /\ GuardianOf(nonce, run)
    BY <1>7 DEF GuardianReceipt, GuardianAddress, HasReceipt, GuardianOf, IsGuardian, chainVars
  <2>2. Types'
    BY <1>0, <1>1, <2>1 DEF Types
  <2>3. HoldsGuardian'
    BY <1>2, <2>1 DEF HoldsGuardian
  <2> QED BY <1>3, <1>4, <2>1, <2>2, <2>3 DEF Inv
<1>8. CASE SendVault
  <2>1. /\ pool' \subseteq pool \cup {Transaction(run, nonce + 1, "DemoVault", guardian)}
        /\ pc = "send_vault" /\ pc' \in {"vault_receipt", "failed"}
    BY <1>8, SendPools DEF SendVault
  <2>2. UNCHANGED <<run, nonce, guardian, vault>>
    BY <1>8 DEF SendVault, localVars
  <2>3. guardian = nonce /\ GuardianOf(guardian, run)
    BY <1>0, <2>1 DEF HoldsGuardian
  <2>4. Transaction(run, nonce + 1, "DemoVault", guardian) \in Tx
    BY <1>0 DEF Types, Transaction, Tx
  <2>5. BuildsOnGuardian(Transaction(run, nonce + 1, "DemoVault", guardian))
    BY <1>0, <2>3 DEF Types, Transaction, BuildsOnGuardian
  <2>6. Types'
    BY <1>0, <1>1, <2>1, <2>2, <2>4 DEF Types
  <2>7. TransactionsSound'
    BY <1>0, <1>1, <1>2, <2>1, <2>5 DEF TransactionsSound
  <2>8. HoldsGuardian'
    BY <1>2, <2>2, <2>3 DEF HoldsGuardian
  <2> QED BY <1>4, <2>1, <2>6, <2>7, <2>8 DEF Inv
<1>9. CASE VaultReceipt
  <2>1. pc' = "verify" /\ vault' = nonce + 1 /\ UNCHANGED <<run, nonce, guardian, pool>>
    BY <1>9 DEF VaultReceipt, chainVars
  <2>2. Types'
    BY <1>0, <1>1, <2>1 DEF Types
  <2> QED BY <1>3, <1>4, <2>1, <2>2 DEF HoldsGuardian, Inv
<1>10. CASE Abort
  <2>1. pc' = "failed" /\ UNCHANGED <<run, nonce, guardian, vault, pool>>
    BY <1>10 DEF Abort, chainVars, localVars
  <2>2. Types'
    BY <1>0, <1>1, <2>1 DEF Types
  <2> QED BY <1>3, <1>4, <2>1, <2>2 DEF HoldsGuardian, Inv
<1> QED BY <1>5, <1>6, <1>7, <1>8, <1>9, <1>10

(***************************************************************************)
(* The checks and the three steps of the evidence file keep it: the file     *)
(* appears whole, and only once the node has confirmed the pair.             *)
(***************************************************************************)
LEMMA FilesKeep ==
    ASSUME Inv, VerifyDeployment \/ OpenTemporary \/ WriteTemporary \/ Replace
    PROVE  Inv'
<1>0. Types /\ TransactionsSound /\ FilesSound
  BY DEF Inv
<1>1. /\ UNCHANGED <<mined, code, pool, run, nonce, guardian, vault>> /\ Mined' = Mined
      /\ pc' \notin {"send_vault", "vault_receipt"}
  BY DEF VerifyDeployment, OpenTemporary, WriteTemporary, Replace, chainVars, localVars, Mined
<1>2. /\ \A g, r : GuardianOf(g, r)' <=> GuardianOf(g, r)
      /\ \A t : BuildsOnGuardian(t)' <=> BuildsOnGuardian(t)
      /\ \A g, v : Confirmed(g, v)' <=> Confirmed(g, v)
  BY <1>1, ChainKept
<1>3. Types' /\ TransactionsSound' /\ HoldsGuardian'
  BY <1>0, <1>1, <1>2 DEF Types, TransactionsSound, HoldsGuardian
<1>4. CASE VerifyDeployment
  <2>1. Verified => Confirmed(guardian, vault)
    BY <1>0 DEF Verified, Confirmed, IsGuardian, Types
  <2> QED BY <1>0, <1>1, <1>2, <1>3, <1>4, <2>1 DEF VerifyDeployment, fileVars, FilesSound, Inv
<1>5. CASE OpenTemporary \/ WriteTemporary
  BY <1>0, <1>1, <1>2, <1>3, <1>5 DEF OpenTemporary, WriteTemporary, FilesSound, Inv
<1>6. CASE Replace
  <2>1. pc = "replace" /\ pc' = "done" /\ evidence' = <<guardian, vault>>
    BY <1>0, <1>6 DEF Replace, FilesSound
  <2>2. Confirmed(guardian, vault)
    BY <1>0, <2>1 DEF FilesSound
  <2>3. guardian \in code /\ vault \in code
    BY <2>2 DEF Confirmed
  <2> QED BY <1>1, <1>2, <1>3, <2>1, <2>2, <2>3 DEF FilesSound, Inv
<1> QED BY <1>4, <1>5, <1>6

(***************************************************************************)
(* The chain keeps it: transactions are mined in the order of their nonces,  *)
(* so a Guardian's place is taken before anything names it.                  *)
(***************************************************************************)
LEMMA ChainKeeps ==
    ASSUME Inv, Mine \/ OtherSends \/ NodeCatchesUp
    PROVE  Inv'
<1>0. /\ Types /\ TransactionsSound /\ HoldsGuardian /\ FilesSound
      /\ Nonces \subseteq Nat /\ code \subseteq Mined
  BY BoundsAssumption DEF Inv, Nonces, Types
<1>1. UNCHANGED <<pc, run, nonce, guardian, vault, temporary, evidence>>
  BY DEF Mine, OtherSends, NodeCatchesUp, localVars, fileVars
<1>2. ASSUME code \subseteq code', Mined \subseteq Mined', \A n \in Mined : mined'[n] = mined[n]
      PROVE  HoldsGuardian' /\ FilesSound'
  <2>1. /\ \A g, r : GuardianOf(g, r) => GuardianOf(g, r)'
        /\ \A g, v : Confirmed(g, v) => Confirmed(g, v)'
    BY <1>0, <1>2, ChainGrows
  <2> QED BY <1>0, <1>1, <1>2, <2>1 DEF HoldsGuardian, FilesSound
<1>3. CASE Mine
  <2>1. PICK t, u : /\ t \in pool /\ u \in {t, [t EXCEPT !.kind = "reverted"]}
                    /\ t.nonce = Cardinality(Mined) + 1
                    /\ mined' = Append(mined, u)
                    /\ pool' = pool \ {t} /\ code' = code
    BY <1>3 DEF Mine
  <2>2. Len(mined) \in Nat /\ Mined = 1..Len(mined) /\ Cardinality(Mined) = Len(mined)
    <3>1. Len(mined) \in Nat /\ Mined = 1..Len(mined)
      BY <1>0 DEF Types, Mined
    <3>2. Cardinality(1..Len(mined)) = IF 1 > Len(mined) THEN 0 ELSE Len(mined) - 1 + 1
      BY <3>1, FS_Interval
    <3> QED BY <3>1, <3>2
  <2>3. u \in Tx /\ u.nonce = Len(mined) + 1 /\ BuildsOnGuardian(u)
    <3>1. t \in Tx /\ BuildsOnGuardian(t)
      BY <1>0, <2>1 DEF Types, TransactionsSound
    <3> QED BY <2>1, <2>2, <3>1 DEF Tx, BuildsOnGuardian
  <2>4. /\ mined' \in Seq(Tx) /\ Mined' = Mined \cup {Len(mined) + 1}
        /\ \A n \in Mined : mined'[n] = mined[n]
        /\ mined'[Len(mined) + 1] = u
    BY <1>0, <2>1, <2>2, <2>3 DEF Types, Mined
  <2>5. Types'
    BY <1>0, <1>1, <2>1, <2>4 DEF Types
  <2>6. \A x : BuildsOnGuardian(x) => BuildsOnGuardian(x)'
    BY <1>0, <2>1, <2>4, ChainGrows
  <2>7. TransactionsSound'
    BY <1>0, <2>1, <2>3, <2>4, <2>6 DEF TransactionsSound
  <2> QED BY <1>2, <2>1, <2>4, <2>5, <2>7 DEF Inv
<1>4. CASE OtherSends
  <2>1. PICK n \in Nonces : pool' = Pooled(Transaction(0, n, "other", None))
    BY <1>4 DEF OtherSends
  <2>2. /\ Transaction(0, n, "other", None) \in Tx
        /\ Transaction(0, n, "other", None).kind # "DemoVault"
    BY <1>0, <2>1 DEF Transaction, Tx, None
  <2>3. UNCHANGED <<mined, code>> /\ Mined' = Mined
    BY <1>4 DEF OtherSends, Mined
  <2>4. Types'
    BY <1>0, <1>1, <2>1, <2>2, <2>3 DEF Types, Pooled
  <2>5. TransactionsSound'
    <3>1. \A t : BuildsOnGuardian(t)' <=> BuildsOnGuardian(t)
      BY <2>3, ChainKept
    <3>2. \A t \in pool' : BuildsOnGuardian(t)
      BY <1>0, <2>1, <2>2 DEF TransactionsSound, Pooled, BuildsOnGuardian
    <3> QED BY <1>0, <2>3, <3>1, <3>2 DEF TransactionsSound
  <2> QED BY <1>2, <2>3, <2>4, <2>5 DEF Inv
<1>5. CASE NodeCatchesUp
  <2>1. PICK n \in Mined : code' = code \cup 1..n
    BY <1>5 DEF NodeCatchesUp
  <2>2. UNCHANGED <<mined, pool>> /\ Mined' = Mined
    BY <1>5 DEF NodeCatchesUp, Mined
  <2>3. 1..n \subseteq Mined
    BY <1>0, <2>1 DEF Types, Mined
  <2>4. Types'
    BY <1>0, <1>1, <2>1, <2>2, <2>3 DEF Types
  <2>5. TransactionsSound'
    <3>1. \A t : BuildsOnGuardian(t) => BuildsOnGuardian(t)'
      BY <1>0, <2>1, <2>2, ChainGrows
    <3> QED BY <1>0, <2>2, <3>1 DEF TransactionsSound
  <2> QED BY <1>2, <2>1, <2>2, <2>4, <2>5 DEF Inv
<1> QED BY <1>3, <1>4, <1>5

(***************************************************************************)
(* The invariant holds throughout.                                           *)
(***************************************************************************)
LEMMA Invariant == Spec => []Inv
<1>1. Init => Inv
  <2> SUFFICES ASSUME Init PROVE Inv
    OBVIOUS
  <2>1. mined = <<>> /\ Mined = {} /\ pool = {} /\ code = {} /\ evidence = <<>> /\ pc = "done"
    BY DEF Init, Mined
  <2>2. Types
    BY <2>1 DEF Init, Types, None
  <2>3. TransactionsSound
    BY <2>1 DEF TransactionsSound
  <2> QED BY <2>1, <2>2, <2>3 DEF HoldsGuardian, FilesSound, Inv
<1>2. Inv /\ [Next]_vars => Inv'
  <2> SUFFICES ASSUME Inv, [Next]_vars PROVE Inv'
    OBVIOUS
  <2>1. CASE UNCHANGED vars
    <3>1. /\ UNCHANGED <<pc, run, nonce, guardian, vault, pool, mined, code, temporary, evidence>>
          /\ Mined' = Mined
      BY <2>1 DEF vars, localVars, chainVars, fileVars, Mined
    <3>2. /\ \A g, r : GuardianOf(g, r)' <=> GuardianOf(g, r)
          /\ \A t : BuildsOnGuardian(t)' <=> BuildsOnGuardian(t)
          /\ \A g, v : Confirmed(g, v)' <=> Confirmed(g, v)
      BY <3>1, ChainKept
    <3> QED BY <3>1, <3>2 DEF Inv, Types, TransactionsSound, HoldsGuardian, FilesSound
  <2> QED BY <2>1, ScriptKeeps, FilesKeep, ChainKeeps DEF Next
<1> QED BY <1>1, <1>2, PTL DEF Spec

(***************************************************************************)
(* deploy_contract, main: every vault the chain ever has was created for a   *)
(* Guardian that its own run had created before it.                          *)
(***************************************************************************)
THEOREM VaultsStayGuarded == Spec => []VaultsAreGuarded
<1>1. Inv => VaultsAreGuarded
  BY DEF Inv, TransactionsSound, BuildsOnGuardian, GuardianOf, VaultsAreGuarded
<1> QED BY <1>1, Invariant, PTL

(***************************************************************************)
(* verify_deployment, atomic_write_json: wherever the script stops, the      *)
(* evidence file is missing or names a Guardian and its vault that the node  *)
(* has.                                                                      *)
(***************************************************************************)
THEOREM EvidenceStaysReal == Spec => []EvidenceIsReal
<1>1. Inv => EvidenceIsReal
  BY DEF Inv, FilesSound, Confirmed, EvidenceIsReal
<1> QED BY <1>1, Invariant, PTL

=============================================================================
