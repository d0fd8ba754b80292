---------------------------- MODULE VaultProofs ----------------------------
(***************************************************************************)
(* Proofs about Vault for any number of flows, slots, values, salts and    *)
(* recovery keys: its invariants, and that it implements VaultStore.       *)
(***************************************************************************)
EXTENDS Vault, TLAPS

----------------------------------------------------------------------------
(***************************************************************************)
(* The inductive invariant.                                                *)
(***************************************************************************)

\* An initialized vault is keyed by the salt it records; before that there
\* is no key and no row.
MetaInv ==
  /\ is_initialized => /\ meta.salt \in Salt
                       /\ meta.verifier = Kek(meta.salt, meta.salt)
  /\ ~is_initialized => secrets = [s \in Slot |-> NoSecret]

\* A row that exists has an id.
RowInv == \A s \in Slot : secrets[s] # NoSecret => secrets[s].id \in RowId

\* An entry named after a salt holds that salt's key or nothing.
KeychainInv == \A s \in Salt : keychain[s] \in {NoKey, Kek(s, s)}

\* A setup or rebind that has passed its wait holds the key of its own salt,
\* and that key can already be found again through its provider.
KeyRetrievable(f) ==
  /\ flow[f].key = Kek(flow[f].salt, flow[f].salt)
  /\ flow[f].provider = "touchid" => keychain[flow[f].salt] = flow[f].key
  /\ flow[f].provider = "passkey" => flow[f].salt \in passkeys

FlowOK(f) ==
  /\ flow[f].pc = "tx" => flow[f].op = "rebind"
  /\ flow[f].op \in {"setup", "rebind"} =>
       /\ flow[f].salt \in Salt
       /\ flow[f].provider \in Provider
       /\ flow[f].pc \in {"commit", "tx"} => KeyRetrievable(f)

FlowInv == \A f \in Flow : FlowOK(f)

\* Inside the transaction of rekey every row is the committed row, wrapped
\* with the old key or, once done, with the new one.
RowInTx(f, s) ==
  IF secrets[s] = NoSecret
  THEN tx.rows[s] = NoSecret /\ s \notin tx.todo
  ELSE /\ tx.rows[s].id = secrets[s].id
       /\ tx.rows[s].aad = secrets[s].id
       /\ tx.rows[s].val = secrets[s].val
       /\ tx.rows[s].wrap = IF s \in tx.todo THEN kek ELSE flow[f].key

TxInv ==
  \A f \in Flow : flow[f].pc = "tx" =>
    /\ ~is_locked
    /\ \A s \in Slot : RowInTx(f, s)
    /\ \A g \in Flow : flow[g].pc = "tx" => g = f

IInv ==
  /\ TypeOK
  /\ MetaInv
  /\ RowInv
  /\ KeychainInv
  /\ FlowInv
  /\ TxInv
  /\ SecretsOpenWithVerifier
  /\ MemoryKeyIsVerified
  /\ ProviderOpens
  /\ RecoveryOpens

----------------------------------------------------------------------------
(***************************************************************************)
(* Type correctness.                                                       *)
(***************************************************************************)
LEMMA KeyType ==
  /\ NoKey \in Key
  /\ \A c, s \in 0..MaxSalt : Kek(c, s) \in Key
  /\ \A s \in Salt : Kek(s, s) \in Key /\ Kek(s, s) # NoKey
BY ConstantsAssumption DEF Key, Kek, NoKey, Salt

LEMMA ConstantTypes ==
  /\ NoMeta \in MetaRow
  /\ LegacyMeta \in MetaRow
  /\ NoSecret \in SecretRow
  /\ NoTx \in [rows : [Slot -> SecretRow], todo : SUBSET Slot]
  /\ Idle \in FlowState
<1>1. NoMeta \in MetaRow
  BY KeyType, ConstantsAssumption DEF NoMeta, MetaRow, NoSalt, NoCode
<1>2. LegacyMeta \in MetaRow
  BY KeyType, ConstantsAssumption DEF LegacyMeta, MetaRow, Provider
<1>3. NoSecret \in SecretRow
  BY KeyType DEF NoSecret, SecretRow
<1>4. NoTx \in [rows : [Slot -> SecretRow], todo : SUBSET Slot]
  BY <1>3 DEF NoTx
<1>5. Idle \in FlowState
  BY KeyType, ConstantsAssumption DEF Idle, FlowState, NoSalt
<1> QED
  BY <1>1, <1>2, <1>3, <1>4, <1>5

LEMMA InitType == Init => TypeOK
<1> SUFFICES ASSUME Init PROVE TypeOK
  OBVIOUS
<1>1. meta \in MetaRow
  BY ConstantTypes DEF Init
<1>2. keychain \in [0..MaxSalt -> Key]
  BY KeyType, ConstantsAssumption DEF Init
<1>3. nextSalt \in 1..(MaxSalt + 1) /\ nextCode \in 1..(MaxCode + 1)
  BY ConstantsAssumption DEF Init
<1>4. shown \in SUBSET Code
  BY ConstantsAssumption DEF Init, Code
<1>5. secrets \in [Slot -> SecretRow] /\ flow \in [Flow -> FlowState]
  BY ConstantTypes DEF Init
<1>6. passkeys \in SUBSET (0..MaxSalt) /\ kek \in Key
  BY KeyType DEF Init
<1>7. tx \in [rows : [Slot -> SecretRow], todo : SUBSET Slot]
  BY ConstantTypes DEF Init
<1> QED
  BY <1>1, <1>2, <1>3, <1>4, <1>5, <1>6, <1>7 DEF TypeOK

\* A flow that goes to its commit with a key, or into the transaction, is still
\* a flow.
LEMMA FlowMoves ==
  ASSUME NEW g \in [Flow -> FlowState], NEW f \in Flow, NEW k \in Key
  PROVE  /\ [g EXCEPT ![f].pc = "commit", ![f].key = k] \in [Flow -> FlowState]
         /\ [g EXCEPT ![f].pc = "tx"] \in [Flow -> FlowState]
<1>1. [g[f] EXCEPT !.pc = "commit", !.key = k] \in FlowState
  BY DEF FlowState
<1>2. [g[f] EXCEPT !.pc = "tx"] \in FlowState
  BY DEF FlowState
<1>3. ASSUME NEW x \in FlowState
      PROVE  [g EXCEPT ![f] = x] \in [Flow -> FlowState]
  OBVIOUS
<1> HIDE DEF FlowState
<1> QED
  BY <1>1, <1>2, <1>3

LEMMA FlowKeys ==
  ASSUME TypeOK, NEW f \in Flow
  PROVE  /\ flow \in [Flow -> FlowState]
         /\ flow[f].salt \in 0..MaxSalt
         /\ Kek(flow[f].salt, flow[f].salt) \in Key
<1>1. flow \in [Flow -> FlowState] /\ flow[f].salt \in 0..MaxSalt
  BY DEF TypeOK, FlowState
<1> QED
  BY <1>1, KeyType

LEMMA StepType == TypeOK /\ [Next]_vars => TypeOK'
<1> SUFFICES ASSUME TypeOK, [Next]_vars PROVE TypeOK'
  OBVIOUS
<1> USE ConstantsAssumption, KeyType, ConstantTypes
<1>1. ASSUME NEW f \in Flow, NEW p \in Provider, SetupStart(f, p) \/ RebindStart(f, p)
      PROVE TypeOK'
  <2>1. DrawSalt(f, "setup", p) \/ DrawSalt(f, "rebind", p)
    BY <1>1 DEF SetupStart, RebindStart
  <2>2. nextSalt \in 0..MaxSalt /\ nextSalt' \in 1..(MaxSalt + 1)
    BY <2>1 DEF DrawSalt, Salt
  <2> DEFINE started(op) == [op |-> op, pc |-> "presence", provider |-> p,
                             salt |-> nextSalt, key |-> NoKey]
  <2>3. started("setup") \in FlowState /\ started("rebind") \in FlowState
    BY <2>2 DEF FlowState
  <2>4. flow' = [flow EXCEPT ![f] = started("setup")]
          \/ flow' = [flow EXCEPT ![f] = started("rebind")]
    BY <2>1 DEF DrawSalt
  <2> HIDE DEF started
  <2>5. flow' \in [Flow -> FlowState]
    BY <2>3, <2>4 DEF TypeOK
  <2> QED
    BY <2>1, <2>2, <2>5 DEF DrawSalt, TypeOK
<1>2. ASSUME NEW f \in Flow, UnlockStart(f)
      PROVE TypeOK'
  BY <1>2 DEF UnlockStart, TypeOK, FlowState, MetaRow, is_initialized
<1>3. ASSUME NEW f \in Flow, RegenerateStart(f)
      PROVE TypeOK'
  BY <1>3 DEF RegenerateStart, TypeOK, FlowState, Idle
<1>4. ASSUME NEW f \in Flow, KeychainWrite(f)
      PROVE TypeOK'
  <2>1. flow' \in [Flow -> FlowState]
    BY ONLY <1>4, f \in Flow, TypeOK, FlowKeys, FlowMoves DEF KeychainWrite
  <2>2. keychain' \in [0..MaxSalt -> Key]
    <3>1. keychain' = [keychain EXCEPT ![keychain_slot(flow[f].salt)]
                                          = Kek(flow[f].salt, flow[f].salt)]
      BY <1>4 DEF KeychainWrite
    <3>2. Kek(flow[f].salt, flow[f].salt) \in Key /\ keychain \in [0..MaxSalt -> Key]
      BY FlowKeys DEF TypeOK
    <3> QED
      BY ONLY <3>1, <3>2
  <2> QED
    BY <1>4, <2>1, <2>2 DEF KeychainWrite, TypeOK
<1>5. ASSUME NEW f \in Flow, PasskeyRegister(f)
      PROVE TypeOK'
  <2>1. flow' \in [Flow -> FlowState]
    BY ONLY <1>5, f \in Flow, TypeOK, FlowKeys, FlowMoves DEF PasskeyRegister
  <2>2. passkeys' \in SUBSET (0..MaxSalt)
    BY <1>5, FlowKeys DEF PasskeyRegister, TypeOK
  <2> QED
    BY <1>5, <2>1, <2>2 DEF PasskeyRegister, TypeOK
<1>6. ASSUME NEW f \in Flow, KeychainRead(f)
      PROVE TypeOK'
  <2>1. flow[f].salt \in 0..MaxSalt
    BY DEF TypeOK, FlowState
  <2>2. keychain_read(flow[f].salt) \in Key
    BY <2>1 DEF TypeOK, keychain_read, keychain_slot
  <2>3. flow' \in [Flow -> FlowState]
    BY ONLY <1>6, <2>2, f \in Flow, TypeOK, FlowKeys, FlowMoves DEF KeychainRead
  <2> QED
    BY <1>6, <2>3 DEF KeychainRead, TypeOK
<1>7. ASSUME NEW f \in Flow, PasskeyLogin(f)
      PROVE TypeOK'
  <2>1. PICK c \in passkeys :
          flow' = [flow EXCEPT ![f].pc = "commit", ![f].key = Kek(c, flow[f].salt)]
    BY <1>7 DEF PasskeyLogin
  <2>2. Kek(c, flow[f].salt) \in Key
    <3>1. c \in 0..MaxSalt /\ flow[f].salt \in 0..MaxSalt
      BY DEF TypeOK, FlowState
    <3> QED
      BY <3>1, KeyType
  <2>3. flow' \in [Flow -> FlowState]
    BY ONLY <2>1, <2>2, f \in Flow, TypeOK, FlowKeys, FlowMoves
  <2> QED
    BY <1>7, <2>3 DEF PasskeyLogin, TypeOK
<1>8. ASSUME NEW f \in Flow, Initialize(f)
      PROVE TypeOK'
  BY <1>8 DEF Initialize, MakeRecovery, MetaFor, Finish, TypeOK, FlowState, MetaRow, Code
<1>9. ASSUME NEW f \in Flow, AlreadyInitialized(f)
      PROVE TypeOK'
  BY <1>9 DEF AlreadyInitialized, Finish, TypeOK
<1>10. ASSUME NEW f \in Flow, Unlock(f)
      PROVE TypeOK'
  BY <1>10 DEF Unlock, Finish, TypeOK, FlowState
<1>11. ASSUME NEW f \in Flow, RekeyBegin(f)
      PROVE TypeOK'
  <2>1. flow' \in [Flow -> FlowState]
    BY ONLY <1>11, f \in Flow, TypeOK, FlowKeys, FlowMoves DEF RekeyBegin
  <2>2. tx' \in [rows : [Slot -> SecretRow], todo : SUBSET Slot]
    BY <1>11 DEF RekeyBegin, TypeOK
  <2> QED
    BY <1>11, <2>1, <2>2 DEF RekeyBegin, TypeOK
<1>12. ASSUME NEW f \in Flow, NEW s \in Slot, RekeyRow(f, s)
      PROVE TypeOK'
  <2>1. flow[f].key \in Key /\ tx.rows[s] \in SecretRow
    BY FlowKeys DEF TypeOK, FlowState
  <2>2. [tx.rows[s] EXCEPT !.wrap = flow[f].key, !.aad = tx.rows[s].id] \in SecretRow
    BY <2>1 DEF SecretRow
  <2>3. tx' \in [rows : [Slot -> SecretRow], todo : SUBSET Slot]
    BY <1>12, <2>2 DEF RekeyRow, TypeOK
  <2> QED
    BY <1>12, <2>3 DEF RekeyRow, TypeOK
<1>13. ASSUME NEW f \in Flow, RekeyCommit(f)
      PROVE TypeOK'
  BY <1>13 DEF RekeyCommit, MakeRecovery, MetaFor, Finish, TypeOK, FlowState, MetaRow, Code
<1>14. ASSUME NEW f \in Flow, RegenerateRecovery(f)
      PROVE TypeOK'
  <2>1. nextCode \in Code /\ nextCode' = nextCode + 1 /\ shown' \in SUBSET Code
    BY <1>14 DEF RegenerateRecovery, MakeRecovery, TypeOK
  <2>2. meta' \in MetaRow
    <3>1. nextCode \in 0..MaxCode
      BY <2>1 DEF Code
    <3> QED
      BY <1>14, <3>1 DEF RegenerateRecovery, TypeOK, MetaRow
  <2>3. nextCode' \in 1..(MaxCode + 1)
    BY <2>1 DEF Code
  <2> QED
    BY <1>14, <2>1, <2>2, <2>3 DEF RegenerateRecovery, Finish, TypeOK
<1>15. ASSUME NEW f \in Flow, Fails(f)
      PROVE TypeOK'
  BY <1>15 DEF Fails, Finish, TypeOK
<1>16. CASE Lock
  BY <1>16 DEF Lock, TypeOK
<1>17. ASSUME NEW c \in Code, UnlockWithRecovery(c)
      PROVE TypeOK'
  BY <1>17 DEF UnlockWithRecovery, TypeOK, MetaRow
<1>18. ASSUME NEW s \in Slot, NEW v \in Value, PutSecret(s, v)
      PROVE TypeOK'
  BY <1>18 DEF PutSecret, RowIdFor, TypeOK, SecretRow
<1>19. ASSUME NEW s \in Slot, DeleteSecret(s)
      PROVE TypeOK'
  BY <1>19 DEF DeleteSecret, TypeOK
<1>20. CASE Crash
  BY <1>20 DEF Crash, TypeOK
<1>21. CASE UNCHANGED vars
  BY <1>21 DEF vars, TypeOK
<1> QED
  BY <1>1, <1>2, <1>3, <1>4, <1>5, <1>6, <1>7, <1>8, <1>9, <1>10, <1>11,
     <1>12, <1>13, <1>14, <1>15, <1>16, <1>17, <1>18, <1>19, <1>20, <1>21
  DEF Next, FlowNext

\* Every reachable state has the types of the database schema and of the
\* flows' local state, for any number of flows, slots and salts.
THEOREM TypeCorrect == Spec => []TypeOK
<1>1. Init => TypeOK
  BY InitType
<1>2. TypeOK /\ [Next]_vars => TypeOK'
  BY StepType
<1> QED
  BY <1>1, <1>2, PTL DEF Spec

----------------------------------------------------------------------------
(***************************************************************************)
(* The inductive invariant holds initially.                                *)
(***************************************************************************)
LEMMA InitIInv == Init => IInv
<1> SUFFICES ASSUME Init PROVE IInv
  OBVIOUS
<1> USE ConstantsAssumption
<1>1. TypeOK
  BY InitType
<1>2. MetaInv /\ RowInv
  BY DEF Init, MetaInv, RowInv, is_initialized, NoMeta, LegacyMeta, Salt
<1>3. KeychainInv
  BY DEF Init, KeychainInv, Salt
<1>4. FlowInv /\ TxInv
  BY DEF Init, FlowInv, FlowOK, TxInv, Idle
<1>5. SecretsOpenWithVerifier /\ MemoryKeyIsVerified
  BY DEF Init, SecretsOpenWithVerifier, MemoryKeyIsVerified, is_locked
<1>6. ProviderOpens
  BY KeyType DEF Init, ProviderOpens, is_initialized, NoMeta, LegacyMeta,
                 keychain_read, keychain_slot, Salt
<1>7. RecoveryOpens
  BY DEF Init, RecoveryOpens, is_initialized, NoMeta, LegacyMeta
<1> QED
  BY <1>1, <1>2, <1>3, <1>4, <1>5, <1>6, <1>7 DEF IInv

----------------------------------------------------------------------------
(***************************************************************************)
(* Frame lemmas: what a step that leaves some variables alone keeps.       *)
(***************************************************************************)

\* The part of IInv about the database, the Keychain and the key in memory.
StorageInv ==
  /\ MetaInv
  /\ RowInv
  /\ KeychainInv
  /\ SecretsOpenWithVerifier
  /\ MemoryKeyIsVerified
  /\ ProviderOpens
  /\ RecoveryOpens

LEMMA StorageFrame ==
  ASSUME StorageInv, UNCHANGED <<meta, secrets, keychain, passkeys, kek>>
  PROVE  StorageInv'
BY DEF StorageInv, MetaInv, RowInv, KeychainInv, SecretsOpenWithVerifier, Opens,
       MemoryKeyIsVerified, ProviderOpens, RecoveryOpens, is_initialized,
       is_locked, keychain_read, keychain_slot

\* A step after which nobody holds the mutex.
LEMMA NoTxFrame ==
  ASSUME \A g \in Flow : flow'[g].pc # "tx"
  PROVE  TxInv'
BY DEF TxInv

\* A step of flows other than the one inside the transaction.
LEMMA TxFrame ==
  ASSUME TxInv, UNCHANGED <<secrets, kek, tx>>,
         \A g \in Flow : flow'[g].pc = "tx" => flow'[g] = flow[g]
  PROVE  TxInv'
BY DEF TxInv, RowInTx, is_locked

\* Other flows keep their part of FlowInv when Keychain entries and passkeys
\* are only added.
LEMMA FlowFrame ==
  ASSUME FlowInv, KeychainInv, NEW f \in Flow,
         \A g \in Flow : g # f => flow'[g] = flow[g],
         \A s \in Salt : keychain'[s] \in {keychain[s], Kek(s, s)},
         passkeys \subseteq passkeys',
         FlowOK(f)'
  PROVE  FlowInv'
<1> SUFFICES ASSUME NEW g \in Flow, g # f PROVE FlowOK(g)'
  BY DEF FlowInv
<1>1. FlowOK(g) /\ flow'[g] = flow[g]
  BY DEF FlowInv
<1>2. ASSUME flow[g].salt \in Salt, KeyRetrievable(g) PROVE KeyRetrievable(g)'
  BY <1>1, <1>2 DEF KeyRetrievable
<1> QED
  BY <1>1, <1>2 DEF FlowOK

----------------------------------------------------------------------------
(***************************************************************************)
(* Every step preserves the inductive invariant.                           *)
(***************************************************************************)

\* Steps that only move a flow that is outside the transaction.
LEMMA WaitStep ==
  ASSUME IInv, NEW f \in Flow,
         UNCHANGED <<meta, secrets, keychain, passkeys, kek, tx>>,
         \A g \in Flow : g # f => flow'[g] = flow[g],
         flow'[f].pc # "tx", FlowOK(f)'
  PROVE  StorageInv' /\ TxInv' /\ FlowInv'
<1>1. StorageInv'
  BY StorageFrame DEF IInv, StorageInv
<1>2. TxInv'
  BY TxFrame DEF IInv
<1>3. FlowInv'
  BY FlowFrame DEF IInv
<1> QED
  BY <1>1, <1>2, <1>3

LEMMA StepIInv == IInv /\ [Next]_vars => IInv'
<1> SUFFICES ASSUME IInv, [Next]_vars
             PROVE  StorageInv' /\ TxInv' /\ FlowInv'
  BY StepType DEF IInv, StorageInv
<1> USE ConstantsAssumption
<1>t. TypeOK /\ flow \in [Flow -> FlowState] /\ TypeOK'
  BY StepType DEF IInv, TypeOK
<1>1. ASSUME NEW f \in Flow, NEW p \in Provider, SetupStart(f, p) \/ RebindStart(f, p)
      PROVE  StorageInv' /\ TxInv' /\ FlowInv'
  <2>1. DrawSalt(f, "setup", p) \/ DrawSalt(f, "rebind", p)
    BY <1>1 DEF SetupStart, RebindStart
  <2>2. \A g \in Flow : g # f => flow'[g] = flow[g]
    BY <2>1, <1>t DEF DrawSalt
  <2>3. flow'[f].pc # "tx" /\ FlowOK(f)'
    BY <2>1, <1>t DEF DrawSalt, FlowOK
  <2> QED
    BY <2>1, <2>2, <2>3, WaitStep DEF DrawSalt
<1>2. ASSUME NEW f \in Flow, UnlockStart(f)
      PROVE  StorageInv' /\ TxInv' /\ FlowInv'
  <2>1. \A g \in Flow : g # f => flow'[g] = flow[g]
    BY <1>2, <1>t DEF UnlockStart
  <2>2. flow'[f].pc # "tx" /\ FlowOK(f)'
    BY <1>2, <1>t DEF UnlockStart, FlowOK
  <2> QED
    BY <1>2, <2>1, <2>2, WaitStep DEF UnlockStart
<1>3. ASSUME NEW f \in Flow, RegenerateStart(f)
      PROVE  StorageInv' /\ TxInv' /\ FlowInv'
  <2>1. \A g \in Flow : g # f => flow'[g] = flow[g]
    BY <1>3, <1>t DEF RegenerateStart
  <2>2. flow'[f].pc # "tx" /\ FlowOK(f)'
    BY <1>3, <1>t DEF RegenerateStart, FlowOK, Idle
  <2> QED
    BY <1>3, <2>1, <2>2, WaitStep DEF RegenerateStart
<1>4. ASSUME NEW f \in Flow, KeychainWrite(f)
      PROVE  StorageInv' /\ TxInv' /\ FlowInv'
  <2> DEFINE s == flow[f].salt
  <2>1. s \in Salt /\ s \in 0..MaxSalt /\ s # 0
    BY <1>4 DEF KeychainWrite, At, IInv, FlowInv, FlowOK, Salt
  <2>2. keychain' = [keychain EXCEPT ![s] = Kek(s, s)]
    BY <1>4 DEF KeychainWrite, keychain_slot
  <2>3. /\ keychain'[0] = keychain[0]
        /\ keychain'[s] = Kek(s, s)
        /\ \A u \in Salt : keychain'[u] \in {keychain[u], Kek(u, u)}
    BY <2>1, <2>2, <1>t DEF TypeOK, Salt
  <2>4. \A g \in Flow : g # f => flow'[g] = flow[g]
    BY <1>4, <1>t DEF KeychainWrite
  <2>5. /\ flow'[f].pc = "commit" /\ flow'[f].key = Kek(s, s)
        /\ flow'[f].salt = s /\ flow'[f].provider = "touchid"
        /\ flow'[f].op = flow[f].op
    BY <1>4, <1>t DEF KeychainWrite, FlowState
  <2>6. FlowOK(f)'
    BY <2>1, <2>3, <2>5 DEF FlowOK, KeyRetrievable, Provider
  <2>7. FlowInv'
    BY <1>4, <2>3, <2>4, <2>6, FlowFrame DEF IInv, KeychainWrite
  <2>8. TxInv'
    BY <1>4, <2>4, <2>5, TxFrame DEF IInv, KeychainWrite
  <2>9. StorageInv'
    <3>1. KeychainInv'
      BY <2>3 DEF IInv, KeychainInv
    <3>2. ProviderOpens'
      <4> SUFFICES ASSUME is_initialized PROVE ProviderOpens'
        BY <1>4 DEF KeychainWrite, ProviderOpens, is_initialized
      <4>1. meta.salt \in Salt /\ meta.verifier = Kek(meta.salt, meta.salt)
        BY DEF IInv, MetaInv
      <4>2. keychain'[meta.salt] \in {keychain[meta.salt], Kek(meta.salt, meta.salt)}
        BY <4>1, <2>3
      <4>3. Kek(meta.salt, meta.salt) # NoKey
        BY <4>1, KeyType
      <4> QED
        BY <1>4, <4>1, <4>2, <4>3, <2>3
        DEF KeychainWrite, IInv, ProviderOpens, is_initialized, keychain_read,
            keychain_slot
    <3> QED
      BY <1>4, <3>1, <3>2
      DEF KeychainWrite, IInv, StorageInv, MetaInv, RowInv, is_initialized,
          is_locked, SecretsOpenWithVerifier, Opens, MemoryKeyIsVerified,
          RecoveryOpens
  <2> QED
    BY <2>7, <2>8, <2>9
<1>5. ASSUME NEW f \in Flow, PasskeyRegister(f)
      PROVE  StorageInv' /\ TxInv' /\ FlowInv'
  <2>1. flow[f].salt \in Salt
    BY <1>5 DEF PasskeyRegister, At, IInv, FlowInv, FlowOK
  <2>2. \A g \in Flow : g # f => flow'[g] = flow[g]
    BY <1>5, <1>t DEF PasskeyRegister
  <2>3. /\ flow'[f].pc = "commit"
        /\ flow'[f].key = Kek(flow[f].salt, flow[f].salt)
        /\ flow'[f].salt = flow[f].salt /\ flow'[f].provider = "passkey"
        /\ flow'[f].op = flow[f].op
    BY <1>5, <1>t DEF PasskeyRegister, FlowState
  <2>4. FlowOK(f)'
    BY <1>5, <2>1, <2>3 DEF PasskeyRegister, FlowOK, KeyRetrievable, Provider
  <2>5. FlowInv'
    BY <1>5, <2>2, <2>4, FlowFrame DEF IInv, PasskeyRegister
  <2>6. TxInv'
    BY <1>5, <2>2, <2>3, TxFrame DEF IInv, PasskeyRegister
  <2>7. StorageInv'
    BY <1>5 DEF PasskeyRegister, IInv, StorageInv, MetaInv, RowInv, KeychainInv,
                is_initialized, is_locked, SecretsOpenWithVerifier, Opens,
                MemoryKeyIsVerified, ProviderOpens, RecoveryOpens,
                keychain_read, keychain_slot
  <2> QED
    BY <2>5, <2>6, <2>7
<1>6. ASSUME NEW f \in Flow, KeychainRead(f) \/ PasskeyLogin(f)
      PROVE  StorageInv' /\ TxInv' /\ FlowInv'
  <2>1. \A g \in Flow : g # f => flow'[g] = flow[g]
    BY <1>6, <1>t DEF KeychainRead, PasskeyLogin
  <2>2. flow'[f].pc # "tx" /\ flow'[f].op = "unlock"
    BY <1>6, <1>t DEF KeychainRead, PasskeyLogin, At, FlowState
  <2>3. FlowOK(f)'
    BY <2>2 DEF FlowOK
  <2> QED
    BY <1>6, <2>1, <2>2, <2>3, WaitStep DEF KeychainRead, PasskeyLogin
<1>7. ASSUME NEW f \in Flow, Finish(f)
      PROVE  /\ \A g \in Flow : g # f => flow'[g] = flow[g]
             /\ flow'[f].pc # "tx" /\ FlowOK(f)'
             /\ MutexFree => \A g \in Flow : flow'[g].pc # "tx"
             /\ UNCHANGED <<keychain, passkeys>> => FlowInv'
  <2>1. \A g \in Flow : g # f => flow'[g] = flow[g]
    BY <1>7, <1>t DEF Finish
  <2>2. flow'[f].pc # "tx" /\ FlowOK(f)'
    BY <1>7, <1>t DEF Finish, Idle, FlowOK
  <2>3. UNCHANGED <<keychain, passkeys>> => FlowInv'
    BY <2>1, <2>2, FlowFrame DEF IInv
  <2> QED
    BY <2>1, <2>2, <2>3 DEF MutexFree
<1>8. ASSUME NEW f \in Flow, Initialize(f)
      PROVE  StorageInv' /\ TxInv' /\ FlowInv'
  <2>1. TxInv' /\ FlowInv'
    BY <1>8, <1>7, NoTxFrame DEF Initialize
  <2>2. flow[f].salt \in Salt /\ flow[f].provider \in Provider /\ KeyRetrievable(f)
    BY <1>8 DEF Initialize, At, IInv, FlowInv, FlowOK
  <2>3. /\ meta'.salt = flow[f].salt /\ meta'.provider = flow[f].provider
        /\ meta'.verifier = flow[f].key /\ meta'.recoveryKek = flow[f].key
        /\ kek' = flow[f].key
        /\ UNCHANGED <<secrets, keychain, passkeys>>
    BY <1>8 DEF Initialize, MetaFor
  <2>4. secrets = [s \in Slot |-> NoSecret]
    BY <1>8 DEF Initialize, IInv, MetaInv
  <2>5. MetaInv' /\ RowInv' /\ SecretsOpenWithVerifier'
    BY <2>2, <2>3, <2>4 DEF MetaInv, RowInv, SecretsOpenWithVerifier,
       KeyRetrievable, is_initialized, Provider
  <2>6. KeychainInv' /\ MemoryKeyIsVerified' /\ RecoveryOpens'
    BY <2>2, <2>3 DEF IInv, KeychainInv, MemoryKeyIsVerified, RecoveryOpens,
       is_initialized, is_locked, Provider
  <2>7. ProviderOpens'
    BY <2>2, <2>3, KeyType DEF ProviderOpens, KeyRetrievable, keychain_read,
       keychain_slot, is_initialized, Provider
  <2> QED
    BY <2>1, <2>5, <2>6, <2>7 DEF StorageInv
<1>9. ASSUME NEW f \in Flow, AlreadyInitialized(f)
      PROVE  StorageInv' /\ TxInv' /\ FlowInv'
  BY <1>9, <1>7, WaitStep DEF AlreadyInitialized
<1>10. ASSUME NEW f \in Flow, Unlock(f)
      PROVE  StorageInv' /\ TxInv' /\ FlowInv'
  <2>1. TxInv' /\ FlowInv'
    BY <1>10, <1>7, NoTxFrame DEF Unlock
  <2>2. MemoryKeyIsVerified'
    BY <1>10 DEF Unlock, Verified, IInv, MemoryKeyIsVerified, is_initialized, is_locked
  <2> QED
    BY <1>10, <2>1, <2>2
    DEF Unlock, IInv, StorageInv, MetaInv, RowInv, KeychainInv, is_initialized,
        SecretsOpenWithVerifier, Opens, ProviderOpens, RecoveryOpens,
        keychain_read, keychain_slot
<1>11. ASSUME NEW f \in Flow, RekeyBegin(f)
      PROVE  StorageInv' /\ TxInv' /\ FlowInv'
  <2>1. StorageInv'
    BY <1>11, StorageFrame DEF RekeyBegin, IInv, StorageInv
  <2>2. \A g \in Flow : g # f => flow'[g] = flow[g] /\ flow'[g].pc # "tx"
    BY <1>11, <1>t DEF RekeyBegin, MutexFree
  <2>3. /\ flow'[f].pc = "tx" /\ flow'[f].op = "rebind"
        /\ flow'[f].salt = flow[f].salt /\ flow'[f].key = flow[f].key
        /\ flow'[f].provider = flow[f].provider
    BY <1>11, <1>t DEF RekeyBegin, FlowState, At
  <2>4. FlowOK(f)'
    BY <1>11, <2>3 DEF RekeyBegin, At, IInv, FlowInv, FlowOK, KeyRetrievable
  <2>5. FlowInv'
    BY <1>11, <2>2, <2>4, FlowFrame DEF RekeyBegin, IInv
  <2>6. ~is_locked /\ kek = meta.verifier
    BY <1>11 DEF RekeyBegin, IInv, MemoryKeyIsVerified
  <2>7. ASSUME NEW s \in Slot PROVE RowInTx(f, s)'
    BY <1>11, <2>6 DEF RekeyBegin, RowInTx, IInv, SecretsOpenWithVerifier, Opens
  <2>8. TxInv'
    BY <1>11, <2>2, <2>3, <2>6, <2>7 DEF RekeyBegin, TxInv, is_locked
  <2> QED
    BY <2>1, <2>5, <2>8
<1>12. ASSUME NEW f \in Flow, NEW s \in Slot, RekeyRow(f, s)
      PROVE  StorageInv' /\ TxInv' /\ FlowInv'
  <2>1. StorageInv'
    BY <1>12, StorageFrame DEF RekeyRow, IInv, StorageInv
  <2>2. FlowInv'
    BY <1>12 DEF RekeyRow, IInv, FlowInv, FlowOK, KeyRetrievable
  <2>3. flow[f].pc = "tx" /\ \A u \in Slot : RowInTx(f, u)
    BY <1>12 DEF RekeyRow, At, IInv, TxInv
  <2>4. ASSUME NEW u \in Slot PROVE RowInTx(f, u)'
    <3>1. CASE u = s
      BY <1>12, <1>t, <2>3, <3>1 DEF RekeyRow, RowInTx, Opens, TypeOK, SecretRow
    <3>2. CASE u # s
      BY <1>12, <1>t, <2>3, <3>2 DEF RekeyRow, RowInTx, TypeOK
    <3> QED
      BY <3>1, <3>2
  <2>5. TxInv'
    BY <1>12, <2>3, <2>4 DEF RekeyRow, IInv, TxInv, is_locked
  <2> QED
    BY <2>1, <2>2, <2>5
<1>13. ASSUME NEW f \in Flow, RekeyCommit(f)
      PROVE  StorageInv' /\ TxInv' /\ FlowInv'
  <2>1. flow[f].pc = "tx" /\ flow[f].op = "rebind" /\ tx.todo = {}
    BY <1>13 DEF RekeyCommit, At
  <2>2. \A g \in Flow : flow'[g].pc # "tx"
    BY <1>13, <1>7, <2>1 DEF RekeyCommit, IInv, TxInv
  <2>3. TxInv' /\ FlowInv'
    BY <1>13, <1>7, <2>2, NoTxFrame DEF RekeyCommit
  <2>4. flow[f].salt \in Salt /\ flow[f].provider \in Provider /\ KeyRetrievable(f)
    BY <2>1 DEF IInv, FlowInv, FlowOK
  <2>5. /\ meta'.salt = flow[f].salt /\ meta'.provider = flow[f].provider
        /\ meta'.verifier = flow[f].key /\ meta'.recoveryKek = flow[f].key
        /\ kek' = flow[f].key /\ secrets' = tx.rows
        /\ UNCHANGED <<keychain, passkeys>>
    BY <1>13 DEF RekeyCommit, MetaFor
  <2>6. ASSUME NEW s \in Slot, secrets'[s] # NoSecret
        PROVE  /\ secrets'[s].id \in RowId
               /\ secrets'[s].aad = secrets'[s].id
               /\ secrets'[s].wrap = flow[f].key
    BY <2>1, <2>5, <2>6 DEF IInv, TxInv, RowInTx, RowInv
  <2>7. RowInv' /\ SecretsOpenWithVerifier'
    BY <2>5, <2>6 DEF RowInv, SecretsOpenWithVerifier, Opens
  <2>8. MetaInv' /\ KeychainInv' /\ MemoryKeyIsVerified' /\ RecoveryOpens'
    BY <2>4, <2>5 DEF IInv, MetaInv, KeychainInv, MemoryKeyIsVerified,
       RecoveryOpens, KeyRetrievable, is_initialized, is_locked, Provider
  <2>9. ProviderOpens'
    BY <2>4, <2>5, KeyType DEF ProviderOpens, KeyRetrievable, keychain_read,
       keychain_slot, is_initialized, Provider
  <2> QED
    BY <2>3, <2>7, <2>8, <2>9 DEF StorageInv
<1>14. ASSUME NEW f \in Flow, RegenerateRecovery(f)
      PROVE  StorageInv' /\ TxInv' /\ FlowInv'
  <2>1. TxInv' /\ FlowInv'
    BY <1>14, <1>7, NoTxFrame DEF RegenerateRecovery
  <2>2. /\ meta'.salt = meta.salt /\ meta'.provider = meta.provider
        /\ meta'.verifier = meta.verifier /\ meta'.recoveryKek = kek
        /\ UNCHANGED <<secrets, keychain, passkeys, kek>>
    BY <1>14, <1>t DEF RegenerateRecovery, TypeOK, MetaRow
  <2>3. kek = meta.verifier
    BY <1>14 DEF RegenerateRecovery, IInv, MemoryKeyIsVerified
  <2> QED
    BY <2>1, <2>2, <2>3
    DEF IInv, StorageInv, MetaInv, RowInv, KeychainInv, is_initialized, is_locked,
        SecretsOpenWithVerifier, Opens, MemoryKeyIsVerified, ProviderOpens,
        RecoveryOpens, keychain_read, keychain_slot
<1>15. ASSUME NEW f \in Flow, Fails(f)
      PROVE  StorageInv' /\ TxInv' /\ FlowInv'
  <2>1. StorageInv'
    BY <1>15, StorageFrame DEF Fails, IInv, StorageInv
  <2>2. FlowInv'
    BY <1>15, <1>7 DEF Fails
  <2>3. CASE flow[f].pc = "tx"
    <3>1. \A g \in Flow : flow'[g].pc # "tx"
      BY <1>15, <1>7, <2>3 DEF Fails, IInv, TxInv
    <3> QED
      BY <2>1, <2>2, <3>1, NoTxFrame
  <2>4. CASE flow[f].pc # "tx"
    <3>1. TxInv'
      BY <1>15, <1>7, <2>4, TxFrame DEF Fails, IInv
    <3> QED
      BY <2>1, <2>2, <3>1
  <2> QED
    BY <2>3, <2>4
<1>16. ASSUME Lock \/ \E c \in Code : UnlockWithRecovery(c)
       PROVE  StorageInv' /\ TxInv' /\ FlowInv'
  <2>1. /\ MutexFree /\ UNCHANGED <<meta, secrets, keychain, passkeys, tx, flow>>
        /\ kek' = NoKey \/ (is_initialized /\ kek' = meta.verifier)
    BY <1>16 DEF Lock, UnlockWithRecovery, Verified
  <2>2. TxInv' /\ FlowInv'
    BY <2>1, NoTxFrame DEF IInv, MutexFree, FlowInv, FlowOK, KeyRetrievable
  <2> QED
    BY <2>1, <2>2
    DEF IInv, StorageInv, MetaInv, RowInv, KeychainInv, is_initialized, is_locked,
        SecretsOpenWithVerifier, Opens, MemoryKeyIsVerified, ProviderOpens,
        RecoveryOpens, keychain_read, keychain_slot
<1>17. ASSUME NEW s \in Slot, NEW v \in Value, PutSecret(s, v)
       PROVE  StorageInv' /\ TxInv' /\ FlowInv'
  <2>1. MutexFree /\ UNCHANGED <<meta, keychain, passkeys, kek, tx, flow>>
    BY <1>17 DEF PutSecret
  <2>2. TxInv' /\ FlowInv'
    BY <2>1, NoTxFrame DEF IInv, MutexFree, FlowInv, FlowOK, KeyRetrievable
  <2>3. is_initialized /\ kek = meta.verifier
    BY <1>17 DEF PutSecret, IInv, MemoryKeyIsVerified
  <2>4. PICK id \in RowIdFor(s) :
          secrets' = [secrets EXCEPT ![s] =
            [id |-> IF secrets[s] # NoSecret THEN secrets[s].id ELSE id,
             wrap |-> kek, aad |-> id, val |-> v]]
    BY <1>17 DEF PutSecret
  <2>5. secrets[s] # NoSecret => id = secrets[s].id
    BY <2>4 DEF RowIdFor, IInv, RowInv
  <2>6. /\ secrets'[s].id = id /\ secrets'[s].aad = id /\ secrets'[s].wrap = kek
        /\ \A u \in Slot : u # s => secrets'[u] = secrets[u]
    BY <2>4, <2>5, <1>t DEF TypeOK
  <2>7. id \in RowId
    BY <2>4 DEF RowIdFor, IInv, RowInv
  <2>8. RowInv' /\ SecretsOpenWithVerifier'
    BY <2>1, <2>3, <2>6, <2>7 DEF IInv, RowInv, SecretsOpenWithVerifier, Opens
  <2> QED
    BY <2>1, <2>2, <2>3, <2>8
    DEF IInv, StorageInv, MetaInv, KeychainInv, is_initialized, is_locked,
        MemoryKeyIsVerified, ProviderOpens, RecoveryOpens, keychain_read,
        keychain_slot
<1>18. ASSUME NEW s \in Slot, DeleteSecret(s)
       PROVE  StorageInv' /\ TxInv' /\ FlowInv'
  <2>1. MutexFree /\ UNCHANGED <<meta, keychain, passkeys, kek, tx, flow>>
    BY <1>18 DEF DeleteSecret
  <2>2. TxInv' /\ FlowInv'
    BY <2>1, NoTxFrame DEF IInv, MutexFree, FlowInv, FlowOK, KeyRetrievable
  <2>3. \A u \in Slot : secrets'[u] \in {secrets[u], NoSecret}
    BY <1>18, <1>t DEF DeleteSecret, TypeOK
  <2>4. RowInv' /\ SecretsOpenWithVerifier'
    BY <2>1, <2>3 DEF IInv, RowInv, SecretsOpenWithVerifier, Opens
  <2>5. is_initialized
    BY <1>18 DEF DeleteSecret, IInv, MetaInv
  <2> QED
    BY <2>1, <2>2, <2>4, <2>5
    DEF IInv, StorageInv, MetaInv, KeychainInv, is_initialized, is_locked,
        MemoryKeyIsVerified, ProviderOpens, RecoveryOpens, keychain_read,
        keychain_slot
<1>19. CASE Crash
  <2>1. TxInv' /\ FlowInv'
    BY <1>19, NoTxFrame DEF Crash, Idle, FlowInv, FlowOK
  <2> QED
    BY <1>19, <2>1
    DEF Crash, IInv, StorageInv, MetaInv, RowInv, KeychainInv, is_initialized,
        is_locked, SecretsOpenWithVerifier, Opens, MemoryKeyIsVerified,
        ProviderOpens, RecoveryOpens, keychain_read, keychain_slot
<1>20. CASE UNCHANGED vars
  <2>1. StorageInv'
    BY <1>20, StorageFrame DEF vars, IInv, StorageInv
  <2>2. TxInv'
    BY <1>20, TxFrame DEF vars, IInv
  <2>3. FlowInv'
    BY <1>20 DEF vars, IInv, FlowInv, FlowOK, KeyRetrievable
  <2> QED
    BY <2>1, <2>2, <2>3
<1> QED
  BY <1>1, <1>2, <1>3, <1>4, <1>5, <1>6, <1>8, <1>9, <1>10, <1>11, <1>12,
     <1>13, <1>14, <1>15, <1>16, <1>17, <1>18, <1>19, <1>20
  DEF Next, FlowNext

----------------------------------------------------------------------------
(***************************************************************************)
(* The theorems.                                                           *)
(***************************************************************************)
LEMMA Inductive == Spec => []IInv
<1>1. Init => IInv
  BY InitIInv
<1>2. IInv /\ [Next]_vars => IInv'
  BY StepIInv
<1> QED
  BY <1>1, <1>2, PTL DEF Spec

\* Every stored secret opens with the verifier's key, through failed, crashed
\* and concurrent rekeys (vault.rs put_secret, rekey).
THEOREM SecretsStayOpenable == Spec => []SecretsOpenWithVerifier
<1>1. IInv => SecretsOpenWithVerifier
  BY DEF IInv
<1> QED
  BY <1>1, Inductive, PTL

\* The key in memory is the verifier's whatever was committed while the flow
\* that brought it was waiting for the user (unlock.rs unlock, vault.rs unlock).
THEOREM MemoryKeyVerified == Spec => []MemoryKeyIsVerified
<1>1. IInv => MemoryKeyIsVerified
  BY DEF IInv
<1> QED
  BY <1>1, Inductive, PTL

\* The recorded unlock provider and the recovery copy can always reproduce
\* the verifier's key: the user is never locked out (unlock.rs
\* keychain_slot, setup, rebind; vault.rs rekey, regenerate_recovery).
THEOREM NeverLockedOut == Spec => []OwnerCanUnlock
<1>1. IInv => OwnerCanUnlock
  BY DEF IInv, OwnerCanUnlock
<1> QED
  BY <1>1, Inductive, PTL

----------------------------------------------------------------------------
(***************************************************************************)
(* Vault implements VaultStore.                                            *)
(***************************************************************************)
\* Steps that leave rows, verifier, initialization and lock state alone.
LEMMA StoreStutter ==
  ASSUME is_initialized' = is_initialized, is_locked' = is_locked,
         \A s \in Slot : StoredValue(s)' = StoredValue(s)
  PROVE  UNCHANGED Store!storeVars
BY DEF Store!storeVars

LEMMA StoreFrame ==
  ASSUME UNCHANGED <<meta, secrets>>
  PROVE  /\ is_initialized' = is_initialized
         /\ \A s \in Slot : StoredValue(s)' = StoredValue(s)
BY DEF is_initialized, StoredValue, Opens

LEMMA StoreInit == Init => Store!Init
<1> SUFFICES ASSUME Init PROVE Store!Init
  OBVIOUS
<1>1. is_initialized \in BOOLEAN /\ is_locked
  BY DEF Init, is_initialized, is_locked
<1>2. \A s \in Slot : StoredValue(s) = NoValue
  BY DEF Init, StoredValue
<1> QED
  BY <1>1, <1>2 DEF Store!Init

LEMMA StoreStep == IInv /\ IInv' /\ [Next]_vars => [Store!Next]_(Store!storeVars)
<1> SUFFICES ASSUME IInv, IInv', [Next]_vars
             PROVE  Store!Next \/ UNCHANGED Store!storeVars
  OBVIOUS
<1>a. ASSUME UNCHANGED <<meta, secrets, kek>>
      PROVE  UNCHANGED Store!storeVars
  BY <1>a, StoreFrame, StoreStutter DEF is_locked
<1>b. ASSUME UNCHANGED <<meta, secrets>>, kek' = NoKey
      PROVE  Store!Next
  <2>1. is_locked'
    BY <1>b DEF is_locked
  <2>2. Store!Lock
    BY <1>b, <2>1, StoreFrame DEF Store!Lock
  <2> QED
    BY <2>2 DEF Store!Next
<1>c. ASSUME UNCHANGED <<meta, secrets>>, is_initialized, kek' = meta.verifier
      PROVE  Store!Next
  <2>1. ~is_locked'
    BY <1>c, KeyType DEF is_locked, IInv, MetaInv
  <2>2. Store!Unlock
    BY <1>c, <2>1, StoreFrame DEF Store!Unlock
  <2> QED
    BY <2>2 DEF Store!Next
<1>1. ASSUME NEW f \in Flow, Initialize(f)
      PROVE  Store!Next
  <2>1. ~is_initialized /\ is_initialized' /\ ~is_locked'
    <3>1. flow[f].salt \in Salt /\ flow[f].provider \in Provider /\ KeyRetrievable(f)
      BY <1>1 DEF Initialize, At, IInv, FlowInv, FlowOK
    <3> QED
      BY <1>1, <3>1, KeyType DEF Initialize, MetaFor, KeyRetrievable,
         is_initialized, is_locked, Provider
  <2>2. secrets = [s \in Slot |-> NoSecret] /\ secrets' = secrets
    BY <1>1, <2>1 DEF Initialize, IInv, MetaInv
  <2>3. \A s \in Slot : StoredValue(s) = NoValue /\ StoredValue(s)' = NoValue
    BY <2>2 DEF StoredValue
  <2>4. Store!Create
    BY <2>1, <2>3 DEF Store!Create
  <2> QED
    BY <2>4 DEF Store!Next
<1>2. ASSUME NEW f \in Flow, Unlock(f)
      PROVE  Store!Next \/ UNCHANGED Store!storeVars
  BY <1>2, <1>a, <1>c DEF Unlock, Verified
<1>3. ASSUME NEW f \in Flow, RekeyCommit(f)
      PROVE  UNCHANGED Store!storeVars
  <2>1. flow[f].pc = "tx" /\ tx.todo = {} /\ secrets' = tx.rows
    BY <1>3 DEF RekeyCommit, At
  <2>2. ~is_locked /\ is_initialized /\ \A s \in Slot : RowInTx(f, s)
    BY <2>1 DEF IInv, TxInv, MemoryKeyIsVerified
  <2>3. flow[f].salt \in Salt /\ flow[f].provider \in Provider /\ KeyRetrievable(f)
    BY <2>1 DEF IInv, FlowInv, FlowOK
  <2>4. is_initialized' /\ ~is_locked' /\ meta'.verifier = flow[f].key
    BY <1>3, <2>3, KeyType DEF RekeyCommit, MetaFor, KeyRetrievable,
       is_initialized, is_locked, Provider
  <2>5. ASSUME NEW s \in Slot PROVE StoredValue(s)' = StoredValue(s)
    <3>1. CASE secrets[s] = NoSecret
      BY <2>1, <2>2, <3>1 DEF RowInTx, StoredValue
    <3>2. CASE secrets[s] # NoSecret
      <4>1. secrets'[s] # NoSecret
        BY <2>1, <2>2, <3>2, ConstantsAssumption
        DEF RowInTx, NoSecret, IInv, RowInv
      <4>2. StoredValue(s)' = secrets'[s].val /\ secrets'[s].val = secrets[s].val
        BY <2>1, <2>2, <2>4, <3>2, <4>1 DEF RowInTx, StoredValue, Opens
      <4>3. StoredValue(s) = secrets[s].val
        BY <3>2 DEF StoredValue, IInv, SecretsOpenWithVerifier
      <4> QED
        BY <4>2, <4>3
    <3> QED
      BY <3>1, <3>2
  <2> QED
    <3>1. is_initialized' = is_initialized /\ is_locked' = is_locked
      BY <2>2, <2>4 DEF is_initialized, is_locked
    <3> QED
      BY <2>5, <3>1, StoreStutter
<1>4. ASSUME NEW f \in Flow, RegenerateRecovery(f)
      PROVE  UNCHANGED Store!storeVars
  <2>1. /\ meta'.verifier = meta.verifier /\ meta'.provider = meta.provider
        /\ UNCHANGED <<secrets, kek>>
    BY <1>4 DEF RegenerateRecovery, IInv, TypeOK, MetaRow
  <2>2. \A s \in Slot : StoredValue(s)' = StoredValue(s)
    BY <2>1 DEF StoredValue, Opens
  <2> QED
    BY <2>1, <2>2, StoreStutter DEF is_initialized, is_locked
<1>5. ASSUME NEW s \in Slot, NEW v \in Value, PutSecret(s, v)
      PROVE  Store!Next
  <2>1. ~is_locked /\ UNCHANGED <<meta, kek>>
    BY <1>5 DEF PutSecret
  <2>2. PICK id \in RowIdFor(s) :
          secrets' = [secrets EXCEPT ![s] =
            [id |-> IF secrets[s] # NoSecret THEN secrets[s].id ELSE id,
             wrap |-> kek, aad |-> id, val |-> v]]
    BY <1>5 DEF PutSecret
  <2>3. /\ secrets'[s].val = v
        /\ \A u \in Slot : u # s => secrets'[u] = secrets[u]
    <3>1. secrets \in [Slot -> SecretRow]
      BY DEF IInv, TypeOK
    <3> QED
      BY <2>2, <3>1
  <2>4. secrets'[s] # NoSecret
    BY <2>3, ConstantsAssumption DEF NoSecret
  <2>5. StoredValue(s)' = v
    BY <2>3, <2>4 DEF StoredValue, IInv, SecretsOpenWithVerifier
  <2>6. \A u \in Slot : u # s => StoredValue(u)' = StoredValue(u)
    BY <2>1, <2>3 DEF StoredValue, Opens
  <2>7. Store!Put(s, v)
    BY <2>1, <2>5, <2>6 DEF Store!Put, is_initialized, is_locked
  <2> QED
    BY <2>7 DEF Store!Next
<1>6. ASSUME NEW s \in Slot, DeleteSecret(s)
      PROVE  Store!Next
  <2>1. /\ UNCHANGED <<meta, kek>> /\ secrets'[s] = NoSecret
        /\ \A u \in Slot : u # s => secrets'[u] = secrets[u]
    BY <1>6 DEF DeleteSecret, IInv, TypeOK
  <2>2. StoredValue(s)' = NoValue
    BY <2>1 DEF StoredValue
  <2>3. \A u \in Slot : u # s => StoredValue(u)' = StoredValue(u)
    BY <2>1 DEF StoredValue, Opens
  <2>4. Store!Delete(s)
    BY <2>1, <2>2, <2>3 DEF Store!Delete, is_initialized, is_locked
  <2> QED
    BY <2>4 DEF Store!Next
<1>7. CASE Lock \/ Crash
  BY <1>7, <1>b DEF Lock, Crash
<1>8. ASSUME NEW c \in Code, UnlockWithRecovery(c)
      PROVE  Store!Next
  BY <1>8, <1>c DEF UnlockWithRecovery, Verified
<1>9. ASSUME NEW f \in Flow,
             \/ \E p \in Provider : SetupStart(f, p) \/ RebindStart(f, p)
             \/ UnlockStart(f) \/ RegenerateStart(f) \/ KeychainWrite(f)
             \/ PasskeyRegister(f) \/ KeychainRead(f) \/ PasskeyLogin(f)
             \/ AlreadyInitialized(f) \/ RekeyBegin(f)
             \/ (\E s \in Slot : RekeyRow(f, s)) \/ Fails(f)
      PROVE  UNCHANGED Store!storeVars
  BY <1>9, <1>a
  DEF SetupStart, RebindStart, DrawSalt, UnlockStart, RegenerateStart,
      KeychainWrite, PasskeyRegister, KeychainRead, PasskeyLogin,
      AlreadyInitialized, RekeyBegin, RekeyRow, Fails
<1>10. CASE UNCHANGED vars
  BY <1>10, <1>a DEF vars
<1> QED
  BY <1>1, <1>2, <1>3, <1>4, <1>5, <1>6, <1>7, <1>8, <1>9, <1>10
  DEF Next, FlowNext

\* The vault keeps its promise to its callers: every step, of any flow and at
\* any crash or error, is a step of the key-free store or changes nothing
\* that the store shows.
THEOREM VaultImplementsStore == Spec => ImplementsStore
<1>1. Init => Store!Init
  BY StoreInit
<1>2. IInv /\ IInv' /\ [Next]_vars => [Store!Next]_(Store!storeVars)
  BY StoreStep
<1> QED
  BY <1>1, <1>2, Inductive, PTL DEF Spec, ImplementsStore, Store!Spec

============================================================================
