------------------------------- MODULE Vault -------------------------------
(***************************************************************************)
(* The key hierarchy of the PassValet vault and the flows that change it.  *)
(*                                                                         *)
(* One key-encryption key (KEK) is verified by `vault_meta.verifier` and   *)
(* wraps the data key of every row of `secrets`.  The KEK itself is found  *)
(* again through the unlock provider (a Keychain entry named after the     *)
(* database's salt, or the PRF output of a passkey on that salt) or        *)
(* through the recovery key, which wraps a second copy of it.              *)
(*                                                                         *)
(* Sources: crates/passvalet-core/src/{vault,crypto,recovery,db}.rs and    *)
(* apps/desktop/src-tauri/src/{unlock,commands}.rs.                        *)
(*                                                                         *)
(* The commands setup / unlock / rebind / regenerate are async: they wait  *)
(* for the user (Touch ID, passkey sheet) without holding the vault mutex, *)
(* so several of them interleave.  A call that holds the mutex is one      *)
(* step, except rekey, whose SQLite transaction is modelled row by row so  *)
(* that an error or a crash can fall inside it.                            *)
(***************************************************************************)
EXTENDS Integers

CONSTANTS
  Flow,       \* concurrent invocations of the async vault commands
  Slot,       \* (service, key_type) pairs
  Value,      \* secret values
  RowId,      \* uuids of rows of `secrets`
  NoValue,    \* no value
  NoRow,      \* no uuid
  MaxSalt,    \* bound: salts generated
  MaxCode     \* bound: recovery keys generated

ASSUME ConstantsAssumption ==
  /\ NoValue \notin Value
  /\ NoRow \notin RowId
  /\ MaxSalt \in Nat \ {0}
  /\ MaxCode \in Nat \ {0}

VARIABLES
  meta,       \* the row of vault_meta (database)
  secrets,    \* the rows of secrets (database)
  keychain,   \* Keychain entries, by slot; slot 0 is the legacy entry
  passkeys,   \* passkeys registered with the authenticator
  kek,        \* Vault.kek: the key held in memory while unlocked
  tx,         \* the open SQLite transaction of rekey
  flow,       \* the state of each async command
  nextSalt,   \* Vault::new_salt never repeats
  nextCode,   \* neither do recovery secrets
  shown       \* recovery keys that reached the user

vars == <<meta, secrets, keychain, passkeys, kek, tx, flow,
          nextSalt, nextCode, shown>>

----------------------------------------------------------------------------
(***************************************************************************)
(* Keys.  A flow that creates a key draws one salt, so the salt names the  *)
(* key: Kek(s, s) is the random key stored under salt s, or the PRF output *)
(* of the passkey registered with salt s on that salt.  Kek(c, s) with     *)
(* c # s is what another passkey c of the same domain answers for s: login *)
(* passes no credential id, so the user may pick any of them.              *)
(***************************************************************************)
Salt == 1..MaxSalt
NoSalt == 0
Kek(c, s) == <<c, s>>
NoKey == Kek(0, 0)
Key == (0..MaxSalt) \X (0..MaxSalt)

Code == 1..MaxCode
NoCode == 0

Provider == {"touchid", "passkey"}

\* vault_meta; recovery is the recovery key, recoveryKek the KEK it wraps.
MetaRow == [provider : Provider \cup {"none"}, salt : 0..MaxSalt,
            verifier : Key, recovery : 0..MaxCode, recoveryKek : Key]

NoMeta == [provider |-> "none", salt |-> NoSalt, verifier |-> NoKey,
           recovery |-> NoCode, recoveryKek |-> NoKey]

\* A row of secrets: the data key is sealed under `wrap` with the row id as
\* associated data (`aad`), and the data key and id protect the value.
SecretRow == [id : RowId \cup {NoRow}, wrap : Key,
              aad : RowId \cup {NoRow}, val : Value \cup {NoValue}]

NoSecret == [id |-> NoRow, wrap |-> NoKey, aad |-> NoRow, val |-> NoValue]

NoTx == [rows |-> [s \in Slot |-> NoSecret], todo |-> {}]

FlowState == [op : {"none", "setup", "unlock", "rebind", "regenerate"},
              pc : {"idle", "presence", "commit", "tx"},
              provider : Provider \cup {"none"},
              salt : 0..MaxSalt, key : Key]

Idle == [op |-> "none", pc |-> "idle", provider |-> "none",
         salt |-> NoSalt, key |-> NoKey]

is_initialized == meta.provider # "none"
is_locked == kek = NoKey

\* crypto::open of a row's wrapped data key, then of its value.
Opens(row, key) == row.wrap = key /\ row.aad = row.id

\* The std::sync::Mutex around the vault: rekey holds it for its transaction.
\* (It is the app's own: one process of the app is assumed.)
MutexFree == \A f \in Flow : flow[f].pc # "tx"

At(f, op, pc) == flow[f].op = op /\ flow[f].pc = pc

Finish(f) == flow' = [flow EXCEPT ![f] = Idle]

----------------------------------------------------------------------------
(***************************************************************************)
(* Initial states: a first launch, a first launch on a machine whose       *)
(* Keychain still has the fixed entry of an older vault, and a vault that  *)
(* was created by a version that used that fixed entry.                    *)
(***************************************************************************)
LegacyMeta == [provider |-> "touchid", salt |-> 1, verifier |-> Kek(1, 1),
               recovery |-> 1, recoveryKek |-> Kek(1, 1)]

Init ==
  /\ \/ meta = NoMeta /\ nextSalt = 1 /\ nextCode = 1 /\ shown = {}
        /\ keychain = [s \in 0..MaxSalt |-> NoKey]
     \/ meta \in {NoMeta, LegacyMeta} /\ nextSalt = 2 /\ nextCode = 2
        /\ shown = {1}
        /\ keychain = [s \in 0..MaxSalt |-> IF s = 0 THEN Kek(1, 1) ELSE NoKey]
  /\ secrets = [s \in Slot |-> NoSecret]
  /\ passkeys = {}
  /\ kek = NoKey
  /\ tx = NoTx
  /\ flow = [f \in Flow |-> Idle]

----------------------------------------------------------------------------
(***************************************************************************)
(* Starting a command.                                                     *)
(***************************************************************************)

\* setup and rebind draw the salt first, then wait for the user.
DrawSalt(f, op, p) ==
  /\ nextSalt \in Salt
  /\ nextSalt' = nextSalt + 1
  /\ flow' = [flow EXCEPT ![f] = [op |-> op, pc |-> "presence", provider |-> p,
                                  salt |-> nextSalt, key |-> NoKey]]
  /\ UNCHANGED <<meta, secrets, keychain, passkeys, kek, tx, nextCode, shown>>

SetupStart(f, p) ==
  /\ flow[f] = Idle
  /\ MutexFree
  /\ ~is_initialized
  /\ DrawSalt(f, "setup", p)

RebindStart(f, p) ==
  /\ flow[f] = Idle
  /\ DrawSalt(f, "rebind", p)

\* unlock copies provider and salt under the mutex and then lets go of it.
UnlockStart(f) ==
  /\ flow[f] = Idle
  /\ MutexFree
  /\ is_initialized
  /\ flow' = [flow EXCEPT ![f] = [op |-> "unlock", pc |-> "presence",
                                  provider |-> meta.provider,
                                  salt |-> meta.salt, key |-> NoKey]]
  /\ UNCHANGED <<meta, secrets, keychain, passkeys, kek, tx,
                 nextSalt, nextCode, shown>>

RegenerateStart(f) ==
  /\ flow[f] = Idle
  /\ flow' = [flow EXCEPT ![f] = [Idle EXCEPT !.op = "regenerate",
                                              !.pc = "presence"]]
  /\ UNCHANGED <<meta, secrets, keychain, passkeys, kek, tx,
                 nextSalt, nextCode, shown>>

----------------------------------------------------------------------------
(***************************************************************************)
(* The user answers.  The mutex is not held.                               *)
(***************************************************************************)
\* Mutant: one fixed Keychain entry for every database generation.
keychain_slot_fixed(s) == 0

keychain_slot(s) == s

keychain_read(s) ==
  IF keychain[keychain_slot(s)] # NoKey THEN keychain[keychain_slot(s)]
                                        ELSE keychain[0]

\* verify_presence, SymKey::random, keychain_write: the key is in the
\* Keychain before the database knows of it.
KeychainWrite(f) ==
  /\ At(f, "setup", "presence") \/ At(f, "rebind", "presence")
  /\ flow[f].provider = "touchid"
  /\ LET s == flow[f].salt IN
       /\ keychain' = [keychain EXCEPT ![keychain_slot(s)] = Kek(s, s)]
       /\ flow' = [flow EXCEPT ![f].pc = "commit", ![f].key = Kek(s, s)]
  /\ UNCHANGED <<meta, secrets, passkeys, kek, tx, nextSalt, nextCode, shown>>

\* tauri_plugin_macos_passkey::register with a PRF output, derive_kek.
PasskeyRegister(f) ==
  /\ At(f, "setup", "presence") \/ At(f, "rebind", "presence")
  /\ flow[f].provider = "passkey"
  /\ LET s == flow[f].salt IN
       /\ passkeys' = passkeys \cup {s}
       /\ flow' = [flow EXCEPT ![f].pc = "commit", ![f].key = Kek(s, s)]
  /\ UNCHANGED <<meta, secrets, keychain, kek, tx, nextSalt, nextCode, shown>>

KeychainRead(f) ==
  /\ At(f, "unlock", "presence")
  /\ flow[f].provider = "touchid"
  /\ keychain_read(flow[f].salt) # NoKey
  /\ flow' = [flow EXCEPT ![f].pc = "commit",
                          ![f].key = keychain_read(flow[f].salt)]
  /\ UNCHANGED <<meta, secrets, keychain, passkeys, kek, tx,
                 nextSalt, nextCode, shown>>

PasskeyLogin(f) ==
  /\ At(f, "unlock", "presence")
  /\ flow[f].provider = "passkey"
  /\ \E c \in passkeys :
       flow' = [flow EXCEPT ![f].pc = "commit",
                            ![f].key = Kek(c, flow[f].salt)]
  /\ UNCHANGED <<meta, secrets, keychain, passkeys, kek, tx,
                 nextSalt, nextCode, shown>>

----------------------------------------------------------------------------
(***************************************************************************)
(* The command takes the mutex and changes the vault.                      *)
(***************************************************************************)

\* make_recovery: a fresh code wraps the given KEK.  The text is returned
\* once; it may not reach the user (an error after the write, a closed
\* window), which is the choice of `delivered`.
MakeRecovery(delivered) ==
  /\ nextCode \in Code
  /\ nextCode' = nextCode + 1
  /\ shown' = IF delivered THEN shown \cup {nextCode} ELSE shown

MetaFor(f) == [provider |-> flow[f].provider, salt |-> flow[f].salt,
               verifier |-> flow[f].key, recovery |-> nextCode,
               recoveryKek |-> flow[f].key]

Initialize(f) ==
  /\ At(f, "setup", "commit")
  /\ MutexFree
  /\ ~is_initialized
  /\ \E delivered \in BOOLEAN : MakeRecovery(delivered)
  /\ meta' = MetaFor(f)
  /\ kek' = flow[f].key
  /\ Finish(f)
  /\ UNCHANGED <<secrets, keychain, passkeys, tx, nextSalt>>

\* Vault::initialize on a vault another flow created meanwhile.
AlreadyInitialized(f) ==
  /\ At(f, "setup", "commit")
  /\ MutexFree
  /\ is_initialized
  /\ Finish(f)
  /\ UNCHANGED <<meta, secrets, keychain, passkeys, kek, tx,
                 nextSalt, nextCode, shown>>

\* Mutant: the verifier is not consulted.
Verified_always(key) == TRUE

\* Vault::unlock checks the key against the verifier as it is now.
Verified(key) == key = meta.verifier

Unlock(f) ==
  /\ At(f, "unlock", "commit")
  /\ MutexFree
  /\ is_initialized
  /\ kek' = IF Verified(flow[f].key) THEN flow[f].key ELSE kek
  /\ Finish(f)
  /\ UNCHANGED <<meta, secrets, keychain, passkeys, tx,
                 nextSalt, nextCode, shown>>

\* rekey, first part: the old key is the one in memory; the transaction
\* starts from the committed rows.
RekeyBegin(f) ==
  /\ At(f, "rebind", "commit")
  /\ MutexFree
  /\ ~is_locked
  /\ tx' = [rows |-> secrets, todo |-> {s \in Slot : secrets[s] # NoSecret}]
  /\ flow' = [flow EXCEPT ![f].pc = "tx"]
  /\ UNCHANGED <<meta, secrets, keychain, passkeys, kek,
                 nextSalt, nextCode, shown>>

\* Mutant: the loop drops the row instead of rewrapping it.
RekeyRow_drops(f, s) ==
  /\ At(f, "rebind", "tx")
  /\ s \in tx.todo
  /\ tx' = [rows |-> [tx.rows EXCEPT ![s] = NoSecret], todo |-> tx.todo \ {s}]
  /\ UNCHANGED <<meta, secrets, keychain, passkeys, kek, flow,
                 nextSalt, nextCode, shown>>

\* One row: open with the old key (an error ends the call, see Fails), seal
\* with the new one under the row id.
RekeyRow(f, s) ==
  /\ At(f, "rebind", "tx")
  /\ s \in tx.todo
  /\ Opens(tx.rows[s], kek)
  /\ tx' = [rows |-> [tx.rows EXCEPT ![s].wrap = flow[f].key,
                                     ![s].aad = tx.rows[s].id],
            todo |-> tx.todo \ {s}]
  /\ UNCHANGED <<meta, secrets, keychain, passkeys, kek, flow,
                 nextSalt, nextCode, shown>>

\* Verifier, recovery copy and meta in the same transaction, then the commit
\* and only then the key in memory.
RekeyCommit(f) ==
  /\ At(f, "rebind", "tx")
  /\ tx.todo = {}
  /\ \E delivered \in BOOLEAN : MakeRecovery(delivered)
  /\ meta' = MetaFor(f)
  /\ secrets' = tx.rows
  /\ kek' = flow[f].key
  /\ tx' = NoTx
  /\ Finish(f)
  /\ UNCHANGED <<keychain, passkeys, nextSalt>>

RegenerateRecovery(f) ==
  /\ At(f, "regenerate", "presence")
  /\ MutexFree
  /\ ~is_locked
  /\ \E delivered \in BOOLEAN : MakeRecovery(delivered)
  /\ meta' = [meta EXCEPT !.recovery = nextCode, !.recoveryKek = kek]
  /\ Finish(f)
  /\ UNCHANGED <<secrets, keychain, passkeys, kek, tx, nextSalt>>

\* Any error return: presence refused or cancelled, no PRF output, Keychain
\* error or no entry, Locked, a SQLite or crypto error.  A transaction that
\* was open is dropped, which rolls it back.
Fails(f) ==
  /\ flow[f] # Idle
  /\ Finish(f)
  /\ tx' = IF flow[f].pc = "tx" THEN NoTx ELSE tx
  /\ UNCHANGED <<meta, secrets, keychain, passkeys, kek,
                 nextSalt, nextCode, shown>>

----------------------------------------------------------------------------
(***************************************************************************)
(* Synchronous commands, each under the mutex.                             *)
(***************************************************************************)
Lock ==
  /\ MutexFree
  /\ ~is_locked
  /\ kek' = NoKey
  /\ UNCHANGED <<meta, secrets, keychain, passkeys, tx, flow,
                 nextSalt, nextCode, shown>>

\* The user types a recovery key; it opens the stored copy or not, and what
\* comes out still has to pass the verifier.
UnlockWithRecovery(c) ==
  /\ MutexFree
  /\ is_initialized
  /\ c \in shown
  /\ c = meta.recovery
  /\ Verified(meta.recoveryKek)
  /\ kek' = meta.recoveryKek
  /\ UNCHANGED <<meta, secrets, keychain, passkeys, tx, flow,
                 nextSalt, nextCode, shown>>

\* Mutant: a new uuid for every put, while the row keeps its old one.
RowIdFor_fresh(s) == {r \in RowId : \A t \in Slot : secrets[t].id # r}

\* A row keeps its id when its value is replaced: ON CONFLICT leaves the id
\* column alone.
RowIdFor(s) ==
  IF secrets[s] # NoSecret THEN {secrets[s].id}
  ELSE {r \in RowId : \A t \in Slot : secrets[t].id # r}

PutSecret(s, v) ==
  /\ MutexFree
  /\ ~is_locked
  /\ \E id \in RowIdFor(s) :
       secrets' = [secrets EXCEPT ![s] =
         [id |-> IF secrets[s] # NoSecret THEN secrets[s].id ELSE id,
          wrap |-> kek, aad |-> id, val |-> v]]
  /\ UNCHANGED <<meta, keychain, passkeys, kek, tx, flow,
                 nextSalt, nextCode, shown>>

DeleteSecret(s) ==
  /\ MutexFree
  /\ secrets[s] # NoSecret
  /\ secrets' = [secrets EXCEPT ![s] = NoSecret]
  /\ UNCHANGED <<meta, keychain, passkeys, kek, tx, flow,
                 nextSalt, nextCode, shown>>

\* The process dies and is started again: Vault::open keeps no key, SQLite
\* rolls an open transaction back.
Crash ==
  /\ kek # NoKey \/ \E f \in Flow : flow[f] # Idle
  /\ kek' = NoKey
  /\ tx' = NoTx
  /\ flow' = [f \in Flow |-> Idle]
  /\ UNCHANGED <<meta, secrets, keychain, passkeys, nextSalt, nextCode, shown>>

----------------------------------------------------------------------------
FlowNext(f) ==
  \/ \E p \in Provider : SetupStart(f, p) \/ RebindStart(f, p)
  \/ UnlockStart(f)
  \/ RegenerateStart(f)
  \/ KeychainWrite(f)
  \/ PasskeyRegister(f)
  \/ KeychainRead(f)
  \/ PasskeyLogin(f)
  \/ Initialize(f)
  \/ AlreadyInitialized(f)
  \/ Unlock(f)
  \/ RekeyBegin(f)
  \/ \E s \in Slot : RekeyRow(f, s)
  \/ RekeyCommit(f)
  \/ RegenerateRecovery(f)
  \/ Fails(f)

Next ==
  \/ \E f \in Flow : FlowNext(f)
  \/ Lock
  \/ \E c \in Code : UnlockWithRecovery(c)
  \/ \E s \in Slot, v \in Value : PutSecret(s, v)
  \/ \E s \in Slot : DeleteSecret(s)
  \/ Crash

Spec == Init /\ [][Next]_vars

----------------------------------------------------------------------------
\* Types of the database rows, the Keychain, the key in memory and the flows.
TypeOK ==
  /\ meta \in MetaRow
  /\ secrets \in [Slot -> SecretRow]
  /\ keychain \in [0..MaxSalt -> Key]
  /\ passkeys \in SUBSET (0..MaxSalt)
  /\ kek \in Key
  /\ tx \in [rows : [Slot -> SecretRow], todo : SUBSET Slot]
  /\ flow \in [Flow -> FlowState]
  /\ nextSalt \in 1..(MaxSalt + 1)
  /\ nextCode \in 1..(MaxCode + 1)
  /\ shown \in SUBSET Code

\* Every stored secret can be opened with the key the verifier accepts, so
\* whoever unlocks the vault can read all of it: vault.rs put_secret and the
\* transaction of rekey, through errors and crashes inside the rewrap loop.
SecretsOpenWithVerifier ==
  \A s \in Slot : secrets[s] # NoSecret => Opens(secrets[s], meta.verifier)

\* The key in memory is the verifier's, whatever flow put it there and
\* whatever rebind committed while that flow waited for the user
\* (unlock.rs unlock reads the salt before the wait, vault.rs unlock checks).
MemoryKeyIsVerified == ~is_locked => is_initialized /\ kek = meta.verifier

\* The unlock provider recorded in the database can always produce the
\* verifier's key: "Never overwrite a key before SQLite commits"
\* (unlock.rs keychain_slot), with rebinds that fail, crash after
\* keychain_write, or overtake one another.
ProviderOpens ==
  is_initialized =>
    \/ meta.provider = "touchid" /\ keychain_read(meta.salt) = meta.verifier
    \/ meta.provider = "passkey" /\ \E c \in passkeys : Kek(c, meta.salt) = meta.verifier

\* The recovery copy in the database wraps the key the verifier accepts, so
\* the recovery key survives every rekey and is never left wrapping a
\* replaced KEK (vault.rs rekey, regenerate_recovery).
RecoveryOpens == is_initialized => meta.recoveryKek = meta.verifier

\* The state is well typed, and the user is never locked out: both ways in, the
\* recorded provider and the recovery key, lead to the key the verifier accepts
\* (unlock.rs setup, rebind; vault.rs rekey, regenerate_recovery).
OwnerCanUnlock == TypeOK /\ ProviderOpens /\ RecoveryOpens

(***************************************************************************)
(* What the vault promises, see VaultStore: values survive everything but  *)
(* put_secret and delete_secret.  A value counts as stored when the key    *)
(* the verifier accepts opens it.                                          *)
(***************************************************************************)
StoredValue(s) ==
  IF secrets[s] # NoSecret /\ Opens(secrets[s], meta.verifier)
  THEN secrets[s].val ELSE NoValue

Store == INSTANCE VaultStore WITH
           initialized <- is_initialized,
           unlocked <- ~is_locked,
           store <- [s \in Slot |-> StoredValue(s)]

\* The vault implements the abstract store: rekey, regenerate_recovery, failed
\* and crashed flows are invisible, a value changes only by put_secret under
\* an unlocked vault or by delete_secret (vault.rs).
ImplementsStore == Store!Spec

============================================================================
