----------------------------- MODULE VaultStore -----------------------------
(***************************************************************************)
(* What the vault promises its callers, with no keys in sight: a store     *)
(* that is created once, is locked or unlocked, and loses or changes a     *)
(* value only when it is told to.  Vault implements it.                    *)
(***************************************************************************)
CONSTANTS Slot, Value, NoValue

VARIABLES initialized, unlocked, store

storeVars == <<initialized, unlocked, store>>

Init ==
  /\ initialized \in BOOLEAN
  /\ unlocked = FALSE
  /\ store = [s \in Slot |-> NoValue]

Create ==
  /\ ~initialized
  /\ initialized' = TRUE
  /\ unlocked' = TRUE
  /\ UNCHANGED store

Unlock ==
  /\ initialized
  /\ unlocked' = TRUE
  /\ UNCHANGED <<initialized, store>>

Lock ==
  /\ unlocked' = FALSE
  /\ UNCHANGED <<initialized, store>>

Put(s, v) ==
  /\ unlocked
  /\ store' = [store EXCEPT ![s] = v]
  /\ UNCHANGED <<initialized, unlocked>>

\* Deleting needs no key.
Delete(s) ==
  /\ store' = [store EXCEPT ![s] = NoValue]
  /\ UNCHANGED <<initialized, unlocked>>

Next ==
  \/ Create
  \/ Unlock
  \/ Lock
  \/ \E s \in Slot, v \in Value : Put(s, v)
  \/ \E s \in Slot : Delete(s)

Spec == Init /\ [][Next]_storeVars

=============================================================================
