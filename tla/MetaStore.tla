------------------------------ MODULE MetaStore ------------------------------
(***************************************************************************)
(* The MetaStore trait as its callers understand it: one record per share, *)
(* and every method that changes one is a single atomic step.  A record    *)
(* goes by itself only when its share is past its expiry.                  *)
(***************************************************************************)
EXTENDS Integers

CONSTANTS None, Id, Key, Budgets

VARIABLES
  now,
  record,  \* record[id]: auth, downloads, max_downloads and expires_at of id, or None
  granted  \* granted[id]: slots handed out by claim_download

storeVars == <<now, record, granted>>

StoreInit ==
  /\ now = 0
  /\ record = [id \in Id |-> None]
  /\ granted = [id \in Id |-> 0]

put(id) ==
  /\ record[id] = None /\ granted[id] = 0
  /\ record'[id] \in [auth: Key, downloads: {0}, max_downloads: Budgets, expires_at: Nat]
  /\ record' = [record EXCEPT ![id] = record'[id]]
  /\ UNCHANGED <<now, granted>>

Increment(id) ==
  /\ record[id] # None
  /\ record[id].downloads < record[id].max_downloads
  /\ record' = [record EXCEPT ![id].downloads = @ + 1]

(* The increment, and the answer that grants the slot unless it gets lost. *)
claim_download(id) ==
  /\ Increment(id)
  /\ \/ granted' = [granted EXCEPT ![id] = @ + 1]
     \/ UNCHANGED granted
  /\ UNCHANGED now

set_auth(id) ==
  /\ record[id] # None
  /\ \E k \in Key : record' = [record EXCEPT ![id].auth = k]
  /\ UNCHANGED <<now, granted>>

delete(id) ==
  /\ record' = [record EXCEPT ![id] = None]
  /\ UNCHANGED <<now, granted>>

(* Time passes, and with it go any records that are past their expiry. *)
expire ==
  /\ now' = now + 1
  /\ record' = [id \in Id |-> IF record'[id] = None THEN None ELSE record[id]]
  /\ \A id \in Id : record[id] # None /\ record'[id] = None => record[id].expires_at < now'
  /\ UNCHANGED granted

StoreNext ==
  \/ \E id \in Id : put(id) \/ claim_download(id) \/ set_auth(id) \/ delete(id)
  \/ expire

Spec == StoreInit /\ [][StoreNext]_storeVars
=============================================================================
