------------------------------ MODULE RedisMeta ------------------------------
(***************************************************************************)
(* The Redis metadata store (meta/redis.rs), one Redis command per step.   *)
(* A method that needs several commands is not atomic: other callers run   *)
(* in between, and a caller that dies leaves the rest undone.              *)
(*                                                                         *)
(* A share is a hash with three fields and a TTL, and a member of the      *)
(* expiry index.  Callers are the handlers and reapers of all replicas;    *)
(* from what they do around the store the model keeps what the store's     *)
(* commands race with: the blob an upload stores first and a destroy       *)
(* deletes first.                                                          *)
(*                                                                         *)
(* An operator under "Seeded fault" is a variant of the operator after it, *)
(* with a bug the properties must catch; no action uses it.                *)
(***************************************************************************)
EXTENDS Integers

CONSTANTS
  None,
  Id,
  Caller,
  Key,
  Budgets,    \* download budgets, already clamped
  Lifetimes,  \* lifetimes, already clamped
  Grace,      \* how much longer than the share the TTL lasts
  MaxNow,     \* bound: the clock stops here once nothing is left to expire
  Passwords,  \* whether owners change passwords
  Drops       \* whether a caller may die, or a command fail, between two commands

(* What the rec field holds, as JSON. *)
Rec == [auth: Key, downloads: Nat, max_downloads: Nat, created_at: Nat, expires_at: Nat]
(* What of a share the MetaStore trait's callers see. *)
Seen == [auth: Key, downloads: Nat, max_downloads: Nat, expires_at: Nat]

ASSUME RedisAssumption ==
  /\ None \notin Id \cup Key \cup Nat \cup Rec \cup Seen
  /\ Budgets \subseteq Nat \ {0} /\ Lifetimes \subseteq Nat \ {0}
  /\ Grace \in Nat \ {0} /\ MaxNow \in Nat
  /\ Passwords \in BOOLEAN /\ Drops \in BOOLEAN

VARIABLES
  now,
  hash,      \* hash[id]: the fields and the TTL of senders:f:{id}
  zset,      \* zset[id]: the score of id in senders:exp, or None
  blobs,     \* the ids ciphertext is stored under
  at,        \* at[c]: the command caller c sends next
  on,        \* on[c]: the share it is about
  new,       \* new[c]: the auth hash caller c is about to store
  seen,      \* seen[c]: the record caller c puts, or has read
  used,      \* the ids drawn so far
  promised,  \* history: the budget the uploader was told; 0 before that
  granted,   \* history: slots handed out by the claim script
  deleted    \* history: the published shares a destroy has deleted

vars == <<now, hash, zset, blobs, at, on, new, seen, used, promised, granted, deleted>>
callers == <<at, on, new, seen>>
history == <<promised, granted, deleted>>

Maybe(S) == S \cup {None}
Hash == [rec: Maybe(Rec), downloads: Maybe(Nat), max_downloads: Maybe(Nat), ttl: Maybe(Nat)]
NoHash == [rec |-> None, downloads |-> None, max_downloads |-> None, ttl |-> None]

Command == {"idle", "hset", "expire", "zadd", "undo", "eval", "hgetRec", "hgetDownloads",
            "hsetRec", "unblob", "del", "zrem"}

(* The type of every variable. *)
TypeOK ==
  /\ now \in Nat
  /\ hash \in [Id -> Hash]
  /\ zset \in [Id -> Maybe(Nat)]
  /\ blobs \subseteq Id
  /\ at \in [Caller -> Command]
  /\ on \in [Caller -> Maybe(Id)]
  /\ new \in [Caller -> Maybe(Key)]
  /\ seen \in [Caller -> Maybe(Rec)]
  /\ used \subseteq Id
  /\ promised \in [Id -> Nat] /\ granted \in [Id -> Nat]
  /\ deleted \subseteq Id

Init ==
  /\ now = 0
  /\ hash = [id \in Id |-> NoHash]
  /\ zset = [id \in Id |-> None]
  /\ blobs = {}
  /\ at = [c \in Caller |-> "idle"]
  /\ on = [c \in Caller |-> None]
  /\ new = [c \in Caller |-> None]
  /\ seen = [c \in Caller |-> None]
  /\ used = {}
  /\ promised = [id \in Id |-> 0]
  /\ granted = [id \in Id |-> 0]
  /\ deleted = {}

Call(c, command, id, k) ==
  /\ at[c] = "idle"
  /\ at' = [at EXCEPT ![c] = command]
  /\ on' = [on EXCEPT ![c] = id]
  /\ new' = [new EXCEPT ![c] = k]
  /\ UNCHANGED seen

Then(c, command) == at' = [at EXCEPT ![c] = command] /\ UNCHANGED <<on, new, seen>>

Return(c) ==
  /\ at' = [at EXCEPT ![c] = "idle"]
  /\ on' = [on EXCEPT ![c] = None]
  /\ new' = [new EXCEPT ![c] = None]
  /\ seen' = [seen EXCEPT ![c] = None]

Known(id) == promised[id] > 0

(* The handlers' own look at the record before they call the store. *)
load(id) == Known(id) /\ hash[id].rec # None /\ hash[id].rec.expires_at > now

-----------------------------------------------------------------------------
(* put: HSET, EXPIRE, ZADD.  The upload handler has stored the blob before. *)

NewRec(k, b, l) ==
  [auth |-> k, downloads |-> 0, max_downloads |-> b, created_at |-> now, expires_at |-> now + l]

PutCalled(c) ==
  /\ at[c] = "idle"
  /\ \E id \in Id \ used, k \in Key, b \in Budgets, l \in Lifetimes :
       /\ blobs' = blobs \cup {id}
       /\ used' = used \cup {id}
       /\ on' = [on EXCEPT ![c] = id]
       /\ seen' = [seen EXCEPT ![c] = NewRec(k, b, l)]
  /\ at' = [at EXCEPT ![c] = "hset"]
  /\ UNCHANGED <<new, now, hash, zset, history>>

FreshHash(r) ==
  [rec |-> r, downloads |-> r.downloads, max_downloads |-> r.max_downloads, ttl |-> None]

PutHset(c) ==
  /\ at[c] = "hset"
  /\ hash' = [hash EXCEPT ![on[c]] = FreshHash(seen[c])]
  /\ Then(c, "expire")
  /\ UNCHANGED <<now, zset, blobs, used, history>>

(* The TTL starts when the command arrives, the lifetime when put began. *)
TtlAfter(r) == now + (r.expires_at - r.created_at) + Grace

PutExpire(c) ==
  /\ at[c] = "expire"
  /\ hash' = [hash EXCEPT ![on[c]].ttl = TtlAfter(seen[c])]
  /\ Then(c, "zadd")
  /\ UNCHANGED <<now, zset, blobs, used, history>>

(* The last command; the upload is answered. *)
PutZadd(c) ==
  /\ at[c] = "zadd"
  /\ zset' = [zset EXCEPT ![on[c]] = seen[c].expires_at]
  /\ promised' = [promised EXCEPT ![on[c]] = seen[c].max_downloads]
  /\ Return(c)
  /\ UNCHANGED <<now, hash, blobs, used, granted, deleted>>

(* A command of put fails, or only its answer is lost (for all but the last *)
(* that is the next command's failure): the upload handler drops the blob. *)
PutFails(c) ==
  /\ Drops
  /\ at[c] \in {"hset", "expire", "zadd"}
  /\ \/ UNCHANGED zset
     \/ at[c] = "zadd" /\ zset' = [zset EXCEPT ![on[c]] = seen[c].expires_at]
  /\ Then(c, "undo")
  /\ UNCHANGED <<now, hash, blobs, used, history>>

PutUndone(c) ==
  /\ at[c] = "undo"
  /\ blobs' = blobs \ {on[c]}
  /\ Return(c)
  /\ UNCHANGED <<now, hash, zset, used, history>>

-----------------------------------------------------------------------------
(* claim_download: one script. *)

ClaimCalled(c) ==
  /\ \E id \in Id : load(id) /\ Call(c, "eval", id, None)
  /\ UNCHANGED <<now, hash, zset, blobs, used, history>>

or0(field) == IF field = None THEN 0 ELSE field

(* Seeded fault: a record without a budget has no limit. *)
GrantsUnlimited(h) ==
  h # NoHash /\ (h.max_downloads = None \/ or0(h.downloads) < h.max_downloads)

Grants(h) == h # NoHash /\ or0(h.downloads) < or0(h.max_downloads)

ClaimScript(c) ==
  /\ at[c] = "eval"
  /\ IF Grants(hash[on[c]])
     THEN /\ hash' = [hash EXCEPT ![on[c]].downloads = or0(@) + 1]
          /\ granted' = [granted EXCEPT ![on[c]] = @ + 1]
     ELSE UNCHANGED <<hash, granted>>
  /\ Return(c)
  /\ UNCHANGED <<now, zset, blobs, used, promised, deleted>>

-----------------------------------------------------------------------------
(* set_auth: load (HGET rec, HGET downloads), then HSET rec. *)

SetAuthCalled(c) ==
  /\ Passwords
  /\ \E id \in Id, k \in Key : load(id) /\ Call(c, "hgetRec", id, k)
  /\ UNCHANGED <<now, hash, zset, blobs, used, history>>

LoadRec(c) ==
  /\ at[c] = "hgetRec"
  /\ IF hash[on[c]].rec = None
     THEN Return(c)
     ELSE /\ at' = [at EXCEPT ![c] = "hgetDownloads"]
          /\ seen' = [seen EXCEPT ![c] = hash[on[c]].rec]
          /\ UNCHANGED <<on, new>>
  /\ UNCHANGED <<now, hash, zset, blobs, used, history>>

unwrap_or(field, default) == IF field = None THEN default ELSE field

LoadDownloads(c) ==
  /\ at[c] = "hgetDownloads"
  /\ seen' = [seen EXCEPT ![c].downloads = unwrap_or(hash[on[c]].downloads, @)]
  /\ at' = [at EXCEPT ![c] = "hsetRec"]
  /\ UNCHANGED <<on, new, now, hash, zset, blobs, used, history>>

(* Seeded fault: only the new auth is written. *)
SetAuthHsetBare(c) ==
  /\ at[c] = "hsetRec"
  /\ hash' = [hash EXCEPT ![on[c]].rec = [auth |-> new[c]]]
  /\ Return(c)
  /\ UNCHANGED <<now, zset, blobs, used, history>>

(* Seeded fault: every field is written back as it was read. *)
SetAuthHsetAll(c) ==
  /\ at[c] = "hsetRec"
  /\ hash' = [hash EXCEPT ![on[c]] =
                 [FreshHash([seen[c] EXCEPT !.auth = new[c]]) EXCEPT !.ttl = hash[on[c]].ttl]]
  /\ Return(c)
  /\ UNCHANGED <<now, zset, blobs, used, history>>

(* HSET of one field: it makes the hash if there is none, without a TTL. *)
SetAuthHset(c) ==
  /\ at[c] = "hsetRec"
  /\ hash' = [hash EXCEPT ![on[c]].rec = [seen[c] EXCEPT !.auth = new[c]]]
  /\ Return(c)
  /\ UNCHANGED <<now, zset, blobs, used, history>>

-----------------------------------------------------------------------------
(* AppState::destroy over delete: the blob, then DEL, then ZREM. *)

DestroyCalled(c) ==
  /\ \E id \in Id : load(id) /\ Call(c, "unblob", id, None)
  /\ UNCHANGED <<now, hash, zset, blobs, used, history>>

(* Seeded fault: the records say what is due. *)
DueByRecord == {id \in Id : hash[id].rec # None /\ hash[id].rec.expires_at <= now}

(* expired: the index alone says what is due. *)
Due == {id \in Id : zset[id] # None /\ zset[id] <= now}

ReapCalled(c) ==
  /\ \E id \in Due : Call(c, "unblob", id, None)
  /\ UNCHANGED <<now, hash, zset, blobs, used, history>>

(* Seeded fault: the blob store's error is ignored. *)
DeleteBlobIgnored(c) ==
  /\ at[c] = "unblob"
  /\ Then(c, "del")
  /\ UNCHANGED <<now, hash, zset, blobs, used, history>>

DeleteBlob(c) ==
  /\ at[c] = "unblob"
  /\ blobs' = blobs \ {on[c]}
  /\ Then(c, "del")
  /\ UNCHANGED <<now, hash, zset, used, history>>

DeleteDel(c) ==
  /\ at[c] = "del"
  /\ hash' = [hash EXCEPT ![on[c]] = NoHash]
  /\ deleted' = deleted \cup {on[c]}
  /\ Then(c, "zrem")
  /\ UNCHANGED <<now, zset, blobs, used, promised, granted>>

DeleteZrem(c) ==
  /\ at[c] = "zrem"
  /\ zset' = [zset EXCEPT ![on[c]] = None]
  /\ Return(c)
  /\ UNCHANGED <<now, hash, blobs, used, history>>

-----------------------------------------------------------------------------
(* The caller dies, or its command fails and the method returns the error. *)
Drop(c) ==
  /\ Drops
  /\ at[c] # "idle"
  /\ Return(c)
  /\ UNCHANGED <<now, hash, zset, blobs, used, history>>

AfterTtl(h, t) == IF h.ttl # None /\ h.ttl <= t THEN NoHash ELSE h

(* Time passes; a hash whose TTL is reached is no longer there.            *)
(* Bound: up to MaxNow and as long as something has yet to expire.         *)
Tick ==
  /\ \/ now < MaxNow
     \/ \E id \in Id : \/ zset[id] # None /\ zset[id] > now
                       \/ hash[id].ttl # None
  /\ now' = now + 1
  /\ hash' = [id \in Id |-> AfterTtl(hash[id], now + 1)]
  /\ UNCHANGED <<zset, blobs, callers, used, history>>

Put(c) == PutCalled(c) \/ PutHset(c) \/ PutExpire(c) \/ PutZadd(c) \/ PutFails(c) \/ PutUndone(c)
ClaimDownload(c) == ClaimCalled(c) \/ ClaimScript(c)
SetAuth(c) == SetAuthCalled(c) \/ LoadRec(c) \/ LoadDownloads(c) \/ SetAuthHset(c)
Destroy(c) == DestroyCalled(c) \/ ReapCalled(c) \/ DeleteBlob(c) \/ DeleteDel(c) \/ DeleteZrem(c)

Next ==
  \/ \E c \in Caller : Put(c) \/ ClaimDownload(c) \/ SetAuth(c) \/ Destroy(c) \/ Drop(c)
  \/ Tick

Spec == Init /\ [][Next]_vars

-----------------------------------------------------------------------------
(* Safety. *)

(* Whatever the methods' commands interleave with, the script never grants *)
(* more slots than the uploader was told (redis.rs:35 "keeps the check-and-*)
(* increment atomic across replicas").                                     *)
BudgetKept == \A id \in Id : granted[id] <= promised[id]

(* Once a destroy has deleted a share no slot of it is granted again, even *)
(* when a password change writes its record field back afterwards.         *)
NoGrantAfterDelete ==
  [][\A id \in deleted : granted'[id] = granted[id]]_vars

(* Ciphertext whose link was handed out stays in the expiry index, through *)
(* dropped calls and a TTL that takes the hash first, so that a reaper     *)
(* finds it (redis.rs:107).                                                *)
IndexKept == \A id \in blobs : Known(id) => zset[id] # None

(* The share as claim_download sees it: without its max_downloads field a   *)
(* hash grants nothing.                                                    *)
record ==
  [id \in Id |->
     IF hash[id].max_downloads = None THEN None
     ELSE [auth |-> hash[id].rec.auth, downloads |-> hash[id].downloads,
           max_downloads |-> hash[id].max_downloads, expires_at |-> hash[id].rec.expires_at]]

Store == INSTANCE MetaStore

(* To whoever claims downloads, every command is a whole method of the     *)
(* MetaStore trait or nothing: the commands a put, a password change or a  *)
(* delete is made of never show in between, and the TTL takes no record    *)
(* before its share has expired.                                           *)
KeepsTrait == Store!Spec

(* A share that was deleted has no record (tests/api.rs:342 "a revoked     *)
(* file must be gone").                                                    *)
DeletedIsGone == \A id \in deleted : hash[id].rec = None

-----------------------------------------------------------------------------
(* Liveness. *)

(* A command that was sent is answered or fails, reaping goes on, and no    *)
(* command of a destroy fails forever.                                     *)
RedisFairness ==
  /\ WF_vars(Tick)
  /\ \A c \in Caller :
       /\ WF_vars(at[c] # "idle" /\ (Put(c) \/ ClaimDownload(c) \/ SetAuth(c) \/ Destroy(c)))
       /\ SF_vars(ReapCalled(c))
       /\ SF_vars(DeleteBlob(c)) /\ SF_vars(DeleteDel(c)) /\ SF_vars(DeleteZrem(c))

FairSpec == Spec /\ RedisFairness

(* Every published share eventually leaves the index and the blob store,   *)
(* even when its hash was dropped by the TTL long before a reaper came.    *)
EventuallyCollected ==
  \A id \in Id : Known(id) ~> (id \notin blobs /\ zset[id] = None)
=============================================================================
