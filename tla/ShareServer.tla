----------------------------- MODULE ShareServer -----------------------------
(***************************************************************************)
(* The share server: its HTTP handlers, the task that destroys a spent     *)
(* share, and the reapers, over one metadata store and one blob store.     *)
(*                                                                         *)
(* A handler is a sequence of store calls with an await at each; every     *)
(* call is one action here, and between two calls of one actor any other   *)
(* actor may run.  What an actor holds between two calls is its step (at), *)
(* the share it works on (on) and the key it presented or will store (key).*)
(* Requests that are refused before they change anything take no step.     *)
(*                                                                         *)
(* The metadata store is taken at the grain of the MetaStore trait: each   *)
(* method is one atomic action, as in memory.rs.  RedisMeta.tla opens that *)
(* grain for redis.rs.                                                     *)
(* What holds here with Durable metadata therefore holds of a store whose  *)
(* methods are atomic, and that keeps the record until it is deleted.      *)
(*                                                                         *)
(* An operator under "Seeded fault" is a variant of the operator after it, *)
(* with a bug the properties must catch; no action uses it.                *)
(***************************************************************************)
EXTENDS Limits, FiniteSets

CONSTANTS
  Id,            \* share ids
  Req,           \* request slots: a request and the task it leaves behind
  Reaper,        \* one per replica of the server
  Key,           \* download keys (and with them the stored auth hashes)
  DownloadAsks,  \* values of the budget header, None when it is not sent
  ExpiryAsks,    \* values of the lifetime header, None when it is not sent
  MaxNow,        \* bound: the clock stops here once every record has expired
  BATCH,         \* ids a sweep takes on
  Durable,       \* TRUE: metadata outlives a replica; FALSE: it is in its memory
  Faults,        \* what may go wrong: a subset of AllFaults
  Stuck          \* shares whose ciphertext the blob store never manages to delete

Actor == Req \cup Reaper

AllFaults == {"meta", "blob", "hangup", "crash"}

FileRecord ==
  [auth: Key, downloads: Nat, max_downloads: Nat, expires_at: Nat]

ASSUME ServerAssumption ==
  /\ Req \cap Reaper = {}
  /\ None \notin Id \cup Key \cup FileRecord
  /\ MaxNow \in Nat /\ BATCH \in Nat \ {0}
  /\ Durable \in BOOLEAN
  /\ Faults \subseteq AllFaults
  /\ Stuck \subseteq Id
  /\ DownloadAsks \cup ExpiryAsks \subseteq Nat \cup {None}

VARIABLES
  now,       \* the wall clock every replica reads
  files,     \* files[id]: the FileRecord of id, or None
  blobs,     \* the ids ciphertext is stored under
  at,        \* at[a]: the store call actor a makes next
  on,        \* on[a]: the share actor a works on, or None
  key,       \* key[r]: the key request r presented, or is about to store
  todo,      \* todo[p]: what is left of the batch reaper p is working through
  used,      \* the ids drawn so far
  promised,  \* history: the budget the uploader was told; 0 before that
  grants,    \* history: slots handed to downloaders
  revoked    \* history: the shares whose owner asked for deletion

vars == <<now, files, blobs, at, on, key, todo, used, promised, grants, revoked>>
actors == <<at, on, key, todo>>
history == <<promised, grants, revoked>>

Handling == {"put", "record", "undo", "claim", "open", "openLast",
             "setAuth", "delBlob", "delMeta"}
Final == {"openLast", "lastBody", "burnBlob", "burnMeta"}
Step == {"idle"} \cup Handling \cup Final

(* The type of every variable. *)
TypeOK ==
  /\ now \in Nat
  /\ files \in [Id -> FileRecord \cup {None}]
  /\ blobs \subseteq Id
  /\ at \in [Actor -> Step]
  /\ on \in [Actor -> Id \cup {None}]
  /\ key \in [Req -> Key \cup {None}]
  /\ todo \in [Reaper -> SUBSET Id]
  /\ used \subseteq Id
  /\ promised \in [Id -> Nat]
  /\ grants \in [Id -> Nat]
  /\ revoked \subseteq Id

Init ==
  /\ now = 0
  /\ files = [id \in Id |-> None]
  /\ blobs = {}
  /\ at = [a \in Actor |-> "idle"]
  /\ on = [a \in Actor |-> None]
  /\ key = [r \in Req |-> None]
  /\ todo = [p \in Reaper |-> {}]
  /\ used = {}
  /\ promised = [id \in Id |-> 0]
  /\ grants = [id \in Id |-> 0]
  /\ revoked = {}

-----------------------------------------------------------------------------
(* Actors. *)

Enter(r, step, id, k) ==
  /\ at[r] = "idle"
  /\ at' = [at EXCEPT ![r] = step]
  /\ on' = [on EXCEPT ![r] = id]
  /\ key' = [key EXCEPT ![r] = k]
  /\ UNCHANGED todo

Go(a, step) == at' = [at EXCEPT ![a] = step] /\ UNCHANGED <<on, key, todo>>

Done(a) ==
  /\ at' = [at EXCEPT ![a] = "idle"]
  /\ on' = [on EXCEPT ![a] = None]
  /\ key' = [r \in Req |-> IF r = a THEN None ELSE key[r]]
  /\ UNCHANGED todo

(* A share is known once the upload response has named it. *)
Known(id) == promised[id] > 0

(* fn load: a record, unless it is missing or its time is up. *)
load(id) == files[id] # None /\ files[id].expires_at > now

check_download_auth(id, k) == files[id].auth = k

-----------------------------------------------------------------------------
(* POST /api/files *)

UploadStart(r) ==
  /\ \E id \in Id \ used : Enter(r, "put", id, None) /\ used' = used \cup {id}
  /\ UNCHANGED <<now, files, blobs, history>>

UploadStored(r) ==
  /\ at[r] = "put"
  /\ blobs' = blobs \cup {on[r]}
  /\ Go(r, "record")
  /\ UNCHANGED <<now, files, used, history>>

(* The body is too large or the store reports an error; a store that only  *)
(* lost its answer has stored the object all the same.                     *)
UploadRefused(r) ==
  /\ at[r] = "put"
  /\ \/ UNCHANGED blobs
     \/ "blob" \in Faults /\ blobs' = blobs \cup {on[r]}
  /\ Done(r)
  /\ UNCHANGED <<now, files, used, history>>

NewRecord(k, max, lifetime) ==
  [auth |-> k, downloads |-> 0, max_downloads |-> max, expires_at |-> now + lifetime]

UploadRecord(r) ==
  /\ at[r] = "record"
  /\ \E k \in Key, d \in DownloadAsks, e \in ExpiryAsks :
       /\ files' = [files EXCEPT ![on[r]] =
                      NewRecord(k, clamp_downloads(d), clamp_expiry(e))]
       /\ promised' = [promised EXCEPT ![on[r]] = clamp_downloads(d)]
  /\ Done(r)
  /\ UNCHANGED <<now, blobs, used, grants, revoked>>

(* meta.put fails; a store that only lost its answer holds the record. *)
UploadRecordFails(r) ==
  /\ at[r] = "record"
  /\ "meta" \in Faults
  /\ \/ UNCHANGED files
     \/ \E k \in Key, d \in DownloadAsks, e \in ExpiryAsks :
          files' = [files EXCEPT ![on[r]] =
                      NewRecord(k, clamp_downloads(d), clamp_expiry(e))]
  /\ Go(r, "undo")
  /\ UNCHANGED <<now, blobs, used, history>>

CanDelete(id) == id \notin Stuck

DeleteMayFail(id) == "blob" \in Faults \/ id \in Stuck

(* The handler drops the blob and ignores whether that worked. *)
UploadUndo(r) ==
  /\ at[r] = "undo"
  /\ \/ CanDelete(on[r]) /\ blobs' = blobs \ {on[r]}
     \/ DeleteMayFail(on[r]) /\ UNCHANGED blobs
  /\ Done(r)
  /\ UNCHANGED <<now, files, used, history>>

-----------------------------------------------------------------------------
(* GET /api/files/{id}/blob *)

DownloadStart(r) ==
  /\ \E id \in Id, k \in Key :
       /\ Known(id) /\ load(id) /\ check_download_auth(id, k)
       /\ Enter(r, "claim", id, k)
  /\ UNCHANGED <<now, files, blobs, used, history>>

(* Seeded fault: one download too many. *)
ClaimableOnceMore(id) == files[id] # None /\ files[id].downloads <= files[id].max_downloads

Claimable(id) == files[id] # None /\ files[id].downloads < files[id].max_downloads

Claimed(id) == [files EXCEPT ![id].downloads = @ + 1]

(* Seeded fault: the last slot recognised one download early. *)
LastSlotEarly(id) == files[id].downloads + 2 >= files[id].max_downloads

(* Seeded fault: the last slot recognised by the count before the claim. *)
LastSlotBefore(id) == files[id].downloads = files[id].max_downloads

(* The claim takes the last slot. *)
LastSlot(id) == files[id].downloads + 1 = files[id].max_downloads

ClaimGranted(r) ==
  /\ at[r] = "claim"
  /\ Claimable(on[r])
  /\ files' = Claimed(on[r])
  /\ grants' = [grants EXCEPT ![on[r]] = @ + 1]
  /\ Go(r, IF LastSlot(on[r]) THEN "openLast" ELSE "open")
  /\ UNCHANGED <<now, blobs, used, promised, revoked>>

ClaimRefused(r) ==
  /\ at[r] = "claim"
  /\ ~ Claimable(on[r])
  /\ Done(r)
  /\ UNCHANGED <<now, files, blobs, used, history>>

(* The call fails; a store that only lost its answer has taken the slot. *)
ClaimFails(r) ==
  /\ at[r] = "claim"
  /\ "meta" \in Faults
  /\ \/ UNCHANGED files
     \/ Claimable(on[r]) /\ files' = Claimed(on[r])
  /\ Done(r)
  /\ UNCHANGED <<now, blobs, used, history>>

(* Seeded fault: every response carries the guard. *)
OpenGuarded(r) ==
  /\ on[r] \in blobs
  /\ at[r] \in {"open", "openLast"} /\ Go(r, "lastBody")
  /\ UNCHANGED <<now, files, blobs, used, history>>

(* Only the last slot's response carries the guard that destroys the share; *)
(* any other response needs nothing more from the server's state.           *)
Open(r) ==
  /\ on[r] \in blobs
  /\ \/ at[r] = "open" /\ Done(r)
     \/ at[r] = "openLast" /\ Go(r, "lastBody")
  /\ UNCHANGED <<now, files, blobs, used, history>>

(* 404 or 500: no guard has been made yet, so nothing is destroyed. *)
OpenFails(r) ==
  /\ at[r] \in {"open", "openLast"}
  /\ on[r] \notin blobs \/ "blob" \in Faults
  /\ Done(r)
  /\ UNCHANGED <<now, files, blobs, used, history>>

(* Seeded fault: the guard is dropped without its task. *)
BodyDroppedQuietly(r) ==
  /\ at[r] = "lastBody"
  /\ Done(r)
  /\ UNCHANGED <<now, files, blobs, used, history>>

(* The body ends or the client hangs up; the guard spawns the destroy task. *)
BodyDropped(r) ==
  /\ at[r] = "lastBody"
  /\ Go(r, "burnBlob")
  /\ UNCHANGED <<now, files, blobs, used, history>>

-----------------------------------------------------------------------------
(* DELETE /api/files/{id}, PUT /api/files/{id}/password *)

OwnerDelete(r) ==
  /\ \E id \in Id :
       /\ Known(id) /\ load(id)
       /\ Enter(r, "delBlob", id, None)
       /\ revoked' = revoked \cup {id}
  /\ UNCHANGED <<now, files, blobs, used, promised, grants>>

SetPassword(r) ==
  /\ \E id \in Id, k \in Key : Known(id) /\ load(id) /\ Enter(r, "setAuth", id, k)
  /\ UNCHANGED <<now, files, blobs, used, history>>

(* Seeded fault: a password change makes the record it does not find. *)
WithAuthUpsert(id, k) ==
  IF files[id] = None THEN [files EXCEPT ![id] = [auth |-> k]] ELSE [files EXCEPT ![id].auth = k]

WithAuth(id, k) ==
  IF files[id] = None THEN files ELSE [files EXCEPT ![id].auth = k]

SetAuth(r) ==
  /\ at[r] = "setAuth"
  /\ files' = WithAuth(on[r], key[r])
  /\ Done(r)
  /\ UNCHANGED <<now, blobs, used, history>>

SetAuthFails(r) ==
  /\ at[r] = "setAuth"
  /\ "meta" \in Faults
  /\ Done(r)
  /\ UNCHANGED <<now, files, blobs, used, history>>

-----------------------------------------------------------------------------
(* AppState::destroy: blob first, then metadata, each `?` ends the call.   *)
(* Run by the DELETE handler and the reaper (del...) and by the task a     *)
(* spent share's response body leaves behind (burn...).                    *)

DestroyBlob(a) ==
  /\ at[a] \in {"delBlob", "burnBlob"}
  /\ CanDelete(on[a])
  /\ blobs' = blobs \ {on[a]}
  /\ Go(a, IF at[a] = "delBlob" THEN "delMeta" ELSE "burnMeta")
  /\ UNCHANGED <<now, files, used, history>>

(* Seeded fault: the error is ignored and the record deleted all the same. *)
DestroyBlobFailsGoesOn(a) ==
  /\ at[a] \in {"delBlob", "burnBlob"}
  /\ DeleteMayFail(on[a])
  /\ \/ UNCHANGED blobs
     \/ CanDelete(on[a]) /\ blobs' = blobs \ {on[a]}
  /\ Go(a, IF at[a] = "delBlob" THEN "delMeta" ELSE "burnMeta")
  /\ UNCHANGED <<now, files, used, history>>

DestroyBlobFails(a) ==
  /\ at[a] \in {"delBlob", "burnBlob"}
  /\ DeleteMayFail(on[a])
  /\ \/ UNCHANGED blobs
     \/ CanDelete(on[a]) /\ blobs' = blobs \ {on[a]}
  /\ Done(a)
  /\ UNCHANGED <<now, files, used, history>>

Forgotten(id) == [files EXCEPT ![id] = None]

DestroyMeta(a) ==
  /\ at[a] \in {"delMeta", "burnMeta"}
  /\ files' = Forgotten(on[a])
  /\ Done(a)
  /\ UNCHANGED <<now, blobs, used, history>>

DestroyMetaFails(a) ==
  /\ at[a] \in {"delMeta", "burnMeta"}
  /\ "meta" \in Faults
  /\ Done(a)
  /\ UNCHANGED <<now, files, blobs, used, history>>

-----------------------------------------------------------------------------
(* reaper::sweep *)

Expired == {id \in Id : files[id] # None /\ files[id].expires_at <= now}

(* Seeded fault: a sweep is always one id short of its batch. *)
BatchesOneShort ==
  {S \in SUBSET Expired :
     /\ S = Expired \/ Cardinality(S) = BATCH - 1
     /\ Cardinality(S) <= BATCH - 1
     /\ Durable => \A i \in S, j \in Expired \ S :
                   files[i].expires_at <= files[j].expires_at}

(* MetaStore::expired: at most BATCH ids.  Redis ranks them by expiry; the  *)
(* map in memory has no order.                                             *)
Batches ==
  {S \in SUBSET Expired :
     /\ S = Expired \/ Cardinality(S) = BATCH
     /\ Cardinality(S) <= BATCH
     /\ Durable => \A i \in S, j \in Expired \ S :
                   files[i].expires_at <= files[j].expires_at}

Sweep(p) ==
  /\ at[p] = "idle" /\ todo[p] = {}
  /\ Expired # {}
  /\ \E S \in Batches : todo' = [todo EXCEPT ![p] = S]
  /\ UNCHANGED <<now, files, blobs, at, on, key, used, history>>

(* The next id of the batch; one that failed before stays recorded. *)
ReapNext(p) ==
  /\ at[p] = "idle"
  /\ \E id \in todo[p] :
       /\ todo' = [todo EXCEPT ![p] = @ \ {id}]
       /\ at' = [at EXCEPT ![p] = "delBlob"]
       /\ on' = [on EXCEPT ![p] = id]
  /\ UNCHANGED <<now, files, blobs, key, used, history>>

-----------------------------------------------------------------------------
(* The world around. *)

(* Bound: time passes up to MaxNow and as long as a record has yet to expire. *)
Tick ==
  /\ now < MaxNow \/ \E id \in Id : load(id)
  /\ now' = now + 1
  /\ UNCHANGED <<files, blobs, actors, used, history>>

(* The client goes away and the handler's future is dropped at an await.   *)
(* A call that still took effect is the call's own action, taken first.    *)
Hangup(r) ==
  /\ "hangup" \in Faults
  /\ at[r] \in Handling \cup {"openLast"}
  /\ Done(r)
  /\ UNCHANGED <<now, files, blobs, used, history>>

(* A replica dies.  It loses whatever its actors were doing: one actor at a *)
(* time here, several by as many steps.                                    *)
Crash(a) ==
  /\ "crash" \in Faults /\ Durable
  /\ at[a] # "idle" \/ (a \in Reaper /\ todo[a] # {})
  /\ at' = [at EXCEPT ![a] = "idle"]
  /\ on' = [on EXCEPT ![a] = None]
  /\ key' = [r \in Req |-> IF r = a THEN None ELSE key[r]]
  /\ todo' = [p \in Reaper |-> IF p = a THEN {} ELSE todo[p]]
  /\ UNCHANGED <<now, files, blobs, used, history>>

(* The one process that holds the metadata dies, and the metadata with it. *)
Restart ==
  /\ "crash" \in Faults /\ ~ Durable
  /\ files' = [id \in Id |-> None]
  /\ at' = [a \in Actor |-> "idle"]
  /\ on' = [a \in Actor |-> None]
  /\ key' = [r \in Req |-> None]
  /\ todo' = [p \in Reaper |-> {}]
  /\ UNCHANGED <<now, blobs, used, history>>

Upload(r) ==
  \/ UploadStart(r) \/ UploadStored(r) \/ UploadRefused(r)
  \/ UploadRecord(r) \/ UploadRecordFails(r) \/ UploadUndo(r)

Download(r) ==
  \/ DownloadStart(r) \/ ClaimGranted(r) \/ ClaimRefused(r) \/ ClaimFails(r)
  \/ Open(r) \/ OpenFails(r) \/ BodyDropped(r)

Owner(r) == OwnerDelete(r) \/ SetPassword(r) \/ SetAuth(r) \/ SetAuthFails(r)

Destroy(a) ==
  DestroyBlob(a) \/ DestroyBlobFails(a) \/ DestroyMeta(a) \/ DestroyMetaFails(a)

Next ==
  \/ \E r \in Req : Upload(r) \/ Download(r) \/ Owner(r) \/ Hangup(r)
  \/ \E a \in Actor : Destroy(a) \/ Crash(a)
  \/ \E p \in Reaper : Sweep(p) \/ ReapNext(p)
  \/ Tick
  \/ Restart

Spec == Init /\ [][Next]_vars

-----------------------------------------------------------------------------
(* Safety. *)

(* The download budget the uploader was told is never exceeded, by any     *)
(* interleaving of claims, failures, lost answers, crashes and restarts    *)
(* (api.rs:303 "concurrent requests can never together exceed the download *)
(* budget").                                                               *)
BudgetKept == \A id \in Id : grants[id] <= promised[id]

(* With durable metadata, ciphertext whose link was handed out is never    *)
(* left without the record that leads the reaper to it (state.rs:38 "we    *)
(* keep the metadata so the reaper retries rather than orphaning stored    *)
(* ciphertext").                                                           *)
NoOrphan ==
  \A id \in blobs : Known(id) => files[id] # None

(* A published share whose record is gone is never recorded, nor served,    *)
(* again: not by a late password change, nor after a restart.              *)
NeverReturns ==
  [][\A id \in Id : Known(id) /\ files[id] = None
       => files'[id] = None /\ grants'[id] = grants[id]]_vars

Holders(id) == {r \in Req : on[r] = id /\ at[r] \in Final}

(* The final slot of a share has at most one holder, and only a share with *)
(* no slot left has one: two responses never both destroy it, and none     *)
(* destroys it while a download is still allowed (meta/mod.rs:61).         *)
OneFinalSlot ==
  \A id \in Id :
    /\ \A r, s \in Holders(id) : r = s
    /\ Holders(id) # {} => ~ Claimable(id)

(* As long as nothing fails, a spent share whose ciphertext is still there *)
(* has someone about to destroy it: the response of its last download, or  *)
(* the task that response left behind (api.rs:269).                        *)
SpentHasBurner ==
  \A id \in blobs :
    Known(id) /\ files[id] # None /\ ~ Claimable(id) => Holders(id) # {}

-----------------------------------------------------------------------------
(* The inductive invariant behind the safety properties. *)

(* An id that has not been drawn is nowhere yet. *)
FreshIds ==
  \A id \in Id \ used :
    /\ files[id] = None /\ id \notin blobs /\ promised[id] = 0
    /\ \A a \in Actor : on[a] # id
    /\ \A p \in Reaper : id \notin todo[p]

(* An actor works on a share exactly while it is not idle, a reaper does   *)
(* nothing but destroy, and a password change knows its key.               *)
Working ==
  /\ \A a \in Actor : at[a] = "idle" <=> on[a] = None
  /\ \A p \in Reaper : at[p] \in {"idle", "delBlob", "delMeta"}
  /\ \A r \in Req : at[r] = "setAuth" => key[r] \in Key

(* An upload has its id to itself until the record is put, and against     *)
(* other requests until it answers; every other request knows its share.   *)
UploadsAlone ==
  \A r \in Req :
    /\ at[r] \in {"put", "record"} =>
         /\ files[on[r]] = None
         /\ \A a \in Actor : on[a] = on[r] => a = r
         /\ \A p \in Reaper : on[r] \notin todo[p]
    /\ at[r] \in {"put", "record", "undo"} =>
         /\ promised[on[r]] = 0
         /\ \A s \in Req : on[s] = on[r] => s = r
    /\ at[r] \notin {"idle", "put", "record", "undo"} => Known(on[r])

(* A destroy forgets the record only after the ciphertext is gone. *)
BlobFirst == \A a \in Actor : at[a] \in {"delMeta", "burnMeta"} => on[a] \notin blobs

(* The record of a published share counts at least the slots handed out,   *)
(* against the budget the uploader was told.                               *)
Counted ==
  \A id \in Id :
    /\ promised[id] = 0 => grants[id] = 0
    /\ files[id] # None =>
         /\ files[id].downloads <= files[id].max_downloads
         /\ Known(id) => /\ files[id].max_downloads = promised[id]
                         /\ grants[id] <= files[id].downloads

(* A record is put only where ciphertext is. *)
Stored == \A r \in Req : at[r] = "record" => on[r] \in blobs

(* A reaper takes on expired shares only; with them, what is being deleted *)
(* has expired or its owner asked.                                         *)
Caused ==
  /\ \A p \in Reaper : \A id \in todo[p] : files[id] # None => id \in Expired
  /\ \A a \in Actor : at[a] \in {"delBlob", "delMeta"} /\ files[on[a]] # None
                      => on[a] \in Expired \cup revoked

IInv == /\ TypeOK /\ FreshIds /\ Working /\ UploadsAlone /\ BlobFirst
        /\ Counted /\ BudgetKept /\ OneFinalSlot /\ Stored /\ Caused

-----------------------------------------------------------------------------
(* Refinement: what the handlers and reapers do to a published share is    *)
(* what SharePromise allows.                                               *)

phase == [id \in Id |-> IF ~ Known(id) THEN "none"
                        ELSE IF files[id] = None THEN "gone"
                        ELSE IF id \in blobs THEN "live" ELSE "closing"]

left == [id \in Id |->
           IF Known(id) /\ files[id] # None
           THEN files[id].max_downloads - files[id].downloads ELSE 0]

deadline == [id \in Id |->
               IF Known(id) /\ files[id] # None THEN files[id].expires_at ELSE 0]

Promise == INSTANCE SharePromise WITH
  clock <- now, phase <- phase, budget <- promised, left <- left,
  served <- grants, deadline <- deadline, revoked <- revoked,
  Budgets <- 1 .. effective_max_downloads,
  Lifetimes <- MIN_EXPIRY_SECS .. effective_max_expiry

(* Every step of the server is a step of the promise or none at all: a     *)
(* share is closed only for a cause, in two ordered parts, and never comes *)
(* back.                                                                   *)
KeepsPromise == Promise!Spec

-----------------------------------------------------------------------------
(* Liveness. *)

Gone(id) == Known(id) /\ files[id] = None /\ id \notin blobs

(* The reaper's side: the ticker goes on, every store call returns, no call *)
(* that can succeed on a share fails forever, and replicas do not keep     *)
(* dying before they are through a batch.                                  *)
ReapFairness ==
  /\ <>[][\A p \in Reaper : todo[p] # {} => ~ Crash(p)]_vars
  /\ WF_vars(Tick)
  /\ \A p \in Reaper :
       /\ SF_vars(Sweep(p))
       /\ SF_vars(ReapNext(p))
       /\ WF_vars(Destroy(p))
       /\ \A id \in Id :
            /\ SF_vars(on[p] = id /\ DestroyBlob(p))
            /\ SF_vars(on[p] = id /\ DestroyMeta(p))

(* While the shares whose ciphertext cannot be deleted leave a place in    *)
(* the batch, every other published share is eventually gone, record and   *)
(* ciphertext, by the reaper alone, also when more have expired than one   *)
(* sweep takes on (reaper.rs:3 "it is what actually enforces 'gone after N *)
(* days'"; reaper.rs:10 "a large backlog is worked through over several    *)
(* ticks").                                                                *)
EventuallyGone ==
  Cardinality(Stuck) < BATCH => \A id \in Id \ Stuck : Known(id) ~> Gone(id)

(* The handlers' side: every handler and every destroy that has begun runs *)
(* on, and every body ends.                                                *)
HandlerFairness ==
  /\ \A r \in Req : /\ WF_vars(ClaimGranted(r) \/ ClaimRefused(r))
                    /\ WF_vars(Open(r) \/ OpenFails(r))
                    /\ WF_vars(BodyDropped(r))
  /\ \A a \in Actor : WF_vars(DestroyBlob(a)) /\ WF_vars(DestroyMeta(a))

BurnSpec == Spec /\ HandlerFairness

Spent(id) == files[id] # None /\ ~ Claimable(id)

(* A spent share is destroyed without waiting for its expiry (README.md:5  *)
(* "deletes them once the link expires or its downloads run out").         *)
SpentIsBurnt == \A id \in Id : Known(id) /\ Spent(id) ~> Gone(id)
=============================================================================
