------------------------- MODULE ShareServerRefines -------------------------
(* With durable metadata, the share server implements SharePromise: every  *)
(* step of a handler, a destroy task or a reaper is a step of the promise  *)
(* about one share, or changes nothing the promise speaks of.              *)
EXTENDS ShareServerProofs

-----------------------------------------------------------------------------
(* What the promise sees of a share is its record and whether there is     *)
(* ciphertext while there is a record.                                     *)

LEMMA Shapes ==
  /\ phase = [i \in Id |-> phase[i]] /\ phase' = [i \in Id |-> phase'[i]]
  /\ left = [i \in Id |-> left[i]] /\ left' = [i \in Id |-> left'[i]]
  /\ deadline = [i \in Id |-> deadline[i]] /\ deadline' = [i \in Id |-> deadline'[i]]
  BY DEF phase, left, deadline

(* One share: a step that keeps its counts, its times and its ciphertext keeps its image. *)
LEMMA OthersSame ==
  ASSUME NEW id \in Id,
         promised'[id] = promised[id],
         Known(id) =>
           /\ files'[id] = None <=> files[id] = None
           /\ files[id] # None =>
                /\ files'[id].downloads = files[id].downloads
                /\ files'[id].max_downloads = files[id].max_downloads
                /\ files'[id].expires_at = files[id].expires_at
                /\ id \in blobs' <=> id \in blobs
  PROVE  phase'[id] = phase[id] /\ left'[id] = left[id] /\ deadline'[id] = deadline[id]
  BY DEF phase, left, deadline, Known

(* All shares: such a step is a stutter of the promise. *)
LEMMA AllSame ==
  ASSUME UNCHANGED <<now, promised, grants, revoked>>,
         \A id \in Id : Known(id) =>
           /\ files'[id] = None <=> files[id] = None
           /\ files[id] # None =>
                /\ files'[id].downloads = files[id].downloads
                /\ files'[id].max_downloads = files[id].max_downloads
                /\ files'[id].expires_at = files[id].expires_at
                /\ id \in blobs' <=> id \in blobs
  PROVE  UNCHANGED Promise!promiseVars
  <1>1. \A id \in Id : phase'[id] = phase[id] /\ left'[id] = left[id] /\ deadline'[id] = deadline[id]
    BY OthersSame
  <1>2. phase' = phase /\ left' = left /\ deadline' = deadline
    BY <1>1, Shapes
  <1> QED BY <1>2 DEF Promise!promiseVars

(* A step that leaves records, ciphertext and history alone. *)
LEMMA Idle ==
  ASSUME UNCHANGED <<now, files, blobs, promised, grants, revoked>>
  PROVE  UNCHANGED Promise!promiseVars
  BY AllSame

-----------------------------------------------------------------------------
(* The steps that change what the promise sees. *)

(* The put of the record publishes the share (api.rs upload). *)
LEMMA PublishStep ==
  ASSUME IInv, NEW r \in Req, UploadRecord(r)
  PROVE  Promise!PromiseNext
<1> USE DEF IInv, TypeOK
<1>1. PICK k \in Key, d \in DownloadAsks, e \in ExpiryAsks :
         /\ files' = [files EXCEPT ![on[r]] = NewRecord(k, clamp_downloads(d), clamp_expiry(e))]
         /\ promised' = [promised EXCEPT ![on[r]] = clamp_downloads(d)]
  BY DEF UploadRecord
<1> DEFINE new == NewRecord(k, clamp_downloads(d), clamp_expiry(e))
<1> DEFINE b == clamp_downloads(d)
<1> DEFINE l == clamp_expiry(e)
<1>2. /\ new # None /\ new.downloads = 0 /\ new.max_downloads = b /\ new.expires_at = now + l
  BY NewRecordFields
<1>3. /\ b \in 1 .. effective_max_downloads /\ b \in Nat \ {0}
      /\ l \in MIN_EXPIRY_SECS .. effective_max_expiry
  BY BudgetInWindow, ExpiryInWindow, ServerAssumption
<1>4. /\ on[r] \in Id /\ promised[on[r]] = 0 /\ on[r] \in blobs
      /\ UNCHANGED <<now, blobs, grants, revoked>>
  BY ServerAssumption DEF UploadRecord, Working, UploadsAlone, Stored, Actor
<1>5. /\ files'[on[r]] = new /\ promised'[on[r]] = b
      /\ \A i \in Id : i # on[r] => files'[i] = files[i] /\ promised'[i] = promised[i]
  BY <1>1, <1>4
<1> HIDE DEF new, b, l
<1>6. \A i \in Id : i # on[r] =>
         phase'[i] = phase[i] /\ left'[i] = left[i] /\ deadline'[i] = deadline[i]
  BY <1>4, <1>5, OthersSame
<1>7. phase[on[r]] = "none" /\ phase'[on[r]] = "live" /\ left'[on[r]] = b /\ deadline'[on[r]] = now + l
  BY <1>2, <1>3, <1>4, <1>5 DEF phase, left, deadline, Known
<1>8. /\ phase' = [phase EXCEPT ![on[r]] = "live"]
      /\ left' = [left EXCEPT ![on[r]] = b]
      /\ deadline' = [deadline EXCEPT ![on[r]] = now + l]
  BY <1>4, <1>6, <1>7, Shapes
<1>9. promised' = [promised EXCEPT ![on[r]] = b]
  BY <1>1 DEF b
<1>10. Promise!Publish(on[r])
  BY <1>3, <1>4, <1>7, <1>8, <1>9 DEF Promise!Publish
<1> QED BY <1>4, <1>10 DEF Promise!PromiseNext

(* A claim takes one slot of what is left, whether or not its answer       *)
(* arrives (memory.rs claim_download).                                     *)
LEMMA ClaimTaken ==
  ASSUME IInv, NEW id \in Id, Known(id), Claimable(id), files' = Claimed(id),
         UNCHANGED <<now, blobs, promised>>
  PROVE  /\ Promise!Held(id) /\ left[id] > 0
         /\ left' = [left EXCEPT ![id] = @ - 1]
         /\ UNCHANGED <<phase, deadline>>
<1> USE DEF IInv, TypeOK
<1> DEFINE c == Claimed(id)
<1>1. /\ \A i \in Id : i # id => c[i] = files[i]
      /\ c[id] # None /\ files[id] # None
      /\ c[id].max_downloads = files[id].max_downloads
      /\ c[id].downloads = files[id].downloads + 1
      /\ c[id].expires_at = files[id].expires_at
  BY ClaimedFields DEF Claimable
<1>2. /\ files[id].downloads \in Nat /\ files[id].max_downloads \in Nat
      /\ files[id].downloads < files[id].max_downloads
  BY <1>1 DEF Claimable, FileRecord
<1>3. files' = c
  OBVIOUS
<1> HIDE DEF c
<1>4. \A i \in Id : i # id =>
         phase'[i] = phase[i] /\ left'[i] = left[i] /\ deadline'[i] = deadline[i]
  BY <1>1, <1>3, OthersSame
<1>5. /\ phase'[id] = phase[id] /\ deadline'[id] = deadline[id]
      /\ left'[id] = left[id] - 1 /\ left[id] > 0
  BY <1>1, <1>2, <1>3 DEF phase, left, deadline, Known
<1>6. Promise!Held(id)
  BY <1>1 DEF Promise!Held, phase, Known
<1>7. UNCHANGED <<phase, deadline>> /\ left' = [left EXCEPT ![id] = @ - 1]
  BY <1>4, <1>5, Shapes
<1> QED BY <1>5, <1>6, <1>7

(* A destroy, or the undo of a failed upload, deletes ciphertext: of a     *)
(* share that has been published, only for a cause (state.rs destroy).     *)
LEMMA BlobDropped ==
  ASSUME IInv, NEW a \in Actor, at[a] \in {"delBlob", "burnBlob"},
         blobs' = blobs \ {on[a]},
         UNCHANGED <<now, files, promised, grants, revoked>>
  PROVE  [Promise!PromiseNext]_(Promise!promiseVars)
<1> USE DEF IInv, TypeOK
<1> DEFINE id == on[a]
<1>1. id \in Id
  BY ServerAssumption DEF Working
<1> HIDE DEF id
<1>2. \A i \in Id : i # id =>
         phase'[i] = phase[i] /\ left'[i] = left[i] /\ deadline'[i] = deadline[i]
  BY OthersSame DEF id
<1>3. CASE Known(id) /\ files[id] # None /\ id \in blobs
  <2>1. \/ files[id].expires_at <= now
        \/ id \in revoked
        \/ ~ Claimable(id)
    <3>1. CASE at[a] = "delBlob"
      BY <1>3, <3>1 DEF Caused, Expired, id
    <3>2. CASE at[a] = "burnBlob"
      <4>1. a \in Req
        BY <3>2 DEF Working, Actor
      <4>2. a \in Holders(id)
        BY <3>2, <4>1 DEF Holders, Final, id
      <4> QED BY <1>1, <4>2 DEF OneFinalSlot
    <3> QED BY <3>1, <3>2
  <2>2. files[id] \in FileRecord
    BY <1>1, <1>3
  <2>3. /\ deadline[id] = files[id].expires_at
        /\ ~ Claimable(id) => left[id] = 0
    BY <1>1, <1>3, <2>2 DEF deadline, left, Counted, Claimable, FileRecord
  <2>4. Promise!Cause(id)
    BY <2>1, <2>2, <2>3 DEF Promise!Cause, FileRecord
  <2>5. /\ phase[id] = "live" /\ phase'[id] = "closing"
        /\ left'[id] = left[id] /\ deadline'[id] = deadline[id]
    BY <1>1, <1>3 DEF phase, left, deadline, Known, id
  <2>6. phase' = [phase EXCEPT ![id] = "closing"] /\ UNCHANGED <<left, deadline>>
    BY <1>1, <1>2, <2>5, Shapes
  <2>7. Promise!Close(id)
    BY <2>4, <2>5, <2>6 DEF Promise!Close
  <2> QED BY <1>1, <2>7 DEF Promise!PromiseNext
<1>4. CASE ~ (Known(id) /\ files[id] # None /\ id \in blobs)
  BY <1>4, AllSame DEF id
<1> QED BY <1>3, <1>4

(* The record goes last; the ciphertext is gone by then (state.rs destroy). *)
LEMMA RecordDropped ==
  ASSUME IInv, NEW a \in Actor, DestroyMeta(a)
  PROVE  [Promise!PromiseNext]_(Promise!promiseVars)
<1> USE DEF IInv, TypeOK
<1> DEFINE id == on[a]
<1>1. /\ id \in Id /\ id \notin blobs
      /\ files' = [files EXCEPT ![id] = None]
      /\ UNCHANGED <<now, blobs, promised, grants, revoked>>
  BY ServerAssumption DEF DestroyMeta, Forgotten, Working, BlobFirst, history
<1> HIDE DEF id
<1>2. \A i \in Id : i # id =>
         phase'[i] = phase[i] /\ left'[i] = left[i] /\ deadline'[i] = deadline[i]
  BY <1>1, OthersSame
<1>3. CASE Known(id) /\ files[id] # None
  <2>1. /\ phase[id] = "closing" /\ phase'[id] = "gone"
        /\ left'[id] = 0 /\ deadline'[id] = 0
    BY <1>1, <1>3 DEF phase, left, deadline, Known
  <2>2. /\ phase' = [phase EXCEPT ![id] = "gone"]
        /\ left' = [left EXCEPT ![id] = 0]
        /\ deadline' = [deadline EXCEPT ![id] = 0]
    BY <1>1, <1>2, <2>1, Shapes
  <2>3. Promise!Forget(id)
    BY <1>1, <2>1, <2>2 DEF Promise!Forget
  <2> QED BY <1>1, <2>3 DEF Promise!PromiseNext
<1>4. CASE ~ (Known(id) /\ files[id] # None)
  <2>1. \A i \in Id : Known(i) => files'[i] = files[i]
    BY <1>1, <1>4
  <2> QED BY <1>1, <2>1, AllSame
<1> QED BY <1>3, <1>4

-----------------------------------------------------------------------------
(* The refinement. *)

LEMMA PromiseStep ==
  ASSUME Durable, IInv, [Next]_vars
  PROVE  [Promise!PromiseNext]_(Promise!promiseVars)
<1> DEFINE Goal == [Promise!PromiseNext]_(Promise!promiseVars)
<1> USE DEF history, actors
<1>1. ASSUME NEW r \in Req, Upload(r) PROVE Goal
  <2>1. CASE UploadStart(r)
    BY <2>1, Idle DEF UploadStart
  <2>2. CASE UploadStored(r) \/ UploadRefused(r) \/ UploadUndo(r) \/ UploadRecordFails(r)
    <3>1. on[r] \in Id /\ ~ Known(on[r])
      BY <2>2, ServerAssumption DEF UploadStored, UploadRefused, UploadUndo, UploadRecordFails,
         IInv, TypeOK, Working, UploadsAlone, Known, Actor
    <3>2. /\ \A i \in Id : i # on[r] =>
                files'[i] = files[i] /\ (i \in blobs' <=> i \in blobs)
          /\ UNCHANGED <<now, promised, grants, revoked>>
      BY <2>2 DEF UploadStored, UploadRefused, UploadUndo, UploadRecordFails, IInv, TypeOK
    <3>3. UNCHANGED Promise!promiseVars
      BY <3>1, <3>2, AllSame
    <3> QED BY <3>3
  <2>3. CASE UploadRecord(r)
    BY <2>3, PublishStep
  <2> QED BY <1>1, <2>1, <2>2, <2>3 DEF Upload
<1>2. ASSUME NEW r \in Req, Download(r) PROVE Goal
  <2>1. ASSUME at[r] = "claim" PROVE on[r] \in Id /\ Known(on[r])
    BY <2>1, ServerAssumption DEF IInv, TypeOK, Working, UploadsAlone, Actor
  <2>2. CASE ClaimGranted(r)
    <3>1. /\ on[r] \in Id /\ Known(on[r]) /\ Claimable(on[r])
          /\ files' = Claimed(on[r]) /\ UNCHANGED <<now, blobs, promised, revoked>>
          /\ grants' = [grants EXCEPT ![on[r]] = @ + 1]
      BY <2>1, <2>2 DEF ClaimGranted
    <3>2. Promise!Grant(on[r])
      BY <3>1, ClaimTaken DEF Promise!Grant
    <3> QED BY <3>1, <3>2 DEF Promise!PromiseNext
  <2>3. CASE ClaimFails(r)
    <3>1. CASE UNCHANGED files
      BY <2>3, <3>1, Idle DEF ClaimFails
    <3>2. CASE Claimable(on[r]) /\ files' = Claimed(on[r])
      <4>1. /\ on[r] \in Id /\ Known(on[r]) /\ UNCHANGED <<now, blobs, promised, grants, revoked>>
        BY <2>1, <2>3 DEF ClaimFails
      <4>2. Promise!Waste(on[r])
        BY <3>2, <4>1, ClaimTaken DEF Promise!Waste
      <4> QED BY <4>1, <4>2 DEF Promise!PromiseNext
    <3> QED BY <2>3, <3>1, <3>2 DEF ClaimFails
  <2>4. CASE DownloadStart(r) \/ ClaimRefused(r) \/ Open(r) \/ OpenFails(r) \/ BodyDropped(r)
    BY <2>4, Idle DEF DownloadStart, ClaimRefused, Open, OpenFails, BodyDropped
  <2> QED BY <1>2, <2>2, <2>3, <2>4 DEF Download
<1>3. ASSUME NEW r \in Req, Owner(r) PROVE Goal
  <2>1. CASE OwnerDelete(r)
    <3>1. PICK id \in Id :
            /\ Known(id) /\ files[id] # None /\ revoked' = revoked \cup {id}
            /\ UNCHANGED <<now, files, blobs, promised, grants>>
      BY <2>1 DEF OwnerDelete, load
    <3>2. UNCHANGED <<phase, left, deadline>>
      <4>1. \A i \in Id : phase'[i] = phase[i] /\ left'[i] = left[i] /\ deadline'[i] = deadline[i]
        BY <3>1, OthersSame
      <4> QED BY <4>1, Shapes
    <3>3. Promise!Held(id)
      BY <3>1 DEF Promise!Held, phase
    <3>4. Promise!Revoke(id)
      BY <3>1, <3>2, <3>3 DEF Promise!Revoke
    <3> QED BY <3>4 DEF Promise!PromiseNext
  <2>2. CASE SetAuth(r)
    <3>1. /\ on[r] \in Id /\ key[r] \in Key /\ files' = WithAuth(on[r], key[r])
          /\ UNCHANGED <<now, blobs, promised, grants, revoked>>
      BY <2>2, ServerAssumption DEF SetAuth, IInv, TypeOK, Working, Actor
    <3> DEFINE w == WithAuth(on[r], key[r])
    <3>2. \A i \in Id : /\ w[i] = None <=> files[i] = None
                        /\ files[i] # None => /\ w[i].downloads = files[i].downloads
                                              /\ w[i].max_downloads = files[i].max_downloads
                                              /\ w[i].expires_at = files[i].expires_at
      BY <3>1, WithAuthFields DEF IInv
    <3>3. files' = w
      BY <3>1
    <3> HIDE DEF w
    <3>4. UNCHANGED Promise!promiseVars
      BY <3>1, <3>2, <3>3, AllSame
    <3> QED BY <3>4
  <2>3. CASE SetPassword(r) \/ SetAuthFails(r)
    BY <2>3, Idle DEF SetPassword, SetAuthFails
  <2> QED BY <1>3, <2>1, <2>2, <2>3 DEF Owner
<1>4. ASSUME NEW a \in Actor, Destroy(a) PROVE Goal
  <2>1. CASE DestroyBlob(a)
    BY <2>1, BlobDropped DEF DestroyBlob
  <2>2. CASE DestroyBlobFails(a)
    <3>1. CASE UNCHANGED blobs
      BY <2>2, <3>1, Idle DEF DestroyBlobFails
    <3>2. CASE blobs' = blobs \ {on[a]}
      BY <2>2, <3>2, BlobDropped DEF DestroyBlobFails
    <3> QED BY <2>2, <3>1, <3>2 DEF DestroyBlobFails
  <2>3. CASE DestroyMeta(a)
    BY <2>3, RecordDropped
  <2>4. CASE DestroyMetaFails(a)
    BY <2>4, Idle DEF DestroyMetaFails
  <2> QED BY <1>4, <2>1, <2>2, <2>3, <2>4 DEF Destroy
<1>5. CASE Tick
  <2>1. now' = now + 1 /\ UNCHANGED <<files, blobs, promised, grants, revoked>>
    BY <1>5 DEF Tick
  <2>2. UNCHANGED <<phase, left, deadline>>
    <3>1. \A i \in Id : phase'[i] = phase[i] /\ left'[i] = left[i] /\ deadline'[i] = deadline[i]
      BY <2>1, OthersSame
    <3> QED BY <3>1, Shapes
  <2> QED BY <2>1, <2>2 DEF Promise!Pass, Promise!PromiseNext
<1>6. CASE UNCHANGED <<now, files, blobs, promised, grants, revoked>>
  BY <1>6, Idle
<1> QED
  BY <1>1, <1>2, <1>3, <1>4, <1>5, <1>6, Durable DEF Next, Hangup, Crash, Sweep, ReapNext,
     Restart, vars

(* With durable metadata, whatever fails, the server keeps the promise of  *)
(* SharePromise: a share is closed only for a cause, ciphertext before     *)
(* record, its budget is never exceeded and it never comes back.           *)
THEOREM ServerKeepsPromise ==
  ASSUME Durable
  PROVE  Spec => KeepsPromise
<1>1. Init => Promise!PromiseInit
  BY DEF Init, Promise!PromiseInit, phase, left, deadline, Known
<1> QED BY <1>1, PromiseStep, InductiveInvariant, PTL DEF Spec, KeepsPromise, Promise!Spec
=============================================================================
