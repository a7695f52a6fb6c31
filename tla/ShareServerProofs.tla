-------------------------- MODULE ShareServerProofs --------------------------
(* Type correctness and the safety of ShareServer, for every number of     *)
(* shares, requests, replicas and every combination of faults.             *)
EXTENDS ShareServer, LimitsProofs

-----------------------------------------------------------------------------
(* Lemmas about the operators the actions are built from. *)

LEMMA AskedIsClamped ==
  /\ \A d \in DownloadAsks : clamp_downloads(d) \in Nat \ {0}
  /\ \A e \in ExpiryAsks : clamp_expiry(e) \in Nat \ {0}
  BY BudgetInWindow, ExpiryInWindow, ServerAssumption

(* An upload puts a record. *)
LEMMA NewRecordType ==
  ASSUME now \in Nat, NEW k \in Key, NEW d \in DownloadAsks, NEW e \in ExpiryAsks
  PROVE  NewRecord(k, clamp_downloads(d), clamp_expiry(e)) \in FileRecord
  BY AskedIsClamped DEF NewRecord, FileRecord

(* What a new record holds. *)
LEMMA NewRecordFields ==
  ASSUME now \in Nat, NEW k \in Key, NEW d \in DownloadAsks, NEW e \in ExpiryAsks,
         NEW new, new = NewRecord(k, clamp_downloads(d), clamp_expiry(e))
  PROVE  /\ new # None /\ new.downloads = 0
         /\ new.max_downloads = clamp_downloads(d) /\ new.max_downloads \in Nat \ {0}
         /\ new.expires_at = now + clamp_expiry(e)
  <1>1. new \in FileRecord
    BY NewRecordType
  <1> QED BY <1>1, AskedIsClamped, ServerAssumption DEF NewRecord

(* A claim leaves records behind. *)
LEMMA ClaimedType ==
  ASSUME TypeOK, NEW id \in Id, files[id] # None
  PROVE  Claimed(id) \in [Id -> FileRecord \cup {None}]
  BY DEF TypeOK, Claimed, FileRecord

(* A claim counts one more slot of its share, of none other, within budget. *)
LEMMA ClaimedFields ==
  ASSUME TypeOK, NEW id \in Id, Claimable(id)
  PROVE  /\ \A i \in Id : i # id => Claimed(id)[i] = files[i]
         /\ Claimed(id)[id] # None
         /\ Claimed(id)[id].max_downloads = files[id].max_downloads
         /\ Claimed(id)[id].downloads = files[id].downloads + 1
         /\ Claimed(id)[id].downloads <= files[id].max_downloads
         /\ Claimed(id)[id].expires_at = files[id].expires_at
  <1>1. /\ files[id] \in FileRecord /\ files[id].downloads \in Nat
        /\ files[id].max_downloads \in Nat /\ files[id].downloads < files[id].max_downloads
    BY DEF TypeOK, Claimable, FileRecord
  <1>2. Claimed(id)[id] \in FileRecord
    BY ClaimedType, ServerAssumption DEF Claimable, TypeOK, Claimed, FileRecord
  <1> QED
    BY <1>1, <1>2, ServerAssumption DEF TypeOK, Claimed, FileRecord

(* So does a password change. *)
LEMMA WithAuthType ==
  ASSUME TypeOK, NEW id \in Id, NEW k \in Key
  PROVE  WithAuth(id, k) \in [Id -> FileRecord \cup {None}]
  BY DEF TypeOK, WithAuth, FileRecord

(* A password change makes no record and leaves every count as it was. *)
LEMMA WithAuthFields ==
  ASSUME TypeOK, NEW id \in Id, NEW k \in Key
  PROVE  \A i \in Id :
           /\ WithAuth(id, k)[i] = None <=> files[i] = None
           /\ files[i] # None =>
                /\ WithAuth(id, k)[i].downloads = files[i].downloads
                /\ WithAuth(id, k)[i].max_downloads = files[i].max_downloads
                /\ WithAuth(id, k)[i].expires_at = files[i].expires_at
  <1>1. CASE files[id] = None
    BY <1>1 DEF WithAuth
  <1>2. CASE files[id] # None
    <2>1. files[id] \in FileRecord /\ WithAuth(id, k) = [files EXCEPT ![id].auth = k]
      BY <1>2 DEF TypeOK, WithAuth
    <2>2. [files[id] EXCEPT !.auth = k] \in FileRecord
      BY <2>1 DEF FileRecord
    <2> QED BY <2>1, <2>2, ServerAssumption DEF TypeOK, FileRecord
  <1> QED BY <1>1, <1>2

-----------------------------------------------------------------------------
(* Type correctness. *)

LEMMA TypeStep == TypeOK /\ Working /\ [Next]_vars => TypeOK'
<1> SUFFICES ASSUME TypeOK, Working, [Next]_vars PROVE TypeOK'
  OBVIOUS
<1> USE ServerAssumption DEF TypeOK, Working, history, actors, Enter, Go, Done, Actor,
                             Step, Handling, Final
<1>1. ASSUME NEW r \in Req, UploadStart(r) PROVE TypeOK'
  BY <1>1 DEF UploadStart
<1>2. ASSUME NEW r \in Req, UploadStored(r) PROVE TypeOK'
  BY <1>2 DEF UploadStored
<1>3. ASSUME NEW r \in Req, UploadRefused(r) PROVE TypeOK'
  BY <1>3 DEF UploadRefused
<1>4. ASSUME NEW r \in Req, UploadRecord(r) PROVE TypeOK'
  BY <1>4, NewRecordType, AskedIsClamped DEF UploadRecord
<1>5. ASSUME NEW r \in Req, UploadRecordFails(r) PROVE TypeOK'
  BY <1>5, NewRecordType DEF UploadRecordFails
<1>6. ASSUME NEW r \in Req, UploadUndo(r) PROVE TypeOK'
  BY <1>6 DEF UploadUndo
<1>7. ASSUME NEW r \in Req, DownloadStart(r) PROVE TypeOK'
  BY <1>7 DEF DownloadStart
<1>8. ASSUME NEW r \in Req, ClaimGranted(r) PROVE TypeOK'
  BY <1>8, ClaimedType DEF ClaimGranted, Claimable
<1>9. ASSUME NEW r \in Req, ClaimRefused(r) PROVE TypeOK'
  BY <1>9 DEF ClaimRefused
<1>10. ASSUME NEW r \in Req, ClaimFails(r) PROVE TypeOK'
  BY <1>10, ClaimedType DEF ClaimFails, Claimable
<1>11. ASSUME NEW r \in Req, Open(r) PROVE TypeOK'
  BY <1>11 DEF Open
<1>12. ASSUME NEW r \in Req, OpenFails(r) PROVE TypeOK'
  BY <1>12 DEF OpenFails
<1>13. ASSUME NEW r \in Req, BodyDropped(r) PROVE TypeOK'
  BY <1>13 DEF BodyDropped
<1>14. ASSUME NEW r \in Req, OwnerDelete(r) PROVE TypeOK'
  BY <1>14 DEF OwnerDelete
<1>15. ASSUME NEW r \in Req, SetPassword(r) PROVE TypeOK'
  BY <1>15 DEF SetPassword
<1>16. ASSUME NEW r \in Req, SetAuth(r) PROVE TypeOK'
  BY <1>16, WithAuthType DEF SetAuth
<1>17. ASSUME NEW r \in Req, SetAuthFails(r) PROVE TypeOK'
  BY <1>17 DEF SetAuthFails
<1>18. ASSUME NEW r \in Req, Hangup(r) PROVE TypeOK'
  BY <1>18 DEF Hangup
<1>19. ASSUME NEW a \in Actor, DestroyBlob(a) PROVE TypeOK'
  BY <1>19 DEF DestroyBlob
<1>20. ASSUME NEW a \in Actor, DestroyBlobFails(a) PROVE TypeOK'
  BY <1>20 DEF DestroyBlobFails
<1>21. ASSUME NEW a \in Actor, DestroyMeta(a) PROVE TypeOK'
  BY <1>21 DEF DestroyMeta, Forgotten
<1>22. ASSUME NEW a \in Actor, DestroyMetaFails(a) PROVE TypeOK'
  BY <1>22 DEF DestroyMetaFails
<1>23. ASSUME NEW a \in Actor, Crash(a) PROVE TypeOK'
  BY <1>23 DEF Crash
<1>24. ASSUME NEW p \in Reaper, Sweep(p) PROVE TypeOK'
  BY <1>24 DEF Sweep, Batches, Expired
<1>25. ASSUME NEW p \in Reaper, ReapNext(p) PROVE TypeOK'
  BY <1>25 DEF ReapNext
<1>26. CASE Tick
  BY <1>26 DEF Tick
<1>27. CASE Restart
  BY <1>27 DEF Restart
<1>28. CASE UNCHANGED vars
  BY <1>28 DEF vars
<1> QED
  BY <1>1, <1>2, <1>3, <1>4, <1>5, <1>6, <1>7, <1>8, <1>9, <1>10, <1>11, <1>12, <1>13,
     <1>14, <1>15, <1>16, <1>17, <1>18, <1>19, <1>20, <1>21, <1>22, <1>23, <1>24, <1>25,
     <1>26, <1>27, <1>28 DEF Next, Upload, Download, Owner, Destroy

-----------------------------------------------------------------------------
(* The parts of the inductive invariant, each over the parts before it. *)

LEMMA WorkingStep == TypeOK /\ Working /\ [Next]_vars => Working'
<1> SUFFICES ASSUME TypeOK, Working, [Next]_vars PROVE Working'
  OBVIOUS
<1> USE ServerAssumption DEF TypeOK, Working, history, actors, Enter, Go, Done, Actor,
                             Step, Handling, Final
<1>1. ASSUME NEW r \in Req, Upload(r) PROVE Working'
  BY <1>1 DEF Upload, UploadStart, UploadStored, UploadRefused, UploadRecord,
              UploadRecordFails, UploadUndo
<1>2. ASSUME NEW r \in Req, Download(r) PROVE Working'
  BY <1>2 DEF Download, DownloadStart, ClaimGranted, ClaimRefused, ClaimFails, Open,
              OpenFails, BodyDropped
<1>3. ASSUME NEW r \in Req, Owner(r) PROVE Working'
  BY <1>3 DEF Owner, OwnerDelete, SetPassword, SetAuth, SetAuthFails
<1>4. ASSUME NEW r \in Req, Hangup(r) PROVE Working'
  BY <1>4 DEF Hangup
<1>5. ASSUME NEW a \in Actor, Destroy(a) PROVE Working'
  BY <1>5 DEF Destroy, DestroyBlob, DestroyBlobFails, DestroyMeta, DestroyMetaFails
<1>6. ASSUME NEW a \in Actor, Crash(a) PROVE Working'
  BY <1>6 DEF Crash
<1>7. ASSUME NEW p \in Reaper, Sweep(p) \/ ReapNext(p) PROVE Working'
  BY <1>7 DEF Sweep, ReapNext
<1>8. CASE Tick
  BY <1>8 DEF Tick
<1>9. CASE Restart
  BY <1>9 DEF Restart
<1>10. CASE UNCHANGED vars
  BY <1>10 DEF vars
<1> QED
  BY <1>1, <1>2, <1>3, <1>4, <1>5, <1>6, <1>7, <1>8, <1>9, <1>10 DEF Next

(* An id that has not been drawn stays nowhere. *)
LEMMA FreshStep == TypeOK /\ Working /\ FreshIds /\ [Next]_vars => FreshIds'
<1> SUFFICES ASSUME TypeOK, Working, FreshIds, [Next]_vars PROVE FreshIds'
  OBVIOUS
<1> USE ServerAssumption DEF TypeOK, Working, FreshIds, history, actors, Known, Enter,
        Go, Done, Actor, Step, Handling, Final
<1>1. ASSUME NEW r \in Req, Upload(r) PROVE FreshIds'
  BY <1>1 DEF Upload, UploadStart, UploadStored, UploadRefused, UploadRecord,
     UploadRecordFails, UploadUndo
<1>2. ASSUME NEW r \in Req, Download(r) PROVE FreshIds'
  BY <1>2 DEF Download, DownloadStart, load, ClaimGranted, ClaimRefused, ClaimFails,
     Open, OpenFails, BodyDropped, Claimed, Claimable
<1>3. ASSUME NEW r \in Req, Owner(r) PROVE FreshIds'
  BY <1>3 DEF Owner, OwnerDelete, SetPassword, load, SetAuth, WithAuth, SetAuthFails
<1>4. ASSUME NEW r \in Req, Hangup(r) PROVE FreshIds'
  BY <1>4 DEF Hangup
<1>5. ASSUME NEW a \in Actor, Destroy(a) PROVE FreshIds'
  BY <1>5 DEF Destroy, DestroyBlob, DestroyBlobFails, DestroyMeta, Forgotten,
     DestroyMetaFails
<1>6. ASSUME NEW a \in Actor, Crash(a) PROVE FreshIds'
  BY <1>6 DEF Crash
<1>7. ASSUME NEW p \in Reaper, Sweep(p) \/ ReapNext(p) PROVE FreshIds'
  BY <1>7 DEF Sweep, Batches, Expired, ReapNext
<1>8. CASE Tick
  BY <1>8 DEF Tick
<1>9. CASE Restart
  BY <1>9 DEF Restart
<1>10. CASE UNCHANGED vars
  BY <1>10 DEF vars
<1> QED
  BY <1>1, <1>2, <1>3, <1>4, <1>5, <1>6, <1>7, <1>8, <1>9, <1>10 DEF Next

(* An upload stays alone with its id. *)
LEMMA AloneStep == TypeOK /\ Working /\ FreshIds /\ UploadsAlone /\ [Next]_vars =>
  UploadsAlone'
<1> SUFFICES ASSUME TypeOK, Working, FreshIds, UploadsAlone, [Next]_vars PROVE UploadsAlone'
  OBVIOUS
<1> USE ServerAssumption DEF TypeOK, Working, FreshIds, UploadsAlone, history, actors,
        Known, Enter, Go, Done, Actor, Step, Handling, Final
<1>1. ASSUME NEW r \in Req, Upload(r) PROVE UploadsAlone'
  BY <1>1, AskedIsClamped DEF Upload, UploadStart, UploadStored, UploadRefused,
     UploadRecord, UploadRecordFails, UploadUndo
<1>2. ASSUME NEW r \in Req, Download(r) PROVE UploadsAlone'
  BY <1>2 DEF Download, DownloadStart, load, ClaimGranted, ClaimRefused, ClaimFails,
     Open, OpenFails, BodyDropped, Claimed, Claimable
<1>3. ASSUME NEW r \in Req, Owner(r) PROVE UploadsAlone'
  BY <1>3 DEF Owner, OwnerDelete, SetPassword, load, SetAuth, WithAuth, SetAuthFails
<1>4. ASSUME NEW r \in Req, Hangup(r) PROVE UploadsAlone'
  BY <1>4 DEF Hangup
<1>5. ASSUME NEW a \in Actor, Destroy(a) PROVE UploadsAlone'
  BY <1>5 DEF Destroy, DestroyBlob, DestroyBlobFails, DestroyMeta, Forgotten,
     DestroyMetaFails
<1>6. ASSUME NEW a \in Actor, Crash(a) PROVE UploadsAlone'
  BY <1>6 DEF Crash
<1>7. ASSUME NEW p \in Reaper, Sweep(p) \/ ReapNext(p) PROVE UploadsAlone'
  BY <1>7 DEF Sweep, Batches, Expired, ReapNext
<1>8. CASE Tick
  BY <1>8 DEF Tick
<1>9. CASE Restart
  BY <1>9 DEF Restart
<1>10. CASE UNCHANGED vars
  BY <1>10 DEF vars
<1> QED
  BY <1>1, <1>2, <1>3, <1>4, <1>5, <1>6, <1>7, <1>8, <1>9, <1>10 DEF Next

(* No ciphertext reappears behind a destroy. *)
LEMMA BlobFirstStep == TypeOK /\ Working /\ UploadsAlone /\ BlobFirst /\ [Next]_vars =>
  BlobFirst'
<1> SUFFICES ASSUME TypeOK, Working, UploadsAlone, BlobFirst, [Next]_vars PROVE BlobFirst'
  OBVIOUS
<1> USE ServerAssumption DEF TypeOK, Working, UploadsAlone, BlobFirst, history, actors,
        Known, Enter, Go, Done, Actor, Step, Handling, Final
<1>1. ASSUME NEW r \in Req, Upload(r) PROVE BlobFirst'
  BY <1>1 DEF Upload, UploadStart, UploadStored, UploadRefused, UploadRecord,
     UploadRecordFails, UploadUndo
<1>2. ASSUME NEW r \in Req, Download(r) PROVE BlobFirst'
  BY <1>2 DEF Download, DownloadStart, load, ClaimGranted, ClaimRefused, ClaimFails,
     Open, OpenFails, BodyDropped
<1>3. ASSUME NEW r \in Req, Owner(r) PROVE BlobFirst'
  BY <1>3 DEF Owner, OwnerDelete, SetPassword, load, SetAuth, WithAuth, SetAuthFails
<1>4. ASSUME NEW r \in Req, Hangup(r) PROVE BlobFirst'
  BY <1>4 DEF Hangup
<1>5. ASSUME NEW a \in Actor, Destroy(a) PROVE BlobFirst'
  BY <1>5 DEF Destroy, DestroyBlob, DestroyBlobFails, DestroyMeta, Forgotten,
     DestroyMetaFails
<1>6. ASSUME NEW a \in Actor, Crash(a) PROVE BlobFirst'
  BY <1>6 DEF Crash
<1>7. ASSUME NEW p \in Reaper, Sweep(p) \/ ReapNext(p) PROVE BlobFirst'
  BY <1>7 DEF Sweep, Batches, Expired, ReapNext
<1>8. CASE Tick
  BY <1>8 DEF Tick
<1>9. CASE Restart
  BY <1>9 DEF Restart
<1>10. CASE UNCHANGED vars
  BY <1>10 DEF vars
<1> QED
  BY <1>1, <1>2, <1>3, <1>4, <1>5, <1>6, <1>7, <1>8, <1>9, <1>10 DEF Next

(* Records keep counting, within the budget. *)
LEMMA CountedStep == TypeOK /\ Working /\ UploadsAlone /\ Counted /\ BudgetKept /\
  [Next]_vars => (Counted /\ BudgetKept)'
<1> SUFFICES ASSUME TypeOK, Working, UploadsAlone, Counted, BudgetKept, [Next]_vars PROVE (Counted /\ BudgetKept)'
  OBVIOUS
<1> USE ServerAssumption DEF TypeOK, Working, UploadsAlone, Counted, BudgetKept,
        history, actors, Known, Enter, Go, Done, Actor, Step, Handling, Final
<1>1. ASSUME NEW r \in Req, Upload(r) PROVE (Counted /\ BudgetKept)'
  <2>1. CASE UploadRecord(r)
    <3>1. PICK k \in Key, d \in DownloadAsks, e \in ExpiryAsks :
             /\ files' = [files EXCEPT ![on[r]] =
                            NewRecord(k, clamp_downloads(d), clamp_expiry(e))]
             /\ promised' = [promised EXCEPT ![on[r]] = clamp_downloads(d)]
      BY <2>1 DEF UploadRecord
    <3>2. /\ on[r] \in Id /\ promised[on[r]] = 0 /\ grants[on[r]] = 0 /\ grants' = grants
      BY <2>1 DEF UploadRecord
    <3> DEFINE new == NewRecord(k, clamp_downloads(d), clamp_expiry(e))
    <3>3. /\ new # None /\ new.downloads = 0
          /\ new.max_downloads = clamp_downloads(d) /\ clamp_downloads(d) \in Nat \ {0}
      BY NewRecordFields
    <3> HIDE DEF new
    <3>4. /\ files'[on[r]] = new /\ promised'[on[r]] = clamp_downloads(d)
          /\ \A i \in Id : i # on[r] => files'[i] = files[i] /\ promised'[i] = promised[i]
      BY <3>1, <3>2 DEF new
    <3> QED BY <3>2, <3>3, <3>4
  <2>2. CASE UploadRecordFails(r)
    <3>1. CASE UNCHANGED files
      BY <2>2, <3>1 DEF UploadRecordFails
    <3>2. ASSUME NEW k \in Key, NEW d \in DownloadAsks, NEW e \in ExpiryAsks,
                 files' = [files EXCEPT ![on[r]] =
                             NewRecord(k, clamp_downloads(d), clamp_expiry(e))]
          PROVE  (Counted /\ BudgetKept)'
      <4> DEFINE new == NewRecord(k, clamp_downloads(d), clamp_expiry(e))
      <4>1. /\ new.downloads = 0 /\ new.max_downloads \in Nat \ {0}
        BY NewRecordFields
      <4> HIDE DEF new
      <4>2. /\ on[r] \in Id /\ promised[on[r]] = 0 /\ UNCHANGED <<promised, grants>>
            /\ files'[on[r]] = new
            /\ \A i \in Id : i # on[r] => files'[i] = files[i]
        BY <2>2, <3>2 DEF UploadRecordFails, new
      <4> QED BY <4>1, <4>2
    <3> QED BY <2>2, <3>1, <3>2 DEF UploadRecordFails
  <2> QED
    BY <1>1, <2>1, <2>2 DEF Upload, UploadStart, UploadStored, UploadRefused, UploadUndo
<1>2. ASSUME NEW r \in Req, Download(r) PROVE (Counted /\ BudgetKept)'
  <2>1. CASE ClaimGranted(r)
    <3>1. on[r] \in Id /\ Claimable(on[r]) /\ Known(on[r])
      BY <2>1 DEF ClaimGranted
    <3> DEFINE c == Claimed(on[r])
    <3>2. /\ \A i \in Id : i # on[r] => c[i] = files[i]
          /\ c[on[r]].max_downloads = files[on[r]].max_downloads
          /\ c[on[r]].downloads = files[on[r]].downloads + 1
          /\ c[on[r]].downloads <= files[on[r]].max_downloads
      BY <3>1, ClaimedFields
    <3> HIDE DEF c
    <3>3. files' = c /\ grants' = [grants EXCEPT ![on[r]] = @ + 1] /\ promised' = promised
      BY <2>1 DEF ClaimGranted, c
    <3>4. files[on[r]] # None /\ files[on[r]] \in FileRecord
      BY <3>1 DEF Claimable
    <3> QED BY <3>1, <3>2, <3>3, <3>4 DEF FileRecord
  <2>2. CASE ClaimFails(r)
    <3>1. CASE UNCHANGED files
      BY <2>2, <3>1 DEF ClaimFails
    <3>2. CASE Claimable(on[r]) /\ files' = Claimed(on[r])
      <4>1. on[r] \in Id /\ Claimable(on[r]) /\ UNCHANGED <<grants, promised>>
        BY <2>2, <3>2 DEF ClaimFails
      <4> DEFINE c == Claimed(on[r])
      <4>2. /\ \A i \in Id : i # on[r] => c[i] = files[i]
            /\ c[on[r]].max_downloads = files[on[r]].max_downloads
            /\ c[on[r]].downloads = files[on[r]].downloads + 1
            /\ c[on[r]].downloads <= files[on[r]].max_downloads
        BY <4>1, ClaimedFields
      <4> HIDE DEF c
      <4>3. files' = c
        BY <3>2 DEF c
      <4>4. files[on[r]] # None /\ files[on[r]] \in FileRecord
        BY <4>1 DEF Claimable
      <4> QED BY <4>1, <4>2, <4>3, <4>4 DEF FileRecord
    <3> QED BY <2>2, <3>1, <3>2 DEF ClaimFails
  <2>3. CASE DownloadStart(r) \/ ClaimRefused(r) \/ Open(r) \/ OpenFails(r) \/ BodyDropped(r)
    <3>1. UNCHANGED <<files, promised, grants>>
      BY <2>3 DEF DownloadStart, ClaimRefused, Open, OpenFails, BodyDropped
    <3> QED BY <3>1
  <2> QED BY <1>2, <2>1, <2>2, <2>3 DEF Download
<1>3. ASSUME NEW r \in Req, Owner(r) PROVE (Counted /\ BudgetKept)'
  <2>1. CASE SetAuth(r)
    <3>1. /\ on[r] \in Id /\ key[r] \in Key /\ files' = WithAuth(on[r], key[r])
          /\ UNCHANGED <<promised, grants>>
      BY <2>1 DEF SetAuth
    <3> DEFINE w == WithAuth(on[r], key[r])
    <3>2. \A i \in Id : /\ w[i] = None <=> files[i] = None
                        /\ files[i] # None => /\ w[i].downloads = files[i].downloads
                                              /\ w[i].max_downloads = files[i].max_downloads
      BY <3>1, WithAuthFields
    <3> HIDE DEF w
    <3>3. files' = w
      BY <3>1 DEF w
    <3> QED BY <3>1, <3>2, <3>3
  <2>2. CASE OwnerDelete(r) \/ SetPassword(r) \/ SetAuthFails(r)
    <3>1. UNCHANGED <<files, promised, grants>>
      BY <2>2 DEF OwnerDelete, SetPassword, SetAuthFails
    <3> QED BY <3>1
  <2> QED BY <1>3, <2>1, <2>2 DEF Owner
<1>4. ASSUME NEW r \in Req, Hangup(r) PROVE (Counted /\ BudgetKept)'
  BY <1>4 DEF Hangup
<1>5. ASSUME NEW a \in Actor, Destroy(a) PROVE (Counted /\ BudgetKept)'
  BY <1>5 DEF Destroy, DestroyBlob, DestroyBlobFails, DestroyMeta, Forgotten,
     DestroyMetaFails
<1>6. ASSUME NEW a \in Actor, Crash(a) PROVE (Counted /\ BudgetKept)'
  BY <1>6 DEF Crash
<1>7. ASSUME NEW p \in Reaper, Sweep(p) \/ ReapNext(p) PROVE (Counted /\ BudgetKept)'
  BY <1>7 DEF Sweep, Batches, Expired, ReapNext
<1>8. CASE Tick
  BY <1>8 DEF Tick
<1>9. CASE Restart
  BY <1>9 DEF Restart
<1>10. CASE UNCHANGED vars
  BY <1>10 DEF vars
<1> QED
  BY <1>1, <1>2, <1>3, <1>4, <1>5, <1>6, <1>7, <1>8, <1>9, <1>10 DEF Next

(* The final slot keeps its one holder. *)
LEMMA FinalSlotStep == TypeOK /\ Working /\ UploadsAlone /\ Counted /\ OneFinalSlot /\
  [Next]_vars => OneFinalSlot'
<1> SUFFICES ASSUME TypeOK, Working, UploadsAlone, Counted, OneFinalSlot, [Next]_vars PROVE OneFinalSlot'
  OBVIOUS
<1> USE ServerAssumption DEF TypeOK, Working, UploadsAlone, Counted, OneFinalSlot,
        Holders, Claimable, history, actors, Known, Enter, Go, Done, Actor, Step,
        Handling, Final
<1>1. ASSUME NEW r \in Req, Upload(r) PROVE OneFinalSlot'
  BY <1>1 DEF Upload, UploadStart, UploadStored, UploadRefused, UploadRecord,
     UploadRecordFails, UploadUndo
<1>2. ASSUME NEW r \in Req, Download(r) PROVE OneFinalSlot'
  <2>1. CASE ClaimGranted(r)
    BY <2>1 DEF ClaimGranted, Claimed, LastSlot, FileRecord
  <2>2. CASE ClaimFails(r)
    BY <2>2 DEF ClaimFails, Claimed, FileRecord
  <2>3. CASE DownloadStart(r) \/ ClaimRefused(r) \/ Open(r) \/ OpenFails(r) \/ BodyDropped(r)
    BY <2>3 DEF DownloadStart, load, ClaimRefused, Open, OpenFails, BodyDropped
  <2> QED BY <1>2, <2>1, <2>2, <2>3 DEF Download
<1>3. ASSUME NEW r \in Req, Owner(r) PROVE OneFinalSlot'
  <2>1. CASE SetAuth(r)
    <3>1. on[r] \in Id /\ key[r] \in Key /\ files' = WithAuth(on[r], key[r])
      BY <2>1 DEF SetAuth
    <3> DEFINE w == WithAuth(on[r], key[r])
    <3>2. \A i \in Id : /\ w[i] = None <=> files[i] = None
                        /\ files[i] # None => /\ w[i].downloads = files[i].downloads
                                              /\ w[i].max_downloads = files[i].max_downloads
      BY <3>1, WithAuthFields
    <3> HIDE DEF w
    <3>3. files' = w
      BY <3>1 DEF w
    <3>4. \A i \in Id : Holders(i)' = Holders(i)
      BY <2>1 DEF SetAuth
    <3> QED BY <3>2, <3>3, <3>4
  <2>2. CASE OwnerDelete(r) \/ SetPassword(r) \/ SetAuthFails(r)
    BY <2>2 DEF OwnerDelete, SetPassword, load, SetAuthFails
  <2> QED BY <1>3, <2>1, <2>2 DEF Owner
<1>4. ASSUME NEW r \in Req, Hangup(r) PROVE OneFinalSlot'
  BY <1>4 DEF Hangup
<1>5. ASSUME NEW a \in Actor, Destroy(a) PROVE OneFinalSlot'
  BY <1>5 DEF Destroy, DestroyBlob, DestroyBlobFails, DestroyMeta, Forgotten,
     DestroyMetaFails
<1>6. ASSUME NEW a \in Actor, Crash(a) PROVE OneFinalSlot'
  BY <1>6 DEF Crash
<1>7. ASSUME NEW p \in Reaper, Sweep(p) \/ ReapNext(p) PROVE OneFinalSlot'
  BY <1>7 DEF Sweep, Batches, Expired, ReapNext
<1>8. CASE Tick
  BY <1>8 DEF Tick
<1>9. CASE Restart
  BY <1>9 DEF Restart
<1>10. CASE UNCHANGED vars
  BY <1>10 DEF vars
<1> QED
  BY <1>1, <1>2, <1>3, <1>4, <1>5, <1>6, <1>7, <1>8, <1>9, <1>10 DEF Next

(* Nobody takes the ciphertext of an upload that is about to record it. *)
LEMMA StoredStep == TypeOK /\ Working /\ UploadsAlone /\ Stored /\ [Next]_vars => Stored'
<1> SUFFICES ASSUME TypeOK, Working, UploadsAlone, Stored, [Next]_vars PROVE Stored'
  OBVIOUS
<1> USE ServerAssumption DEF TypeOK, Working, UploadsAlone, Stored, Expired, history, actors,
        Known, Enter, Go, Done, Actor, Step, Handling, Final
<1>1. ASSUME NEW r \in Req, Upload(r) PROVE Stored'
  BY <1>1 DEF Upload, UploadStart, UploadStored, UploadRefused, UploadRecord,
     UploadRecordFails, UploadUndo
<1>2. ASSUME NEW r \in Req, Download(r) PROVE Stored'
  BY <1>2, ClaimedFields DEF Download, DownloadStart, ClaimGranted, ClaimRefused, ClaimFails,
     Open, OpenFails, BodyDropped
<1>3. ASSUME NEW r \in Req, Owner(r) PROVE Stored'
  BY <1>3, WithAuthFields DEF Owner, OwnerDelete, SetPassword, SetAuth, SetAuthFails
<1>4. ASSUME NEW r \in Req, Hangup(r) PROVE Stored'
  BY <1>4 DEF Hangup
<1>5. ASSUME NEW a \in Actor, Destroy(a) PROVE Stored'
  BY <1>5 DEF Destroy, DestroyBlob, DestroyBlobFails, DestroyMeta, Forgotten,
     DestroyMetaFails
<1>6. ASSUME NEW a \in Actor, Crash(a) PROVE Stored'
  BY <1>6 DEF Crash
<1>7. ASSUME NEW p \in Reaper, Sweep(p) \/ ReapNext(p) PROVE Stored'
  BY <1>7 DEF Sweep, Batches, ReapNext
<1>8. CASE Tick
  BY <1>8 DEF Tick
<1>9. CASE Restart
  BY <1>9 DEF Restart
<1>10. CASE UNCHANGED vars
  BY <1>10 DEF vars
<1> QED
  BY <1>1, <1>2, <1>3, <1>4, <1>5, <1>6, <1>7, <1>8, <1>9, <1>10 DEF Next

(* What expired stays so, and no upload records a share under a destroy. *)
LEMMA CausedStep == TypeOK /\ Working /\ FreshIds /\ UploadsAlone /\ Caused /\ [Next]_vars => Caused'
<1> SUFFICES ASSUME TypeOK, Working, FreshIds, UploadsAlone, Caused, [Next]_vars PROVE Caused'
  OBVIOUS
<1> USE ServerAssumption DEF TypeOK, Working, FreshIds, UploadsAlone, Caused, Expired, history, actors,
        Known, Enter, Go, Done, Actor, Step, Handling, Final
<1>1. ASSUME NEW r \in Req, Upload(r) PROVE Caused'
  BY <1>1 DEF Upload, UploadStart, UploadStored, UploadRefused, UploadRecord,
     UploadRecordFails, UploadUndo
<1>2. ASSUME NEW r \in Req, Download(r) PROVE Caused'
  <2>1. CASE files' = files
    BY <1>2, <2>1 DEF Download, DownloadStart, ClaimGranted, ClaimRefused, ClaimFails,
       Open, OpenFails, BodyDropped
  <2>2. CASE on[r] \in Id /\ Claimable(on[r]) /\ files' = Claimed(on[r])
    <3> DEFINE c == Claimed(on[r])
    <3>1. /\ \A i \in Id : i # on[r] => c[i] = files[i]
          /\ c[on[r]] # None /\ c[on[r]].expires_at = files[on[r]].expires_at
          /\ files[on[r]] # None
      BY <2>2, ClaimedFields DEF Claimable
    <3>2. files' = c
      BY <2>2
    <3> HIDE DEF c
    <3>3. now' = now
      BY <1>2 DEF Download, DownloadStart, ClaimGranted, ClaimRefused, ClaimFails, Open,
         OpenFails, BodyDropped
    <3>4. Expired' = Expired /\ \A i \in Id : files'[i] = None <=> files[i] = None
      BY <3>1, <3>2, <3>3
    <3>5. revoked' = revoked /\ todo' = todo
      BY <1>2 DEF Download, DownloadStart, ClaimGranted, ClaimRefused, ClaimFails, Open,
         OpenFails, BodyDropped
    <3>6. \A a \in Actor : at'[a] \in {"delBlob", "delMeta"} => at'[a] = at[a] /\ on'[a] = on[a]
      BY <1>2 DEF Download, DownloadStart, ClaimGranted, ClaimRefused, ClaimFails, Open,
         OpenFails, BodyDropped
    <3> HIDE DEF Expired
    <3> QED BY <3>4, <3>5, <3>6
  <2> QED
    BY <1>2, <2>1, <2>2 DEF Download, DownloadStart, ClaimGranted, ClaimRefused, ClaimFails,
       Open, OpenFails, BodyDropped
<1>3. ASSUME NEW r \in Req, Owner(r) PROVE Caused'
  BY <1>3, WithAuthFields DEF Owner, OwnerDelete, SetPassword, SetAuth, SetAuthFails
<1>4. ASSUME NEW r \in Req, Hangup(r) PROVE Caused'
  BY <1>4 DEF Hangup
<1>5. ASSUME NEW a \in Actor, Destroy(a) PROVE Caused'
  BY <1>5 DEF Destroy, DestroyBlob, DestroyBlobFails, DestroyMeta, Forgotten,
     DestroyMetaFails
<1>6. ASSUME NEW a \in Actor, Crash(a) PROVE Caused'
  BY <1>6 DEF Crash
<1>7. ASSUME NEW p \in Reaper, Sweep(p) \/ ReapNext(p) PROVE Caused'
  BY <1>7 DEF Sweep, Batches, ReapNext
<1>8. CASE Tick
  BY <1>8 DEF Tick, FileRecord
<1>9. CASE Restart
  BY <1>9 DEF Restart
<1>10. CASE UNCHANGED vars
  BY <1>10 DEF vars
<1> QED
  BY <1>1, <1>2, <1>3, <1>4, <1>5, <1>6, <1>7, <1>8, <1>9, <1>10 DEF Next

-----------------------------------------------------------------------------
(* Invariants. *)

(* The initial state has no actor at work and no share. *)
LEMMA InitIInv == Init => IInv
<1> SUFFICES ASSUME Init PROVE IInv
  OBVIOUS
<1> USE ServerAssumption DEF Init, Actor, Step, Handling, Final
<1>1. TypeOK
  BY DEF TypeOK
<1>2. FreshIds /\ Working
  BY DEF FreshIds, Working
<1>3. UploadsAlone /\ BlobFirst
  BY DEF UploadsAlone, BlobFirst
<1>4. Counted /\ BudgetKept
  BY DEF Counted, BudgetKept
<1>5. OneFinalSlot /\ Stored /\ Caused
  BY DEF OneFinalSlot, Holders, Stored, Caused
<1> QED BY <1>1, <1>2, <1>3, <1>4, <1>5 DEF IInv

(* The parts together. *)
LEMMA IInvStep == IInv /\ [Next]_vars => IInv'
  BY TypeStep, WorkingStep, FreshStep, AloneStep, BlobFirstStep, CountedStep, FinalSlotStep,
     StoredStep, CausedStep DEF IInv

(* Every part of IInv holds in every reachable state, whatever the number  *)
(* of shares, requests and replicas and whatever fails.                    *)
THEOREM InductiveInvariant == Spec => []IInv
  BY InitIInv, IInvStep, PTL DEF Spec

(* Every variable keeps its type. *)
THEOREM TypeCorrect == Spec => []TypeOK
  <1>1. IInv => TypeOK
    BY DEF IInv
  <1> QED BY <1>1, InductiveInvariant, PTL

(* No share is handed out more often than its uploader was told            *)
(* (api.rs download, memory.rs claim_download).                            *)
THEOREM BudgetNeverExceeded == Spec => []BudgetKept
  <1>1. IInv => BudgetKept
    BY DEF IInv
  <1> QED BY <1>1, InductiveInvariant, PTL

(* Only one response ever carries the guard that destroys a share, and     *)
(* only once its budget is spent (api.rs:310-342).                         *)
THEOREM FinalSlotIsUnique == Spec => []OneFinalSlot
  <1>1. IInv => OneFinalSlot
    BY DEF IInv
  <1> QED BY <1>1, InductiveInvariant, PTL

(* With durable metadata, no ciphertext outlives its record                *)
(* (state.rs destroy: the blob goes first, and an error ends the call).    *)
THEOREM NothingOrphaned ==
  ASSUME Durable
  PROVE  Spec => []NoOrphan
<1>1. Init => NoOrphan
  BY DEF Init, NoOrphan
<1>2. IInv /\ NoOrphan /\ [Next]_vars => NoOrphan'
  <2> SUFFICES ASSUME IInv, NoOrphan, [Next]_vars PROVE NoOrphan'
    OBVIOUS
  <2> USE ServerAssumption DEF IInv, TypeOK, Working, NoOrphan, Known, history, actors, Enter,
          Go, Done, Actor, Step, Handling, Final
  <2>1. ASSUME NEW r \in Req, UploadRecord(r) PROVE NoOrphan'
    BY <2>1, NewRecordFields, AskedIsClamped DEF UploadRecord
  <2>2. ASSUME NEW r \in Req, UploadRecordFails(r) PROVE NoOrphan'
    BY <2>2, NewRecordFields DEF UploadRecordFails
  <2>3. ASSUME NEW r \in Req, UploadStart(r) \/ UploadStored(r) \/ UploadRefused(r) \/ UploadUndo(r)
        PROVE  NoOrphan'
    BY <2>3 DEF UploadStart, UploadStored, UploadRefused, UploadUndo, UploadsAlone
  <2>4. ASSUME NEW r \in Req, Download(r) PROVE NoOrphan'
    BY <2>4, ClaimedFields DEF Download, DownloadStart, ClaimGranted, ClaimRefused, ClaimFails,
       Open, OpenFails, BodyDropped
  <2>5. ASSUME NEW r \in Req, Owner(r) PROVE NoOrphan'
    BY <2>5, WithAuthFields DEF Owner, OwnerDelete, SetPassword, SetAuth, SetAuthFails
  <2>6. ASSUME NEW a \in Actor, Destroy(a) PROVE NoOrphan'
    BY <2>6 DEF Destroy, DestroyBlob, DestroyBlobFails, DestroyMeta, Forgotten,
       DestroyMetaFails, BlobFirst
  <2>7. CASE UNCHANGED <<files, blobs, promised>>
    BY <2>7
  <2> QED
    BY <2>1, <2>2, <2>3, <2>4, <2>5, <2>6, <2>7, Durable DEF Next, Upload, Hangup, Crash,
       Sweep, ReapNext, Tick, Restart, vars
<1> QED BY <1>1, <1>2, InductiveInvariant, PTL DEF Spec

(* As long as nothing fails, a spent share with its ciphertext still there *)
(* has the response of its last download, or the destroy task that one     *)
(* left, for any number of shares and of requests at once (api.rs:269).    *)
THEOREM SpentAlwaysHasBurner ==
  ASSUME Faults = {}, Stuck = {}
  PROVE  Spec => []SpentHasBurner
<1>1. Init => SpentHasBurner
  BY DEF Init, SpentHasBurner
<1>2. IInv /\ SpentHasBurner /\ [Next]_vars => SpentHasBurner'
  <2> SUFFICES ASSUME IInv, SpentHasBurner, [Next]_vars, NEW id \in blobs', Known(id)',
                      files'[id] # None, ~ Claimable(id)'
               PROVE  Holders(id)' # {}
    BY DEF SpentHasBurner
  <2>0. id \in Id
    BY TypeStep DEF IInv, TypeOK
  <2>1. ASSUME id \in blobs, Known(id), files[id] # None,
               files'[id].downloads = files[id].downloads,
               files'[id].max_downloads = files[id].max_downloads,
               Holders(id) \subseteq Holders(id)'
        PROVE  Holders(id)' # {}
    <3>1. ~ Claimable(id)
      BY <2>1 DEF Claimable
    <3> QED BY <2>1, <3>1 DEF SpentHasBurner
  <2> USE ServerAssumption DEF history, actors, Enter, Go, Done, Actor, Step, Handling, Final
  <2>2. ASSUME NEW r \in Req, Upload(r) PROVE Holders(id)' # {}
    <3>1. CASE UploadRecord(r) /\ on[r] = id
      <4>1. PICK k \in Key, d \in DownloadAsks, e \in ExpiryAsks :
              files' = [files EXCEPT ![on[r]] =
                          NewRecord(k, clamp_downloads(d), clamp_expiry(e))]
        BY <3>1 DEF UploadRecord
      <4>2. files'[id].downloads = 0 /\ files'[id].max_downloads \in Nat \ {0}
        BY <2>0, <3>1, <4>1, NewRecordFields DEF IInv, TypeOK
      <4> QED BY <4>2 DEF Claimable
    <3>2. Holders(id) \subseteq Holders(id)'
      BY <2>2 DEF Upload, UploadStart, UploadStored, UploadRefused, UploadRecord,
         UploadRecordFails, UploadUndo, Holders, IInv, TypeOK
    <3>3. CASE ~ (UploadRecord(r) /\ on[r] = id)
      <4>1. Known(id) /\ files'[id] = files[id]
        BY <2>0, <2>2, <3>3 DEF Upload, UploadStart, UploadStored, UploadRefused, UploadRecord,
           UploadRecordFails, UploadUndo, IInv, TypeOK, Known
      <4>2. id \in blobs
        BY <2>2, <4>1 DEF Upload, UploadStart, UploadStored, UploadRefused, UploadRecord,
           UploadRecordFails, UploadUndo, IInv, TypeOK, UploadsAlone, Known
      <4> QED BY <2>1, <3>2, <4>1, <4>2
    <3> QED BY <3>1, <3>3
  <2>3. ASSUME NEW r \in Req, ClaimGranted(r) PROVE Holders(id)' # {}
    <3>1. on[r] \in Id /\ Claimable(on[r])
      BY <2>3 DEF ClaimGranted, IInv, TypeOK, Working
    <3>2. CASE on[r] # id
      <4>1. files'[id] = files[id] /\ UNCHANGED <<blobs, promised>>
        BY <2>3, <3>2 DEF ClaimGranted, Claimed, IInv, TypeOK
      <4>2. Holders(id) \subseteq Holders(id)'
        BY <2>3, <3>2 DEF ClaimGranted, Holders, IInv, TypeOK
      <4> QED BY <2>1, <4>1, <4>2 DEF Known
    <3>3. CASE on[r] = id
      <4>1. /\ files'[id].downloads = files[id].downloads + 1
            /\ files'[id].downloads <= files[id].max_downloads
            /\ files'[id].max_downloads = files[id].max_downloads
            /\ files[id].downloads \in Nat /\ files[id].max_downloads \in Nat
        BY <2>0, <2>3, <3>1, <3>3, ClaimedFields DEF ClaimGranted, IInv, TypeOK, FileRecord,
           Claimable
      <4>2. LastSlot(id)
        BY <4>1 DEF Claimable, LastSlot
      <4>3. at'[r] = "openLast" /\ on'[r] = id
        BY <2>3, <3>3, <4>2 DEF ClaimGranted, IInv, TypeOK
      <4> QED BY <4>3 DEF Holders
    <3> QED BY <3>2, <3>3
  <2>4. ASSUME NEW r \in Req, Owner(r) PROVE Holders(id)' # {}
    <3>1. /\ files[id] # None /\ UNCHANGED <<blobs, promised>>
          /\ files'[id].downloads = files[id].downloads
          /\ files'[id].max_downloads = files[id].max_downloads
      BY <2>0, <2>4, WithAuthFields
      DEF Owner, OwnerDelete, SetPassword, SetAuth, SetAuthFails, IInv, TypeOK, Working
    <3>2. Holders(id) \subseteq Holders(id)'
      BY <2>4 DEF Owner, OwnerDelete, SetPassword, SetAuth, SetAuthFails, Holders, IInv, TypeOK
    <3> QED BY <2>1, <3>1, <3>2 DEF Known
  <2>5. ASSUME NEW r \in Req, Download(r), ~ ClaimGranted(r) PROVE Holders(id)' # {}
    <3>1. UNCHANGED <<files, blobs, promised>>
      BY <2>5 DEF Download, DownloadStart, ClaimRefused, ClaimFails, Open, OpenFails, BodyDropped
    <3>2. Holders(id) \subseteq Holders(id)'
      BY <2>5, <3>1 DEF Download, DownloadStart, ClaimRefused, ClaimFails, Open, OpenFails,
         BodyDropped, Holders, IInv, TypeOK
    <3> QED BY <2>1, <3>1, <3>2 DEF Known
  <2>6. ASSUME NEW a \in Actor, Destroy(a) PROVE Holders(id)' # {}
    <3>1. /\ files[id] # None /\ files'[id] = files[id] /\ promised' = promised
          /\ on[a] = id => (DestroyBlob(a) /\ id \notin blobs') \/ DestroyMeta(a)
      BY <2>0, <2>6 DEF Destroy, DestroyBlob, DestroyBlobFails, DestroyMeta, DestroyMetaFails,
         Forgotten, DeleteMayFail, CanDelete, IInv, TypeOK
    <3>2. on[a] # id
      BY <2>0, <2>6, <3>1 DEF DestroyMeta, Forgotten, IInv, TypeOK
    <3>3. id \in blobs /\ Holders(id) \subseteq Holders(id)'
      BY <2>6, <3>2 DEF Destroy, DestroyBlob, DestroyBlobFails, DestroyMeta, DestroyMetaFails,
         Holders, IInv, TypeOK
    <3> QED BY <2>1, <3>1, <3>3 DEF Known
  <2>7. CASE UNCHANGED <<files, blobs, promised>> /\ Holders(id) \subseteq Holders(id)'
    BY <2>1, <2>7 DEF Known
  <2>8. ASSUME NEW p \in Reaper, Sweep(p) \/ ReapNext(p)
        PROVE  UNCHANGED <<files, blobs, promised>> /\ Holders(id) \subseteq Holders(id)'
    BY <2>8 DEF Sweep, ReapNext, Holders, IInv, TypeOK
  <2>9. ASSUME Tick \/ UNCHANGED vars
        PROVE  UNCHANGED <<files, blobs, promised>> /\ Holders(id) \subseteq Holders(id)'
    BY <2>9 DEF Tick, vars, Holders
  <2> QED
    BY <2>2, <2>3, <2>4, <2>5, <2>6, <2>7, <2>8, <2>9 DEF Next, Hangup, Crash, Restart
<1> QED BY <1>1, <1>2, InductiveInvariant, PTL DEF Spec

(* A record that is gone is never put back, and nothing is granted on it   *)
(* (memory.rs set_auth changes a record, it never makes one).              *)
THEOREM GoneForGood == Spec => NeverReturns
<1>1. IInv /\ [Next]_vars =>
        [\A id \in Id : Known(id) /\ files[id] = None
           => files'[id] = None /\ grants'[id] = grants[id]]_vars
  <2> SUFFICES ASSUME IInv, [Next]_vars, NEW id \in Id, Known(id), files[id] = None
               PROVE  files'[id] = None /\ grants'[id] = grants[id]
    BY DEF vars
  <2> USE ServerAssumption DEF IInv, TypeOK, Working, Known, history, actors, Enter, Go, Done,
          Actor, Step, Handling, Final
  <2>1. ASSUME NEW r \in Req, Upload(r) PROVE files'[id] = None /\ grants'[id] = grants[id]
    BY <2>1 DEF Upload, UploadStart, UploadStored, UploadRefused, UploadRecord,
       UploadRecordFails, UploadUndo, UploadsAlone
  <2>2. ASSUME NEW r \in Req, Download(r) PROVE files'[id] = None /\ grants'[id] = grants[id]
    BY <2>2, ClaimedFields DEF Download, DownloadStart, ClaimGranted, ClaimRefused, ClaimFails,
       Open, OpenFails, BodyDropped, Claimable
  <2>3. ASSUME NEW r \in Req, Owner(r) PROVE files'[id] = None /\ grants'[id] = grants[id]
    BY <2>3, WithAuthFields DEF Owner, OwnerDelete, SetPassword, SetAuth, SetAuthFails
  <2>4. ASSUME NEW a \in Actor, Destroy(a) PROVE files'[id] = None /\ grants'[id] = grants[id]
    BY <2>4 DEF Destroy, DestroyBlob, DestroyBlobFails, DestroyMeta, Forgotten, DestroyMetaFails
  <2>5. CASE Restart
    BY <2>5 DEF Restart
  <2>6. CASE UNCHANGED <<files, grants>>
    BY <2>6
  <2> QED
    BY <2>1, <2>2, <2>3, <2>4, <2>5, <2>6 DEF Next, Hangup, Crash, Sweep, ReapNext, Tick, vars
<1> QED BY <1>1, InductiveInvariant, PTL DEF Spec, NeverReturns
=============================================================================
