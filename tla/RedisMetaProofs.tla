--------------------------- MODULE RedisMetaProofs ---------------------------
(* The Redis store's invariants for any number of callers and shares, and  *)
(* that it implements the MetaStore trait, from an inductive invariant.    *)
EXTENDS RedisMeta, TLAPS

-----------------------------------------------------------------------------
(* The inductive invariant, in named parts. *)

Putting == {"hset", "expire", "zadd"}  \* put is under way: nobody knows the share yet
Handling == {"eval", "hgetRec", "hgetDownloads", "hsetRec"}  \* a handler found the record

(* Which of its variables a caller uses at each command, and what it knows *)
(* of the share it is about.                                               *)
Role(c) ==
  /\ IF at[c] = "idle" THEN on[c] = None ELSE on[c] \in used
  /\ at[c] \in Handling => Known(on[c])
  /\ at[c] \in {"hgetRec", "hgetDownloads", "hsetRec"} => new[c] \in Key
  /\ at[c] \in Putting \cup {"hgetDownloads", "hsetRec"} => seen[c] \in Rec
  /\ at[c] \in {"del", "zrem"} => on[c] \notin blobs

(* A put has its share to itself, and the hash is as far as its commands. *)
PutSoFar(c) ==
  at[c] \in Putting =>
    /\ promised[on[c]] = 0 /\ zset[on[c]] = None /\ on[c] \notin deleted
    /\ seen[c].downloads = 0 /\ seen[c].max_downloads \in Budgets /\ seen[c].created_at <= now
    /\ at[c] = "hset" => hash[on[c]] = NoHash
    /\ at[c] = "expire" => hash[on[c]] = FreshHash(seen[c])
    /\ at[c] = "zadd" => \/ hash[on[c]].max_downloads = None
                         \/ /\ hash[on[c]].max_downloads = seen[c].max_downloads
                            /\ hash[on[c]].downloads = 0

Alone(c) ==
  at[c] \in Putting => \A d \in Caller \ {c} : on[d] # on[c]

(* What a password change has read does not change the expiry it writes back. *)
SameExpiry(c) ==
  at[c] \in {"hgetDownloads", "hsetRec"} /\ hash[on[c]].max_downloads # None =>
    seen[c].expires_at = hash[on[c]].rec.expires_at

(* A hash that has a budget is whole, and its TTL comes after its expiry. *)
Whole(id) ==
  hash[id].max_downloads # None =>
    /\ hash[id].rec # None /\ hash[id].downloads # None
    /\ hash[id].ttl # None => hash[id].rec.expires_at < hash[id].ttl

(* Slots are granted from the budget promised, once published, and counted. *)
Counted(id) ==
  /\ ~ Known(id) => granted[id] = 0
  /\ Known(id) /\ hash[id].max_downloads # None =>
       /\ hash[id].max_downloads = promised[id]
       /\ granted[id] <= hash[id].downloads
  /\ granted[id] <= promised[id]

Unused(id) ==
  id \notin used =>
    /\ hash[id] = NoHash /\ zset[id] = None /\ promised[id] = 0
    /\ id \notin blobs /\ id \notin deleted

(* The record's max_downloads field never comes back. *)
Revoked(id) == id \in deleted => hash[id].max_downloads = None

Indexed(id) == id \in blobs /\ Known(id) => zset[id] # None

IInv ==
  /\ TypeOK
  /\ \A c \in Caller : Role(c) /\ PutSoFar(c) /\ Alone(c) /\ SameExpiry(c)
  /\ \A id \in Id : Whole(id) /\ Counted(id) /\ Unused(id) /\ Revoked(id) /\ Indexed(id)


-----------------------------------------------------------------------------
(* Lemmas about the operators the actions are built from. *)

(* The share a caller is about is one that has been drawn. *)
LEMMA OnItsShare ==
  ASSUME TypeOK, NEW c \in Caller, Role(c), at[c] # "idle"
  PROVE  on[c] \in Id /\ on[c] \in used
  BY DEF TypeOK, Role

(* The fields of a hash. *)
LEMMA HashFields ==
  ASSUME TypeOK, NEW id \in Id
  PROVE  /\ hash[id] \in Hash
         /\ hash[id].rec \in Maybe(Rec) /\ hash[id].downloads \in Maybe(Nat)
         /\ hash[id].max_downloads \in Maybe(Nat) /\ hash[id].ttl \in Maybe(Nat)
  BY DEF TypeOK, Hash

(* HSET, HINCRBY and EXPIRE leave a hash. *)
LEMMA FieldWritten ==
  ASSUME NEW h \in Hash
  PROVE  /\ \A r \in Rec : [h EXCEPT !.rec = r] \in Hash
         /\ \A n \in Nat : [h EXCEPT !.downloads = n] \in Hash /\ [h EXCEPT !.ttl = n] \in Hash
  BY DEF Hash, Maybe

LEMMA FreshHashType ==
  ASSUME NEW r \in Rec
  PROVE  FreshHash(r) \in Hash
  BY DEF FreshHash, Hash, Rec, Maybe

(* The upload handler's record. *)
LEMMA NewRecType ==
  ASSUME now \in Nat, NEW k \in Key, NEW b \in Budgets, NEW l \in Lifetimes
  PROVE  /\ NewRec(k, b, l) \in Rec
         /\ NewRec(k, b, l).downloads = 0 /\ NewRec(k, b, l).max_downloads = b
         /\ NewRec(k, b, l).created_at = now
  BY RedisAssumption DEF NewRec, Rec

LEMMA UploadsRecord ==
  ASSUME TypeOK, NEW c \in Caller, PutCalled(c)
  PROVE  seen'[c] \in Rec
  BY NewRecType DEF TypeOK, PutCalled

(* The TTL put sets comes after the expiry. *)
LEMMA TtlLater ==
  ASSUME now \in Nat, NEW r \in Rec, r.created_at <= now
  PROVE  TtlAfter(r) \in Nat /\ r.expires_at < TtlAfter(r)
  BY RedisAssumption DEF TtlAfter, Rec

(* A password change writes a record back, changed in its auth alone. *)
LEMMA RewrittenType ==
  ASSUME NEW r \in Rec, NEW k \in Key
  PROVE  /\ [r EXCEPT !.auth = k] \in Rec
         /\ [r EXCEPT !.auth = k].expires_at = r.expires_at
         /\ [r EXCEPT !.auth = k].auth = k
  BY DEF Rec

(* The script grants from an unspent budget. *)
LEMMA GrantsFields ==
  ASSUME TypeOK, NEW id \in Id, Grants(hash[id])
  PROVE  /\ hash[id].max_downloads \in Nat /\ hash[id].max_downloads # None
         /\ or0(hash[id].downloads) \in Nat /\ or0(hash[id].downloads) + 1 \in Nat
         /\ or0(hash[id].downloads) < hash[id].max_downloads
  BY HashFields, RedisAssumption DEF Grants, or0, Maybe

-----------------------------------------------------------------------------
(* Commands and calls that write nothing the callers share. *)

Reads(c) ==
  \/ ClaimCalled(c) \/ SetAuthCalled(c) \/ LoadRec(c) \/ LoadDownloads(c)
  \/ DestroyCalled(c) \/ ReapCalled(c) \/ Drop(c)

LEMMA ReadsOnly ==
  ASSUME NEW c \in Caller, Reads(c)
  PROVE  UNCHANGED <<now, hash, zset, blobs, used, promised, granted, deleted>>
  BY DEF Reads, ClaimCalled, SetAuthCalled, LoadRec, LoadDownloads, DestroyCalled,
         ReapCalled, Drop, history

-----------------------------------------------------------------------------
(* What the commands that write a hash leave of it: their own share's hash *)
(* field by field, and every other hash alone.                             *)

LEMMA HsetWrites ==
  ASSUME IInv, NEW c \in Caller, PutHset(c)
  PROVE  /\ at[c] = "hset" /\ Then(c, "expire") /\ UNCHANGED <<now, zset, blobs, used, history>>
         /\ on[c] \in Id /\ seen[c] \in Rec
         /\ \A id \in Id \ {on[c]} : hash'[id] = hash[id]
         /\ hash'[on[c]] = FreshHash(seen[c])
         /\ hash'[on[c]].rec = seen[c] /\ seen[c] # None
         /\ hash'[on[c]].downloads = 0
         /\ hash'[on[c]].max_downloads = seen[c].max_downloads
         /\ hash'[on[c]].ttl = None
<1>1. on[c] \in Id /\ seen[c] \in Rec /\ seen[c].downloads = 0
  BY OnItsShare DEF IInv, Role, PutSoFar, Putting, PutHset
<1>2. /\ at[c] = "hset" /\ Then(c, "expire") /\ UNCHANGED <<now, zset, blobs, used, history>>
      /\ hash' = [hash EXCEPT ![on[c]] = FreshHash(seen[c])] /\ hash \in [Id -> Hash]
  BY DEF PutHset, IInv, TypeOK
<1>3. /\ \A id \in Id \ {on[c]} : hash'[id] = hash[id]
      /\ hash'[on[c]] = FreshHash(seen[c])
  BY <1>1, <1>2
<1>4. /\ FreshHash(seen[c]).rec = seen[c] /\ FreshHash(seen[c]).downloads = 0
      /\ FreshHash(seen[c]).max_downloads = seen[c].max_downloads
      /\ FreshHash(seen[c]).ttl = None
  BY <1>1 DEF FreshHash
<1>5. seen[c] # None
  BY <1>1, RedisAssumption
<1> QED BY <1>1, <1>2, <1>3, <1>4, <1>5

LEMMA ExpireWrites ==
  ASSUME IInv, NEW c \in Caller, PutExpire(c)
  PROVE  /\ at[c] = "expire" /\ Then(c, "zadd") /\ UNCHANGED <<now, zset, blobs, used, history>>
         /\ on[c] \in Id /\ seen[c] \in Rec
         /\ \A id \in Id \ {on[c]} : hash'[id] = hash[id]
         /\ hash'[on[c]].rec = seen[c] /\ hash[on[c]].rec = seen[c] /\ seen[c] # None
         /\ hash'[on[c]].downloads = 0 /\ hash[on[c]].downloads = 0
         /\ hash'[on[c]].max_downloads = seen[c].max_downloads
         /\ hash[on[c]].max_downloads = seen[c].max_downloads
         /\ seen[c].expires_at < hash'[on[c]].ttl
  <1> USE DEF IInv, Role, PutSoFar, Putting
  <1>1. /\ on[c] \in Id /\ seen[c] \in Rec /\ hash[on[c]] = FreshHash(seen[c])
        /\ seen[c].created_at <= now /\ now \in Nat /\ seen[c].downloads = 0
        /\ hash' = [hash EXCEPT ![on[c]].ttl = TtlAfter(seen[c])]
    BY OnItsShare DEF PutExpire, TypeOK
  <1>2. seen[c].expires_at < TtlAfter(seen[c]) /\ seen[c] # None
    BY <1>1, TtlLater, RedisAssumption
  <1> QED BY <1>1, <1>2 DEF PutExpire, TypeOK, Hash, FreshHash

LEMMA ClaimWrites ==
  ASSUME IInv, NEW c \in Caller, ClaimScript(c), Grants(hash[on[c]])
  PROVE  /\ at[c] = "eval" /\ Return(c)
         /\ UNCHANGED <<now, zset, blobs, used, promised, deleted>>
         /\ on[c] \in Id /\ Known(on[c])
         /\ \A id \in Id \ {on[c]} : hash'[id] = hash[id] /\ granted'[id] = granted[id]
         /\ granted'[on[c]] = granted[on[c]] + 1
         /\ hash[on[c]].max_downloads # None /\ hash[on[c]].max_downloads \in Nat
         /\ hash[on[c]].downloads \in Nat /\ hash[on[c]].downloads < hash[on[c]].max_downloads
         /\ hash'[on[c]].downloads = hash[on[c]].downloads + 1 /\ hash'[on[c]].downloads # None
         /\ hash'[on[c]].max_downloads = hash[on[c]].max_downloads
         /\ hash'[on[c]].rec = hash[on[c]].rec
         /\ hash'[on[c]].ttl = hash[on[c]].ttl
  <1> USE DEF IInv, Role, Handling
  <1>1. /\ on[c] \in Id /\ Known(on[c])
        /\ hash' = [hash EXCEPT ![on[c]].downloads = or0(hash[on[c]].downloads) + 1]
        /\ granted' = [granted EXCEPT ![on[c]] = @ + 1]
    BY OnItsShare DEF ClaimScript
  <1>2. /\ hash[on[c]].max_downloads # None /\ hash[on[c]].max_downloads \in Nat
        /\ hash[on[c]].downloads \in Nat /\ or0(hash[on[c]].downloads) = hash[on[c]].downloads
        /\ hash[on[c]].downloads < hash[on[c]].max_downloads
        /\ hash[on[c]].downloads + 1 # None
    BY <1>1, GrantsFields, HashFields, RedisAssumption DEF Whole, Maybe, or0
  <1>3. hash' = [hash EXCEPT ![on[c]] = [hash[on[c]] EXCEPT !.downloads = hash[on[c]].downloads + 1]]
    BY <1>1, <1>2
  <1> QED BY <1>1, <1>2, <1>3, HashFields DEF ClaimScript, TypeOK, Hash

LEMMA SetAuthWrites ==
  ASSUME IInv, NEW c \in Caller, SetAuthHset(c)
  PROVE  /\ at[c] = "hsetRec" /\ Return(c) /\ UNCHANGED <<now, zset, blobs, used, history>>
         /\ on[c] \in Id /\ Known(on[c]) /\ new[c] \in Key /\ seen[c] \in Rec
         /\ \A id \in Id \ {on[c]} : hash'[id] = hash[id]
         /\ hash'[on[c]].rec # None
         /\ hash'[on[c]].rec.auth = new[c]
         /\ hash'[on[c]].rec.expires_at = seen[c].expires_at
         /\ hash'[on[c]].downloads = hash[on[c]].downloads
         /\ hash'[on[c]].max_downloads = hash[on[c]].max_downloads
         /\ hash'[on[c]].ttl = hash[on[c]].ttl
  <1> USE DEF IInv, Role, Handling
  <1> DEFINE r == [seen[c] EXCEPT !.auth = new[c]]
  <1>1. /\ on[c] \in Id /\ Known(on[c]) /\ new[c] \in Key /\ seen[c] \in Rec
        /\ r \in Rec /\ r # None /\ r.expires_at = seen[c].expires_at /\ r.auth = new[c]
        /\ hash' = [hash EXCEPT ![on[c]].rec = r]
    BY OnItsShare, RewrittenType, RedisAssumption DEF SetAuthHset
  <1> HIDE DEF r
  <1> QED BY <1>1 DEF SetAuthHset, TypeOK, Hash

LEMMA DelWrites ==
  ASSUME IInv, NEW c \in Caller, DeleteDel(c)
  PROVE  /\ at[c] = "del" /\ Then(c, "zrem") /\ deleted' = deleted \cup {on[c]}
         /\ UNCHANGED <<now, zset, blobs, used, promised, granted>>
         /\ on[c] \in Id /\ on[c] \in used
         /\ \A id \in Id \ {on[c]} : hash'[id] = hash[id]
         /\ hash'[on[c]] = NoHash /\ hash'[on[c]].max_downloads = None
  BY OnItsShare DEF IInv, TypeOK, DeleteDel, NoHash

(* The TTL takes a whole hash, and only one whose share has expired. *)
LEMMA TickWrites ==
  ASSUME IInv, Tick, NEW id \in Id
  PROVE  \/ hash'[id] = hash[id]
         \/ /\ hash'[id] = NoHash /\ hash[id].ttl # None
            /\ hash[id].max_downloads # None => hash[id].rec.expires_at < now + 1
  <1>1. hash'[id] = AfterTtl(hash[id], now + 1)
    BY DEF Tick
  <1>2. now \in Nat /\ hash[id].ttl \in Maybe(Nat) /\ hash[id].rec \in Maybe(Rec)
    BY HashFields DEF IInv, TypeOK
  <1>3. hash[id].max_downloads # None => hash[id].rec.expires_at \in Nat
    BY <1>2 DEF IInv, Whole, Maybe, Rec
  <1> QED BY <1>1, <1>2, <1>3 DEF IInv, Whole, Maybe, AfterTtl

-----------------------------------------------------------------------------
(* Type correctness. *)

LEMMA TypeStep == TypeOK /\ (\A x \in Caller : Role(x) /\ PutSoFar(x)) /\ [Next]_vars => TypeOK'
<1> SUFFICES ASSUME TypeOK /\ (\A x \in Caller : Role(x) /\ PutSoFar(x)),
   [Next]_vars PROVE TypeOK'
  OBVIOUS
<1> USE RedisAssumption
   DEF TypeOK, Role, Putting, Handling, Hash, NoHash, Rec, Maybe, Command, Call, Then, Return,
      callers, history
<1>1. ASSUME NEW c \in Caller, PutCalled(c) PROVE TypeOK'
  BY <1>1, NewRecType DEF PutCalled
<1>2. ASSUME NEW c \in Caller, PutHset(c) PROVE TypeOK'
  BY <1>2, FreshHashType DEF PutHset, FreshHash
<1>3. ASSUME NEW c \in Caller, PutExpire(c) PROVE TypeOK'
  <2>1. TtlAfter(seen[c]) \in Nat
    BY <1>3, TtlLater DEF PutExpire, PutSoFar
  <2>2. hash' \in [Id -> Hash]
    <3>1. on[c] \in Id /\ hash[on[c]] \in Hash
      BY <1>3, OnItsShare DEF PutExpire
    <3>2. [hash[on[c]] EXCEPT !.ttl = TtlAfter(seen[c])] \in Hash
      BY <2>1, <3>1
    <3>3. hash' = [hash EXCEPT ![on[c]] = [hash[on[c]] EXCEPT !.ttl = TtlAfter(seen[c])]]
      BY <1>3, <3>1, Zenon DEF PutExpire
    <3> QED BY <3>2, <3>3
  <2> QED BY <1>3, <2>2 DEF PutExpire
<1>4. ASSUME NEW c \in Caller, PutZadd(c) PROVE TypeOK'
  BY <1>4 DEF PutZadd
<1>5. ASSUME NEW c \in Caller, PutFails(c) PROVE TypeOK'
  BY <1>5 DEF PutFails
<1>6. ASSUME NEW c \in Caller, PutUndone(c) PROVE TypeOK'
  BY <1>6 DEF PutUndone
<1>7. ASSUME NEW c \in Caller, ClaimCalled(c) PROVE TypeOK'
  BY <1>7 DEF ClaimCalled, load
<1>8. ASSUME NEW c \in Caller, ClaimScript(c) PROVE TypeOK'
  <2>1. on[c] \in Id
    BY <1>8, OnItsShare DEF ClaimScript
  <2> DEFINE n == or0(hash[on[c]].downloads) + 1
  <2>2. Grants(hash[on[c]]) =>
          n \in Nat /\ hash' = [hash EXCEPT ![on[c]] = [hash[on[c]] EXCEPT !.downloads = n]]
    BY <1>8, <2>1, GrantsFields DEF ClaimScript
  <2> HIDE DEF n
  <2>3. hash' \in [Id -> Hash]
    <3>1. CASE Grants(hash[on[c]])
      <4>1. [hash[on[c]] EXCEPT !.downloads = n] \in Hash
        BY <2>1, <2>2, <3>1, FieldWritten, HashFields
      <4> HIDE DEF Hash
      <4> QED BY <2>1, <2>2, <3>1, <4>1
    <3>2. CASE ~ Grants(hash[on[c]])
      BY <1>8, <3>2 DEF ClaimScript
    <3> QED BY <3>1, <3>2
  <2>4. granted' \in [Id -> Nat]
    BY <1>8, <2>1 DEF ClaimScript
  <2> HIDE DEF Hash
  <2> QED BY <1>8, <2>3, <2>4 DEF ClaimScript
<1>9. ASSUME NEW c \in Caller, SetAuthCalled(c) PROVE TypeOK'
  BY <1>9 DEF SetAuthCalled, load
<1>10. ASSUME NEW c \in Caller, LoadRec(c) PROVE TypeOK'
  <2>1. on[c] \in Id /\ hash[on[c]].rec \in Maybe(Rec)
    BY <1>10, OnItsShare, HashFields DEF LoadRec
  <2> HIDE DEF Hash, Rec
  <2> QED BY <1>10, <2>1 DEF LoadRec
<1>11. ASSUME NEW c \in Caller, LoadDownloads(c) PROVE TypeOK'
  BY <1>11 DEF LoadDownloads, unwrap_or
<1>12. ASSUME NEW c \in Caller, SetAuthHset(c) PROVE TypeOK'
  <2> DEFINE r == [seen[c] EXCEPT !.auth = new[c]]
  <2>1. on[c] \in Id /\ r \in Rec
    BY <1>12, OnItsShare, RewrittenType DEF SetAuthHset
  <2>2. hash' = [hash EXCEPT ![on[c]] = [hash[on[c]] EXCEPT !.rec = r]]
    BY <1>12 DEF SetAuthHset
  <2> HIDE DEF r
  <2>3. [hash[on[c]] EXCEPT !.rec = r] \in Hash
    BY <2>1, FieldWritten, HashFields
  <2> HIDE DEF Hash
  <2>4. hash' \in [Id -> Hash]
    BY <2>1, <2>2, <2>3
  <2> QED BY <1>12, <2>4 DEF SetAuthHset
<1>13. ASSUME NEW c \in Caller, DestroyCalled(c) PROVE TypeOK'
  BY <1>13 DEF DestroyCalled, load
<1>14. ASSUME NEW c \in Caller, ReapCalled(c) PROVE TypeOK'
  BY <1>14 DEF ReapCalled, Due
<1>15. ASSUME NEW c \in Caller, DeleteBlob(c) PROVE TypeOK'
  BY <1>15 DEF DeleteBlob
<1>16. ASSUME NEW c \in Caller, DeleteDel(c) PROVE TypeOK'
  BY <1>16 DEF DeleteDel
<1>17. ASSUME NEW c \in Caller, DeleteZrem(c) PROVE TypeOK'
  BY <1>17 DEF DeleteZrem
<1>18. ASSUME NEW c \in Caller, Drop(c) PROVE TypeOK'
  BY <1>18 DEF Drop
<1>19. CASE Tick
  BY <1>19 DEF Tick, AfterTtl
<1>20. CASE UNCHANGED vars
  BY <1>20 DEF vars
<1> QED
  BY <1>1, <1>2, <1>3, <1>4, <1>5, <1>6, <1>7, <1>8, <1>9, <1>10, <1>11, <1>12, <1>13, <1>14,
     <1>15, <1>16, <1>17, <1>18, <1>19, <1>20 DEF Next, Put, ClaimDownload, SetAuth, Destroy

-----------------------------------------------------------------------------
(* What callers know. *)

(* A caller keeps to its role, and what it knows of its share stays true. *)
LEMMA RoleStep == IInv /\ [Next]_vars => \A x \in Caller : Role(x)'
<1> SUFFICES ASSUME IInv, [Next]_vars PROVE \A x \in Caller : Role(x)'
  OBVIOUS
<1> USE RedisAssumption
   DEF IInv, TypeOK, Role, Putting, Handling, Known, Maybe, Command, Call, Then, Return,
      callers, history, PutSoFar
<1>1. ASSUME NEW c \in Caller, PutCalled(c) PROVE \A x \in Caller : Role(x)'
  <2>1. seen'[c] \in Rec
    BY <1>1, UploadsRecord
  <2> QED BY <1>1, <2>1 DEF PutCalled
<1>2. ASSUME NEW c \in Caller, PutHset(c) PROVE \A x \in Caller : Role(x)'
  BY <1>2 DEF PutHset, FreshHash
<1>3. ASSUME NEW c \in Caller, PutExpire(c) PROVE \A x \in Caller : Role(x)'
  BY <1>3 DEF PutExpire, TtlAfter
<1>4. ASSUME NEW c \in Caller, PutZadd(c) PROVE \A x \in Caller : Role(x)'
  BY <1>4 DEF PutZadd
<1>5. ASSUME NEW c \in Caller, PutFails(c) PROVE \A x \in Caller : Role(x)'
  BY <1>5 DEF PutFails
<1>6. ASSUME NEW c \in Caller, PutUndone(c) PROVE \A x \in Caller : Role(x)'
  BY <1>6 DEF PutUndone
<1>7. ASSUME NEW c \in Caller, ClaimCalled(c) PROVE \A x \in Caller : Role(x)'
  BY <1>7 DEF ClaimCalled, load, Unused
<1>8. ASSUME NEW c \in Caller, ClaimScript(c) PROVE \A x \in Caller : Role(x)'
  BY <1>8 DEF ClaimScript, or0
<1>9. ASSUME NEW c \in Caller, SetAuthCalled(c) PROVE \A x \in Caller : Role(x)'
  BY <1>9 DEF SetAuthCalled, load, Unused
<1>10. ASSUME NEW c \in Caller, LoadRec(c) PROVE \A x \in Caller : Role(x)'
  BY <1>10, OnItsShare, HashFields DEF LoadRec
<1>11. ASSUME NEW c \in Caller, LoadDownloads(c) PROVE \A x \in Caller : Role(x)'
  BY <1>11, OnItsShare, HashFields DEF LoadDownloads, unwrap_or, Rec
<1>12. ASSUME NEW c \in Caller, SetAuthHset(c) PROVE \A x \in Caller : Role(x)'
  BY <1>12 DEF SetAuthHset
<1>13. ASSUME NEW c \in Caller, DestroyCalled(c) PROVE \A x \in Caller : Role(x)'
  BY <1>13 DEF DestroyCalled, load, Unused
<1>14. ASSUME NEW c \in Caller, ReapCalled(c) PROVE \A x \in Caller : Role(x)'
  BY <1>14 DEF ReapCalled, Due, Unused
<1>15. ASSUME NEW c \in Caller, DeleteBlob(c) PROVE \A x \in Caller : Role(x)'
  BY <1>15 DEF DeleteBlob
<1>16. ASSUME NEW c \in Caller, DeleteDel(c) PROVE \A x \in Caller : Role(x)'
  BY <1>16 DEF DeleteDel
<1>17. ASSUME NEW c \in Caller, DeleteZrem(c) PROVE \A x \in Caller : Role(x)'
  BY <1>17 DEF DeleteZrem
<1>18. ASSUME NEW c \in Caller, Drop(c) PROVE \A x \in Caller : Role(x)'
  BY <1>18 DEF Drop
<1>19. CASE Tick
  BY <1>19 DEF Tick, AfterTtl
<1>20. CASE UNCHANGED vars
  BY <1>20 DEF vars
<1> QED
  BY <1>1, <1>2, <1>3, <1>4, <1>5, <1>6, <1>7, <1>8, <1>9, <1>10, <1>11, <1>12, <1>13, <1>14,
     <1>15, <1>16, <1>17, <1>18, <1>19, <1>20 DEF Next, Put, ClaimDownload, SetAuth, Destroy

(* No one comes between a put and its share. *)
LEMMA PutStep == IInv /\ [Next]_vars => \A x \in Caller : PutSoFar(x)'
<1> SUFFICES ASSUME IInv, [Next]_vars PROVE \A x \in Caller : PutSoFar(x)'
  OBVIOUS
<1> USE RedisAssumption
   DEF IInv, TypeOK, Role, Putting, Handling, Known, Maybe, Command, Call, Then, Return,
      callers, history, PutSoFar, Alone, Unused, NoHash
<1>1. ASSUME NEW c \in Caller, PutCalled(c) PROVE \A x \in Caller : PutSoFar(x)'
  BY <1>1, NewRecType DEF PutCalled
<1>2. ASSUME NEW c \in Caller, PutHset(c) PROVE \A x \in Caller : PutSoFar(x)'
  BY <1>2, HsetWrites DEF Rec
<1>3. ASSUME NEW c \in Caller, PutExpire(c) PROVE \A x \in Caller : PutSoFar(x)'
  BY <1>3, ExpireWrites DEF Rec
<1>4. ASSUME NEW c \in Caller, PutZadd(c) PROVE \A x \in Caller : PutSoFar(x)'
  BY <1>4 DEF PutZadd
<1>5. ASSUME NEW c \in Caller, PutFails(c) PROVE \A x \in Caller : PutSoFar(x)'
  BY <1>5 DEF PutFails
<1>6. ASSUME NEW c \in Caller, PutUndone(c) PROVE \A x \in Caller : PutSoFar(x)'
  BY <1>6 DEF PutUndone
<1>7. ASSUME NEW c \in Caller, ClaimCalled(c) PROVE \A x \in Caller : PutSoFar(x)'
  BY <1>7 DEF ClaimCalled, load
<1>8. ASSUME NEW c \in Caller, ClaimScript(c) PROVE \A x \in Caller : PutSoFar(x)'
  BY <1>8 DEF ClaimScript, or0
<1>9. ASSUME NEW c \in Caller, SetAuthCalled(c) PROVE \A x \in Caller : PutSoFar(x)'
  BY <1>9 DEF SetAuthCalled, load
<1>10. ASSUME NEW c \in Caller, LoadRec(c) PROVE \A x \in Caller : PutSoFar(x)'
  BY <1>10, OnItsShare, HashFields DEF LoadRec
<1>11. ASSUME NEW c \in Caller, LoadDownloads(c) PROVE \A x \in Caller : PutSoFar(x)'
  BY <1>11, OnItsShare, HashFields DEF LoadDownloads, unwrap_or
<1>12. ASSUME NEW c \in Caller, SetAuthHset(c) PROVE \A x \in Caller : PutSoFar(x)'
  BY <1>12 DEF SetAuthHset
<1>13. ASSUME NEW c \in Caller, DestroyCalled(c) PROVE \A x \in Caller : PutSoFar(x)'
  BY <1>13 DEF DestroyCalled, load
<1>14. ASSUME NEW c \in Caller, ReapCalled(c) PROVE \A x \in Caller : PutSoFar(x)'
  BY <1>14 DEF ReapCalled, Due
<1>15. ASSUME NEW c \in Caller, DeleteBlob(c) PROVE \A x \in Caller : PutSoFar(x)'
  BY <1>15 DEF DeleteBlob
<1>16. ASSUME NEW c \in Caller, DeleteDel(c) PROVE \A x \in Caller : PutSoFar(x)'
  BY <1>16 DEF DeleteDel
<1>17. ASSUME NEW c \in Caller, DeleteZrem(c) PROVE \A x \in Caller : PutSoFar(x)'
  BY <1>17 DEF DeleteZrem
<1>18. ASSUME NEW c \in Caller, Drop(c) PROVE \A x \in Caller : PutSoFar(x)'
  BY <1>18 DEF Drop
<1>19. CASE Tick
  <2> SUFFICES ASSUME NEW x \in Caller, at[x] \in Putting PROVE PutSoFar(x)'
    BY <1>19 DEF Tick
  <2>1. on[x] \in Id
    BY OnItsShare
  <2>2. \/ hash'[on[x]] = hash[on[x]]
        \/ hash'[on[x]] = NoHash /\ hash[on[x]].ttl # None
    BY <1>19, <2>1, TickWrites
  <2>3. seen[x].created_at <= now'
    BY <1>19 DEF Tick, Rec
  <2>4. UNCHANGED <<zset, at, on, seen, promised, deleted>>
    BY <1>19 DEF Tick
  <2>5. /\ at[x] = "hset" => hash'[on[x]] = NoHash
        /\ at[x] = "expire" => hash'[on[x]] = FreshHash(seen[x])
    <3>1. FreshHash(seen[x]).ttl = None
      BY DEF FreshHash
    <3> QED BY <2>2, <3>1
  <2>6. at[x] = "zadd" => \/ hash'[on[x]].max_downloads = None
                         \/ /\ hash'[on[x]].max_downloads = seen[x].max_downloads
                            /\ hash'[on[x]].downloads = 0
    BY <2>2
  <2> QED BY <2>3, <2>4, <2>5, <2>6
<1>20. CASE UNCHANGED vars
  BY <1>20 DEF vars
<1> QED
  BY <1>1, <1>2, <1>3, <1>4, <1>5, <1>6, <1>7, <1>8, <1>9, <1>10, <1>11, <1>12, <1>13, <1>14,
     <1>15, <1>16, <1>17, <1>18, <1>19, <1>20 DEF Next, Put, ClaimDownload, SetAuth, Destroy

(* A fresh id is nobody else's: it is drawn once, and no handler nor reaper can find it. *)
LEMMA AloneStep == IInv /\ [Next]_vars => \A x \in Caller : Alone(x)'
<1> SUFFICES ASSUME IInv, [Next]_vars PROVE \A x \in Caller : Alone(x)'
  OBVIOUS
<1> USE RedisAssumption
   DEF IInv, TypeOK, Role, Putting, Handling, Known, Maybe, Command, Call, Then, Return,
      callers, history, Alone, PutSoFar
<1>1. ASSUME NEW c \in Caller, PutCalled(c) PROVE \A x \in Caller : Alone(x)'
  BY <1>1 DEF PutCalled
<1>2. ASSUME NEW c \in Caller, PutHset(c) PROVE \A x \in Caller : Alone(x)'
  BY <1>2, HsetWrites
<1>3. ASSUME NEW c \in Caller, PutExpire(c) PROVE \A x \in Caller : Alone(x)'
  BY <1>3 DEF PutExpire, TtlAfter
<1>4. ASSUME NEW c \in Caller, PutZadd(c) PROVE \A x \in Caller : Alone(x)'
  BY <1>4 DEF PutZadd
<1>5. ASSUME NEW c \in Caller, PutFails(c) PROVE \A x \in Caller : Alone(x)'
  BY <1>5 DEF PutFails
<1>6. ASSUME NEW c \in Caller, PutUndone(c) PROVE \A x \in Caller : Alone(x)'
  BY <1>6 DEF PutUndone
<1>7. ASSUME NEW c \in Caller, ClaimCalled(c) PROVE \A x \in Caller : Alone(x)'
  BY <1>7 DEF ClaimCalled, load, Unused
<1>8. ASSUME NEW c \in Caller, ClaimScript(c) PROVE \A x \in Caller : Alone(x)'
  BY <1>8 DEF ClaimScript, or0
<1>9. ASSUME NEW c \in Caller, SetAuthCalled(c) PROVE \A x \in Caller : Alone(x)'
  BY <1>9 DEF SetAuthCalled, load, Unused
<1>10. ASSUME NEW c \in Caller, LoadRec(c) PROVE \A x \in Caller : Alone(x)'
  BY <1>10 DEF LoadRec
<1>11. ASSUME NEW c \in Caller, LoadDownloads(c) PROVE \A x \in Caller : Alone(x)'
  BY <1>11 DEF LoadDownloads, unwrap_or
<1>12. ASSUME NEW c \in Caller, SetAuthHset(c) PROVE \A x \in Caller : Alone(x)'
  BY <1>12 DEF SetAuthHset
<1>13. ASSUME NEW c \in Caller, DestroyCalled(c) PROVE \A x \in Caller : Alone(x)'
  BY <1>13 DEF DestroyCalled, load, Unused
<1>14. ASSUME NEW c \in Caller, ReapCalled(c) PROVE \A x \in Caller : Alone(x)'
  BY <1>14 DEF ReapCalled, Due, Unused
<1>15. ASSUME NEW c \in Caller, DeleteBlob(c) PROVE \A x \in Caller : Alone(x)'
  BY <1>15 DEF DeleteBlob
<1>16. ASSUME NEW c \in Caller, DeleteDel(c) PROVE \A x \in Caller : Alone(x)'
  BY <1>16 DEF DeleteDel
<1>17. ASSUME NEW c \in Caller, DeleteZrem(c) PROVE \A x \in Caller : Alone(x)'
  BY <1>17 DEF DeleteZrem
<1>18. ASSUME NEW c \in Caller, Drop(c) PROVE \A x \in Caller : Alone(x)'
  BY <1>18 DEF Drop
<1>19. CASE Tick
  BY <1>19 DEF Tick, AfterTtl
<1>20. CASE UNCHANGED vars
  BY <1>20 DEF vars
<1> QED
  BY <1>1, <1>2, <1>3, <1>4, <1>5, <1>6, <1>7, <1>8, <1>9, <1>10, <1>11, <1>12, <1>13, <1>14,
     <1>15, <1>16, <1>17, <1>18, <1>19, <1>20 DEF Next, Put, ClaimDownload, SetAuth, Destroy

(* The expiry a password change has read is still that of the record. *)
LEMMA SameExpiryStep == IInv /\ [Next]_vars => \A x \in Caller : SameExpiry(x)'
<1> SUFFICES ASSUME IInv, [Next]_vars PROVE \A x \in Caller : SameExpiry(x)'
  OBVIOUS
<1> USE RedisAssumption
   DEF IInv, TypeOK, Role, Putting, Handling, Known, Maybe, Command, Call, Then, Return,
      callers, history, SameExpiry, PutSoFar, NoHash
<1>1. ASSUME NEW c \in Caller, PutCalled(c) PROVE \A x \in Caller : SameExpiry(x)'
  BY <1>1 DEF PutCalled
<1>2. ASSUME NEW c \in Caller, PutHset(c) PROVE \A x \in Caller : SameExpiry(x)'
  BY <1>2, HsetWrites DEF Alone
<1>3. ASSUME NEW c \in Caller, PutExpire(c) PROVE \A x \in Caller : SameExpiry(x)'
  BY <1>3, ExpireWrites DEF Alone
<1>4. ASSUME NEW c \in Caller, PutZadd(c) PROVE \A x \in Caller : SameExpiry(x)'
  BY <1>4 DEF PutZadd
<1>5. ASSUME NEW c \in Caller, PutFails(c) PROVE \A x \in Caller : SameExpiry(x)'
  BY <1>5 DEF PutFails
<1>6. ASSUME NEW c \in Caller, PutUndone(c) PROVE \A x \in Caller : SameExpiry(x)'
  BY <1>6 DEF PutUndone
<1>7. ASSUME NEW c \in Caller, ClaimCalled(c) PROVE \A x \in Caller : SameExpiry(x)'
  BY <1>7 DEF ClaimCalled, load
<1>8. ASSUME NEW c \in Caller, ClaimScript(c) PROVE \A x \in Caller : SameExpiry(x)'
  <2>1. CASE Grants(hash[on[c]])
    BY <1>8, <2>1, ClaimWrites
  <2>2. CASE ~ Grants(hash[on[c]])
    BY <1>8, <2>2 DEF ClaimScript
  <2> QED BY <2>1, <2>2
<1>9. ASSUME NEW c \in Caller, SetAuthCalled(c) PROVE \A x \in Caller : SameExpiry(x)'
  BY <1>9 DEF SetAuthCalled, load
<1>10. ASSUME NEW c \in Caller, LoadRec(c) PROVE \A x \in Caller : SameExpiry(x)'
  BY <1>10 DEF LoadRec
<1>11. ASSUME NEW c \in Caller, LoadDownloads(c) PROVE \A x \in Caller : SameExpiry(x)'
  BY <1>11 DEF LoadDownloads, unwrap_or
<1>12. ASSUME NEW c \in Caller, SetAuthHset(c) PROVE \A x \in Caller : SameExpiry(x)'
  BY <1>12, SetAuthWrites
<1>13. ASSUME NEW c \in Caller, DestroyCalled(c) PROVE \A x \in Caller : SameExpiry(x)'
  BY <1>13 DEF DestroyCalled, load
<1>14. ASSUME NEW c \in Caller, ReapCalled(c) PROVE \A x \in Caller : SameExpiry(x)'
  BY <1>14 DEF ReapCalled, Due
<1>15. ASSUME NEW c \in Caller, DeleteBlob(c) PROVE \A x \in Caller : SameExpiry(x)'
  BY <1>15 DEF DeleteBlob
<1>16. ASSUME NEW c \in Caller, DeleteDel(c) PROVE \A x \in Caller : SameExpiry(x)'
  BY <1>16, DelWrites
<1>17. ASSUME NEW c \in Caller, DeleteZrem(c) PROVE \A x \in Caller : SameExpiry(x)'
  BY <1>17 DEF DeleteZrem
<1>18. ASSUME NEW c \in Caller, Drop(c) PROVE \A x \in Caller : SameExpiry(x)'
  BY <1>18 DEF Drop
<1>19. CASE Tick
  BY <1>19 DEF Tick, AfterTtl
<1>20. CASE UNCHANGED vars
  BY <1>20 DEF vars
<1> QED
  BY <1>1, <1>2, <1>3, <1>4, <1>5, <1>6, <1>7, <1>8, <1>9, <1>10, <1>11, <1>12, <1>13, <1>14,
     <1>15, <1>16, <1>17, <1>18, <1>19, <1>20 DEF Next, Put, ClaimDownload, SetAuth, Destroy

-----------------------------------------------------------------------------
(* What holds of every share. *)

(* Budgets come with the rest of the hash, and the TTL after the expiry. *)
LEMMA WholeStep == IInv /\ [Next]_vars => \A id \in Id : Whole(id)'
<1> SUFFICES ASSUME IInv, [Next]_vars PROVE \A id \in Id : Whole(id)'
  OBVIOUS
<1> USE RedisAssumption
   DEF IInv, TypeOK, Role, Putting, Handling, Known, Maybe, Command, Call, Then, Return,
      callers, history, Whole, PutSoFar, NoHash
<1>1. ASSUME NEW c \in Caller, PutCalled(c) PROVE \A id \in Id : Whole(id)'
  BY <1>1 DEF PutCalled
<1>2. ASSUME NEW c \in Caller, PutHset(c) PROVE \A id \in Id : Whole(id)'
  BY <1>2, HsetWrites
<1>3. ASSUME NEW c \in Caller, PutExpire(c) PROVE \A id \in Id : Whole(id)'
  BY <1>3, ExpireWrites
<1>4. ASSUME NEW c \in Caller, PutZadd(c) PROVE \A id \in Id : Whole(id)'
  BY <1>4 DEF PutZadd
<1>5. ASSUME NEW c \in Caller, PutFails(c) PROVE \A id \in Id : Whole(id)'
  BY <1>5 DEF PutFails
<1>6. ASSUME NEW c \in Caller, PutUndone(c) PROVE \A id \in Id : Whole(id)'
  BY <1>6 DEF PutUndone
<1>7. ASSUME NEW c \in Caller, ClaimScript(c) PROVE \A id \in Id : Whole(id)'
  <2>1. CASE Grants(hash[on[c]])
    BY <1>7, <2>1, ClaimWrites
  <2>2. CASE ~ Grants(hash[on[c]])
    BY <1>7, <2>2 DEF ClaimScript
  <2> QED BY <2>1, <2>2
<1>8. ASSUME NEW c \in Caller, SetAuthHset(c) PROVE \A id \in Id : Whole(id)'
  BY <1>8, SetAuthWrites DEF SameExpiry
<1>9. ASSUME NEW c \in Caller, DeleteBlob(c) PROVE \A id \in Id : Whole(id)'
  BY <1>9 DEF DeleteBlob
<1>10. ASSUME NEW c \in Caller, DeleteDel(c) PROVE \A id \in Id : Whole(id)'
  BY <1>10, DelWrites
<1>11. ASSUME NEW c \in Caller, DeleteZrem(c) PROVE \A id \in Id : Whole(id)'
  BY <1>11 DEF DeleteZrem
<1>12. ASSUME NEW c \in Caller, Reads(c) PROVE \A id \in Id : Whole(id)'
  BY <1>12, ReadsOnly
<1>13. CASE Tick
  BY <1>13 DEF Tick, AfterTtl
<1>14. CASE UNCHANGED vars
  BY <1>14 DEF vars
<1> QED
  BY <1>1, <1>2, <1>3, <1>4, <1>5, <1>6, <1>7, <1>8, <1>9, <1>10, <1>11, <1>12, <1>13,
     <1>14 DEF Next, Put, ClaimDownload, SetAuth, Destroy, Reads

(* The hash counts every grant against the budget promised. *)
LEMMA CountedStep == IInv /\ [Next]_vars => \A id \in Id : Counted(id)'
<1> SUFFICES ASSUME IInv, [Next]_vars PROVE \A id \in Id : Counted(id)'
  OBVIOUS
<1> USE RedisAssumption
   DEF IInv, TypeOK, Role, Putting, Handling, Known, Maybe, Command, Call, Then, Return,
      callers, history, Counted, PutSoFar, NoHash
<1>1. ASSUME NEW c \in Caller, PutCalled(c) PROVE \A id \in Id : Counted(id)'
  BY <1>1 DEF PutCalled
<1>2. ASSUME NEW c \in Caller, PutHset(c) PROVE \A id \in Id : Counted(id)'
  BY <1>2, HsetWrites
<1>3. ASSUME NEW c \in Caller, PutExpire(c) PROVE \A id \in Id : Counted(id)'
  BY <1>3, ExpireWrites
<1>4. ASSUME NEW c \in Caller, PutZadd(c) PROVE \A id \in Id : Counted(id)'
  BY <1>4 DEF PutZadd, Rec
<1>5. ASSUME NEW c \in Caller, PutFails(c) PROVE \A id \in Id : Counted(id)'
  BY <1>5 DEF PutFails
<1>6. ASSUME NEW c \in Caller, PutUndone(c) PROVE \A id \in Id : Counted(id)'
  BY <1>6 DEF PutUndone
<1>7. ASSUME NEW c \in Caller, ClaimScript(c) PROVE \A id \in Id : Counted(id)'
  <2>1. CASE Grants(hash[on[c]])
    BY <1>7, <2>1, ClaimWrites
  <2>2. CASE ~ Grants(hash[on[c]])
    BY <1>7, <2>2 DEF ClaimScript
  <2> QED BY <2>1, <2>2
<1>8. ASSUME NEW c \in Caller, SetAuthHset(c) PROVE \A id \in Id : Counted(id)'
  BY <1>8, SetAuthWrites
<1>9. ASSUME NEW c \in Caller, DeleteBlob(c) PROVE \A id \in Id : Counted(id)'
  BY <1>9 DEF DeleteBlob
<1>10. ASSUME NEW c \in Caller, DeleteDel(c) PROVE \A id \in Id : Counted(id)'
  BY <1>10, DelWrites
<1>11. ASSUME NEW c \in Caller, DeleteZrem(c) PROVE \A id \in Id : Counted(id)'
  BY <1>11 DEF DeleteZrem
<1>12. ASSUME NEW c \in Caller, Reads(c) PROVE \A id \in Id : Counted(id)'
  BY <1>12, ReadsOnly
<1>13. CASE Tick
  BY <1>13 DEF Tick, AfterTtl
<1>14. CASE UNCHANGED vars
  BY <1>14 DEF vars
<1> QED
  BY <1>1, <1>2, <1>3, <1>4, <1>5, <1>6, <1>7, <1>8, <1>9, <1>10, <1>11, <1>12, <1>13,
     <1>14 DEF Next, Put, ClaimDownload, SetAuth, Destroy, Reads

(* Nothing is written about an id before it is drawn. *)
LEMMA UnusedStep == IInv /\ [Next]_vars => \A id \in Id : Unused(id)'
<1> SUFFICES ASSUME IInv, [Next]_vars PROVE \A id \in Id : Unused(id)'
  OBVIOUS
<1> USE RedisAssumption
   DEF IInv, TypeOK, Role, Putting, Handling, Known, Maybe, Command, Call, Then, Return,
      callers, history, Unused
<1>1. ASSUME NEW c \in Caller, PutCalled(c) PROVE \A id \in Id : Unused(id)'
  BY <1>1 DEF PutCalled
<1>2. ASSUME NEW c \in Caller, PutHset(c) PROVE \A id \in Id : Unused(id)'
  BY <1>2 DEF PutHset, FreshHash
<1>3. ASSUME NEW c \in Caller, PutExpire(c) PROVE \A id \in Id : Unused(id)'
  BY <1>3 DEF PutExpire, TtlAfter
<1>4. ASSUME NEW c \in Caller, PutZadd(c) PROVE \A id \in Id : Unused(id)'
  BY <1>4 DEF PutZadd
<1>5. ASSUME NEW c \in Caller, PutFails(c) PROVE \A id \in Id : Unused(id)'
  BY <1>5 DEF PutFails
<1>6. ASSUME NEW c \in Caller, PutUndone(c) PROVE \A id \in Id : Unused(id)'
  BY <1>6 DEF PutUndone
<1>7. ASSUME NEW c \in Caller, ClaimScript(c) PROVE \A id \in Id : Unused(id)'
  BY <1>7 DEF ClaimScript, or0
<1>8. ASSUME NEW c \in Caller, SetAuthHset(c) PROVE \A id \in Id : Unused(id)'
  BY <1>8 DEF SetAuthHset
<1>9. ASSUME NEW c \in Caller, DeleteBlob(c) PROVE \A id \in Id : Unused(id)'
  BY <1>9 DEF DeleteBlob
<1>10. ASSUME NEW c \in Caller, DeleteDel(c) PROVE \A id \in Id : Unused(id)'
  BY <1>10 DEF DeleteDel
<1>11. ASSUME NEW c \in Caller, DeleteZrem(c) PROVE \A id \in Id : Unused(id)'
  BY <1>11 DEF DeleteZrem
<1>12. ASSUME NEW c \in Caller, Reads(c) PROVE \A id \in Id : Unused(id)'
  BY <1>12, ReadsOnly
<1>13. CASE Tick
  BY <1>13 DEF Tick, AfterTtl
<1>14. CASE UNCHANGED vars
  BY <1>14 DEF vars
<1> QED
  BY <1>1, <1>2, <1>3, <1>4, <1>5, <1>6, <1>7, <1>8, <1>9, <1>10, <1>11, <1>12, <1>13,
     <1>14 DEF Next, Put, ClaimDownload, SetAuth, Destroy, Reads

(* No command brings the max_downloads field of a deleted share back. *)
LEMMA RevokedStep == IInv /\ [Next]_vars => \A id \in Id : Revoked(id)'
<1> SUFFICES ASSUME IInv, [Next]_vars PROVE \A id \in Id : Revoked(id)'
  OBVIOUS
<1> USE RedisAssumption
   DEF IInv, TypeOK, Role, Putting, Handling, Known, Maybe, Command, Call, Then, Return,
      callers, history, Revoked, PutSoFar, NoHash
<1>1. ASSUME NEW c \in Caller, PutCalled(c) PROVE \A id \in Id : Revoked(id)'
  BY <1>1 DEF PutCalled
<1>2. ASSUME NEW c \in Caller, PutHset(c) PROVE \A id \in Id : Revoked(id)'
  BY <1>2 DEF PutHset, FreshHash
<1>3. ASSUME NEW c \in Caller, PutExpire(c) PROVE \A id \in Id : Revoked(id)'
  BY <1>3 DEF PutExpire, TtlAfter
<1>4. ASSUME NEW c \in Caller, PutZadd(c) PROVE \A id \in Id : Revoked(id)'
  BY <1>4 DEF PutZadd
<1>5. ASSUME NEW c \in Caller, PutFails(c) PROVE \A id \in Id : Revoked(id)'
  BY <1>5 DEF PutFails
<1>6. ASSUME NEW c \in Caller, PutUndone(c) PROVE \A id \in Id : Revoked(id)'
  BY <1>6 DEF PutUndone
<1>7. ASSUME NEW c \in Caller, ClaimScript(c) PROVE \A id \in Id : Revoked(id)'
  BY <1>7, OnItsShare, GrantsFields DEF ClaimScript, or0
<1>8. ASSUME NEW c \in Caller, SetAuthHset(c) PROVE \A id \in Id : Revoked(id)'
  BY <1>8 DEF SetAuthHset
<1>9. ASSUME NEW c \in Caller, DeleteBlob(c) PROVE \A id \in Id : Revoked(id)'
  BY <1>9 DEF DeleteBlob
<1>10. ASSUME NEW c \in Caller, DeleteDel(c) PROVE \A id \in Id : Revoked(id)'
  BY <1>10 DEF DeleteDel
<1>11. ASSUME NEW c \in Caller, DeleteZrem(c) PROVE \A id \in Id : Revoked(id)'
  BY <1>11 DEF DeleteZrem
<1>12. ASSUME NEW c \in Caller, Reads(c) PROVE \A id \in Id : Revoked(id)'
  BY <1>12, ReadsOnly
<1>13. CASE Tick
  BY <1>13 DEF Tick, AfterTtl
<1>14. CASE UNCHANGED vars
  BY <1>14 DEF vars
<1> QED
  BY <1>1, <1>2, <1>3, <1>4, <1>5, <1>6, <1>7, <1>8, <1>9, <1>10, <1>11, <1>12, <1>13,
     <1>14 DEF Next, Put, ClaimDownload, SetAuth, Destroy, Reads

(* What leaves the index has left the blob store before, by the same destroy. *)
LEMMA IndexedStep == IInv /\ [Next]_vars => \A id \in Id : Indexed(id)'
<1> SUFFICES ASSUME IInv, [Next]_vars PROVE \A id \in Id : Indexed(id)'
  OBVIOUS
<1> USE RedisAssumption
   DEF IInv, TypeOK, Role, Putting, Handling, Known, Maybe, Command, Call, Then, Return,
      callers, history, Indexed, PutSoFar, Unused
<1>1. ASSUME NEW c \in Caller, PutCalled(c) PROVE \A id \in Id : Indexed(id)'
  BY <1>1 DEF PutCalled
<1>2. ASSUME NEW c \in Caller, PutHset(c) PROVE \A id \in Id : Indexed(id)'
  BY <1>2 DEF PutHset, FreshHash
<1>3. ASSUME NEW c \in Caller, PutExpire(c) PROVE \A id \in Id : Indexed(id)'
  BY <1>3 DEF PutExpire, TtlAfter
<1>4. ASSUME NEW c \in Caller, PutZadd(c) PROVE \A id \in Id : Indexed(id)'
  BY <1>4 DEF PutZadd, Rec
<1>5. ASSUME NEW c \in Caller, PutFails(c) PROVE \A id \in Id : Indexed(id)'
  BY <1>5 DEF PutFails
<1>6. ASSUME NEW c \in Caller, PutUndone(c) PROVE \A id \in Id : Indexed(id)'
  BY <1>6 DEF PutUndone
<1>7. ASSUME NEW c \in Caller, ClaimScript(c) PROVE \A id \in Id : Indexed(id)'
  BY <1>7 DEF ClaimScript, or0
<1>8. ASSUME NEW c \in Caller, SetAuthHset(c) PROVE \A id \in Id : Indexed(id)'
  BY <1>8 DEF SetAuthHset
<1>9. ASSUME NEW c \in Caller, DeleteBlob(c) PROVE \A id \in Id : Indexed(id)'
  BY <1>9 DEF DeleteBlob
<1>10. ASSUME NEW c \in Caller, DeleteDel(c) PROVE \A id \in Id : Indexed(id)'
  BY <1>10 DEF DeleteDel
<1>11. ASSUME NEW c \in Caller, DeleteZrem(c) PROVE \A id \in Id : Indexed(id)'
  BY <1>11 DEF DeleteZrem
<1>12. ASSUME NEW c \in Caller, Reads(c) PROVE \A id \in Id : Indexed(id)'
  BY <1>12, ReadsOnly
<1>13. CASE Tick
  BY <1>13 DEF Tick, AfterTtl
<1>14. CASE UNCHANGED vars
  BY <1>14 DEF vars
<1> QED
  BY <1>1, <1>2, <1>3, <1>4, <1>5, <1>6, <1>7, <1>8, <1>9, <1>10, <1>11, <1>12, <1>13,
     <1>14 DEF Next, Put, ClaimDownload, SetAuth, Destroy, Reads

-----------------------------------------------------------------------------
(* The inductive invariant, and what follows from it. *)

LEMMA InitIInv == Init => IInv
  BY RedisAssumption
     DEF Init, IInv, TypeOK, Hash, NoHash, Maybe, Command, Role, Handling, Putting, Known,
         PutSoFar, Alone, SameExpiry, Whole, Counted, Unused, Revoked, Indexed

LEMMA IInvStep == IInv /\ [Next]_vars => IInv'
  BY TypeStep, RoleStep, PutStep, AloneStep, SameExpiryStep, WholeStep, CountedStep,
     UnusedStep, RevokedStep, IndexedStep DEF IInv

(* Every part of the inductive invariant holds in every state, however many *)
(* callers there are and wherever their calls are dropped.                 *)
THEOREM InductiveInvariant == Spec => []IInv
  BY InitIInv, IInvStep, PTL DEF Spec

(* Every variable keeps its type: no command leaves a field of a share, or *)
(* a caller, with something the next command cannot read (redis.rs load).  *)
THEOREM TypeCorrect == Spec => []TypeOK
  BY InductiveInvariant, PTL DEF IInv

(* The claim script never grants more than the uploader was told, whatever *)
(* commands of other methods run in between (redis.rs CLAIM_SCRIPT).       *)
THEOREM BudgetAlwaysKept == Spec => []BudgetKept
<1>1. IInv => BudgetKept
  BY DEF IInv, Counted, BudgetKept
<1> QED BY <1>1, InductiveInvariant, PTL

(* Published ciphertext stays in the expiry index until a destroy has      *)
(* deleted it (redis.rs delete, state.rs destroy).                         *)
THEOREM IndexAlwaysKept == Spec => []IndexKept
<1>1. IInv => IndexKept
  BY DEF IInv, TypeOK, Indexed, IndexKept
<1> QED BY <1>1, InductiveInvariant, PTL

(* Nothing of a deleted share is granted, even when a password change that *)
(* read it before writes its record field back (redis.rs set_auth).        *)
THEOREM NeverGrantedAgain == Spec => NoGrantAfterDelete
<1>1. IInv /\ [Next]_vars => [\A id \in deleted : granted'[id] = granted[id]]_vars
  <2> SUFFICES ASSUME IInv, Next, NEW id \in deleted PROVE granted'[id] = granted[id]
    BY DEF vars
  <2>1. id \in Id /\ hash[id].max_downloads = None
    BY DEF IInv, TypeOK, Revoked
  <2>2. ASSUME NEW c \in Caller, ClaimScript(c) PROVE granted'[id] = granted[id]
    <3>1. CASE Grants(hash[on[c]])
      BY <2>1, <2>2, <3>1, ClaimWrites
    <3>2. CASE ~ Grants(hash[on[c]])
      BY <2>2, <3>2 DEF ClaimScript
    <3> QED BY <3>1, <3>2
  <2>3. CASE granted' = granted
    BY <2>3
  <2> QED
    BY <2>2, <2>3, ReadsOnly
       DEF Next, Put, ClaimDownload, SetAuth, Destroy, Reads, history,
           PutCalled, PutHset, PutExpire, PutZadd, PutFails, PutUndone, SetAuthHset,
           DeleteBlob, DeleteDel, DeleteZrem, Tick
<1> QED BY <1>1, InductiveInvariant, PTL DEF Spec, NoGrantAfterDelete

-----------------------------------------------------------------------------
(* The refinement of MetaStore.  What the trait sees of a share is its     *)
(* record while the hash has a budget.                                     *)

SeenAs(id) ==
  /\ hash[id].max_downloads = None => record[id] = None
  /\ hash[id].max_downloads # None =>
       /\ record[id] \in Seen /\ record[id] # None
       /\ record[id].auth = hash[id].rec.auth
       /\ record[id].downloads = hash[id].downloads
       /\ record[id].max_downloads = hash[id].max_downloads
       /\ record[id].expires_at = hash[id].rec.expires_at

LEMMA SeenShape == IInv => \A id \in Id : SeenAs(id)
<1> SUFFICES ASSUME IInv, NEW id \in Id PROVE SeenAs(id)
  OBVIOUS
<1>1. hash[id].max_downloads # None =>
        /\ hash[id].rec \in Rec /\ hash[id].downloads \in Nat /\ hash[id].max_downloads \in Nat
  BY HashFields DEF IInv, Whole, Maybe
<1> QED BY <1>1, RedisAssumption DEF record, Rec, Seen, SeenAs

LEMMA SeenShapeNext == IInv' => (\A id \in Id : SeenAs(id))'
  BY SeenShape, PTL

(* A hash that is left alone is seen as before. *)
LEMMA OthersSeen ==
  /\ record = [id \in Id |-> record[id]] /\ record' = [id \in Id |-> record'[id]]
  /\ \A id \in Id : hash'[id] = hash[id] => record'[id] = record[id]
  /\ hash' = hash => record' = record
  BY DEF record

(* The HSET of put makes the record there. *)
LEMMA PutSeen ==
  ASSUME IInv, IInv', NEW c \in Caller, PutHset(c)
  PROVE  Store!put(on[c])
<1>1. /\ on[c] \in Id /\ \A id \in Id \ {on[c]} : hash'[id] = hash[id]
      /\ seen[c] \in Rec /\ hash'[on[c]].rec = seen[c]
      /\ hash'[on[c]].max_downloads = seen[c].max_downloads
      /\ hash'[on[c]].downloads = 0 /\ at[c] = "hset" /\ UNCHANGED <<now, granted>>
  BY HsetWrites DEF history
<1>2. /\ hash[on[c]] = NoHash /\ promised[on[c]] = 0 /\ seen[c].max_downloads \in Budgets
  BY <1>1 DEF IInv, PutSoFar, Putting
<1>3. record[on[c]] = None /\ granted[on[c]] = 0
  BY <1>1, <1>2, SeenShape DEF IInv, NoHash, Counted, Known, SeenAs
<1>4. record'[on[c]] \in [auth: Key, downloads: {0}, max_downloads: Budgets, expires_at: Nat]
  <2>1. seen[c].max_downloads # None
    BY <1>2, RedisAssumption
  <2>2. record'[on[c]] \in Seen /\ record'[on[c]].downloads = 0
        /\ record'[on[c]].max_downloads \in Budgets
    BY <1>1, <1>2, <2>1, SeenShapeNext DEF SeenAs
  <2> QED BY <2>2 DEF Seen
<1>5. record' = [record EXCEPT ![on[c]] = record'[on[c]]]
  BY <1>1, OthersSeen
<1> QED BY <1>1, <1>3, <1>4, <1>5 DEF Store!put

(* The script is the whole of claim_download, and refuses what the trait refuses. *)
LEMMA ClaimSeen ==
  ASSUME IInv, IInv', NEW c \in Caller, ClaimScript(c), Grants(hash[on[c]])
  PROVE  on[c] \in Id /\ Store!claim_download(on[c])
<1>1. /\ on[c] \in Id /\ \A id \in Id \ {on[c]} : hash'[id] = hash[id]
      /\ hash[on[c]].max_downloads # None /\ hash[on[c]].max_downloads \in Nat
      /\ hash[on[c]].downloads \in Nat /\ hash[on[c]].downloads < hash[on[c]].max_downloads
      /\ hash'[on[c]].downloads = hash[on[c]].downloads + 1
      /\ hash'[on[c]].max_downloads = hash[on[c]].max_downloads
      /\ hash'[on[c]].rec = hash[on[c]].rec /\ now' = now
  BY ClaimWrites
<1>2. granted' = [granted EXCEPT ![on[c]] = @ + 1]
  BY DEF ClaimScript
<1>3. /\ record[on[c]] # None /\ record[on[c]] \in Seen /\ record'[on[c]] \in Seen
      /\ record[on[c]].downloads < record[on[c]].max_downloads
      /\ record'[on[c]].auth = record[on[c]].auth
      /\ record'[on[c]].downloads = record[on[c]].downloads + 1
      /\ record'[on[c]].max_downloads = record[on[c]].max_downloads
      /\ record'[on[c]].expires_at = record[on[c]].expires_at
  BY <1>1, SeenShape, SeenShapeNext DEF SeenAs
<1>4. record'[on[c]] = [record[on[c]] EXCEPT !.downloads = @ + 1]
  BY <1>3 DEF Seen
<1>5. record' = [record EXCEPT ![on[c]].downloads = @ + 1]
  BY <1>1, <1>4, OthersSeen
<1> QED BY <1>1, <1>2, <1>3, <1>5 DEF Store!claim_download, Store!Increment

(* The HSET of a password change sets the auth, or is not seen. *)
LEMMA SetAuthSeen ==
  ASSUME IInv, IInv', NEW c \in Caller, SetAuthHset(c)
  PROVE  on[c] \in Id /\ (Store!set_auth(on[c]) \/ UNCHANGED Store!storeVars)
<1>1. /\ on[c] \in Id /\ \A id \in Id \ {on[c]} : hash'[id] = hash[id]
      /\ new[c] \in Key /\ hash'[on[c]].rec.auth = new[c]
      /\ hash'[on[c]].rec.expires_at = seen[c].expires_at
      /\ hash'[on[c]].downloads = hash[on[c]].downloads
      /\ hash'[on[c]].max_downloads = hash[on[c]].max_downloads
      /\ at[c] = "hsetRec" /\ UNCHANGED <<now, granted>>
  BY SetAuthWrites DEF history
<1>2. CASE hash[on[c]].max_downloads = None
  <2>1. \A id \in Id : record'[id] = record[id]
    BY <1>1, <1>2, OthersSeen, SeenShape, SeenShapeNext DEF SeenAs
  <2>2. record' = record
    BY <2>1, OthersSeen
  <2> QED BY <1>1, <2>2 DEF Store!storeVars
<1>3. CASE hash[on[c]].max_downloads # None
  <2>1. hash'[on[c]].rec.expires_at = hash[on[c]].rec.expires_at
    BY <1>1, <1>3 DEF IInv, SameExpiry
  <2>2. /\ record[on[c]] # None /\ record[on[c]] \in Seen /\ record'[on[c]] \in Seen
        /\ record'[on[c]].auth = new[c]
        /\ record'[on[c]].downloads = record[on[c]].downloads
        /\ record'[on[c]].max_downloads = record[on[c]].max_downloads
        /\ record'[on[c]].expires_at = record[on[c]].expires_at
    BY <1>1, <1>3, <2>1, SeenShape, SeenShapeNext DEF SeenAs
  <2>3. record'[on[c]] = [record[on[c]] EXCEPT !.auth = new[c]]
    BY <2>2 DEF Seen
  <2>4. record' = [record EXCEPT ![on[c]].auth = new[c]]
    BY <1>1, <2>3, OthersSeen
  <2> QED BY <1>1, <2>2, <2>4 DEF Store!set_auth
<1> QED BY <1>1, <1>2, <1>3

(* The DEL of delete forgets the record. *)
LEMMA DeleteSeen ==
  ASSUME IInv, IInv', NEW c \in Caller, DeleteDel(c)
  PROVE  on[c] \in Id /\ Store!delete(on[c])
<1>1. /\ on[c] \in Id /\ \A id \in Id \ {on[c]} : hash'[id] = hash[id]
      /\ hash'[on[c]].max_downloads = None /\ UNCHANGED <<now, granted>>
  BY DelWrites
<1>2. record'[on[c]] = None
  BY <1>1, SeenShapeNext DEF SeenAs
<1> QED BY <1>1, <1>2, OthersSeen DEF Store!delete

(* The TTL takes, at one moment, any number of records, all past their expiry. *)
LEMMA TickSeen ==
  ASSUME IInv, IInv', Tick
  PROVE  Store!expire
<1>1. \A id \in Id :
        /\ record'[id] = None \/ record'[id] = record[id]
        /\ record[id] # None /\ record'[id] = None => record[id].expires_at < now'
  <2> SUFFICES ASSUME NEW id \in Id
               PROVE  /\ record'[id] = None \/ record'[id] = record[id]
                      /\ record[id] # None /\ record'[id] = None => record[id].expires_at < now'
    OBVIOUS
  <2>1. now' = now + 1
    BY DEF Tick
  <2>2. CASE hash'[id] = hash[id]
    BY <2>2, OthersSeen
  <2>3. CASE hash'[id] # hash[id]
    <3>1. /\ hash'[id] = NoHash
          /\ hash[id].max_downloads # None => hash[id].rec.expires_at < now + 1
      BY <2>3, TickWrites
    <3>2. record'[id] = None
      BY <3>1, SeenShapeNext DEF NoHash, SeenAs
    <3> QED BY <2>1, <3>1, <3>2, SeenShape DEF SeenAs
  <2> QED BY <2>2, <2>3
<1>2. record' = [id \in Id |-> IF record'[id] = None THEN None ELSE record[id]]
  BY <1>1, OthersSeen
<1> QED BY <1>1, <1>2 DEF Store!expire, Tick, history

(* Every command is a step of the trait or is not seen. *)
LEMMA StepSeen == IInv /\ IInv' /\ [Next]_vars => [Store!StoreNext]_(Store!storeVars)
<1> SUFFICES ASSUME IInv, IInv', [Next]_vars PROVE [Store!StoreNext]_(Store!storeVars)
  OBVIOUS
<1>1. CASE UNCHANGED <<now, hash, granted>>
  BY <1>1, OthersSeen DEF Store!storeVars
<1>2. ASSUME NEW c \in Caller, PutCalled(c) \/ PutZadd(c) \/ PutFails(c) \/ PutUndone(c)
      PROVE  UNCHANGED <<now, hash, granted>>
  BY <1>2 DEF PutCalled, PutZadd, PutFails, PutUndone, history
<1>3. ASSUME NEW c \in Caller, Reads(c) \/ DeleteBlob(c) \/ DeleteZrem(c)
      PROVE  UNCHANGED <<now, hash, granted>>
  BY <1>3, ReadsOnly DEF DeleteBlob, DeleteZrem, history
<1>4. ASSUME NEW c \in Caller, PutHset(c) PROVE Store!StoreNext
  BY <1>4, PutSeen, HsetWrites DEF Store!StoreNext
<1>5. ASSUME NEW c \in Caller, PutExpire(c) PROVE UNCHANGED Store!storeVars
  <2>1. /\ on[c] \in Id /\ UNCHANGED <<now, granted>>
        /\ \A id \in Id \ {on[c]} : hash'[id] = hash[id]
        /\ hash'[on[c]].rec = hash[on[c]].rec /\ hash'[on[c]].downloads = hash[on[c]].downloads
        /\ hash'[on[c]].max_downloads = hash[on[c]].max_downloads
    BY <1>5, ExpireWrites DEF history
  <2>2. \A id \in Id : record'[id] = record[id]
    BY <2>1 DEF record
  <2> QED BY <2>1, <2>2, OthersSeen DEF Store!storeVars
<1>6. ASSUME NEW c \in Caller, ClaimScript(c) PROVE [Store!StoreNext]_(Store!storeVars)
  <2>1. CASE Grants(hash[on[c]])
    BY <1>6, <2>1, ClaimSeen DEF Store!StoreNext
  <2>2. CASE ~ Grants(hash[on[c]])
    BY <1>1, <1>6, <2>2 DEF ClaimScript
  <2> QED BY <2>1, <2>2
<1>7. ASSUME NEW c \in Caller, SetAuthHset(c) PROVE [Store!StoreNext]_(Store!storeVars)
  BY <1>7, SetAuthSeen DEF Store!StoreNext
<1>8. ASSUME NEW c \in Caller, DeleteDel(c) PROVE Store!StoreNext
  BY <1>8, DeleteSeen DEF Store!StoreNext
<1>9. CASE Tick
  BY <1>9, TickSeen DEF Store!StoreNext
<1>10. CASE UNCHANGED vars
  BY <1>1, <1>10 DEF vars
<1> QED
  BY <1>1, <1>2, <1>3, <1>4, <1>5, <1>6, <1>7, <1>8, <1>9, <1>10
     DEF Next, Put, ClaimDownload, SetAuth, Destroy, Reads

(* The Redis store implements the MetaStore trait as far as whoever claims *)
(* downloads can tell: between its commands nothing half done is seen, a   *)
(* deleted record stays deleted, and the TTL only takes what has expired   *)
(* (redis.rs put, claim_download, set_auth, delete).                       *)
THEOREM ImplementsTrait == Spec => KeepsTrait
<1>1. Init => Store!StoreInit
  BY DEF Init, Store!StoreInit, record, NoHash
<1> QED BY <1>1, InductiveInvariant, StepSeen, PTL DEF Spec, KeepsTrait, Store!Spec
=============================================================================
