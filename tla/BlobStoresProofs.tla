-------------------------- MODULE BlobStoresProofs --------------------------
(* Only whole bodies are stored and served, and a refused one leaves        *)
(* nothing, for bodies, chunks and parts of any size and any number of ids. *)
EXTENDS BlobStores, TLAPS

-----------------------------------------------------------------------------
(* The inductive invariant: what is stored under an id at each call its put *)
(* makes.  A body that ended is got[id] units long; the parts uploaded are  *)
(* its first cut[id] units, in full parts.                                  *)

(* Each store has its own calls and its own leftovers. *)
OwnStore(id) ==
  /\ at[id] \in FsStep => backend = "fs"
  /\ at[id] \in S3Step => backend = "s3"
  /\ backend = "fs" => parts[id] = None
  /\ backend = "s3" => tmp[id] = None

(* The object appears with the last call of a put. *)
NotYet(id) ==
  InFlight(id) \/ at[id] = "idle" => object[id] = None /\ served[id] = None

(* A body ends once, and nothing more of it is received. *)
BodyLength(id) ==
  /\ cut[id] <= got[id]
  /\ at[id] \in {"idle", "create"} => got[id] = 0
  /\ at[id] \in {"idle", "create", "write", "fill", "createUpload", "stream"} => sent[id] = None
  /\ sent[id] # None => sent[id] = got[id]
  /\ at[id] \in {"sync", "rename", "putObject", "tail", "complete"} => sent[id] # None

(* The .part file holds what was received, and is synced before the rename. *)
PartFile(id) ==
  /\ at[id] \in {"idle", "create", "done"} => tmp[id] = None
  /\ at[id] \in {"write", "sync", "rename"} => tmp[id] = got[id]
  /\ at[id] = "rename" => id \in synced

FullParts(pieces) == \A i \in 1 .. Len(pieces) : pieces[i].to - pieces[i].from = PART_SIZE

(* The parts are the front of the body, and all of it when they are completed. *)
PartsSoFar(id) ==
  /\ at[id] \in {"idle", "fill", "putObject", "createUpload", "done"} => parts[id] = None
  /\ at[id] \in {"idle", "fill", "createUpload"} => cut[id] = 0
  /\ at[id] \in {"stream", "tail"} =>
       /\ parts[id] # None /\ FullParts(parts[id])
       /\ (parts[id] = <<>> /\ cut[id] = 0) \/ Whole(parts[id], cut[id])
  /\ at[id] = "complete" =>
       /\ parts[id] # None /\ Whole(parts[id], got[id])
       /\ \A i \in 1 .. Len(parts[id]) - 1 : parts[id][i].to - parts[id][i].from = PART_SIZE

(* What is stored or was served is the whole body, and a file was synced. *)
Finished(id) ==
  /\ \A stuff \in {object[id], served[id]} :
       stuff # None => sent[id] # None /\ Whole(stuff, sent[id])
  /\ object[id] # None /\ backend = "fs" =>
       object[id] = <<[from |-> 0, to |-> sent[id]]>> /\ id \in synced

(* How a put ended says what it left. *)
Outcome(id) ==
  /\ at[id] = "done" => object[id] # None
  /\ at[id] = "failed" /\ id \notin faulted => object[id] = None /\ ~Leftover(id)

IInv ==
  /\ TypeOK
  /\ \A id \in Id : /\ OwnStore(id) /\ NotYet(id) /\ BodyLength(id) /\ PartFile(id)
                    /\ PartsSoFar(id) /\ Finished(id) /\ Outcome(id)

-----------------------------------------------------------------------------
(* Lemmas about pieces and the operators the actions are built from. *)

LEMMA SizeRange == Size \subseteq Nat /\ 0 \in Size
  BY BlobAssumption DEF Size

LEMMA PieceType ==
  ASSUME NEW a \in Nat, NEW b \in Nat
  PROVE  [from |-> a, to |-> b] \in Piece /\ <<[from |-> a, to |-> b]>> \in Seq(Piece)
  BY DEF Piece

LEMMA NoParts == <<>> \in Seq(Piece) /\ <<>> # None /\ FullParts(<<>>)
<1>1. <<>> \in Seq(Piece)
  OBVIOUS
<1>2. <<>> # None
  BY <1>1, BlobAssumption
<1>3. FullParts(<<>>)
  BY DEF FullParts
<1> QED BY <1>1, <1>2, <1>3

(* A body stored in one piece is whole. *)
LEMMA WholeInOne ==
  ASSUME NEW n \in Nat
  PROVE  Whole(<<[from |-> 0, to |-> n]>>, n)
  BY DEF Whole

(* A piece that goes on where the last one ended is appended. *)
LEMMA Appended ==
  ASSUME NEW pieces \in Seq(Piece), NEW n \in Nat, NEW m \in Nat,
         NEW all, all = Append(pieces, [from |-> n, to |-> m])
  PROVE  /\ all \in Seq(Piece) /\ all # <<>>
         /\ Len(all) = Len(pieces) + 1 /\ Len(pieces) \in Nat
         /\ all[Len(all)] = [from |-> n, to |-> m]
         /\ \A i \in 1 .. Len(pieces) : all[i] = pieces[i]
  BY PieceType

LEMMA WholeAppended ==
  ASSUME NEW pieces \in Seq(Piece), NEW n \in Nat, NEW m \in Nat,
         (pieces = <<>> /\ n = 0) \/ Whole(pieces, n),
         NEW all, all = Append(pieces, [from |-> n, to |-> m])
  PROVE  Whole(all, m)
<1>1. CASE pieces = <<>> /\ n = 0
  BY <1>1 DEF Whole
<1>2. CASE pieces # <<>> /\ Whole(pieces, n)
  <2>1. Len(pieces) \in Nat \ {0}
    BY <1>2
  <2>2. /\ all # <<>> /\ Len(all) = Len(pieces) + 1
        /\ all[Len(all)] = [from |-> n, to |-> m]
        /\ \A i \in 1 .. Len(pieces) : all[i] = pieces[i]
    BY Appended
  <2>3. \A i \in 1 .. Len(all) - 1 : all[i].to = all[i + 1].from
    <3> SUFFICES ASSUME NEW i \in 1 .. Len(all) - 1 PROVE all[i].to = all[i + 1].from
      OBVIOUS
    <3>1. CASE i = Len(pieces)
      BY <1>2, <2>1, <2>2, <3>1 DEF Whole
    <3>2. CASE i < Len(pieces)
      BY <1>2, <2>1, <2>2, <3>2 DEF Whole
    <3> QED BY <2>1, <2>2, <3>1, <3>2
  <2> QED BY <1>2, <2>1, <2>2, <2>3 DEF Whole
<1> QED BY <1>1, <1>2 DEF Whole

(* Full parts stay full parts, and one more full part makes one more. *)
LEMMA FullAppended ==
  ASSUME NEW pieces \in Seq(Piece), FullParts(pieces), NEW n \in Nat, NEW m \in Nat,
         NEW all, all = Append(pieces, [from |-> n, to |-> m])
  PROVE  /\ \A i \in 1 .. Len(all) - 1 : all[i].to - all[i].from = PART_SIZE
         /\ m = n + PART_SIZE => FullParts(all)
<1>1. /\ Len(pieces) \in Nat /\ Len(all) = Len(pieces) + 1
      /\ all[Len(all)] = [from |-> n, to |-> m]
      /\ \A i \in 1 .. Len(pieces) : all[i] = pieces[i]
  BY Appended
<1>2. \A i \in 1 .. Len(all) - 1 : all[i].to - all[i].from = PART_SIZE
  BY <1>1 DEF FullParts
<1>3. ASSUME m = n + PART_SIZE PROVE FullParts(all)
  <2>1. all[Len(all)].to - all[Len(all)].from = PART_SIZE
    BY <1>1, <1>3, BlobAssumption
  <2> QED BY <1>1, <1>2, <2>1 DEF FullParts
<1> QED BY <1>2, <1>3

(* A chunk that is taken in fits. *)
LEMMA ChunkFits ==
  ASSUME TypeOK, NEW id \in Id, NEW n \in Chunk, Fits(id, n)
  PROVE  got[id] + n \in Size /\ n \in Nat /\ got[id] \in Nat
  BY BlobAssumption DEF TypeOK, Fits, Size

-----------------------------------------------------------------------------
(* What the calls that receive, upload or store do to their own body, in    *)
(* terms of its length and of whole sequences of pieces.                    *)

(* More of the body, no more of it, or its end. *)
Receives(id, more, broken, ended) ==
  \/ \E m \in Size : /\ got[id] <= m /\ got' = [got EXCEPT ![id] = m]
                             /\ \E step \in more : Goto(id, step)
                             /\ UNCHANGED sent
  \/ Goto(id, broken) /\ UNCHANGED <<got, sent>>
  \/ Goto(id, ended) /\ sent' = [sent EXCEPT ![id] = got[id]] /\ UNCHANGED got

LEMMA ChunkReceived ==
  ASSUME TypeOK, NEW id \in Id, NEW n \in Chunk, NEW step, NextChunk(id, n, step)
  PROVE  \E m \in Size : /\ got[id] <= m /\ got' = [got EXCEPT ![id] = m]
                                 /\ Goto(id, step) /\ UNCHANGED sent
<1>1. got[id] + n \in Size /\ got[id] <= got[id] + n
  BY ChunkFits DEF NextChunk
<1> QED BY <1>1 DEF NextChunk

FsWriteEffect(id) ==
  /\ at[id] = "write" /\ Receives(id, {"write"}, "remove", "sync")
  /\ UNCHANGED <<backend, cut, synced, parts, object, faulted, served>>
  /\ \/ tmp' = [tmp EXCEPT ![id] = got'[id]] /\ at'[id] = "write"
     \/ tmp' = tmp /\ at'[id] # "write"

LEMMA FsWriteDoes ==
  ASSUME TypeOK, NEW id \in Id, FsWrite(id)
  PROVE  FsWriteEffect(id)
<1> USE DEF FsWriteEffect
<1>1. ASSUME NEW n \in Chunk, NextChunk(id, n, "write")
   PROVE Receives(id, {"write"}, "remove", "sync")
  BY <1>1, ChunkReceived DEF Receives
<1>2. at'[id] \in {"write", "remove", "sync"}
  BY DEF FsWrite, NextChunk, NoBody, BodyEnds, Goto, TypeOK
<1>3. CASE \E n \in Chunk : NextChunk(id, n, "write") /\ tmp' = [tmp EXCEPT ![id] = got'[id]]
  BY <1>1, <1>3 DEF FsWrite, NextChunk, Goto, TypeOK
<1>4. CASE (NoBody(id, "remove") \/ BodyEnds(id, "sync")) /\ UNCHANGED tmp
  BY <1>4 DEF FsWrite, Receives, NoBody, BodyEnds, Goto, TypeOK
<1> QED BY <1>3, <1>4 DEF FsWrite

FsWriteFailsEffect(id) ==
  /\ at[id] = "write" /\ Goto(id, "remove") /\ Fault(id)
  /\ \E m \in Size : tmp' = [tmp EXCEPT ![id] = m]
  /\ UNCHANGED <<backend, got, cut, synced, parts, object, sent, served>>

LEMMA FsWriteFailsDoes ==
  ASSUME TypeOK, NEW id \in Id, FsWriteFails(id)
  PROVE  FsWriteFailsEffect(id)
<1> USE DEF FsWriteFailsEffect
<1>1. PICK n \in Chunk : Fits(id,
   n) /\ \E k \in 0 .. n : tmp' = [tmp EXCEPT ![id] = got[id] + k]
  BY DEF FsWriteFails
<1>2. PICK k \in 0 .. n : tmp' = [tmp EXCEPT ![id] = got[id] + k]
  BY <1>1
<1>3. got[id] + k \in Size
  BY <1>1, ChunkFits, BlobAssumption DEF Fits, Size
<1> QED BY <1>2, <1>3 DEF FsWriteFails

(* The file that is renamed is the whole body. *)
FsRenameEffect(id) ==
  /\ at[id] = "rename"
  /\ UNCHANGED <<backend, got, cut, synced, parts, sent, served>>
  /\ \/ /\ Goto(id, "done") /\ UNCHANGED faulted
        /\ tmp' = [tmp EXCEPT ![id] = None]
        /\ \E whole \in Seq(Piece) :
             /\ whole = <<[from |-> 0, to |-> sent[id]]>> /\ Whole(whole, sent[id])
             /\ object' = [object EXCEPT ![id] = whole]
     \/ Goto(id, "failed") /\ Fault(id) /\ UNCHANGED <<tmp, object>>

LEMMA FsRenameDoes ==
  ASSUME TypeOK, NEW id \in Id, PartFile(id), BodyLength(id), FsRename(id)
  PROVE  FsRenameEffect(id)
<1> USE DEF FsRenameEffect
<1>1. tmp[id] = sent[id] /\ sent[id] \in Nat
  BY BlobAssumption DEF FsRename, PartFile, BodyLength, TypeOK, Size
<1> DEFINE whole == <<[from |-> 0, to |-> sent[id]]>>
<1>2. whole \in Seq(Piece) /\ Whole(whole, sent[id])
  BY <1>1, PieceType, WholeInOne
<1> HIDE DEF whole
<1>3. Goto(id, "done") /\ object' = [object EXCEPT ![id] = <<[from |-> 0, to |-> tmp[id]]>>]
        => object' = [object EXCEPT ![id] = whole]
  BY <1>1 DEF whole
<1>4. whole = <<[from |-> 0, to |-> sent[id]]>>
  BY DEF whole
<1> QED BY <1>2, <1>3, <1>4 DEF FsRename

S3FillEffect(id) ==
  /\ at[id] = "fill" /\ Receives(id, {"fill", "createUpload"}, "failed", "putObject")
  /\ UNCHANGED <<backend, cut, stored, faulted, served>>

LEMMA S3FillDoes ==
  ASSUME TypeOK, NEW id \in Id, S3Fill(id)
  PROVE  S3FillEffect(id)
<1> USE DEF S3FillEffect
<1>1. ASSUME NEW n \in Chunk,
             NextChunk(id, n, IF got[id] + n < PART_SIZE THEN "fill" ELSE "createUpload")
      PROVE  Receives(id, {"fill", "createUpload"}, "failed", "putObject")
  <2>1. CASE got[id] + n < PART_SIZE
    BY <1>1, <2>1, ChunkReceived DEF Receives
  <2>2. CASE ~ (got[id] + n < PART_SIZE)
    BY <1>1, <2>2, ChunkReceived DEF Receives
  <2> QED BY <2>1, <2>2
<1> QED BY <1>1 DEF S3Fill, Receives, NoBody, BodyEnds

(* A short body is stored with one request. *)
S3PutObjectEffect(id) ==
  /\ at[id] = "putObject" /\ sent[id] # None
  /\ UNCHANGED <<backend, got, cut, tmp, synced, parts, sent, served>>
  /\ \E whole \in Seq(Piece) :
       /\ Whole(whole, sent[id])
       /\ \/ /\ Goto(id, "done") /\ UNCHANGED faulted
             /\ object' = [object EXCEPT ![id] = whole]
          \/ /\ Goto(id, "failed") /\ Fault(id)
             /\ object' = object \/ object' = [object EXCEPT ![id] = whole]

LEMMA S3PutObjectDoes ==
  ASSUME TypeOK, NEW id \in Id, BodyLength(id), S3PutObject(id)
  PROVE  S3PutObjectEffect(id)
<1> USE DEF S3PutObjectEffect
<1>1. sent[id] = got[id] /\ sent[id] \in Nat /\ sent[id] # None
  BY BlobAssumption DEF S3PutObject, BodyLength, TypeOK, Size
<1> DEFINE whole == <<Upto(id)>>
<1>2. whole \in Seq(Piece) /\ Whole(whole, sent[id])
  BY <1>1, PieceType, WholeInOne DEF Upto
<1> HIDE DEF whole
<1>3. object' = [object EXCEPT ![id] = <<Upto(id)>>] => object' = [object EXCEPT ![id] = whole]
  BY DEF whole
<1> QED BY <1>1, <1>2, <1>3 DEF S3PutObject, Request

(* An upload_part: the request goes through, or fails with or without effect. *)
Uploads(id, all, next) ==
  \/ Goto(id, next) /\ parts' = [parts EXCEPT ![id] = all] /\ UNCHANGED faulted
  \/ /\ Goto(id, "abort") /\ Fault(id)
     /\ parts' = parts \/ parts' = [parts EXCEPT ![id] = all]

LEMMA PartUploaded ==
  ASSUME TypeOK, NEW id \in Id, parts[id] # None, FullParts(parts[id]),
         (parts[id] = <<>> /\ cut[id] = 0) \/ Whole(parts[id], cut[id]),
         NEW m \in Nat, NEW next, upload_part(id, m, next)
  PROVE  \E all \in Seq(Piece) :
           /\ all # <<>> /\ Whole(all, m) /\ Uploads(id, all, next)
           /\ \A i \in 1 .. Len(all) - 1 : all[i].to - all[i].from = PART_SIZE
           /\ m = cut[id] + PART_SIZE => FullParts(all)
<1> DEFINE all == Append(parts[id], [from |-> cut[id], to |-> m])
<1>1. parts[id] \in Seq(Piece) /\ cut[id] \in Nat
  BY DEF TypeOK, Size
<1>2. all = Append(parts[id], [from |-> cut[id], to |-> m])
  OBVIOUS
<1>3. Uploads(id, all, next)
  BY DEF upload_part, Request, Uploads
<1> HIDE DEF all
<1>4. all \in Seq(Piece) /\ all # <<>>
  BY <1>1, <1>2, PieceType
<1>5. Whole(all, m)
  BY <1>1, <1>2, WholeAppended
<1>6. /\ \A i \in 1 .. Len(all) - 1 : all[i].to - all[i].from = PART_SIZE
      /\ m = cut[id] + PART_SIZE => FullParts(all)
  BY <1>1, <1>2, FullAppended
<1> QED BY <1>3, <1>4, <1>5, <1>6

S3StreamPartsEffect(id) ==
  /\ at[id] = "stream" /\ UNCHANGED <<backend, tmp, synced, object, served>>
  /\ \/ \E m \in Size, all \in Seq(Piece) :
          /\ m <= got[id] /\ all # <<>> /\ Whole(all, m) /\ FullParts(all)
          /\ Uploads(id, all, "stream") /\ cut' = [cut EXCEPT ![id] = m]
          /\ UNCHANGED <<got, sent>>
     \/ Receives(id, {"stream"}, "abort", "tail") /\ UNCHANGED <<cut, parts, faulted>>

LEMMA S3StreamPartsDoes ==
  ASSUME TypeOK, NEW id \in Id, BodyLength(id), PartsSoFar(id), S3StreamParts(id)
  PROVE  S3StreamPartsEffect(id)
<1> USE DEF S3StreamPartsEffect
<1>1. CASE got[id] - cut[id] >= PART_SIZE
  <2> DEFINE m == cut[id] + PART_SIZE
  <2>1. m \in Size /\ m \in Nat /\ m <= got[id]
    BY <1>1, BlobAssumption DEF TypeOK, Size
  <2>2. upload_part(id, m, "stream") /\ UNCHANGED <<got, sent>>
    BY <1>1 DEF S3StreamParts, PartEnd
  <2>3. /\ parts[id] # None /\ FullParts(parts[id])
        /\ (parts[id] = <<>> /\ cut[id] = 0) \/ Whole(parts[id], cut[id])
    BY DEF S3StreamParts, PartsSoFar
  <2>4. cut' = [cut EXCEPT ![id] = m]
    BY <2>2 DEF upload_part
  <2>5. m = cut[id] + PART_SIZE
    OBVIOUS
  <2> HIDE DEF m
  <2>6. \E all \in Seq(Piece) : all # <<>> /\ Whole(all, m) /\ Uploads(id, all,
     "stream") /\ FullParts(all)
    BY <2>1, <2>2, <2>3, <2>5, PartUploaded
  <2> QED BY <2>1, <2>2, <2>4, <2>6 DEF S3StreamParts
<1>2. CASE ~ (got[id] - cut[id] >= PART_SIZE)
  <2>1. ASSUME NEW n \in Chunk, NextChunk(id, n, "stream")
        PROVE  Receives(id, {"stream"}, "abort", "tail")
    BY <2>1, ChunkReceived DEF Receives
  <2> QED BY <1>2, <2>1 DEF S3StreamParts, Receives, NoBody, BodyEnds
<1> QED BY <1>1, <1>2

(* The rest goes out as the last part, or there is no rest. *)
S3TailEffect(id) ==
  /\ at[id] = "tail" /\ got[id] \in Size
  /\ UNCHANGED <<backend, got, tmp, synced, object, sent, served>>
  /\ \E all \in Seq(Piece) :
       /\ Whole(all, got[id])
       /\ \A i \in 1 .. Len(all) - 1 : all[i].to - all[i].from = PART_SIZE
       /\ \/ Uploads(id, all, "complete") /\ cut' = [cut EXCEPT ![id] = got[id]]
          \/ all = parts[id] /\ Goto(id, "complete") /\ UNCHANGED <<cut, parts, faulted>>

LEMMA S3TailDoes ==
  ASSUME TypeOK, NEW id \in Id, BodyLength(id), PartsSoFar(id), S3Tail(id)
  PROVE  S3TailEffect(id)
<1> USE DEF S3TailEffect
<1>1. /\ at[id] = "tail" /\ got[id] \in Size /\ got[id] \in Nat /\ cut[id] \in Nat
      /\ cut[id] <= got[id] /\ parts[id] # None /\ parts[id] \in Seq(Piece) /\ FullParts(parts[id])
      /\ (parts[id] = <<>> /\ cut[id] = 0) \/ Whole(parts[id], cut[id])
      /\ UNCHANGED <<backend, got, tmp, synced, object, sent, served>>
  BY DEF S3Tail, PartsSoFar, BodyLength, TypeOK, Size
<1>2. CASE upload_part(id, got[id], "complete")
  <2>1. cut' = [cut EXCEPT ![id] = got[id]]
    BY <1>2 DEF upload_part
  <2>2. \E all \in Seq(Piece) :
          /\ Whole(all, got[id]) /\ Uploads(id, all, "complete")
          /\ \A i \in 1 .. Len(all) - 1 : all[i].to - all[i].from = PART_SIZE
    BY <1>1, <1>2, PartUploaded
  <2> QED BY <1>1, <2>1, <2>2
<1>3. CASE /\ ~ (got[id] > cut[id] \/ parts[id] = <<>>)
           /\ Goto(id, "complete") /\ UNCHANGED <<cut, parts, faulted>>
  <2>1. got[id] = cut[id] /\ Whole(parts[id], got[id])
    BY <1>1, <1>3
  <2>2. \A i \in 1 .. Len(parts[id]) - 1 : parts[id][i].to - parts[id][i].from = PART_SIZE
    BY <1>1 DEF FullParts
  <2> QED BY <1>1, <1>3, <2>1, <2>2
<1> QED BY <1>2, <1>3 DEF S3Tail

(* A host that stops loses nothing of an object: its file was synced. *)
HostStopsEffect(id) ==
  /\ InFlight(id) \/ at[id] = "done"
  /\ at' = [at EXCEPT ![id] = IF InFlight(id) THEN "gone" ELSE @]
  /\ \/ UNCHANGED tmp
     \/ tmp[id] # None /\ \E m \in Size : tmp' = [tmp EXCEPT ![id] = m]
  /\ UNCHANGED <<backend, got, cut, synced, parts, object, sent, faulted, served>>

LEMMA HostStopsDoes ==
  ASSUME TypeOK, NEW id \in Id, Finished(id), HostStops(id)
  PROVE  HostStopsEffect(id)
<1> USE DEF HostStopsEffect
<1>1. CASE tmp[id] # None
  <2>1. \E n \in Survives(id, tmp[id]) : tmp' = [tmp EXCEPT ![id] = n]
    BY <1>1 DEF HostStops
  <2>2. Survives(id, tmp[id]) \subseteq Size
    BY <1>1, BlobAssumption DEF Survives, TypeOK, Size
  <2> QED BY <1>1, <2>1, <2>2 DEF HostStops
<1>2. CASE tmp[id] = None /\ backend = "fs" /\ object[id] # None
  <2>1. object[id] = <<[from |-> 0, to |-> sent[id]]>> /\ id \in synced
    BY <1>2 DEF Finished
  <2>2. object[id][1].to = sent[id]
    BY <2>1
  <2>3. object' = [object EXCEPT ![id] = object[id]]
    BY <1>2, <2>1, <2>2 DEF HostStops, Survives
  <2> QED BY <1>2, <2>3 DEF HostStops, TypeOK
<1>3. CASE tmp[id] = None /\ ~ (backend = "fs" /\ object[id] # None)
  BY <1>3 DEF HostStops
<1> QED BY <1>1, <1>2, <1>3

(* Every step in these terms. *)
Effects(id) ==
  \/ Start(id) \/ FsCreate(id) \/ FsWriteEffect(id) \/ FsWriteFailsEffect(id)
  \/ FsSync(id) \/ FsRenameEffect(id) \/ FsRemove(id)
  \/ S3FillEffect(id) \/ S3PutObjectEffect(id) \/ S3CreateUpload(id) \/ S3StreamPartsEffect(id)
  \/ S3TailEffect(id) \/ S3Complete(id) \/ S3Abort(id)
  \/ Get(id) \/ Delete(id) \/ Drop(id) \/ HostStopsEffect(id)

LEMMA NextDoes ==
  ASSUME IInv, [Next]_vars
  PROVE  (\E id \in Id : Effects(id)) \/ UNCHANGED vars
<1> SUFFICES ASSUME Next PROVE \E id \in Id : Effects(id)
  OBVIOUS
<1>1. PICK id \in Id : \/ Start(id) \/ FsPut(id) \/ S3Put(id)
                       \/ Get(id) \/ Delete(id) \/ Drop(id) \/ HostStops(id)
  BY DEF Next
<1>2. TypeOK /\ BodyLength(id) /\ PartFile(id) /\ PartsSoFar(id) /\ Finished(id)
  BY DEF IInv
<1>3. CASE FsPut(id)
  BY <1>2, <1>3, FsWriteDoes, FsWriteFailsDoes, FsRenameDoes DEF FsPut, Effects
<1>4. CASE S3Put(id)
  BY <1>2, <1>4, S3FillDoes, S3PutObjectDoes, S3StreamPartsDoes, S3TailDoes DEF S3Put, Effects
<1>5. CASE Start(id) \/ Get(id) \/ Delete(id) \/ Drop(id) \/ HostStops(id)
  BY <1>2, <1>5, HostStopsDoes DEF Effects
<1> QED BY <1>1, <1>3, <1>4, <1>5

-----------------------------------------------------------------------------
(* The inductive invariant is kept, part by part. *)

(* Every variable keeps its type. *)
LEMMA TypeStep == IInv /\ [Next]_vars => TypeOK'
<1> SUFFICES ASSUME IInv, (\E id \in Id : Effects(id)) \/ UNCHANGED vars PROVE TypeOK'
  BY NextDoes
<1> USE BlobAssumption, SizeRange DEF IInv, TypeOK, Goto, Fault, stored, FsStep, S3Step, Ended
<1>1. ASSUME NEW id \in Id, Start(id) PROVE TypeOK'
  BY <1>1 DEF Start
<1>2. ASSUME NEW id \in Id, FsCreate(id) PROVE TypeOK'
  BY <1>2 DEF FsCreate
<1>3. ASSUME NEW id \in Id, FsWriteEffect(id) PROVE TypeOK'
  <2>1. got' \in [Id -> Size]
    BY <1>3 DEF FsWriteEffect, Receives
  <2>2. sent' \in [Id -> Size \cup {None}] /\ at' \in [Id -> {"idle"} \cup FsStep \cup S3Step \cup Ended]
    BY <1>3 DEF FsWriteEffect, Receives
  <2>3. tmp' \in [Id -> Size \cup {None}]
    BY <1>3, <2>1 DEF FsWriteEffect
  <2> QED BY <1>3, <2>1, <2>2, <2>3 DEF FsWriteEffect
<1>4. ASSUME NEW id \in Id, FsWriteFailsEffect(id) PROVE TypeOK'
  BY <1>4 DEF FsWriteFailsEffect
<1>5. ASSUME NEW id \in Id, FsSync(id) PROVE TypeOK'
  BY <1>5 DEF FsSync
<1>6. ASSUME NEW id \in Id, FsRenameEffect(id) PROVE TypeOK'
  BY <1>6 DEF FsRenameEffect
<1>7. ASSUME NEW id \in Id, FsRemove(id) PROVE TypeOK'
  BY <1>7 DEF FsRemove
<1>8. ASSUME NEW id \in Id, S3FillEffect(id) PROVE TypeOK'
  BY <1>8 DEF S3FillEffect, Receives
<1>9. ASSUME NEW id \in Id, S3PutObjectEffect(id) PROVE TypeOK'
  <2>1. PICK whole \in Seq(Piece) : object' = object \/ object' = [object EXCEPT ![id] = whole]
    BY <1>9 DEF S3PutObjectEffect
  <2>3. object' \in [Id -> Seq(Piece) \cup {None}]
    BY <2>1
  <2>2. faulted' \subseteq Id /\ at' \in [Id -> {"idle"} \cup FsStep \cup S3Step \cup Ended]
    BY <1>9 DEF S3PutObjectEffect
  <2> QED BY <1>9, <2>2, <2>3 DEF S3PutObjectEffect
<1>10. ASSUME NEW id \in Id, S3CreateUpload(id) PROVE TypeOK'
  <2>1. <<>> \in Seq(Piece)
    OBVIOUS
  <2>2. parts' \in [Id -> Seq(Piece) \cup {None}]
    <3>1. parts' = parts \/ parts' = [parts EXCEPT ![id] = <<>>]
      BY <1>10 DEF S3CreateUpload, Request
    <3> QED BY <2>1, <3>1
  <2> QED BY <1>10, <2>2 DEF S3CreateUpload, Request
<1>11. ASSUME NEW id \in Id, S3StreamPartsEffect(id) PROVE TypeOK'
  <2>1. CASE Receives(id, {"stream"}, "abort", "tail") /\ UNCHANGED <<cut, parts, faulted>>
    <3>1. got' \in [Id -> Size]
      BY <2>1 DEF Receives
    <3>2. sent' \in [Id -> Size \cup {None}] /\ at' \in [Id -> {"idle"} \cup FsStep \cup S3Step \cup Ended]
      BY <2>1 DEF Receives
    <3> QED BY <1>11, <2>1, <3>1, <3>2 DEF S3StreamPartsEffect
  <2>2. ASSUME NEW m \in Size, NEW all \in Seq(Piece), Uploads(id, all, "stream"),
               cut' = [cut EXCEPT ![id] = m], UNCHANGED <<got, sent>>
        PROVE  TypeOK'
    <3>1. parts' \in [Id -> Seq(Piece) \cup {None}]
      BY <2>2 DEF Uploads
    <3> QED BY <1>11, <2>2, <3>1 DEF S3StreamPartsEffect, Uploads
  <2> QED BY <1>11, <2>1, <2>2 DEF S3StreamPartsEffect
<1>12. ASSUME NEW id \in Id, S3TailEffect(id) PROVE TypeOK'
  <2>1. PICK all \in Seq(Piece) :
          \/ Uploads(id, all, "complete") /\ cut' = [cut EXCEPT ![id] = got[id]]
          \/ all = parts[id] /\ Goto(id, "complete") /\ UNCHANGED <<cut, parts, faulted>>
    BY <1>12 DEF S3TailEffect
  <2>2. parts' \in [Id -> Seq(Piece) \cup {None}]
    BY <2>1 DEF Uploads
  <2>3. cut' \in [Id -> Size]
    BY <1>12, <2>1 DEF S3TailEffect
  <2>4. faulted' \subseteq Id /\ at' \in [Id -> {"idle"} \cup FsStep \cup S3Step \cup Ended]
    BY <2>1 DEF Uploads
  <2> QED BY <1>12, <2>2, <2>3, <2>4 DEF S3TailEffect
<1>13. ASSUME NEW id \in Id, S3Complete(id) PROVE TypeOK'
  BY <1>13 DEF S3Complete, Request
<1>14. ASSUME NEW id \in Id, S3Abort(id) PROVE TypeOK'
  BY <1>14 DEF S3Abort
<1>15. ASSUME NEW id \in Id, Get(id) PROVE TypeOK'
  BY <1>15 DEF Get
<1>16. ASSUME NEW id \in Id, Delete(id) PROVE TypeOK'
  BY <1>16 DEF Delete
<1>17. ASSUME NEW id \in Id, Drop(id) PROVE TypeOK'
  BY <1>17 DEF Drop, InFlight
<1>18. ASSUME NEW id \in Id, HostStopsEffect(id) PROVE TypeOK'
  BY <1>18 DEF HostStopsEffect
<1>19. CASE UNCHANGED vars
  BY <1>19 DEF vars
<1> HIDE DEF IInv, TypeOK, Goto, Fault, stored, FsStep, S3Step, Ended
<1> QED
  BY <1>1, <1>2, <1>3, <1>4, <1>5, <1>6, <1>7, <1>8, <1>9, <1>10, <1>11, <1>12, <1>13, <1>14,
     <1>15, <1>16, <1>17, <1>18, <1>19 DEF Effects

(* A put makes the calls of the store it began with. *)
LEMMA OwnStep == IInv /\ [Next]_vars => \A i \in Id : OwnStore(i)'
<1> SUFFICES ASSUME IInv, (\E id \in Id : Effects(id)) \/ UNCHANGED vars
   PROVE \A i \in Id : OwnStore(i)'
  BY NextDoes
<1> USE BlobAssumption, SizeRange
   DEF IInv, TypeOK, Goto, Fault, stored, FsStep, S3Step, Ended, InFlight, OwnStore
<1>1. ASSUME NEW id \in Id, Start(id) PROVE \A i \in Id : OwnStore(i)'
  BY <1>1 DEF Start
<1>2. ASSUME NEW id \in Id, FsCreate(id) PROVE \A i \in Id : OwnStore(i)'
  BY <1>2 DEF FsCreate
<1>3. ASSUME NEW id \in Id, FsWriteEffect(id) PROVE \A i \in Id : OwnStore(i)'
  BY <1>3 DEF FsWriteEffect, Receives
<1>4. ASSUME NEW id \in Id, FsWriteFailsEffect(id) PROVE \A i \in Id : OwnStore(i)'
  BY <1>4 DEF FsWriteFailsEffect
<1>5. ASSUME NEW id \in Id, FsSync(id) PROVE \A i \in Id : OwnStore(i)'
  BY <1>5 DEF FsSync
<1>6. ASSUME NEW id \in Id, FsRenameEffect(id) PROVE \A i \in Id : OwnStore(i)'
  BY <1>6 DEF FsRenameEffect
<1>7. ASSUME NEW id \in Id, FsRemove(id) PROVE \A i \in Id : OwnStore(i)'
  BY <1>7 DEF FsRemove
<1>8. ASSUME NEW id \in Id, S3FillEffect(id) PROVE \A i \in Id : OwnStore(i)'
  BY <1>8 DEF S3FillEffect, Receives
<1>9. ASSUME NEW id \in Id, S3PutObjectEffect(id) PROVE \A i \in Id : OwnStore(i)'
  BY <1>9 DEF S3PutObjectEffect
<1>10. ASSUME NEW id \in Id, S3CreateUpload(id) PROVE \A i \in Id : OwnStore(i)'
  BY <1>10 DEF S3CreateUpload, Request
<1>11. ASSUME NEW id \in Id, S3StreamPartsEffect(id) PROVE \A i \in Id : OwnStore(i)'
  BY <1>11 DEF S3StreamPartsEffect, Receives, Uploads
<1>12. ASSUME NEW id \in Id, S3TailEffect(id) PROVE \A i \in Id : OwnStore(i)'
  BY <1>12 DEF S3TailEffect, Uploads
<1>13. ASSUME NEW id \in Id, S3Complete(id) PROVE \A i \in Id : OwnStore(i)'
  BY <1>13 DEF S3Complete, Request
<1>14. ASSUME NEW id \in Id, S3Abort(id) PROVE \A i \in Id : OwnStore(i)'
  BY <1>14 DEF S3Abort
<1>15. ASSUME NEW id \in Id, Get(id) PROVE \A i \in Id : OwnStore(i)'
  BY <1>15 DEF Get
<1>16. ASSUME NEW id \in Id, Delete(id) PROVE \A i \in Id : OwnStore(i)'
  BY <1>16 DEF Delete
<1>17. ASSUME NEW id \in Id, Drop(id) PROVE \A i \in Id : OwnStore(i)'
  BY <1>17 DEF Drop, InFlight
<1>18. ASSUME NEW id \in Id, HostStopsEffect(id) PROVE \A i \in Id : OwnStore(i)'
  BY <1>18 DEF HostStopsEffect
<1>19. CASE UNCHANGED vars
  BY <1>19 DEF vars
<1> HIDE DEF IInv, TypeOK, Goto, Fault, stored, FsStep, S3Step, Ended, InFlight, OwnStore
<1> QED
  BY <1>1, <1>2, <1>3, <1>4, <1>5, <1>6, <1>7, <1>8, <1>9, <1>10, <1>11, <1>12, <1>13, <1>14,
     <1>15, <1>16, <1>17, <1>18, <1>19 DEF Effects

(* Nothing is stored before the last call of a put. *)
LEMMA NotYetStep == IInv /\ [Next]_vars => \A i \in Id : NotYet(i)'
<1> SUFFICES ASSUME IInv, (\E id \in Id : Effects(id)) \/ UNCHANGED vars
   PROVE \A i \in Id : NotYet(i)'
  BY NextDoes
<1> USE BlobAssumption, SizeRange
   DEF IInv, TypeOK, Goto, Fault, stored, FsStep, S3Step, Ended, InFlight, OwnStore, NotYet
<1>1. ASSUME NEW id \in Id, Start(id) PROVE \A i \in Id : NotYet(i)'
  BY <1>1 DEF Start
<1>2. ASSUME NEW id \in Id, FsCreate(id) PROVE \A i \in Id : NotYet(i)'
  BY <1>2 DEF FsCreate
<1>3. ASSUME NEW id \in Id, FsWriteEffect(id) PROVE \A i \in Id : NotYet(i)'
  BY <1>3 DEF FsWriteEffect, Receives
<1>4. ASSUME NEW id \in Id, FsWriteFailsEffect(id) PROVE \A i \in Id : NotYet(i)'
  BY <1>4 DEF FsWriteFailsEffect
<1>5. ASSUME NEW id \in Id, FsSync(id) PROVE \A i \in Id : NotYet(i)'
  BY <1>5 DEF FsSync
<1>6. ASSUME NEW id \in Id, FsRenameEffect(id) PROVE \A i \in Id : NotYet(i)'
  BY <1>6 DEF FsRenameEffect
<1>7. ASSUME NEW id \in Id, FsRemove(id) PROVE \A i \in Id : NotYet(i)'
  BY <1>7 DEF FsRemove
<1>8. ASSUME NEW id \in Id, S3FillEffect(id) PROVE \A i \in Id : NotYet(i)'
  BY <1>8 DEF S3FillEffect, Receives
<1>9. ASSUME NEW id \in Id, S3PutObjectEffect(id) PROVE \A i \in Id : NotYet(i)'
  BY <1>9 DEF S3PutObjectEffect
<1>10. ASSUME NEW id \in Id, S3CreateUpload(id) PROVE \A i \in Id : NotYet(i)'
  BY <1>10 DEF S3CreateUpload, Request
<1>11. ASSUME NEW id \in Id, S3StreamPartsEffect(id) PROVE \A i \in Id : NotYet(i)'
  BY <1>11 DEF S3StreamPartsEffect, Receives, Uploads
<1>12. ASSUME NEW id \in Id, S3TailEffect(id) PROVE \A i \in Id : NotYet(i)'
  BY <1>12 DEF S3TailEffect, Uploads
<1>13. ASSUME NEW id \in Id, S3Complete(id) PROVE \A i \in Id : NotYet(i)'
  BY <1>13 DEF S3Complete, Request
<1>14. ASSUME NEW id \in Id, S3Abort(id) PROVE \A i \in Id : NotYet(i)'
  BY <1>14 DEF S3Abort
<1>15. ASSUME NEW id \in Id, Get(id) PROVE \A i \in Id : NotYet(i)'
  BY <1>15 DEF Get
<1>16. ASSUME NEW id \in Id, Delete(id) PROVE \A i \in Id : NotYet(i)'
  BY <1>16 DEF Delete
<1>17. ASSUME NEW id \in Id, Drop(id) PROVE \A i \in Id : NotYet(i)'
  BY <1>17 DEF Drop, InFlight
<1>18. ASSUME NEW id \in Id, HostStopsEffect(id) PROVE \A i \in Id : NotYet(i)'
  BY <1>18 DEF HostStopsEffect
<1>19. CASE UNCHANGED vars
  BY <1>19 DEF vars
<1> HIDE
   DEF IInv, TypeOK, Goto, Fault, stored, FsStep, S3Step, Ended, InFlight, OwnStore, NotYet
<1> QED
  BY <1>1, <1>2, <1>3, <1>4, <1>5, <1>6, <1>7, <1>8, <1>9, <1>10, <1>11, <1>12, <1>13, <1>14,
     <1>15, <1>16, <1>17, <1>18, <1>19 DEF Effects

(* Nothing more is received of a body that ended, and no part goes beyond it. *)
LEMMA LengthStep == IInv /\ [Next]_vars => \A i \in Id : BodyLength(i)'
<1> SUFFICES ASSUME IInv, (\E id \in Id : Effects(id)) \/ UNCHANGED vars
   PROVE \A i \in Id : BodyLength(i)'
  BY NextDoes
<1> USE BlobAssumption, SizeRange
   DEF IInv, TypeOK, Goto, Fault, stored, FsStep, S3Step, Ended, InFlight, BodyLength,
      PartsSoFar, Size
<1>1. ASSUME NEW id \in Id, Start(id) PROVE \A i \in Id : BodyLength(i)'
  BY <1>1 DEF Start
<1>2. ASSUME NEW id \in Id, FsCreate(id) PROVE \A i \in Id : BodyLength(i)'
  BY <1>2 DEF FsCreate
<1>3. ASSUME NEW id \in Id, FsWriteEffect(id) PROVE \A i \in Id : BodyLength(i)'
  BY <1>3 DEF FsWriteEffect, Receives
<1>4. ASSUME NEW id \in Id, FsWriteFailsEffect(id) PROVE \A i \in Id : BodyLength(i)'
  BY <1>4 DEF FsWriteFailsEffect
<1>5. ASSUME NEW id \in Id, FsSync(id) PROVE \A i \in Id : BodyLength(i)'
  BY <1>5 DEF FsSync
<1>6. ASSUME NEW id \in Id, FsRenameEffect(id) PROVE \A i \in Id : BodyLength(i)'
  BY <1>6 DEF FsRenameEffect
<1>7. ASSUME NEW id \in Id, FsRemove(id) PROVE \A i \in Id : BodyLength(i)'
  BY <1>7 DEF FsRemove
<1>8. ASSUME NEW id \in Id, S3FillEffect(id) PROVE \A i \in Id : BodyLength(i)'
  BY <1>8 DEF S3FillEffect, Receives
<1>9. ASSUME NEW id \in Id, S3PutObjectEffect(id) PROVE \A i \in Id : BodyLength(i)'
  BY <1>9 DEF S3PutObjectEffect
<1>10. ASSUME NEW id \in Id, S3CreateUpload(id) PROVE \A i \in Id : BodyLength(i)'
  BY <1>10 DEF S3CreateUpload, Request
<1>11. ASSUME NEW id \in Id, S3StreamPartsEffect(id) PROVE \A i \in Id : BodyLength(i)'
  <2>1. CASE Receives(id, {"stream"}, "abort", "tail") /\ UNCHANGED <<cut, parts, faulted>>
    BY <1>11, <2>1 DEF S3StreamPartsEffect, Receives
  <2>2. ASSUME NEW m \in Size, m <= got[id], cut' = [cut EXCEPT ![id] = m], UNCHANGED <<got,
     sent>>,
               at'[id] \in {"stream", "abort"}, \A i \in Id \ {id} : at'[i] = at[i]
        PROVE  \A i \in Id : BodyLength(i)'
    BY <1>11, <2>2 DEF S3StreamPartsEffect
  <2>3. ASSUME NEW all, Uploads(id, all, "stream")
        PROVE  at'[id] \in {"stream", "abort"} /\ \A i \in Id \ {id} : at'[i] = at[i]
    BY <2>3 DEF Uploads
  <2> QED BY <1>11, <2>1, <2>2, <2>3 DEF S3StreamPartsEffect
<1>12. ASSUME NEW id \in Id, S3TailEffect(id) PROVE \A i \in Id : BodyLength(i)'
  BY <1>12 DEF S3TailEffect, Uploads
<1>13. ASSUME NEW id \in Id, S3Complete(id) PROVE \A i \in Id : BodyLength(i)'
  BY <1>13 DEF S3Complete, Request
<1>14. ASSUME NEW id \in Id, S3Abort(id) PROVE \A i \in Id : BodyLength(i)'
  BY <1>14 DEF S3Abort
<1>15. ASSUME NEW id \in Id, Get(id) PROVE \A i \in Id : BodyLength(i)'
  BY <1>15 DEF Get
<1>16. ASSUME NEW id \in Id, Delete(id) PROVE \A i \in Id : BodyLength(i)'
  BY <1>16 DEF Delete
<1>17. ASSUME NEW id \in Id, Drop(id) PROVE \A i \in Id : BodyLength(i)'
  BY <1>17 DEF Drop, InFlight
<1>18. ASSUME NEW id \in Id, HostStopsEffect(id) PROVE \A i \in Id : BodyLength(i)'
  BY <1>18 DEF HostStopsEffect
<1>19. CASE UNCHANGED vars
  BY <1>19 DEF vars
<1> HIDE
   DEF IInv, TypeOK, Goto, Fault, stored, FsStep, S3Step, Ended, InFlight, BodyLength,
      PartsSoFar, Size
<1> QED
  BY <1>1, <1>2, <1>3, <1>4, <1>5, <1>6, <1>7, <1>8, <1>9, <1>10, <1>11, <1>12, <1>13, <1>14,
     <1>15, <1>16, <1>17, <1>18, <1>19 DEF Effects

(* The .part file grows with the body, and goes with the rename. *)
LEMMA FileStep == IInv /\ [Next]_vars => \A i \in Id : PartFile(i)'
<1> SUFFICES ASSUME IInv, (\E id \in Id : Effects(id)) \/ UNCHANGED vars
   PROVE \A i \in Id : PartFile(i)'
  BY NextDoes
<1> USE BlobAssumption, SizeRange
   DEF IInv, TypeOK, Goto, Fault, stored, FsStep, S3Step, Ended, InFlight, OwnStore, PartFile,
      Outcome, PartsSoFar, BodyLength
<1>1. ASSUME NEW id \in Id, Start(id) PROVE \A i \in Id : PartFile(i)'
  BY <1>1 DEF Start
<1>2. ASSUME NEW id \in Id, FsCreate(id) PROVE \A i \in Id : PartFile(i)'
  BY <1>2 DEF FsCreate
<1>3. ASSUME NEW id \in Id, FsWriteEffect(id) PROVE \A i \in Id : PartFile(i)'
  BY <1>3 DEF FsWriteEffect, Receives
<1>4. ASSUME NEW id \in Id, FsWriteFailsEffect(id) PROVE \A i \in Id : PartFile(i)'
  BY <1>4 DEF FsWriteFailsEffect
<1>5. ASSUME NEW id \in Id, FsSync(id) PROVE \A i \in Id : PartFile(i)'
  BY <1>5 DEF FsSync
<1>6. ASSUME NEW id \in Id, FsRenameEffect(id) PROVE \A i \in Id : PartFile(i)'
  BY <1>6 DEF FsRenameEffect
<1>7. ASSUME NEW id \in Id, FsRemove(id) PROVE \A i \in Id : PartFile(i)'
  BY <1>7 DEF FsRemove
<1>8. ASSUME NEW id \in Id, S3FillEffect(id) PROVE \A i \in Id : PartFile(i)'
  BY <1>8 DEF S3FillEffect, Receives
<1>9. ASSUME NEW id \in Id, S3PutObjectEffect(id) PROVE \A i \in Id : PartFile(i)'
  BY <1>9 DEF S3PutObjectEffect
<1>10. ASSUME NEW id \in Id, S3CreateUpload(id) PROVE \A i \in Id : PartFile(i)'
  BY <1>10 DEF S3CreateUpload, Request
<1>11. ASSUME NEW id \in Id, S3StreamPartsEffect(id) PROVE \A i \in Id : PartFile(i)'
  BY <1>11 DEF S3StreamPartsEffect, Receives, Uploads
<1>12. ASSUME NEW id \in Id, S3TailEffect(id) PROVE \A i \in Id : PartFile(i)'
  BY <1>12 DEF S3TailEffect, Uploads
<1>13. ASSUME NEW id \in Id, S3Complete(id) PROVE \A i \in Id : PartFile(i)'
  BY <1>13 DEF S3Complete, Request
<1>14. ASSUME NEW id \in Id, S3Abort(id) PROVE \A i \in Id : PartFile(i)'
  BY <1>14 DEF S3Abort
<1>15. ASSUME NEW id \in Id, Get(id) PROVE \A i \in Id : PartFile(i)'
  BY <1>15 DEF Get
<1>16. ASSUME NEW id \in Id, Delete(id) PROVE \A i \in Id : PartFile(i)'
  BY <1>16 DEF Delete
<1>17. ASSUME NEW id \in Id, Drop(id) PROVE \A i \in Id : PartFile(i)'
  BY <1>17 DEF Drop, InFlight
<1>18. ASSUME NEW id \in Id, HostStopsEffect(id) PROVE \A i \in Id : PartFile(i)'
  BY <1>18 DEF HostStopsEffect
<1>19. CASE UNCHANGED vars
  BY <1>19 DEF vars
<1> HIDE
   DEF IInv, TypeOK, Goto, Fault, stored, FsStep, S3Step, Ended, InFlight, OwnStore, PartFile,
      Outcome, PartsSoFar, BodyLength
<1> QED
  BY <1>1, <1>2, <1>3, <1>4, <1>5, <1>6, <1>7, <1>8, <1>9, <1>10, <1>11, <1>12, <1>13, <1>14,
     <1>15, <1>16, <1>17, <1>18, <1>19 DEF Effects

(* Parts follow each other, full ones until the last. *)
LEMMA PartsStep == IInv /\ [Next]_vars => \A i \in Id : PartsSoFar(i)'
<1> SUFFICES ASSUME IInv, (\E id \in Id : Effects(id)) \/ UNCHANGED vars
   PROVE \A i \in Id : PartsSoFar(i)'
  BY NextDoes
<1> USE BlobAssumption, SizeRange
   DEF IInv, TypeOK, Goto, Fault, stored, FsStep, S3Step, Ended, InFlight, OwnStore,
      PartsSoFar, BodyLength, NotYet
<1>1. ASSUME NEW id \in Id, Start(id) PROVE \A i \in Id : PartsSoFar(i)'
  BY <1>1 DEF Start
<1>2. ASSUME NEW id \in Id, FsCreate(id) PROVE \A i \in Id : PartsSoFar(i)'
  BY <1>2 DEF FsCreate
<1>3. ASSUME NEW id \in Id, FsWriteEffect(id) PROVE \A i \in Id : PartsSoFar(i)'
  BY <1>3 DEF FsWriteEffect, Receives
<1>4. ASSUME NEW id \in Id, FsWriteFailsEffect(id) PROVE \A i \in Id : PartsSoFar(i)'
  BY <1>4 DEF FsWriteFailsEffect
<1>5. ASSUME NEW id \in Id, FsSync(id) PROVE \A i \in Id : PartsSoFar(i)'
  BY <1>5 DEF FsSync
<1>6. ASSUME NEW id \in Id, FsRenameEffect(id) PROVE \A i \in Id : PartsSoFar(i)'
  BY <1>6 DEF FsRenameEffect
<1>7. ASSUME NEW id \in Id, FsRemove(id) PROVE \A i \in Id : PartsSoFar(i)'
  BY <1>7 DEF FsRemove
<1>8. ASSUME NEW id \in Id, S3FillEffect(id) PROVE \A i \in Id : PartsSoFar(i)'
  BY <1>8 DEF S3FillEffect, Receives
<1>9. ASSUME NEW id \in Id, S3PutObjectEffect(id) PROVE \A i \in Id : PartsSoFar(i)'
  BY <1>9 DEF S3PutObjectEffect
<1>10. ASSUME NEW id \in Id, S3CreateUpload(id) PROVE \A i \in Id : PartsSoFar(i)'
  <2>1. at[id] = "createUpload" /\ cut[id] = 0 /\ cut' = cut /\ got' = got
    BY <1>10 DEF S3CreateUpload
  <2>2. parts'[id] = <<>> \/ at'[id] = "failed"
    BY <1>10 DEF S3CreateUpload, Request
  <2>3. at'[id] \in {"stream", "failed"}
    BY <1>10 DEF S3CreateUpload, Request
  <2>4. \A i \in Id \ {id} : at'[i] = at[i] /\ parts'[i] = parts[i]
    BY <1>10 DEF S3CreateUpload, Request
  <2>5. PartsSoFar(id)'
    BY <2>1, <2>2, <2>3, NoParts
  <2>6. \A i \in Id \ {id} : PartsSoFar(i)'
    BY <2>1, <2>4
  <2> QED BY <2>5, <2>6
<1>11. ASSUME NEW id \in Id, S3StreamPartsEffect(id) PROVE \A i \in Id : PartsSoFar(i)'
  BY <1>11 DEF S3StreamPartsEffect, Receives, Uploads
<1>12. ASSUME NEW id \in Id, S3TailEffect(id) PROVE \A i \in Id : PartsSoFar(i)'
  BY <1>12 DEF S3TailEffect, Uploads
<1>13. ASSUME NEW id \in Id, S3Complete(id) PROVE \A i \in Id : PartsSoFar(i)'
  BY <1>13 DEF S3Complete, Request
<1>14. ASSUME NEW id \in Id, S3Abort(id) PROVE \A i \in Id : PartsSoFar(i)'
  BY <1>14 DEF S3Abort
<1>15. ASSUME NEW id \in Id, Get(id) PROVE \A i \in Id : PartsSoFar(i)'
  BY <1>15 DEF Get
<1>16. ASSUME NEW id \in Id, Delete(id) PROVE \A i \in Id : PartsSoFar(i)'
  BY <1>16 DEF Delete
<1>17. ASSUME NEW id \in Id, Drop(id) PROVE \A i \in Id : PartsSoFar(i)'
  BY <1>17 DEF Drop, InFlight
<1>18. ASSUME NEW id \in Id, HostStopsEffect(id) PROVE \A i \in Id : PartsSoFar(i)'
  BY <1>18 DEF HostStopsEffect
<1>19. CASE UNCHANGED vars
  BY <1>19 DEF vars
<1> HIDE
   DEF IInv, TypeOK, Goto, Fault, stored, FsStep, S3Step, Ended, InFlight, OwnStore,
      PartsSoFar, BodyLength, NotYet
<1> QED
  BY <1>1, <1>2, <1>3, <1>4, <1>5, <1>6, <1>7, <1>8, <1>9, <1>10, <1>11, <1>12, <1>13, <1>14,
     <1>15, <1>16, <1>17, <1>18, <1>19 DEF Effects

(* What was stored stays whole, and a stop of the host takes nothing of it. *)
LEMMA FinishedStep == IInv /\ [Next]_vars => \A i \in Id : Finished(i)'
<1> SUFFICES ASSUME IInv, (\E id \in Id : Effects(id)) \/ UNCHANGED vars
   PROVE \A i \in Id : Finished(i)'
  BY NextDoes
<1> USE BlobAssumption, SizeRange
   DEF IInv, TypeOK, Goto, Fault, stored, FsStep, S3Step, Ended, InFlight, OwnStore,
      PartsSoFar, PartFile, BodyLength, NotYet, Finished
<1>1. ASSUME NEW id \in Id, Start(id) PROVE \A i \in Id : Finished(i)'
  BY <1>1 DEF Start
<1>2. ASSUME NEW id \in Id, FsCreate(id) PROVE \A i \in Id : Finished(i)'
  BY <1>2 DEF FsCreate
<1>3. ASSUME NEW id \in Id, FsWriteEffect(id) PROVE \A i \in Id : Finished(i)'
  BY <1>3 DEF FsWriteEffect, Receives
<1>4. ASSUME NEW id \in Id, FsWriteFailsEffect(id) PROVE \A i \in Id : Finished(i)'
  BY <1>4 DEF FsWriteFailsEffect
<1>5. ASSUME NEW id \in Id, FsSync(id) PROVE \A i \in Id : Finished(i)'
  BY <1>5 DEF FsSync
<1>6. ASSUME NEW id \in Id, FsRenameEffect(id) PROVE \A i \in Id : Finished(i)'
  BY <1>6 DEF FsRenameEffect
<1>7. ASSUME NEW id \in Id, FsRemove(id) PROVE \A i \in Id : Finished(i)'
  BY <1>7 DEF FsRemove
<1>8. ASSUME NEW id \in Id, S3FillEffect(id) PROVE \A i \in Id : Finished(i)'
  BY <1>8 DEF S3FillEffect, Receives
<1>9. ASSUME NEW id \in Id, S3PutObjectEffect(id) PROVE \A i \in Id : Finished(i)'
  <2>1. PICK whole \in Seq(Piece) :
          /\ Whole(whole, sent[id])
          /\ object' = object \/ object' = [object EXCEPT ![id] = whole]
    BY <1>9 DEF S3PutObjectEffect
  <2>2. sent[id] # None /\ UNCHANGED <<sent, served, synced, backend>> /\ backend = "s3"
    BY <1>9 DEF S3PutObjectEffect
  <2> QED BY <2>1, <2>2
<1>10. ASSUME NEW id \in Id, S3CreateUpload(id) PROVE \A i \in Id : Finished(i)'
  BY <1>10 DEF S3CreateUpload, Request
<1>11. ASSUME NEW id \in Id, S3StreamPartsEffect(id) PROVE \A i \in Id : Finished(i)'
  BY <1>11 DEF S3StreamPartsEffect, Receives, Uploads
<1>12. ASSUME NEW id \in Id, S3TailEffect(id) PROVE \A i \in Id : Finished(i)'
  BY <1>12 DEF S3TailEffect, Uploads
<1>13. ASSUME NEW id \in Id, S3Complete(id) PROVE \A i \in Id : Finished(i)'
  BY <1>13 DEF S3Complete, Request
<1>14. ASSUME NEW id \in Id, S3Abort(id) PROVE \A i \in Id : Finished(i)'
  BY <1>14 DEF S3Abort
<1>15. ASSUME NEW id \in Id, Get(id) PROVE \A i \in Id : Finished(i)'
  BY <1>15 DEF Get
<1>16. ASSUME NEW id \in Id, Delete(id) PROVE \A i \in Id : Finished(i)'
  BY <1>16 DEF Delete
<1>17. ASSUME NEW id \in Id, Drop(id) PROVE \A i \in Id : Finished(i)'
  BY <1>17 DEF Drop, InFlight
<1>18. ASSUME NEW id \in Id, HostStopsEffect(id) PROVE \A i \in Id : Finished(i)'
  BY <1>18 DEF HostStopsEffect
<1>19. CASE UNCHANGED vars
  BY <1>19 DEF vars
<1> HIDE
   DEF IInv, TypeOK, Goto, Fault, stored, FsStep, S3Step, Ended, InFlight, OwnStore,
      PartsSoFar, PartFile, BodyLength, NotYet, Finished
<1> QED
  BY <1>1, <1>2, <1>3, <1>4, <1>5, <1>6, <1>7, <1>8, <1>9, <1>10, <1>11, <1>12, <1>13, <1>14,
     <1>15, <1>16, <1>17, <1>18, <1>19 DEF Effects

(* How a put ended goes on to say what it left. *)
LEMMA OutcomeStep == IInv /\ [Next]_vars => \A i \in Id : Outcome(i)'
<1> SUFFICES ASSUME IInv, (\E id \in Id : Effects(id)) \/ UNCHANGED vars
   PROVE \A i \in Id : Outcome(i)'
  BY NextDoes
<1> USE BlobAssumption, SizeRange
   DEF IInv, TypeOK, Goto, Fault, stored, FsStep, S3Step, Ended, InFlight, OwnStore,
      PartsSoFar, PartFile, NotYet, Outcome, Leftover
<1>1. ASSUME NEW id \in Id, Start(id) PROVE \A i \in Id : Outcome(i)'
  BY <1>1 DEF Start
<1>2. ASSUME NEW id \in Id, FsCreate(id) PROVE \A i \in Id : Outcome(i)'
  BY <1>2 DEF FsCreate
<1>3. ASSUME NEW id \in Id, FsWriteEffect(id) PROVE \A i \in Id : Outcome(i)'
  BY <1>3 DEF FsWriteEffect, Receives
<1>4. ASSUME NEW id \in Id, FsWriteFailsEffect(id) PROVE \A i \in Id : Outcome(i)'
  BY <1>4 DEF FsWriteFailsEffect
<1>5. ASSUME NEW id \in Id, FsSync(id) PROVE \A i \in Id : Outcome(i)'
  BY <1>5 DEF FsSync
<1>6. ASSUME NEW id \in Id, FsRenameEffect(id) PROVE \A i \in Id : Outcome(i)'
  BY <1>6 DEF FsRenameEffect
<1>7. ASSUME NEW id \in Id, FsRemove(id) PROVE \A i \in Id : Outcome(i)'
  BY <1>7 DEF FsRemove
<1>8. ASSUME NEW id \in Id, S3FillEffect(id) PROVE \A i \in Id : Outcome(i)'
  BY <1>8 DEF S3FillEffect, Receives
<1>9. ASSUME NEW id \in Id, S3PutObjectEffect(id) PROVE \A i \in Id : Outcome(i)'
  BY <1>9 DEF S3PutObjectEffect
<1>10. ASSUME NEW id \in Id, S3CreateUpload(id) PROVE \A i \in Id : Outcome(i)'
  BY <1>10 DEF S3CreateUpload, Request
<1>11. ASSUME NEW id \in Id, S3StreamPartsEffect(id) PROVE \A i \in Id : Outcome(i)'
  BY <1>11 DEF S3StreamPartsEffect, Receives, Uploads
<1>12. ASSUME NEW id \in Id, S3TailEffect(id) PROVE \A i \in Id : Outcome(i)'
  BY <1>12 DEF S3TailEffect, Uploads
<1>13. ASSUME NEW id \in Id, S3Complete(id) PROVE \A i \in Id : Outcome(i)'
  BY <1>13 DEF S3Complete, Request
<1>14. ASSUME NEW id \in Id, S3Abort(id) PROVE \A i \in Id : Outcome(i)'
  BY <1>14 DEF S3Abort
<1>15. ASSUME NEW id \in Id, Get(id) PROVE \A i \in Id : Outcome(i)'
  BY <1>15 DEF Get
<1>16. ASSUME NEW id \in Id, Delete(id) PROVE \A i \in Id : Outcome(i)'
  BY <1>16 DEF Delete
<1>17. ASSUME NEW id \in Id, Drop(id) PROVE \A i \in Id : Outcome(i)'
  BY <1>17 DEF Drop, InFlight
<1>18. ASSUME NEW id \in Id, HostStopsEffect(id) PROVE \A i \in Id : Outcome(i)'
  BY <1>18 DEF HostStopsEffect
<1>19. CASE UNCHANGED vars
  BY <1>19 DEF vars
<1> HIDE
   DEF IInv, TypeOK, Goto, Fault, stored, FsStep, S3Step, Ended, InFlight, OwnStore,
      PartsSoFar, PartFile, NotYet, Outcome, Leftover
<1> QED
  BY <1>1, <1>2, <1>3, <1>4, <1>5, <1>6, <1>7, <1>8, <1>9, <1>10, <1>11, <1>12, <1>13, <1>14,
     <1>15, <1>16, <1>17, <1>18, <1>19 DEF Effects

-----------------------------------------------------------------------------
(* The theorems. *)

LEMMA InitIInv == Init => IInv
  BY BlobAssumption, SizeRange
     DEF Init, IInv, TypeOK, FsStep, S3Step, Ended, InFlight, OwnStore, NotYet, BodyLength,
         PartFile, PartsSoFar, Finished, Outcome

LEMMA IInvStep == IInv /\ [Next]_vars => IInv'
  BY TypeStep, OwnStep, NotYetStep, LengthStep, FileStep, PartsStep, FinishedStep, OutcomeStep
     DEF IInv

(* At each call of a put, what is stored so far is as the call needs it,   *)
(* for bodies and parts of any size.                                       *)
THEOREM InductiveInvariant == Spec => []IInv
  BY InitIInv, IInvStep, PTL DEF Spec

(* Every variable keeps its type: in particular no body grows beyond       *)
(* max_size, and no part is sent beyond the body (fs.rs and s3.rs put).    *)
THEOREM TypeCorrect == Spec => []TypeOK
  BY InductiveInvariant, PTL DEF IInv

(* Both stores store and serve whole bodies only, whatever call fails, and *)
(* wherever the put is dropped or the host stops (fs.rs, s3.rs put).       *)
THEOREM OnlyWholeStored == Spec => []OnlyWhole
<1>1. IInv => OnlyWhole
  BY BlobAssumption DEF IInv, TypeOK, Finished, OnlyWhole, Size
<1> QED BY <1>1, InductiveInvariant, PTL

(* Every completed upload has a part, and all its parts but the last are   *)
(* of PART_SIZE (s3.rs stream_parts).                                      *)
THEOREM PartsAlwaysLegal == Spec => []PartsLegal
<1>1. IInv => PartsLegal
  BY DEF IInv, PartsSoFar, PartsLegal, Whole
<1> QED BY <1>1, InductiveInvariant, PTL

(* A put that succeeded left its object alone; one that failed with every  *)
(* call answered left nothing (fs.rs write and remove, s3.rs abort).       *)
THEOREM RefusedLeftNothing == Spec => []RefusedLeavesNothing
<1>1. ASSUME IInv, NEW id \in Id
      PROVE  /\ at[id] = "done" => object[id] # None /\ ~ Leftover(id)
             /\ at[id] = "failed" /\ id \notin faulted => object[id] = None /\ ~ Leftover(id)
  <2>1. Outcome(id) /\ PartFile(id) /\ PartsSoFar(id)
    BY <1>1 DEF IInv
  <2>2. at[id] = "done" => tmp[id] = None /\ parts[id] = None
    BY <2>1 DEF PartFile, PartsSoFar
  <2> QED BY <2>1, <2>2 DEF Outcome, Leftover
<1>2. IInv => RefusedLeavesNothing
  BY <1>1, Zenon DEF RefusedLeavesNothing
<1> QED BY <1>2, InductiveInvariant, PTL
=============================================================================
