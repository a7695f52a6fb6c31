----------------------------- MODULE BlobStores -----------------------------
(***************************************************************************)
(* put, get and delete of the two blob stores, at the grain of the calls   *)
(* they make: file operations for fs.rs, S3 requests for s3.rs.            *)
(*                                                                         *)
(* A body is counted in units.  What is stored is a sequence of pieces of  *)
(* it, [from |-> a, to |-> b] for the units a+1 .. b, so that a body that  *)
(* lost its end, or a part, can be told from a whole one.                  *)
(*                                                                         *)
(* An operator under "Seeded fault" is a variant of the operator after it, *)
(* with a bug the properties must catch; no action uses it.                *)
(***************************************************************************)
EXTENDS Integers, Sequences

CONSTANTS
  Id,         \* the ids bodies are put under; the server draws each id once
  Backend,    \* the stores from_uri may build: a subset of {"fs", "s3"}
  Chunk,      \* the sizes a chunk of the body may have
  MaxSize,    \* max_size
  PART_SIZE,  \* units of an S3 part
  Faults,     \* what may go wrong: a subset of AllFaults
  None

(***************************************************************************)
(*   body   the stream of the body ends in an error                        *)
(*   call   a call fails and has no effect                                 *)
(*   lost   a call takes effect and its answer is lost                     *)
(*   undo   a call that cleans up fails                                    *)
(*   drop   the handler's future, and the put with it, is dropped          *)
(*   crash  the host stops, and a file that was not synced loses its end   *)
(***************************************************************************)
AllFaults == {"body", "call", "lost", "undo", "drop", "crash"}

Piece == [from: Nat, to: Nat]
Size == 0 .. MaxSize

ASSUME BlobAssumption ==
  /\ Backend \subseteq {"fs", "s3"}
  /\ Chunk \subseteq Nat \ {0}
  /\ MaxSize \in Nat /\ PART_SIZE \in Nat \ {0}
  /\ Faults \subseteq AllFaults
  /\ None \notin Seq(Piece) \cup Nat

VARIABLES
  backend,  \* the store the storage URI names
  at,       \* at[id]: the call the put of id makes next, or how it ended
  got,      \* got[id]: units of the body received
  cut,      \* cut[id]: units of the body handed to upload_part
  tmp,      \* tmp[id]: units in the .part file, or None
  synced,   \* the ids whose .part file was synced
  parts,    \* parts[id]: the parts of the open multipart upload, or None
  object,   \* object[id]: the pieces get would answer with, or None
  sent,     \* history: the length of the body, once it ended as it should
  faulted,  \* history: the ids of which a call failed, or lost its answer
  served    \* history: the pieces the last get of id answered with, or None

vars == <<backend, at, got, cut, tmp, synced, parts, object, sent, faulted, served>>
stored == <<tmp, synced, parts, object>>

Fault(id) == faulted' = faulted \cup {id}

FsStep == {"create", "write", "sync", "rename", "remove"}
S3Step == {"fill", "putObject", "createUpload", "stream", "tail", "complete", "abort"}
Ended == {"done", "failed", "gone", "deleted"}

(* The type of every variable. *)
TypeOK ==
  /\ backend \in Backend
  /\ at \in [Id -> {"idle"} \cup FsStep \cup S3Step \cup Ended]
  /\ got \in [Id -> Size] /\ cut \in [Id -> Size]
  /\ tmp \in [Id -> Size \cup {None}]
  /\ synced \subseteq Id
  /\ parts \in [Id -> Seq(Piece) \cup {None}]
  /\ object \in [Id -> Seq(Piece) \cup {None}]
  /\ sent \in [Id -> Size \cup {None}]
  /\ faulted \subseteq Id
  /\ served \in [Id -> Seq(Piece) \cup {None}]

Init ==
  /\ backend \in Backend
  /\ at = [id \in Id |-> "idle"]
  /\ got = [id \in Id |-> 0] /\ cut = [id \in Id |-> 0]
  /\ tmp = [id \in Id |-> None]
  /\ synced = {}
  /\ parts = [id \in Id |-> None]
  /\ object = [id \in Id |-> None]
  /\ sent = [id \in Id |-> None]
  /\ faulted = {}
  /\ served = [id \in Id |-> None]

Goto(id, step) == at' = [at EXCEPT ![id] = step]
Upto(id) == [from |-> 0, to |-> got[id]]

Start(id) ==
  /\ at[id] = "idle"
  /\ Goto(id, IF backend = "fs" THEN "create" ELSE "fill")
  /\ UNCHANGED <<backend, got, cut, sent, faulted, served, stored>>

(***************************************************************************)
(* body.next().await: a chunk that fits, one that does not, an error, and  *)
(* the end of the body.  A store says where each of them leads.            *)
(***************************************************************************)
(* Seeded fault: the chunk is measured after it is taken in. *)
FitsBeforeChunk(id, n) == got[id] <= MaxSize

Fits(id, n) == got[id] + n <= MaxSize

NextChunk(id, n, step) ==
  /\ Fits(id, n)
  /\ got' = [got EXCEPT ![id] = @ + n]
  /\ Goto(id, step)
  /\ UNCHANGED sent

NoBody(id, step) ==
  /\ \/ \E n \in Chunk : ~Fits(id, n)
     \/ "body" \in Faults
  /\ Goto(id, step)
  /\ UNCHANGED <<got, sent>>

BodyEnds(id, step) ==
  /\ sent' = [sent EXCEPT ![id] = got[id]]
  /\ Goto(id, step)
  /\ UNCHANGED got

-----------------------------------------------------------------------------
(* FsBlobStore::put. *)

FsCreate(id) ==
  /\ at[id] = "create"
  /\ \/ Goto(id, "write") /\ tmp' = [tmp EXCEPT ![id] = 0] /\ UNCHANGED faulted
     \/ "call" \in Faults /\ Fault(id) /\ UNCHANGED tmp
        /\ (Goto(id, "failed") \/ Goto(id, "remove"))
  /\ UNCHANGED <<backend, got, cut, synced, parts, object, sent, served>>

FsWrite(id) ==
  /\ at[id] = "write"
  /\ \/ \E n \in Chunk :
          /\ NextChunk(id, n, "write")
          /\ tmp' = [tmp EXCEPT ![id] = got'[id]]
     \/ NoBody(id, "remove") /\ UNCHANGED tmp
     \/ BodyEnds(id, "sync") /\ UNCHANGED tmp
  /\ UNCHANGED <<backend, cut, synced, parts, object, faulted, served>>

(* write_all fails part-way through a chunk. *)
FsWriteFails(id) ==
  /\ at[id] = "write" /\ "call" \in Faults /\ Fault(id)
  /\ \E n \in Chunk : Fits(id, n) /\ \E k \in 0 .. n : tmp' = [tmp EXCEPT ![id] = got[id] + k]
  /\ Goto(id, "remove")
  /\ UNCHANGED <<backend, got, cut, synced, parts, object, sent, served>>

(* Seeded fault: the file is renamed without having been synced. *)
FsSyncSkipped(id) ==
  /\ at[id] = "sync"
  /\ Goto(id, "rename")
  /\ UNCHANGED <<backend, got, cut, tmp, synced, parts, object, sent, faulted, served>>

FsSync(id) ==
  /\ at[id] = "sync"
  /\ \/ Goto(id, "rename") /\ synced' = synced \cup {id} /\ UNCHANGED faulted
     \/ "call" \in Faults /\ Fault(id) /\ Goto(id, "remove") /\ UNCHANGED synced
  /\ UNCHANGED <<backend, got, cut, tmp, parts, object, sent, served>>

FsRename(id) ==
  /\ at[id] = "rename"
  /\ \/ /\ Goto(id, "done")
        /\ object' = [object EXCEPT ![id] = <<[from |-> 0, to |-> tmp[id]]>>]
        /\ tmp' = [tmp EXCEPT ![id] = None]
        /\ UNCHANGED faulted
     \/ "call" \in Faults /\ Fault(id) /\ Goto(id, "failed") /\ UNCHANGED <<tmp, object>>
  /\ UNCHANGED <<backend, got, cut, synced, parts, sent, served>>

(* Seeded fault: a body that failed is left where it was written. *)
FsRemoveForgotten(id) ==
  /\ at[id] = "remove" /\ Goto(id, "failed")
  /\ UNCHANGED <<backend, got, cut, tmp, synced, parts, object, sent, faulted, served>>

FsRemove(id) ==
  /\ at[id] = "remove" /\ Goto(id, "failed")
  /\ \/ tmp' = [tmp EXCEPT ![id] = None] /\ UNCHANGED faulted
     \/ "undo" \in Faults /\ Fault(id) /\ UNCHANGED tmp
  /\ UNCHANGED <<backend, got, cut, synced, parts, object, sent, served>>

-----------------------------------------------------------------------------
(* S3BlobStore::put. *)

(***************************************************************************)
(* A request of put: it does its effect and the put goes on, it fails, or  *)
(* it does its effect and the answer is lost.                              *)
(***************************************************************************)
Request(id, effect, same, next, onError) ==
  \/ effect /\ Goto(id, next) /\ UNCHANGED faulted
  \/ "call" \in Faults /\ same /\ Goto(id, onError) /\ Fault(id)
  \/ "lost" \in Faults /\ effect /\ Goto(id, onError) /\ Fault(id)

(* Up to one part is buffered before the put decides how to upload. *)
S3Fill(id) ==
  /\ at[id] = "fill"
  /\ \/ \E n \in Chunk :
          NextChunk(id, n, IF got[id] + n < PART_SIZE THEN "fill" ELSE "createUpload")
     \/ NoBody(id, "failed")
     \/ BodyEnds(id, "putObject")
  /\ UNCHANGED <<backend, cut, stored, faulted, served>>

S3PutObject(id) ==
  /\ at[id] = "putObject"
  /\ Request(id, object' = [object EXCEPT ![id] = <<Upto(id)>>],
                 UNCHANGED object, "done", "failed")
  /\ UNCHANGED <<backend, got, cut, tmp, synced, parts, sent, served>>

S3CreateUpload(id) ==
  /\ at[id] = "createUpload"
  /\ Request(id, parts' = [parts EXCEPT ![id] = <<>>],
                 UNCHANGED parts, "stream", "failed")
  /\ UNCHANGED <<backend, got, cut, tmp, synced, object, sent, served>>

upload_part(id, upto, next) ==
  /\ Request(id, parts' = [parts EXCEPT ![id] = Append(@, [from |-> cut[id], to |-> upto])],
                 UNCHANGED parts, next, "abort")
  /\ cut' = [cut EXCEPT ![id] = upto]

(* Seeded fault: a part is all that is buffered. *)
PartEndAll(id) == got[id]

PartEnd(id) == cut[id] + PART_SIZE

(* stream_parts: every full part in the buffer goes out before more is read. *)
S3StreamParts(id) ==
  /\ at[id] = "stream"
  /\ IF got[id] - cut[id] >= PART_SIZE
     THEN upload_part(id, PartEnd(id), "stream") /\ UNCHANGED <<got, sent>>
     ELSE /\ \/ \E n \in Chunk : NextChunk(id, n, "stream")
             \/ NoBody(id, "abort")
             \/ BodyEnds(id, "tail")
          /\ UNCHANGED <<cut, parts, faulted>>
  /\ UNCHANGED <<backend, tmp, synced, object, served>>

(* Seeded fault: what is left in the buffer at the end is not uploaded. *)
S3TailForgotten(id) ==
  /\ at[id] = "tail"
  /\ IF parts[id] = <<>>
     THEN upload_part(id, got[id], "complete")
     ELSE Goto(id, "complete") /\ UNCHANGED <<cut, parts, faulted>>
  /\ UNCHANGED <<backend, got, tmp, synced, object, sent, served>>

S3Tail(id) ==
  /\ at[id] = "tail"
  /\ IF got[id] > cut[id] \/ parts[id] = <<>>
     THEN upload_part(id, got[id], "complete")
     ELSE Goto(id, "complete") /\ UNCHANGED <<cut, parts, faulted>>
  /\ UNCHANGED <<backend, got, tmp, synced, object, sent, served>>

S3Complete(id) ==
  /\ at[id] = "complete"
  /\ Request(id, /\ object' = [object EXCEPT ![id] = parts[id]]
                 /\ parts' = [parts EXCEPT ![id] = None],
                 UNCHANGED <<object, parts>>, "done", "failed")
  /\ UNCHANGED <<backend, got, cut, tmp, synced, sent, served>>

S3Abort(id) ==
  /\ at[id] = "abort" /\ Goto(id, "failed")
  /\ \/ parts' = [parts EXCEPT ![id] = None] /\ UNCHANGED faulted
     \/ "undo" \in Faults /\ Fault(id) /\ UNCHANGED parts
  /\ UNCHANGED <<backend, got, cut, tmp, synced, object, sent, served>>

-----------------------------------------------------------------------------
(* get opens the object it finds, and answers with all of it even if the   *)
(* object is deleted meanwhile.                                            *)
Get(id) ==
  /\ object[id] # None
  /\ served' = [served EXCEPT ![id] = object[id]]
  /\ UNCHANGED <<backend, at, got, cut, sent, faulted, stored>>

(* The server deletes what a put told it was stored; delete knows neither  *)
(* .part files nor multipart uploads.                                      *)
Delete(id) ==
  /\ at[id] = "done"
  /\ Goto(id, "deleted")
  /\ object' = [object EXCEPT ![id] = None]
  /\ UNCHANGED <<backend, got, cut, tmp, synced, parts, sent, faulted, served>>

InFlight(id) == at[id] \in FsStep \cup S3Step

(* The connection goes away, and the future of the put with it. *)
Drop(id) ==
  /\ "drop" \in Faults /\ InFlight(id)
  /\ Goto(id, "gone")
  /\ UNCHANGED <<backend, got, cut, sent, faulted, served, stored>>

(* What a file holds after the host stopped: all of it, if it was synced. *)
Survives(id, n) == IF id \in synced THEN {n} ELSE 0 .. n

(* The host stops.  One loss per id at a time: ids share no file. *)
HostStops(id) ==
  /\ "crash" \in Faults /\ (InFlight(id) \/ at[id] = "done")
  /\ at' = [at EXCEPT ![id] = IF InFlight(id) THEN "gone" ELSE @]
  /\ IF tmp[id] # None
     THEN (\E n \in Survives(id, tmp[id]) : tmp' = [tmp EXCEPT ![id] = n]) /\ UNCHANGED object
     ELSE IF backend = "fs" /\ object[id] # None
     THEN /\ \E n \in Survives(id, object[id][1].to) :
               object' = [object EXCEPT ![id] = <<[from |-> 0, to |-> n]>>]
          /\ UNCHANGED tmp
     ELSE UNCHANGED <<tmp, object>>
  /\ UNCHANGED <<backend, got, cut, synced, parts, sent, faulted, served>>

FsPut(id) ==
  \/ FsCreate(id) \/ FsWrite(id) \/ FsWriteFails(id)
  \/ FsSync(id) \/ FsRename(id) \/ FsRemove(id)

S3Put(id) ==
  \/ S3Fill(id) \/ S3PutObject(id) \/ S3CreateUpload(id) \/ S3StreamParts(id)
  \/ S3Tail(id) \/ S3Complete(id) \/ S3Abort(id)

Next ==
  \E id \in Id :
    \/ Start(id) \/ FsPut(id) \/ S3Put(id)
    \/ Get(id) \/ Delete(id)
    \/ Drop(id) \/ HostStops(id)

Spec == Init /\ [][Next]_vars

-----------------------------------------------------------------------------
(* The pieces are the units 1 .. n, each of them once and in order. *)
Whole(pieces, n) ==
  /\ pieces # <<>>
  /\ pieces[1].from = 0 /\ pieces[Len(pieces)].to = n
  /\ \A i \in 1 .. Len(pieces) - 1 : pieces[i].to = pieces[i + 1].from

(***************************************************************************)
(* What is stored under an id, and what a download is answered with, is a  *)
(* whole body its sender finished, of at most max_size: never the front of *)
(* one that broke off, was too large, or was being written when the host   *)
(* stopped (fs.rs writes to a temporary file, syncs it and renames it).    *)
(***************************************************************************)
OnlyWhole ==
  \A id \in Id : \A stuff \in {object[id], served[id]} :
    stuff # None => /\ sent[id] # None /\ sent[id] <= MaxSize
                    /\ Whole(stuff, sent[id])

(***************************************************************************)
(* Every part that is completed is a full one but the last, and there is   *)
(* at least one: S3 refuses the completion otherwise (s3.rs:14, 135-136).  *)
(***************************************************************************)
PartsLegal ==
  \A id \in Id : at[id] = "complete" =>
    /\ parts[id] # <<>>
    /\ \A i \in 1 .. Len(parts[id]) - 1 : parts[id][i].to - parts[id][i].from = PART_SIZE

(* What a put leaves behind that is not the object. *)
Leftover(id) == tmp[id] # None \/ parts[id] # None

(***************************************************************************)
(* A put that reported success left the object and nothing else; one that  *)
(* failed, with every call it made answered, left nothing at all.          *)
(***************************************************************************)
RefusedLeavesNothing ==
  \A id \in Id :
    /\ at[id] = "done" => object[id] # None /\ ~Leftover(id)
    /\ at[id] = "failed" /\ id \notin faulted => object[id] = None /\ ~Leftover(id)

(***************************************************************************)
(* blob/mod.rs:36, of every implementation: a put that reports a failure   *)
(* leaves no partial object behind.                                        *)
(***************************************************************************)
NoPartialLeft == \A id \in Id : at[id] = "failed" => ~Leftover(id)
=============================================================================
