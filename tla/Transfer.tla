------------------------------ MODULE Transfer ------------------------------
(***************************************************************************)
(* A file on its way from one client to another: sealed record by record,  *)
(* stored and served by a server nobody has to trust, cut into chunks by   *)
(* the network, re-framed and opened.  Either end is the CLI or the web    *)
(* client; they share the framing and differ in how they read the file and *)
(* in what a failure leaves behind.                                        *)
(*                                                                         *)
(* The plaintext is the units 1, 2, 3, ... of the file.  Sealing is        *)
(* abstract: a ciphertext is a sequence of cells, each of which knows its  *)
(* record and its place in it, and only all cells of one record, in order, *)
(* opened with the record's own counter and final flag, give its units     *)
(* back.  Junk is any byte the sender did not make.                        *)
(*                                                                         *)
(* An operator under "Seeded fault" is a variant of the operator after it, *)
(* with a bug the properties must catch; no action uses it.                *)
(***************************************************************************)
EXTENDS Framing, Sequences

CONSTANTS
  RECORDS_PER_BLOB, \* records the web client keeps before it spills them into a Blob
  MaxSize,   \* bound: units a file may have
  NetChunk,  \* sizes of the chunks the network delivers
  Faults,    \* a subset of {"file", "server", "net"}
  Junk, None

Record == [index: Nat, last: BOOLEAN, from: Nat, to: Nat]
Cell == [of: Record, at: Nat] \cup {Junk}

ASSUME TransferAssumption ==
  /\ MaxSize \in Nat
  /\ RECORDS_PER_BLOB \in Nat \ {0}
  /\ NetChunk \subseteq Nat \ {0}
  /\ Faults \subseteq {"file", "server", "net"}
  /\ Junk \notin [of: Record, at: Nat] /\ None \notin Seq(Nat)

VARIABLES
  sender, receiver,  \* "cli" or "web"
  step,      \* what happens next
  length,    \* units the file has now
  size,      \* units it had when the sender looked
  pos,       \* units read from it
  sealed,    \* records sealed so far
  body,      \* the ciphertext: the cells of the sealed records
  cipher_len, wire, \* what the server says its length is, what it sends
  buffer, index,    \* received and not opened; records opened
  output,    \* units at the place the file is saved; None: what was there before
  pending, parts,   \* BlobBuilder: opened records, and the units spilled so far
  excuse     \* history: something happened that may make the transfer fail

vars == <<sender, receiver, step, length, size, pos, sealed, body,
          cipher_len, wire, buffer, index, output, pending, parts, excuse>>
built == <<output, pending, parts>>
sending == <<sender, receiver, length, size, pos, sealed, body>>

Client == {"cli", "web"}
Step == {"stat", "seal", "stored", "sendFailed", "receive", "saved", "failed"}

(* The type of every variable. *)
TypeOK ==
  /\ sender \in Client /\ receiver \in Client
  /\ step \in Step
  /\ length \in 0 .. MaxSize /\ size \in 0 .. MaxSize /\ pos \in 0 .. MaxSize
  /\ sealed \in Nat
  /\ body \in Seq(Cell) /\ wire \in Seq(Cell) /\ buffer \in Seq(Cell)
  /\ cipher_len \in Nat /\ index \in Nat
  /\ output \in Seq(1 .. MaxSize) \cup {None}
  /\ pending \in [records: Nat, units: Seq(1 .. MaxSize)] /\ parts \in Seq(1 .. MaxSize)
  /\ excuse \in BOOLEAN

Empty == [records |-> 0, units |-> <<>>]

Init ==
  /\ sender \in Client /\ receiver \in Client
  /\ step = "stat"
  /\ length \in 0 .. MaxSize
  /\ size = 0 /\ pos = 0 /\ sealed = 0
  /\ body = <<>> /\ wire = <<>> /\ buffer = <<>>
  /\ cipher_len = 0 /\ index = 0
  /\ output = None /\ pending = Empty /\ parts = <<>>
  /\ excuse = FALSE

Least(m, n) == IF m <= n THEN m ELSE n

(* Seeded fault: the final flag is not part of the nonce. *)
nonce_without_flag(counter, final_record) == <<counter>>

(* Seeded fault: the counter is not part of the nonce. *)
nonce_without_counter(counter, final_record) == <<final_record>>

record_nonce(counter, final_record) == <<counter, final_record>>

(* The cells of a record, and what opens it. *)
seal_record(r) == [p \in 1 .. (r.to - r.from + TAG_LEN) |-> [of |-> r, at |-> p]]

open_record(cells, counter, last) ==
  /\ cells # <<>> /\ cells[1] # Junk
  /\ cells = seal_record(cells[1].of)
  /\ record_nonce(cells[1].of.index, cells[1].of.last) = record_nonce(counter, last)

Units(from, to) == [i \in 1 .. (to - from) |-> from + i]
Plain(cells) == Units(cells[1].of.from, cells[1].of.to)

-----------------------------------------------------------------------------
(* The sender. *)

Stat ==
  /\ step = "stat" /\ step' = "seal"
  /\ size' = length
  /\ UNCHANGED <<sender, receiver, length, pos, sealed, body,
                 cipher_len, wire, buffer, index, built, excuse>>

(* Someone writes to the file while it is being read. *)
FileChanges ==
  /\ "file" \in Faults /\ step = "seal"
  /\ length' \in 0 .. MaxSize /\ length' # length
  /\ excuse' = TRUE
  /\ UNCHANGED <<sender, receiver, step, size, pos, sealed, body,
                 cipher_len, wire, buffer, index, built>>

(***************************************************************************)
(* What one record takes from the file.  The CLI reads on from where it    *)
(* is, until the record is full or the file ends; the web client slices    *)
(* the file it was given by offset, which the browser refuses once the     *)
(* file has changed.                                                       *)
(***************************************************************************)
(* Seeded fault: a record is what one read returns, full or not. *)
CliReadOnce == pos .. Least(pos + CHUNK_SIZE, IF length > pos THEN length ELSE pos)

CliRead == {Least(pos + CHUNK_SIZE, IF length > pos THEN length ELSE pos)}

(* Seeded fault: the last slice goes on to the end of its record. *)
WebSliceFull == {sealed * CHUNK_SIZE + CHUNK_SIZE}

WebSlice == {Least(sealed * CHUNK_SIZE + CHUNK_SIZE, size)}

Seal ==
  /\ step = "seal" /\ sealed < plain_record_count(size)
  /\ sender = "web" => ~excuse
  /\ \E to \in IF sender = "cli" THEN CliRead ELSE WebSlice :
       /\ body' = body \o seal_record([index |-> sealed,
                                       last |-> sealed + 1 = plain_record_count(size),
                                       from |-> pos, to |-> to])
       /\ pos' = to
  /\ sealed' = sealed + 1
  /\ UNCHANGED <<sender, receiver, step, length, size,
                 cipher_len, wire, buffer, index, built, excuse>>

(* The browser refuses the slice, or the file cannot be read. *)
SealFails ==
  /\ step = "seal" /\ sealed < plain_record_count(size)
  /\ (sender = "web" /\ excuse) \/ "file" \in Faults
  /\ step' = "sendFailed" /\ excuse' = TRUE
  /\ UNCHANGED <<sending, cipher_len, wire, buffer, index, built>>

Uploaded ==
  /\ step = "seal" /\ sealed = plain_record_count(size)
  /\ step' = "stored"
  /\ UNCHANGED <<sending, cipher_len, wire, buffer, index, built, excuse>>

-----------------------------------------------------------------------------
(* The server: it sends what it stored, or something made of it. *)

Bodies ==
  (UNION {{SubSeq(body, 1, a) \o SubSeq(body, b, Len(body)) : b \in 1 .. Len(body) + 1} :
             a \in 0 .. Len(body)})
    \cup {SubSeq(body, b, Len(body)) \o SubSeq(body, 1, b - 1) : b \in 1 .. Len(body)}
    \cup {[body EXCEPT ![i] = Junk] : i \in 1 .. Len(body)}

(***************************************************************************)
(* The download begins: the metadata named a length, and the output file   *)
(* of the CLI is created, or emptied, before the body is asked for.        *)
(***************************************************************************)
Serve ==
  /\ step = "stored" /\ step' = "receive"
  /\ \/ cipher_len' = Len(body) /\ wire' = body /\ UNCHANGED excuse
     \/ /\ "server" \in Faults
        /\ cipher_len' \in 0 .. Len(body) + CHUNK_CIPHERTEXT_SIZE
        /\ wire' \in Bodies
        /\ excuse' = TRUE
  /\ output' = IF receiver = "cli" THEN <<>> ELSE output
  /\ UNCHANGED <<sending, buffer, index, pending, parts>>

-----------------------------------------------------------------------------
(* The receiver. *)

total_records == cipher_record_count(cipher_len)

(* Seeded fault: the loop takes the last record as well when it is full. *)
NotLastAny == index < total_records /\ Len(buffer) >= CHUNK_CIPHERTEXT_SIZE

NotLast == index + 1 < total_records /\ Len(buffer) >= CHUNK_CIPHERTEXT_SIZE

Receive(n) ==
  /\ step = "receive" /\ ~NotLast /\ wire # <<>>
  /\ buffer' = buffer \o SubSeq(wire, 1, Least(n, Len(wire)))
  /\ wire' = SubSeq(wire, n + 1, Len(wire))
  /\ UNCHANGED <<sending, step, cipher_len, index, built, excuse>>

Fail == step' = "failed" /\ UNCHANGED <<wire, buffer, index, built>>

(* BlobBuilder: records are kept, and spilled RECORDS_PER_BLOB at a time. *)
push(units) ==
  IF pending.records + 1 >= RECORDS_PER_BLOB
  THEN parts' = parts \o pending.units \o units /\ pending' = Empty
  ELSE /\ pending' = [records |-> pending.records + 1, units |-> pending.units \o units]
       /\ UNCHANGED parts

(* Seeded fault: what was not spilled yet is forgotten at the end. *)
finish_unflushed(units) == output' = parts \o units

finish(units) == output' = parts \o pending.units \o units

(***************************************************************************)
(* An opened record goes to its place: the CLI writes it to the file, the  *)
(* web client keeps it, and saves the whole of it once the last is opened. *)
(***************************************************************************)
write_all(units) == output' = output \o units /\ UNCHANGED <<pending, parts>>

Keep(units) == IF receiver = "cli" THEN write_all(units) ELSE push(units) /\ UNCHANGED output

KeepLast(units) ==
  IF receiver = "cli" THEN write_all(units)
  ELSE finish(units) /\ UNCHANGED <<pending, parts>>

OpenRecord ==
  /\ step = "receive" /\ NotLast
  /\ LET record == SubSeq(buffer, 1, CHUNK_CIPHERTEXT_SIZE)
     IN IF open_record(record, index, FALSE)
        THEN /\ Keep(Plain(record))
             /\ index' = index + 1
             /\ buffer' = SubSeq(buffer, CHUNK_CIPHERTEXT_SIZE + 1, Len(buffer))
             /\ UNCHANGED <<step, wire>>
        ELSE Fail
  /\ UNCHANGED <<sending, cipher_len, excuse>>

(* Seeded fault: a stream that ends after a full record counts as complete. *)
OpenLastUnchecked ==
  /\ step = "receive" /\ ~NotLast /\ wire = <<>>
  /\ IF open_record(buffer, index, TRUE) \/ (buffer = <<>> /\ index > 0)
     THEN /\ KeepLast(IF buffer = <<>> THEN <<>> ELSE Plain(buffer))
          /\ step' = "saved"
          /\ UNCHANGED <<wire, buffer, index>>
     ELSE Fail
  /\ UNCHANGED <<sending, cipher_len, excuse>>

OpenLast ==
  /\ step = "receive" /\ ~NotLast /\ wire = <<>>
  /\ IF index + 1 = total_records /\ open_record(buffer, index, TRUE)
     THEN KeepLast(Plain(buffer)) /\ step' = "saved" /\ UNCHANGED <<wire, buffer, index>>
     ELSE Fail
  /\ UNCHANGED <<sending, cipher_len, excuse>>

(* The connection breaks, or the file cannot be written to. *)
Broken ==
  /\ "net" \in Faults /\ step = "receive"
  /\ Fail
  /\ excuse' = TRUE
  /\ UNCHANGED <<sending, cipher_len>>

Next ==
  \/ Stat \/ FileChanges \/ Seal \/ SealFails \/ Uploaded
  \/ Serve
  \/ \E n \in NetChunk : Receive(n)
  \/ OpenRecord \/ OpenLast \/ Broken

Spec == Init /\ [][Next]_vars

-----------------------------------------------------------------------------
(***************************************************************************)
(* Whatever a server or a network does to the body, and whatever length it *)
(* claims, a download that reports success saved exactly the units that    *)
(* were sealed: none missing at the end, none twice, none out of order     *)
(* ("truncation and reordering fail loudly", cli/src/crypto.rs:13-14).     *)
(***************************************************************************)
SavedIsWhole == step = "saved" => output = Units(0, pos)

(* What the receiver has written at any time is the front of the file. *)
OutputIsPrefix == output # None => Len(output) <= pos /\ output = Units(0, Len(output))

(***************************************************************************)
(* The two ends agree: a body that is served as it was sealed, of a file   *)
(* that stayed as it was, opens, wherever the network cuts it and whichever*)
(* client is at either end, and gives back the file.                       *)
(***************************************************************************)
HonestOpens ==
  ~excuse => /\ step \notin {"failed", "sendFailed"}
             /\ step = "saved" => Len(output) = length

(***************************************************************************)
(* The lengths computed ahead are those of the body: the total of the CLI's*)
(* upload bar (upload.rs:70) is the number of bytes that will cross it,    *)
(* and the plaintext length is recovered from it.                          *)
(***************************************************************************)
LengthsAgree ==
  step = "stored" /\ ~excuse =>
    /\ Len(body) = ciphertext_len(size)
    /\ plaintext_len(Len(body)) = size
    /\ cipher_record_count(Len(body)) = sealed
=============================================================================
