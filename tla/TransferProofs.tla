--------------------------- MODULE TransferProofs ---------------------------
(***************************************************************************)
(* A transfer is whole or fails, and an honest one opens: for files, chunks*)
(* and records of every length, and for whatever a server makes of the     *)
(* body.  First the lengths of proto/src/lib.rs, which fit each other.     *)
(***************************************************************************)
EXTENDS Transfer, SequenceTheorems, TLAPS

-----------------------------------------------------------------------------
(* Lengths and numbers of records. *)

(* A quotient and a remainder are those of the division. *)
LEMMA Division ==
  ASSUME NEW q \in Nat, NEW r \in Nat, NEW d \in Nat \ {0}, r < d
  PROVE  /\ (q * d + r) \div d = q
         /\ (q * d + r) % d = r
<1> DEFINE n == q * d + r  w == n \div d  s == n % d
<1>1. n \in Nat OBVIOUS
<1>2. w \in Int /\ s \in 0 .. d - 1 /\ n = d * w + s BY <1>1, SMT
<1> QED BY <1>2, SMT

(* Every length is so many full records and a rest. *)
LEMMA Records ==
  ASSUME NEW n \in Nat, NEW d \in Nat \ {0}
  PROVE  \E q \in Nat, r \in Nat : r < d /\ n = q * d + r
<1>1. n \div d \in Nat /\ n % d \in 0 .. d - 1 /\ n = d * (n \div d) + (n % d)
  BY SMT
<1>2. n = (n \div d) * d + (n % d) BY <1>1, SMT
<1> QED BY <1>1, <1>2, SMT

(***************************************************************************)
(* record_count, of a body of q full records and a rest.                   *)
(***************************************************************************)
LEMMA RecordCount ==
  ASSUME NEW q \in Nat, NEW r \in Nat, NEW d \in Nat \ {0}, r < d
  PROVE  record_count(q * d + r, d) =
           IF r > 0 THEN q + 1 ELSE IF q > 0 THEN q ELSE 1
<1>1. q * d \in Nat OBVIOUS
<1>2. q > 0 => q * d > 0 BY SMT
<1>3. CASE r > 0
  <2>1. q * d + r + d - 1 = (q + 1) * d + (r - 1) BY SMT
  <2>2. ((q + 1) * d + (r - 1)) \div d = q + 1 BY <1>3, Division, SMT
  <2> QED BY <1>1, <1>3, <2>1, <2>2 DEF record_count, div_ceil
<1>4. CASE r = 0 /\ q > 0
  <2>1. q * d + r + d - 1 = q * d + (d - 1) BY <1>4, <1>1, SMT
  <2>2. (q * d + (d - 1)) \div d = q BY Division, SMT
  <2> QED BY <1>1, <1>2, <1>4, <2>1, <2>2 DEF record_count, div_ceil
<1>5. CASE r = 0 /\ q = 0
  BY <1>5 DEF record_count
<1> QED BY <1>3, <1>4, <1>5

(***************************************************************************)
(* A sealed body, by full records and what is left: every record grows by  *)
(* one tag, and an empty body is one record of a tag alone.                *)
(***************************************************************************)
LEMMA SealedLength ==
  ASSUME NEW q \in Nat, NEW r \in Nat, r < CHUNK_SIZE
  PROVE  ciphertext_len(q * CHUNK_SIZE + r) =
           IF r > 0 \/ q = 0 THEN q * CHUNK_CIPHERTEXT_SIZE + (r + TAG_LEN)
           ELSE q * CHUNK_CIPHERTEXT_SIZE
<1> USE FramingAssumption
<1>1. record_count(q * CHUNK_SIZE + r, CHUNK_SIZE) =
        IF r > 0 THEN q + 1 ELSE IF q > 0 THEN q ELSE 1
  BY RecordCount
<1>2. q * (CHUNK_SIZE + TAG_LEN) = q * CHUNK_SIZE + q * TAG_LEN BY SMT
<1>3. (q + 1) * TAG_LEN = q * TAG_LEN + TAG_LEN BY SMT
<1>4. q * CHUNK_SIZE \in Nat /\ q * TAG_LEN \in Nat BY SMT
<1>5. CASE r > 0
  <2>1. ciphertext_len(q * CHUNK_SIZE + r) = q * CHUNK_SIZE + r + (q + 1) * TAG_LEN
    BY <1>1, <1>5 DEF ciphertext_len
  <2> QED BY <1>2, <1>3, <1>4, <1>5, <2>1 DEF CHUNK_CIPHERTEXT_SIZE
<1>6. CASE r = 0 /\ q > 0
  <2>1. ciphertext_len(q * CHUNK_SIZE + r) = q * CHUNK_SIZE + q * TAG_LEN
    BY <1>1, <1>4, <1>6 DEF ciphertext_len
  <2> QED BY <1>2, <1>4, <1>6, <2>1 DEF CHUNK_CIPHERTEXT_SIZE
<1>7. CASE r = 0 /\ q = 0
  BY <1>1, <1>7 DEF ciphertext_len, CHUNK_CIPHERTEXT_SIZE
<1> QED BY <1>5, <1>6, <1>7

(***************************************************************************)
(* plaintext_len undoes ciphertext_len: the size a client or the server    *)
(* recovers from the length of a sealed body is the size of the file.      *)
(***************************************************************************)
THEOREM LengthRecovered == \A n \in Nat : plaintext_len(ciphertext_len(n)) = n
<1> USE FramingAssumption
<1> SUFFICES ASSUME NEW n \in Nat PROVE plaintext_len(ciphertext_len(n)) = n
  OBVIOUS
<1>1. PICK q \in Nat, r \in Nat : r < CHUNK_SIZE /\ n = q * CHUNK_SIZE + r
  BY Records
<1> DEFINE C == CHUNK_CIPHERTEXT_SIZE  len == ciphertext_len(n)
<1>2. C \in Nat \ {0} /\ C = CHUNK_SIZE + TAG_LEN BY DEF CHUNK_CIPHERTEXT_SIZE
<1>3. len = IF r > 0 \/ q = 0 THEN q * C + (r + TAG_LEN) ELSE q * C
  BY <1>1, SealedLength
<1>4. /\ q * C = q * CHUNK_SIZE + q * TAG_LEN
      /\ (q + 1) * TAG_LEN = q * TAG_LEN + TAG_LEN
      /\ q * C \in Nat /\ q * CHUNK_SIZE \in Nat /\ q * TAG_LEN \in Nat
  BY <1>2, SMT
<1> HIDE DEF C, len
<1>5. CASE r > 0 \/ q = 0
  <2>1. r + TAG_LEN \in Nat /\ r + TAG_LEN < C BY <1>1, <1>2
  <2>2. len \div C = q /\ len % C = r + TAG_LEN
    BY <1>2, <1>3, <1>5, <2>1, Division
  <2>3. plaintext_len(len) = len - (q + 1) * TAG_LEN
    BY <2>1, <2>2 DEF plaintext_len, C
  <2> QED BY <1>1, <1>3, <1>4, <1>5, <2>3 DEF len
<1>6. CASE r = 0 /\ q > 0
  <2>1. len = q * C + 0 BY <1>3, <1>4, <1>6
  <2>2. len \div C = q /\ len % C = 0 BY <1>2, <2>1, Division
  <2>3. plaintext_len(len) = len - q * TAG_LEN
    BY <1>6, <2>2 DEF plaintext_len, C
  <2> QED BY <1>1, <1>4, <1>6, <2>1, <2>3 DEF len
<1> QED BY <1>5, <1>6

(***************************************************************************)
(* The receiver, who counts records by the length of the sealed body,      *)
(* expects as many as the sender made.                                     *)
(***************************************************************************)
THEOREM CountsAgree ==
  \A n \in Nat : cipher_record_count(ciphertext_len(n)) = plain_record_count(n)
<1> USE FramingAssumption
<1> SUFFICES ASSUME NEW n \in Nat
             PROVE cipher_record_count(ciphertext_len(n)) = plain_record_count(n)
  OBVIOUS
<1>1. PICK q \in Nat, r \in Nat : r < CHUNK_SIZE /\ n = q * CHUNK_SIZE + r
  BY Records
<1> DEFINE C == CHUNK_CIPHERTEXT_SIZE
<1>2. C \in Nat \ {0} /\ C = CHUNK_SIZE + TAG_LEN BY DEF CHUNK_CIPHERTEXT_SIZE
<1>3. ciphertext_len(n) = IF r > 0 \/ q = 0 THEN q * C + (r + TAG_LEN) ELSE q * C
  BY <1>1, SealedLength
<1>4. plain_record_count(n) = IF r > 0 THEN q + 1 ELSE IF q > 0 THEN q ELSE 1
  BY <1>1, RecordCount DEF plain_record_count
<1>5. CASE r > 0 \/ q = 0
  <2>1. r + TAG_LEN \in Nat /\ r + TAG_LEN > 0 /\ r + TAG_LEN < C BY <1>1, <1>2
  <2>2. cipher_record_count(ciphertext_len(n)) = q + 1
    BY <1>2, <1>3, <1>5, <2>1, RecordCount DEF cipher_record_count
  <2> QED BY <1>4, <1>5, <2>2
<1>6. CASE r = 0 /\ q > 0
  <2>1. ciphertext_len(n) = q * C + 0 BY <1>2, <1>3, <1>6, SMT
  <2>2. cipher_record_count(ciphertext_len(n)) = q
    BY <1>2, <1>6, <2>1, RecordCount DEF cipher_record_count
  <2> QED BY <1>4, <1>6, <2>2
<1> QED BY <1>5, <1>6

-----------------------------------------------------------------------------
(* The inductive invariant. *)

C == CHUNK_CIPHERTEXT_SIZE

(* The records that were sealed, and cells that are of these or are junk. *)
Sealed == {body[i].of : i \in 1 .. Len(body)}
OfSealed(cells) == \A i \in 1 .. Len(cells) : cells[i] = Junk \/ cells[i].of \in Sealed

(* What was sealed lies end to end, and its last record is marked. *)
Chained ==
  /\ \A i \in 1 .. Len(body) : body[i] # Junk
  /\ sealed <= plain_record_count(size)
  /\ sealed = 0 => pos = 0
  /\ \A r \in Sealed :
       /\ r.index < sealed /\ r.from <= r.to /\ r.to <= pos
       /\ r.last <=> r.index + 1 = plain_record_count(size)
       /\ r.index = 0 => r.from = 0
       /\ r.index + 1 = sealed => r.to = pos
  /\ \A r, s \in Sealed :
       /\ r.index = s.index => r = s
       /\ s.index = r.index + 1 => s.from = r.to

(* Which variables a step has yet to use. *)
Before ==
  /\ step = "stat" => size = 0 /\ sealed = 0 /\ body = <<>>
  /\ step \in {"stat", "seal", "stored", "sendFailed"} =>
       /\ wire = <<>> /\ buffer = <<>> /\ index = 0
       /\ output = None /\ parts = <<>> /\ pending = Empty
  /\ step \notin {"stat", "seal", "sendFailed"} => sealed = plain_record_count(size)
  /\ step = "receive" => (receiver = "cli" <=> output # None)
  /\ step = "receive" /\ receiver = "cli" => parts = <<>> /\ pending = Empty

(* The units opened so far, wherever the receiver keeps them. *)
Got == IF receiver = "cli" THEN output ELSE parts \o pending.units

(* They are a front of the file, and end where the next record begins. *)
Opened ==
  step = "receive" =>
    /\ Len(Got) <= pos /\ Got = Units(0, Len(Got))
    /\ index = 0 => Len(Got) = 0
    /\ \A r \in Sealed : r.index = index => r.from = Len(Got)

(* A sender that reads as it should is at a record boundary or at the end. *)
OnBoundary == sender = "web" \/ ~excuse => pos = Least(sealed * CHUNK_SIZE, size)

(* The k-th record of a file that does not change, and where its cells are. *)
Nth(k) == [index |-> k, last |-> k + 1 = plain_record_count(size),
           from |-> Least(k * CHUNK_SIZE, size), to |-> Least((k + 1) * CHUNK_SIZE, size)]

Offset(k) == Least(k * CHUNK_SIZE, size) + k * TAG_LEN

LaidOut ==
  ~excuse =>
    /\ step # "stat" => length = size
    /\ Len(body) = Offset(sealed)
    /\ \A k \in 0 .. sealed - 1 : \A p \in 1 .. Nth(k).to - Nth(k).from + TAG_LEN :
         body[Offset(k) + p].of = Nth(k) /\ body[Offset(k) + p].at = p

(* An honest server and network deliver the rest of the body. *)
Delivered ==
  ~excuse =>
    /\ step \notin {"failed", "sendFailed"}
    /\ step = "receive" =>
         /\ index < sealed /\ cipher_len = Len(body)
         /\ buffer \o wire = SubSeq(body, index * C + 1, Len(body))

IInv ==
  /\ TypeOK /\ Chained /\ OfSealed(wire) /\ OfSealed(buffer) /\ Before /\ Opened
  /\ OnBoundary /\ LaidOut /\ Delivered
  /\ OutputIsPrefix /\ SavedIsWhole

-----------------------------------------------------------------------------
(* Lemmas about cells and units. *)

LEMMA Sizes == C \in Nat /\ C > 0 /\ C = CHUNK_SIZE + TAG_LEN /\ TAG_LEN > 0 /\ TAG_LEN \in Nat
  BY FramingAssumption DEF C, CHUNK_CIPHERTEXT_SIZE

(* A sequence given by its elements. *)
LEMMA SeqOf ==
  ASSUME NEW S, NEW n \in Nat, NEW f \in [1 .. n -> S]
  PROVE  f \in Seq(S) /\ Len(f) = n
<1>1. f \in Seq(S)
  BY SeqDef
<1>2. Len(f) \in Nat /\ DOMAIN f = 1 .. Len(f)
  BY <1>1, LenProperties
<1> QED BY <1>1, <1>2

(* A record of so many units makes as many cells and a tag. *)
LEMMA SealedCells ==
  ASSUME NEW r \in Record, r.from <= r.to
  PROVE  /\ seal_record(r) \in Seq(Cell)
         /\ Len(seal_record(r)) = r.to - r.from + TAG_LEN
         /\ \A p \in 1 .. (r.to - r.from + TAG_LEN) :
              /\ seal_record(r)[p] \in [of: Record, at: Nat] /\ seal_record(r)[p] # Junk
              /\ seal_record(r)[p].of = r /\ seal_record(r)[p].at = p
<1> DEFINE n == r.to - r.from + TAG_LEN
<1>1. n \in Nat
  BY Sizes DEF Record
<1>2. \A p \in 1 .. n : [of |-> r, at |-> p] \in [of: Record, at: Nat]
  OBVIOUS
<1>3. seal_record(r) \in [1 .. n -> Cell]
  BY <1>2 DEF seal_record, Cell
<1>4. seal_record(r) \in Seq(Cell) /\ Len(seal_record(r)) = n
  BY <1>1, <1>3, SeqOf
<1>5. \A p \in 1 .. n : seal_record(r)[p] = [of |-> r, at |-> p]
  BY DEF seal_record
<1>6. \A p \in 1 .. n : /\ seal_record(r)[p] \in [of: Record, at: Nat]
                        /\ seal_record(r)[p].of = r /\ seal_record(r)[p].at = p
  <2> SUFFICES ASSUME NEW p \in 1 .. n
               PROVE  /\ seal_record(r)[p] \in [of: Record, at: Nat]
                      /\ seal_record(r)[p].of = r /\ seal_record(r)[p].at = p
    OBVIOUS
  <2>1. seal_record(r)[p] = [of |-> r, at |-> p]
    BY <1>5
  <2> QED BY <2>1
<1> QED BY <1>4, <1>6, TransferAssumption

(* A cell is told by its record and its place. *)
LEMMA SameCell ==
  ASSUME NEW c \in [of: Record, at: Nat], NEW d \in [of: Record, at: Nat],
         c.of = d.of, c.at = d.at
  PROVE  c = d
  OBVIOUS

LEMMA UnitsAre ==
  ASSUME NEW a \in Nat, NEW b \in Nat, a <= b
  PROVE  /\ Units(a, b) \in Seq(Nat) /\ Len(Units(a, b)) = b - a
         /\ \A i \in 1 .. b - a : Units(a, b)[i] = a + i
         /\ b <= MaxSize => Units(a, b) \in Seq(1 .. MaxSize)
<1>1. Units(a, b) \in [1 .. b - a -> Nat] /\ b - a \in Nat
  BY DEF Units
<1>2. b <= MaxSize => Units(a, b) \in [1 .. b - a -> 1 .. MaxSize]
  BY TransferAssumption DEF Units
<1>3. Units(a, b) \in Seq(Nat) /\ Len(Units(a, b)) = b - a
  BY <1>1, SeqOf
<1>4. b <= MaxSize => Units(a, b) \in Seq(1 .. MaxSize)
  BY <1>1, <1>2, SeqOf
<1>5. \A i \in 1 .. b - a : Units(a, b)[i] = a + i
  BY DEF Units
<1> QED BY <1>3, <1>4, <1>5

LEMMA FrontLength == \A b \in Nat : Len(Units(0, b)) = b
<1> SUFFICES ASSUME NEW b \in Nat PROVE Len(Units(0, b)) = b
  OBVIOUS
<1>1. 0 <= b /\ b - 0 = b
  OBVIOUS
<1> QED BY <1>1, UnitsAre

(* Units that go on where the front of the file ends make a longer front. *)
LEMMA UnitsJoin ==
  ASSUME NEW a \in Nat, NEW b \in Nat, a <= b
  PROVE  Units(0, a) \o Units(a, b) = Units(0, b)
<1> DEFINE s == Units(0, a) \o Units(a, b)
<1>1. Units(0, a) \in Seq(Nat) /\ Len(Units(0, a)) = a /\ \A i \in 1 .. a : Units(0, a)[i] = i
  BY UnitsAre
<1>2. Units(a, b) \in Seq(Nat) /\ Len(Units(a, b)) = b - a
      /\ \A i \in 1 .. b - a : Units(a, b)[i] = a + i
  BY UnitsAre
<1>3. Units(0, b) \in Seq(Nat) /\ Len(Units(0, b)) = b /\ \A i \in 1 .. b : Units(0, b)[i] = i
  BY UnitsAre
<1>4. /\ s \in Seq(Nat) /\ Len(s) = b
      /\ \A i \in 1 .. b : s[i] = IF i <= a THEN Units(0, a)[i] ELSE Units(a, b)[i - a]
  BY <1>1, <1>2, ConcatProperties
<1>5. ASSUME NEW i \in 1 .. b PROVE s[i] = i
  <2>1. CASE i <= a
    <3>1. i \in 1 .. a
      BY <2>1
    <3> QED BY <1>1, <1>4, <2>1, <3>1
  <2>2. CASE ~ (i <= a)
    <3>1. i - a \in 1 .. b - a /\ a + (i - a) = i
      BY <2>2
    <3> QED BY <1>2, <1>4, <2>2, <3>1
  <2> QED BY <2>1, <2>2
<1> HIDE DEF s
<1>6. s = Units(0, b)
  BY <1>3, <1>4, <1>5, SeqEqual
<1> QED BY <1>6 DEF s

(* The front of a sequence, and the rest. *)
LEMMA FrontOf ==
  ASSUME NEW s \in Seq(Cell), NEW m \in Nat, m <= Len(s)
  PROVE  /\ SubSeq(s, 1, m) \in Seq(Cell) /\ Len(SubSeq(s, 1, m)) = m
         /\ \A i \in 1 .. m : SubSeq(s, 1, m)[i] = s[i]
<1>1. \A i \in 1 .. m : i \in 1 .. Len(s) /\ 1 + i - 1 = i
  OBVIOUS
<1>2. \A i \in 1 .. m : s[i] \in Cell
  BY <1>1, ElementOfSeq
<1>3. /\ SubSeq(s, 1, m) \in Seq(Cell)
      /\ Len(SubSeq(s, 1, m)) = IF 1 <= m THEN m - 1 + 1 ELSE 0
      /\ \A i \in 1 .. m - 1 + 1 : SubSeq(s, 1, m)[i] = s[1 + i - 1]
  BY <1>2, SubSeqProperties
<1>4. m - 1 + 1 = m /\ (~ (1 <= m) => m = 0)
  OBVIOUS
<1> QED BY <1>1, <1>3, <1>4

LEMMA RestOf ==
  ASSUME NEW s \in Seq(Cell), NEW m \in Nat, m <= Len(s)
  PROVE  LET t == SubSeq(s, m + 1, Len(s)) IN
         /\ t \in Seq(Cell) /\ Len(t) = Len(s) - m
         /\ \A i \in 1 .. Len(s) - m : t[i] = s[m + i]
<1>0. PICK n \in Nat : Len(s) = n /\ m <= n
  OBVIOUS
<1> DEFINE t == SubSeq(s, m + 1, n)
<1>1. n - (m + 1) + 1 = n - m /\ (~ (m + 1 <= n) => n - m = 0) /\ m + 1 \in Int /\ n \in Int
  BY <1>0
<1>2. \A i \in m + 1 .. n : s[i] \in Cell
  <2>1. \A i \in m + 1 .. n : i \in 1 .. n
    BY <1>0
  <2> QED BY <1>0, <2>1, ElementOfSeq
<1>3. /\ t \in Seq(Cell) /\ Len(t) = IF m + 1 <= n THEN n - (m + 1) + 1 ELSE 0
      /\ \A i \in 1 .. n - (m + 1) + 1 : t[i] = s[m + 1 + i - 1]
  BY <1>1, <1>2, SubSeqProperties
<1>4. \A i \in 1 .. n - m : i \in 1 .. n - (m + 1) + 1 /\ m + 1 + i - 1 = m + i
  BY <1>1
<1> HIDE DEF t
<1>5. Len(t) = n - m
  BY <1>1, <1>3
<1>6. \A i \in 1 .. n - m : t[i] = s[m + i]
  BY <1>3, <1>4
<1> QED BY <1>0, <1>3, <1>5, <1>6 DEF t

(* Parts of what is of sealed records are of sealed records. *)
LEMMA OfSealedFront ==
  ASSUME NEW s \in Seq(Cell), OfSealed(s), NEW m \in Nat \ {0}, NEW n \in Nat, n <= Len(s)
  PROVE  SubSeq(s, m, n) \in Seq(Cell) /\ OfSealed(SubSeq(s, m, n))
<1>1. \A i \in m .. n : s[i] \in Cell
  BY ElementOfSeq
<1>2. /\ SubSeq(s, m, n) \in Seq(Cell)
      /\ Len(SubSeq(s, m, n)) = IF m <= n THEN n - m + 1 ELSE 0
      /\ \A i \in 1 .. n - m + 1 : SubSeq(s, m, n)[i] = s[m + i - 1]
  BY <1>1, SubSeqProperties
<1>3. \A i \in 1 .. Len(SubSeq(s, m, n)) : i \in 1 .. n - m + 1 /\ m + i - 1 \in 1 .. Len(s)
  BY <1>2
<1> QED BY <1>2, <1>3 DEF OfSealed

LEMMA OfSealedJoin ==
  ASSUME NEW s \in Seq(Cell), OfSealed(s), NEW t \in Seq(Cell), OfSealed(t)
  PROVE  s \o t \in Seq(Cell) /\ OfSealed(s \o t)
<1>1. /\ s \o t \in Seq(Cell) /\ Len(s \o t) = Len(s) + Len(t)
      /\ \A i \in 1 .. Len(s) + Len(t) : (s \o t)[i] = IF i <= Len(s) THEN s[i] ELSE t[i - Len(s)]
  BY ConcatProperties
<1>2. Len(s) \in Nat /\ Len(t) \in Nat
  OBVIOUS
<1>3. \A i \in 1 .. Len(s \o t) : IF i <= Len(s) THEN i \in 1 .. Len(s) ELSE i - Len(s) \in 1 .. Len(t)
  BY <1>1, <1>2
<1> QED BY <1>1, <1>3 DEF OfSealed

-----------------------------------------------------------------------------
(* Lemmas about record boundaries. *)

LEMMA Ordered ==
  ASSUME NEW k \in Nat, NEW q \in Nat, NEW d \in Nat, k <= q
  PROVE  k * d <= q * d /\ k * d \in Nat /\ (k + 1) * d = k * d + d
<1>1. q - k \in Nat /\ (q - k) * d \in Nat /\ q * d = k * d + (q - k) * d
  OBVIOUS
<1> QED BY <1>1

(* Each record but the last is full, and the last ends with the file. *)
LEMMA CountCovers ==
  ASSUME NEW n \in Nat
  PROVE  /\ plain_record_count(n) \in Nat \ {0}
         /\ n <= plain_record_count(n) * CHUNK_SIZE
         /\ \A k \in Nat : k < plain_record_count(n) => k * CHUNK_SIZE <= n
<1> USE FramingAssumption
<1>1. PICK q \in Nat, r \in Nat : r < CHUNK_SIZE /\ n = q * CHUNK_SIZE + r
  BY Records
<1> DEFINE c == plain_record_count(n)
<1>2. c = IF r > 0 THEN q + 1 ELSE IF q > 0 THEN q ELSE 1
  BY <1>1, RecordCount DEF plain_record_count
<1>3. q * CHUNK_SIZE \in Nat /\ (q + 1) * CHUNK_SIZE = q * CHUNK_SIZE + CHUNK_SIZE
  BY Ordered
<1> HIDE DEF c
<1>4. n <= c * CHUNK_SIZE
  <2>1. CASE r > 0
    BY <1>1, <1>2, <1>3, <2>1
  <2>2. CASE r = 0 /\ q > 0
    BY <1>1, <1>2, <1>3, <2>2
  <2>3. CASE r = 0 /\ q = 0
    BY <1>1, <1>2, <1>3, <2>3
  <2> QED BY <2>1, <2>2, <2>3
<1>5. ASSUME NEW k \in Nat, k < c PROVE k * CHUNK_SIZE <= n
  <2>1. CASE k <= q
    <3>1. k * CHUNK_SIZE <= q * CHUNK_SIZE /\ k * CHUNK_SIZE \in Nat
      BY <2>1, Ordered
    <3> QED BY <1>1, <1>3, <3>1
  <2>2. k <= q
    BY <1>2, <1>5
  <2> QED BY <2>1, <2>2
<1> QED BY <1>2, <1>4, <1>5 DEF c

LEMMA Boundaries ==
  ASSUME size \in Nat, NEW k \in Nat
  PROVE  /\ Least(k * CHUNK_SIZE, size) \in Nat /\ Offset(k) \in Nat
         /\ Nth(k) \in Record /\ Nth(k).index = k
         /\ Nth(k).last <=> k + 1 = plain_record_count(size)
         /\ Nth(k).from = Least(k * CHUNK_SIZE, size)
         /\ Nth(k).to = Least((k + 1) * CHUNK_SIZE, size)
         /\ Nth(k).from <= Nth(k).to /\ Nth(k).to <= size
         /\ Offset(k + 1) = Offset(k) + (Nth(k).to - Nth(k).from + TAG_LEN)
<1> USE FramingAssumption
<1>1. /\ k * CHUNK_SIZE \in Nat /\ (k + 1) * CHUNK_SIZE = k * CHUNK_SIZE + CHUNK_SIZE
      /\ k * TAG_LEN \in Nat /\ (k + 1) * TAG_LEN = k * TAG_LEN + TAG_LEN
  BY Ordered
<1> DEFINE a == Least(k * CHUNK_SIZE, size)  b == Least((k + 1) * CHUNK_SIZE, size)
           last == k + 1 = plain_record_count(size)
<1>2. a \in Nat /\ b \in Nat /\ a <= b /\ b <= size
  BY <1>1 DEF Least
<1>3. Nth(k) = [index |-> k, last |-> last, from |-> a, to |-> b] /\ last \in BOOLEAN
  BY DEF Nth
<1>4. Offset(k) = a + k * TAG_LEN /\ Offset(k + 1) = b + (k + 1) * TAG_LEN
  BY DEF Offset
<1> HIDE DEF a, b, last
<1>5. /\ Nth(k) \in Record /\ Nth(k).index = k /\ Nth(k).last = last
      /\ Nth(k).from = a /\ Nth(k).to = b
  BY <1>2, <1>3 DEF Record
<1>6. Offset(k) \in Nat /\ Offset(k + 1) = Offset(k) + (b - a + TAG_LEN)
  BY <1>1, <1>2, <1>4
<1> QED BY <1>2, <1>5, <1>6 DEF a, b, last

(* Where the sender's next record ends. *)
LEMMA ReadsOn ==
  ASSUME IInv, Seal
  PROVE  /\ pos <= pos' /\ pos' \in 0 .. MaxSize
         /\ sender = "web" \/ ~excuse => pos' = Least((sealed + 1) * CHUNK_SIZE, size)
<1> USE FramingAssumption, TransferAssumption
<1>0. /\ size \in Nat /\ length \in Nat /\ pos \in Nat /\ sealed \in Nat /\ MaxSize \in Nat
      /\ size <= MaxSize /\ length <= MaxSize /\ pos <= MaxSize /\ sender \in Client
  BY DEF IInv, TypeOK
<1>1. /\ sealed * CHUNK_SIZE \in Nat
      /\ (sealed + 1) * CHUNK_SIZE = sealed * CHUNK_SIZE + CHUNK_SIZE
  BY <1>0, Ordered
<1>2. sender = "web" \/ ~excuse => pos = Least(sealed * CHUNK_SIZE, size)
  BY DEF IInv, OnBoundary
<1>3. CASE sender = "cli"
  <2>1. pos' = Least(pos + CHUNK_SIZE, IF length > pos THEN length ELSE pos)
    BY <1>3, Zenon DEF Seal, CliRead
  <2>2. ~excuse => length = size
    BY DEF IInv, LaidOut, Seal
  <2> QED BY <1>0, <1>1, <1>2, <1>3, <2>1, <2>2 DEF Least
<1>4. CASE sender = "web"
  <2>1. pos' = Least(sealed * CHUNK_SIZE + CHUNK_SIZE, size)
    BY <1>4 DEF Seal, WebSlice
  <2> QED BY <1>0, <1>1, <1>2, <1>4, <2>1 DEF Least
<1> QED BY <1>0, <1>3, <1>4 DEF Client

(* Sealing adds the cells of one record. *)
LEMMA SealDoes ==
  ASSUME IInv, Seal
  PROVE  \E r \in Record :
           /\ r.index = sealed /\ r.from = pos /\ r.to = pos' /\ r.from <= r.to
           /\ r.last <=> sealed + 1 = plain_record_count(size)
           /\ body' \in Seq(Cell)
           /\ Len(body') = Len(body) + (r.to - r.from + TAG_LEN)
           /\ \A i \in 1 .. Len(body) : body'[i] = body[i]
           /\ \A p \in 1 .. r.to - r.from + TAG_LEN :
                /\ body'[Len(body) + p] # Junk
                /\ body'[Len(body) + p].of = r /\ body'[Len(body) + p].at = p
           /\ Sealed' = Sealed \cup {r}
<1> DEFINE last == sealed + 1 = plain_record_count(size)
           new == [index |-> sealed, last |-> last, from |-> pos, to |-> pos']
<1>1. body' = body \o seal_record(new)
  BY DEF Seal
<1>2. /\ pos \in Nat /\ pos' \in Nat /\ pos <= pos' /\ sealed \in Nat /\ last \in BOOLEAN
      /\ body \in Seq(Cell)
  BY ReadsOn, TransferAssumption DEF IInv, TypeOK
<1> HIDE DEF last
<1>3. PICK r \in Record : /\ r.index = sealed /\ r.from = pos /\ r.to = pos' /\ r.last = last
                          /\ r = new
  BY <1>2 DEF Record
<1> HIDE DEF new
<1> DEFINE n == r.to - r.from + TAG_LEN  s == seal_record(r)
<1>4. /\ s \in Seq(Cell) /\ Len(s) = n /\ n \in Nat /\ n > 0
      /\ \A p \in 1 .. n : s[p] # Junk /\ s[p].of = r /\ s[p].at = p
  <2>0. TAG_LEN \in Nat /\ TAG_LEN > 0
    BY Sizes
  <2>1. r.from <= r.to /\ n \in Nat /\ n > 0
    <3>1. r.from \in Nat /\ r.to \in Nat /\ r.from <= r.to
      BY <1>2, <1>3, Zenon
    <3> QED BY <2>0, <3>1
  <2>2. /\ s \in Seq(Cell) /\ Len(s) = n
        /\ \A p \in 1 .. n : s[p] # Junk /\ s[p].of = r /\ s[p].at = p
    BY <1>3, <2>1, SealedCells
  <2> QED BY <2>1, <2>2
<1> HIDE DEF s, n
<1>5. /\ body' \in Seq(Cell) /\ Len(body') = Len(body) + n /\ Len(body) \in Nat
      /\ \A i \in 1 .. Len(body) + n : body'[i] = IF i <= Len(body) THEN body[i] ELSE s[i - Len(body)]
  <2>1. /\ body \o s \in Seq(Cell) /\ Len(body \o s) = Len(body) + Len(s)
        /\ \A i \in 1 .. Len(body) + Len(s) :
             (body \o s)[i] = IF i <= Len(body) THEN body[i] ELSE s[i - Len(body)]
    BY <1>2, <1>4, ConcatProperties
  <2>2. body' = body \o s
    BY <1>1, <1>3 DEF s
  <2> QED BY <1>2, <1>4, <2>1, <2>2
<1>6. \A i \in 1 .. Len(body) : body'[i] = body[i]
  BY <1>4, <1>5
<1>7. \A p \in 1 .. n : Len(body) + p \in 1 .. Len(body') /\ body'[Len(body) + p] = s[p]
  BY <1>4, <1>5
<1>8. Sealed' = Sealed \cup {r}
  <2>1. \A i \in 1 .. Len(body') : body'[i].of \in Sealed \cup {r}
    <3> SUFFICES ASSUME NEW i \in 1 .. Len(body') PROVE body'[i].of \in Sealed \cup {r}
      OBVIOUS
    <3>1. CASE i <= Len(body)
      BY <1>4, <1>5, <1>6, <3>1 DEF Sealed
    <3>2. CASE i > Len(body)
      <4>1. PICK p \in 1 .. n : i = Len(body) + p
        <5>1. i - Len(body) \in 1 .. n /\ i = Len(body) + (i - Len(body))
          BY <1>4, <1>5, <3>2
        <5> QED BY <5>1
      <4>2. body'[i] = s[p] /\ s[p].of = r
        BY <1>4, <1>7, <4>1
      <4> QED BY <4>2
    <3> QED BY <1>5, <3>1, <3>2
  <2>2. \A i \in 1 .. Len(body) : i \in 1 .. Len(body')
    BY <1>4, <1>5
  <2>3. Sealed \subseteq Sealed'
    BY <1>6, <2>2 DEF Sealed
  <2>4. 1 \in 1 .. n
    BY <1>4
  <2>5. r \in Sealed'
    BY <1>4, <1>7, <2>4 DEF Sealed
  <2> QED BY <2>1, <2>3, <2>5 DEF Sealed
<1>9. \A p \in 1 .. n :
        /\ body'[Len(body) + p] # Junk
        /\ body'[Len(body) + p].of = r /\ body'[Len(body) + p].at = p
  BY <1>4, <1>7
<1>10. r.from <= r.to /\ (r.last <=> sealed + 1 = plain_record_count(size))
  BY <1>2, <1>3 DEF last
<1> QED BY <1>2, <1>3, <1>5, <1>6, <1>8, <1>9, <1>10 DEF n

-----------------------------------------------------------------------------
(* What a server can make of the body, and what the receiver makes of it. *)

LEMMA SealedRecords ==
  ASSUME IInv
  PROVE  Sealed \subseteq Record /\ OfSealed(body)
<1>1. \A i \in 1 .. Len(body) : body[i] \in Cell /\ body[i] # Junk
  BY ElementOfSeq DEF IInv, TypeOK, Chained
<1> QED BY <1>1 DEF Sealed, OfSealed, Cell

LEMMA Tampered ==
  ASSUME IInv, NEW w \in Bodies
  PROVE  w \in Seq(Cell) /\ OfSealed(w)
<1>0. body \in Seq(Cell) /\ OfSealed(body) /\ Len(body) \in Nat
  BY SealedRecords DEF IInv, TypeOK
<1>1. ASSUME NEW a \in 0 .. Len(body), NEW b \in 1 .. Len(body) + 1,
             w = SubSeq(body, 1, a) \o SubSeq(body, b, Len(body))
      PROVE  w \in Seq(Cell) /\ OfSealed(w)
  <2>1. SubSeq(body, 1, a) \in Seq(Cell) /\ OfSealed(SubSeq(body, 1, a))
    BY <1>0, OfSealedFront
  <2>2. SubSeq(body, b, Len(body)) \in Seq(Cell) /\ OfSealed(SubSeq(body, b, Len(body)))
    BY <1>0, OfSealedFront
  <2> QED BY <1>1, <2>1, <2>2, OfSealedJoin
<1>2. ASSUME NEW b \in 1 .. Len(body), w = SubSeq(body, b, Len(body)) \o SubSeq(body, 1, b - 1)
      PROVE  w \in Seq(Cell) /\ OfSealed(w)
  <2>1. SubSeq(body, 1, b - 1) \in Seq(Cell) /\ OfSealed(SubSeq(body, 1, b - 1))
    <3>1. b - 1 \in Nat /\ b - 1 <= Len(body)
      BY <1>0
    <3> QED BY <1>0, <3>1, OfSealedFront
  <2>2. SubSeq(body, b, Len(body)) \in Seq(Cell) /\ OfSealed(SubSeq(body, b, Len(body)))
    BY <1>0, OfSealedFront
  <2> QED BY <1>2, <2>1, <2>2, OfSealedJoin
<1>3. ASSUME NEW i \in 1 .. Len(body), w = [body EXCEPT ![i] = Junk]
      PROVE  w \in Seq(Cell) /\ OfSealed(w)
  <2>1. Junk \in Cell
    BY DEF Cell
  <2>2. /\ w \in Seq(Cell) /\ Len(w) = Len(body)
        /\ \A j \in 1 .. Len(body) : w[j] = IF j = i THEN Junk ELSE body[j]
    BY <1>0, <1>3, <2>1, ExceptSeq
  <2> QED BY <1>0, <2>2 DEF OfSealed
<1>4. \/ \E a \in 0 .. Len(body), b \in 1 .. Len(body) + 1 :
           w = SubSeq(body, 1, a) \o SubSeq(body, b, Len(body))
      \/ \E b \in 1 .. Len(body) : w = SubSeq(body, b, Len(body)) \o SubSeq(body, 1, b - 1)
      \/ \E i \in 1 .. Len(body) : w = [body EXCEPT ![i] = Junk]
  BY DEF Bodies
<1> QED BY <1>1, <1>2, <1>3, <1>4, Zenon

(* Whatever opens at its turn is the record that comes next. *)
LEMMA Opens ==
  ASSUME IInv, step = "receive", NEW cells \in Seq(Cell), OfSealed(cells), NEW last \in BOOLEAN,
         open_record(cells, index, last)
  PROVE  \E r \in Sealed :
           /\ r.index = index /\ r.last = last /\ r.to \in Nat /\ r.to <= pos
           /\ Len(Got) <= r.to /\ Plain(cells) = Units(Len(Got), r.to)
           /\ Got \o Plain(cells) = Units(0, r.to)
           /\ Plain(cells) \in Seq(1 .. MaxSize)
<1> DEFINE r == cells[1].of
<1>1. cells # <<>> /\ cells[1] # Junk /\ r.index = index /\ r.last = last
  BY DEF open_record, record_nonce
<1>2. 1 \in 1 .. Len(cells)
  BY <1>1
<1>3. r \in Sealed /\ r \in Record
  BY <1>1, <1>2, SealedRecords DEF OfSealed
<1> HIDE DEF r
<1>4. /\ Plain(cells) = Units(r.from, r.to)
      /\ r.from \in Nat /\ r.to \in Nat /\ r.from <= r.to /\ r.to <= pos
  BY <1>3 DEF Plain, r, Record, IInv, Chained
<1>5. Len(Got) = r.from /\ Got = Units(0, Len(Got))
  BY <1>1, <1>3 DEF IInv, Opened
<1>6. Got \o Plain(cells) = Units(0, r.to)
  BY <1>4, <1>5, UnitsJoin
<1>7. Plain(cells) \in Seq(1 .. MaxSize)
  <2>1. r.to <= MaxSize
    BY <1>4, TransferAssumption DEF IInv, TypeOK
  <2> QED BY <1>4, <2>1, UnitsAre
<1> QED BY <1>1, <1>3, <1>4, <1>5, <1>6, <1>7

(* The web client's builder, and the CLI's file, keep what is opened in order. *)
LEMMA Keeps ==
  ASSUME IInv, step = "receive", NEW units \in Seq(1 .. MaxSize), Keep(units),
         receiver' = receiver
  PROVE  /\ Got' = Got \o units
         /\ output' \in Seq(1 .. MaxSize) \cup {None} /\ parts' \in Seq(1 .. MaxSize)
         /\ pending' \in [records: Nat, units: Seq(1 .. MaxSize)]
         /\ receiver = "cli" <=> output' # None
         /\ receiver = "cli" => parts' = <<>> /\ pending' = Empty
<1> DEFINE S == Seq(1 .. MaxSize)
<1>0. /\ parts \in S /\ pending \in [records: Nat, units: S] /\ pending.units \in S
      /\ pending.records \in Nat /\ output \in S \cup {None}
      /\ receiver = "cli" <=> output # None
      /\ receiver = "cli" => parts = <<>> /\ pending = Empty
  BY DEF IInv, TypeOK, Before
<1>1. CASE receiver = "cli"
  <2>1. output' = output \o units /\ parts' = parts /\ pending' = pending
    BY <1>1 DEF Keep, write_all
  <2>2. output \o units \in S
    BY <1>0, <1>1, ConcatProperties
  <2>3. output \o units # None
    <3>1. output \o units \in Seq(Nat)
      BY <2>2, SeqMonotonic, TransferAssumption
    <3> QED BY <3>1, TransferAssumption
  <2> QED BY <1>0, <1>1, <2>1, <2>2, <2>3 DEF Got
<1>2. CASE receiver # "cli"
  <2>1. output' = output /\ output = None
    BY <1>0, <1>2 DEF Keep
  <2>2. /\ parts \o pending.units \in S /\ parts \o pending.units \o units \in S
        /\ pending.units \o units \in S
    BY <1>0, ConcatProperties
  <2>3. <<>> \in S
    BY EmptySeq
  <2>4. CASE parts' = parts \o pending.units \o units /\ pending' = Empty
    <3>1. Empty \in [records: Nat, units: S] /\ Empty.units = <<>>
      BY <2>3 DEF Empty
    <3>2. Got' = (parts \o pending.units \o units) \o <<>>
      BY <1>2, <2>4, <3>1 DEF Got
    <3>3. Got' = Got \o units
      BY <1>2, <2>2, <3>2, ConcatEmptySeq DEF Got
    <3> QED BY <1>2, <2>1, <2>2, <2>4, <3>1, <3>3
  <2>5. CASE /\ pending' = [records |-> pending.records + 1, units |-> pending.units \o units]
             /\ UNCHANGED parts
    <3> DEFINE more == [records |-> pending.records + 1, units |-> pending.units \o units]
    <3>1. more \in [records: Nat, units: S] /\ more.units = pending.units \o units
      BY <1>0, <2>2
    <3>2. Got' = parts \o (pending.units \o units)
      BY <1>2, <2>5, <3>1 DEF Got
    <3>3. Got' = Got \o units
      <4>1. parts \o (pending.units \o units) = (parts \o pending.units) \o units
        <5>1. \A s, t, u \in S : (s \o t) \o u = s \o (t \o u)
          BY ConcatAssociative
        <5> QED BY <1>0, <5>1, Zenon
      <4>2. Got = parts \o pending.units
        BY <1>2 DEF Got
      <4> QED BY <3>2, <4>1, <4>2, Zenon
    <3> QED BY <1>0, <1>2, <2>1, <2>5, <3>1, <3>3
  <2> QED BY <1>2, <2>4, <2>5 DEF Keep, push
<1> QED BY <1>1, <1>2

LEMMA KeepsLast ==
  ASSUME IInv, step = "receive", NEW units \in Seq(1 .. MaxSize), KeepLast(units)
  PROVE  /\ output' = Got \o units /\ output' \in Seq(1 .. MaxSize)
         /\ UNCHANGED <<parts, pending>>
<1> DEFINE S == Seq(1 .. MaxSize)
<1>0. /\ parts \in S /\ pending.units \in S /\ output \in S \cup {None}
      /\ receiver = "cli" <=> output # None
  BY DEF IInv, TypeOK, Before
<1>1. CASE receiver = "cli"
  <2>1. output \o units \in S
    BY <1>0, <1>1, ConcatProperties
  <2> QED BY <1>1, <2>1 DEF KeepLast, write_all, Got
<1>2. CASE receiver # "cli"
  <2>1. parts \o pending.units \in S /\ parts \o pending.units \o units \in S
    BY <1>0, ConcatProperties
  <2> QED BY <1>2, <2>1 DEF KeepLast, finish, Got
<1> QED BY <1>1, <1>2

(* What the receiver does with its buffer. *)
LEMMA Front ==
  ASSUME IInv, NotLast
  PROVE  /\ SubSeq(buffer, 1, C) \in Seq(Cell) /\ OfSealed(SubSeq(buffer, 1, C))
         /\ SubSeq(buffer, C + 1, Len(buffer)) \in Seq(Cell)
         /\ OfSealed(SubSeq(buffer, C + 1, Len(buffer)))
<1>1. buffer \in Seq(Cell) /\ OfSealed(buffer) /\ Len(buffer) \in Nat /\ C <= Len(buffer)
  BY DEF IInv, TypeOK, NotLast, C
<1>2. C + 1 \in Nat \ {0}
  BY Sizes
<1>3. SubSeq(buffer, 1, C) \in Seq(Cell) /\ OfSealed(SubSeq(buffer, 1, C))
  BY <1>1, OfSealedFront, Sizes
<1>4. /\ SubSeq(buffer, C + 1, Len(buffer)) \in Seq(Cell)
      /\ OfSealed(SubSeq(buffer, C + 1, Len(buffer)))
  BY <1>1, <1>2, OfSealedFront
<1> QED BY <1>3, <1>4

Gone == step' = "failed" /\ UNCHANGED <<wire, buffer, index, built, sending, cipher_len, excuse>>

(* A record that opened is kept, and what is open is a longer front. *)
LEMMA OpensRecord ==
  ASSUME IInv, OpenRecord, ~ Gone
  PROVE  /\ open_record(SubSeq(buffer, 1, C), index, FALSE)
         /\ buffer' = SubSeq(buffer, C + 1, Len(buffer)) /\ index' = index + 1
         /\ Keep(Plain(SubSeq(buffer, 1, C)))
         /\ UNCHANGED <<sending, cipher_len, excuse, step, wire>>
  BY DEF OpenRecord, Fail, Gone, C

LEMMA OpensLast ==
  ASSUME IInv, OpenLast, ~ Gone
  PROVE  /\ index + 1 = total_records /\ open_record(buffer, index, TRUE)
         /\ KeepLast(Plain(buffer)) /\ step' = "saved"
         /\ UNCHANGED <<sending, cipher_len, excuse, wire, buffer, index>>
  BY DEF OpenLast, Fail, Gone

(* What a chunk of the network brings. *)
LEMMA Chunk ==
  ASSUME IInv, NEW n \in NetChunk
  PROVE  LET m == Least(n, Len(wire)) IN
         /\ n \in Nat /\ m \in Nat /\ m <= Len(wire)
         /\ SubSeq(wire, 1, m) \in Seq(Cell) /\ OfSealed(SubSeq(wire, 1, m))
         /\ SubSeq(wire, n + 1, Len(wire)) \in Seq(Cell) /\ OfSealed(SubSeq(wire, n + 1, Len(wire)))
<1> DEFINE m == Least(n, Len(wire))
<1>1. wire \in Seq(Cell) /\ OfSealed(wire) /\ Len(wire) \in Nat /\ n \in Nat
  BY TransferAssumption DEF IInv, TypeOK
<1>2. m \in Nat /\ m <= Len(wire) /\ n + 1 \in Nat \ {0}
  BY <1>1 DEF Least
<1> HIDE DEF m
<1>3. SubSeq(wire, 1, m) \in Seq(Cell) /\ OfSealed(SubSeq(wire, 1, m))
  BY <1>1, <1>2, OfSealedFront
<1>4. SubSeq(wire, n + 1, Len(wire)) \in Seq(Cell) /\ OfSealed(SubSeq(wire, n + 1, Len(wire)))
  BY <1>1, <1>2, OfSealedFront
<1> QED BY <1>1, <1>2, <1>3, <1>4 DEF m

-----------------------------------------------------------------------------
(* Each part of the invariant is kept. *)

LEMMA TypeStep == IInv /\ [Next]_vars => TypeOK'
<1> SUFFICES ASSUME IInv, [Next]_vars PROVE TypeOK'
  OBVIOUS
<1>0. TypeOK
  BY DEF IInv
<1>1. CASE Stat
  BY <1>0, <1>1 DEF TypeOK, Stat, built, Step
<1>2. CASE FileChanges
  BY <1>0, <1>2 DEF TypeOK, FileChanges, built
<1>3. CASE Seal
  <2>1. body' \in Seq(Cell)
    BY <1>3, SealDoes
  <2>2. pos' \in 0 .. MaxSize /\ sealed' \in Nat
    <3>1. sealed' = sealed + 1 /\ sealed \in Nat
      BY <1>0, <1>3 DEF Seal, TypeOK
    <3> QED BY <1>3, <3>1, ReadsOn
  <2> QED BY <1>0, <1>3, <2>1, <2>2 DEF TypeOK, Seal, built
<1>4. CASE SealFails
  BY <1>0, <1>4 DEF TypeOK, SealFails, built, sending, Step
<1>5. CASE Uploaded
  BY <1>0, <1>5 DEF TypeOK, Uploaded, built, sending, Step
<1>6. CASE Serve
  <2>1. wire' \in Seq(Cell) /\ cipher_len' \in Nat /\ excuse' \in BOOLEAN
    <3>1. Len(body) \in Nat /\ Len(body) + CHUNK_CIPHERTEXT_SIZE \in Nat
      BY <1>0, Sizes DEF TypeOK, C
    <3>2. CASE cipher_len' = Len(body) /\ wire' = body /\ UNCHANGED excuse
      BY <1>0, <3>1, <3>2 DEF TypeOK
    <3>3. CASE /\ cipher_len' \in 0 .. Len(body) + CHUNK_CIPHERTEXT_SIZE
               /\ wire' \in Bodies /\ excuse' = TRUE
      <4>1. wire' \in Seq(Cell)
        BY <3>3, Tampered
      <4> QED BY <3>1, <3>3, <4>1
    <3> QED BY <1>6, <3>2, <3>3 DEF Serve
  <2>2. output' \in Seq(1 .. MaxSize) \cup {None}
    BY <1>0, <1>6, EmptySeq DEF Serve, TypeOK
  <2> QED BY <1>0, <1>6, <2>1, <2>2 DEF TypeOK, Serve, sending, Step
<1>7. ASSUME NEW n \in NetChunk, Receive(n) PROVE TypeOK'
  <2>1. buffer' \in Seq(Cell) /\ wire' \in Seq(Cell)
    BY <1>0, <1>7, Chunk, ConcatProperties DEF Receive, TypeOK
  <2> QED BY <1>0, <1>7, <2>1 DEF TypeOK, Receive, built, sending
<1>8. CASE OpenRecord
  <2>1. CASE Gone
    BY <1>0, <2>1 DEF TypeOK, Gone, built, sending, Step
  <2>2. CASE ~ Gone
    <3> DEFINE record == SubSeq(buffer, 1, C)
    <3>1. /\ step = "receive" /\ record \in Seq(Cell) /\ OfSealed(record)
          /\ buffer' \in Seq(Cell)
      BY <1>8, <2>2, Front, OpensRecord DEF OpenRecord
    <3>2. Plain(record) \in Seq(1 .. MaxSize)
      BY <1>8, <2>2, <3>1, Opens, OpensRecord
    <3>3. /\ output' \in Seq(1 .. MaxSize) \cup {None} /\ parts' \in Seq(1 .. MaxSize)
          /\ pending' \in [records: Nat, units: Seq(1 .. MaxSize)]
      BY <1>8, <2>2, <3>1, <3>2, Keeps, OpensRecord DEF sending
    <3> QED BY <1>0, <1>8, <2>2, <3>1, <3>3, OpensRecord DEF TypeOK, sending
  <2> QED BY <2>1, <2>2
<1>9. CASE OpenLast
  <2>1. CASE Gone
    BY <1>0, <2>1 DEF TypeOK, Gone, built, sending, Step
  <2>2. CASE ~ Gone
    <3>1. step = "receive" /\ buffer \in Seq(Cell) /\ OfSealed(buffer)
      BY <1>0, <1>9 DEF OpenLast, TypeOK, IInv
    <3>2. Plain(buffer) \in Seq(1 .. MaxSize)
      BY <1>9, <2>2, <3>1, Opens, OpensLast
    <3>3. output' \in Seq(1 .. MaxSize) /\ UNCHANGED <<parts, pending>>
      BY <1>9, <2>2, <3>1, <3>2, KeepsLast, OpensLast
    <3> QED BY <1>0, <1>9, <2>2, <3>3, OpensLast DEF TypeOK, sending, Step
  <2> QED BY <2>1, <2>2
<1>10. CASE Broken
  BY <1>0, <1>10 DEF TypeOK, Broken, Fail, built, sending, Step
<1>11. CASE UNCHANGED vars
  BY <1>0, <1>11 DEF TypeOK, vars
<1> QED BY <1>1, <1>2, <1>3, <1>4, <1>5, <1>6, <1>7, <1>8, <1>9, <1>10, <1>11 DEF Next

(* The steps that seal nothing leave what was sealed alone. *)
LEMMA Senders ==
  ASSUME [Next]_vars
  PROVE  \/ UNCHANGED <<sender, receiver, size, pos, sealed, body>>
         \/ Stat \/ Seal
<1>1. CASE OpenRecord \/ OpenLast
  BY <1>1 DEF OpenRecord, OpenLast, sending
<1> QED BY <1>1 DEF Next, vars, Stat, FileChanges, SealFails, Uploaded, Serve, Receive, Broken, sending

LEMMA ChainedStep == IInv /\ [Next]_vars => Chained'
<1> SUFFICES ASSUME IInv, [Next]_vars PROVE Chained'
  OBVIOUS
<1>0. Chained /\ Sealed \subseteq Record
  BY SealedRecords DEF IInv
<1>1. CASE UNCHANGED <<sender, receiver, size, pos, sealed, body>>
  <2>1. Sealed' = Sealed /\ plain_record_count(size)' = plain_record_count(size)
    BY <1>1 DEF Sealed
  <2> QED BY <1>0, <1>1, <2>1 DEF Chained
<1>2. CASE Stat
  <2>1. sealed = 0 /\ body = <<>> /\ UNCHANGED <<pos, sealed, body>> /\ size' \in Nat
    BY <1>2, TransferAssumption DEF Stat, IInv, Before, TypeOK
  <2>2. Sealed' = {}
    BY <2>1 DEF Sealed
  <2>3. 0 <= plain_record_count(size')
    BY <2>1, CountCovers
  <2> QED BY <1>0, <2>1, <2>2, <2>3 DEF Chained
<1>3. CASE Seal
  <2>1. PICK r \in Record :
          /\ r.index = sealed /\ r.from = pos /\ r.to = pos' /\ r.from <= r.to
          /\ r.last <=> sealed + 1 = plain_record_count(size)
          /\ body' \in Seq(Cell)
          /\ Len(body') = Len(body) + (r.to - r.from + TAG_LEN)
          /\ \A i \in 1 .. Len(body) : body'[i] = body[i]
          /\ \A p \in 1 .. r.to - r.from + TAG_LEN :
               /\ body'[Len(body) + p] # Junk
               /\ body'[Len(body) + p].of = r /\ body'[Len(body) + p].at = p
          /\ Sealed' = Sealed \cup {r}
    BY <1>3, SealDoes
  <2>2. /\ sealed' = sealed + 1 /\ size' = size /\ sealed \in Nat /\ pos \in Nat
        /\ sealed < plain_record_count(size) /\ size \in Nat
    BY <1>3 DEF Seal, IInv, TypeOK
  <2>3. plain_record_count(size) \in Nat
    BY <2>2, CountCovers
  <2>4. \A i \in 1 .. Len(body') : body'[i] # Junk
    <3> SUFFICES ASSUME NEW i \in 1 .. Len(body') PROVE body'[i] # Junk
      OBVIOUS
    <3>1. Len(body) \in Nat /\ r.to - r.from + TAG_LEN \in Nat
      <4>1. r.from \in Nat /\ r.to \in Nat /\ r.from <= r.to /\ TAG_LEN \in Nat
        BY <2>1, Sizes, Zenon DEF Record
      <4>2. r.to - r.from + TAG_LEN \in Nat
        BY <4>1
      <4> QED BY <4>2 DEF IInv, TypeOK
    <3>2. CASE i <= Len(body)
      BY <1>0, <2>1, <3>1, <3>2 DEF Chained
    <3>3. CASE i > Len(body)
      <4>1. PICK p \in 1 .. r.to - r.from + TAG_LEN : i = Len(body) + p
        <5>1. i - Len(body) \in 1 .. r.to - r.from + TAG_LEN /\ i = Len(body) + (i - Len(body))
          BY <2>1, <3>1, <3>3
        <5> QED BY <5>1
      <4> QED BY <2>1, <4>1
    <3> QED BY <3>1, <3>2, <3>3
  <2>5. /\ r.index < sealed' /\ r.from <= r.to /\ r.to <= r.to
        /\ r.last <=> r.index + 1 = plain_record_count(size)
        /\ r.index = 0 => r.from = 0
    BY <1>0, <2>1, <2>2 DEF Chained, Record
  <2>6. ASSUME NEW q \in Sealed
        PROVE  /\ q.index < sealed' /\ q.from <= q.to /\ q.to <= r.to
               /\ q.last <=> q.index + 1 = plain_record_count(size)
               /\ q.index = 0 => q.from = 0
               /\ q.index + 1 # sealed' /\ q.index # r.index
               /\ r.index = q.index + 1 => r.from = q.to
               /\ q.index # r.index + 1
    <3>1. /\ q \in Record /\ q.index < sealed /\ q.from <= q.to /\ q.to <= pos
          /\ q.last <=> q.index + 1 = plain_record_count(size)
          /\ q.index = 0 => q.from = 0
          /\ q.index + 1 = sealed => q.to = pos
      BY <1>0, <2>6 DEF Chained
    <3>2. pos <= r.to
      BY <2>1
    <3> QED BY <2>1, <2>2, <3>1, <3>2 DEF Record
  <2>7. \A p, q \in Sealed : /\ p.index = q.index => p = q
                             /\ q.index = p.index + 1 => q.from = p.to
    BY <1>0 DEF Chained
  <2>8. r.index # r.index + 1
    BY DEF Record
  <2>9. sealed' <= plain_record_count(size) /\ sealed' # 0
    BY <2>2, <2>3
  <2> QED BY <2>1, <2>2, <2>4, <2>5, <2>6, <2>7, <2>8, <2>9 DEF Chained
<1> QED BY <1>1, <1>2, <1>3, Senders

LEMMA OfSealedStep == IInv /\ [Next]_vars => OfSealed(wire)' /\ OfSealed(buffer)'
<1> SUFFICES ASSUME IInv, [Next]_vars PROVE OfSealed(wire)' /\ OfSealed(buffer)'
  OBVIOUS
<1>0. /\ wire \in Seq(Cell) /\ buffer \in Seq(Cell) /\ OfSealed(wire) /\ OfSealed(buffer)
      /\ OfSealed(body)
  BY SealedRecords DEF IInv, TypeOK
<1>1. CASE Stat \/ Seal
  <2>1. wire = <<>> /\ buffer = <<>> /\ wire' = wire /\ buffer' = buffer
    BY <1>1 DEF Stat, Seal, IInv, Before
  <2>2. Len(wire') = 0 /\ Len(buffer') = 0
    BY <2>1
  <2> QED BY <2>2 DEF OfSealed
<1>2. CASE UNCHANGED <<sender, receiver, size, pos, sealed, body>>
  <2>1. Sealed' = Sealed
    BY <1>2 DEF Sealed
  <2>2. SUFFICES OfSealed(wire') /\ OfSealed(buffer')
    BY <2>1 DEF OfSealed
  <2>3. CASE Serve
    BY <1>0, <2>3, Tampered DEF Serve
  <2>4. ASSUME NEW n \in NetChunk, Receive(n) PROVE OfSealed(wire') /\ OfSealed(buffer')
    BY <1>0, <2>4, Chunk, OfSealedJoin DEF Receive
  <2>5. CASE OpenRecord
    <3>1. CASE Gone
      BY <1>0, <3>1 DEF Gone
    <3>2. CASE ~ Gone
      <4>1. NotLast
        BY <2>5 DEF OpenRecord
      <4> QED BY <1>0, <2>5, <3>2, <4>1, Front, OpensRecord
    <3> QED BY <3>1, <3>2
  <2>6. CASE UNCHANGED <<wire, buffer>>
    BY <1>0, <2>6
  <2>7. \/ Serve \/ OpenRecord \/ (\E n \in NetChunk : Receive(n)) \/ UNCHANGED <<wire, buffer>>
    BY DEF Next, vars, Stat, FileChanges, Seal, SealFails, Uploaded, OpenLast, Broken, Fail
  <2> QED BY <2>3, <2>4, <2>5, <2>6, <2>7
<1> QED BY <1>1, <1>2, Senders

LEMMA BeforeStep == IInv /\ [Next]_vars => Before'
<1> SUFFICES ASSUME IInv, [Next]_vars PROVE Before'
  OBVIOUS
<1>0. Before /\ TypeOK
  BY DEF IInv
<1>1. CASE Stat
  BY <1>0, <1>1 DEF Before, Stat, built
<1>2. CASE FileChanges
  BY <1>0, <1>2 DEF Before, FileChanges, built
<1>3. CASE Seal
  BY <1>0, <1>3 DEF Before, Seal, built
<1>4. CASE SealFails
  BY <1>0, <1>4 DEF Before, SealFails, built, sending
<1>5. CASE Uploaded
  BY <1>0, <1>5 DEF Before, Uploaded, built, sending
<1>6. CASE Serve
  <2>1. /\ output = None /\ parts = <<>> /\ pending = Empty /\ sealed = plain_record_count(size)
        /\ step' = "receive" /\ UNCHANGED <<size, sealed, receiver, parts, pending>>
        /\ output' = IF receiver = "cli" THEN <<>> ELSE output
    BY <1>0, <1>6 DEF Before, Serve, sending
  <2>2. <<>> # None
    BY EmptySeq, TransferAssumption
  <2> QED BY <2>1, <2>2 DEF Before
<1>7. ASSUME NEW n \in NetChunk, Receive(n) PROVE Before'
  BY <1>0, <1>7 DEF Before, Receive, built, sending
<1>8. CASE OpenRecord
  <2>1. CASE Gone
    BY <1>0, <1>8, <2>1 DEF Before, Gone, sending, OpenRecord
  <2>2. CASE ~ Gone
    <3> DEFINE record == SubSeq(buffer, 1, C)
    <3>1. step = "receive" /\ record \in Seq(Cell) /\ OfSealed(record)
      BY <1>8, Front DEF OpenRecord
    <3>2. Plain(record) \in Seq(1 .. MaxSize)
      BY <1>8, <2>2, <3>1, Opens, OpensRecord
    <3>3. /\ receiver = "cli" <=> output' # None
          /\ receiver = "cli" => parts' = <<>> /\ pending' = Empty
      BY <1>8, <2>2, <3>1, <3>2, Keeps, OpensRecord DEF sending
    <3>4. UNCHANGED <<sending, step>>
      BY <1>8, <2>2, OpensRecord
    <3> QED BY <1>0, <3>1, <3>3, <3>4 DEF Before, sending
  <2> QED BY <2>1, <2>2
<1>9. CASE OpenLast
  <2>1. /\ step = "receive" /\ step' \in {"failed", "saved"} /\ UNCHANGED <<sealed, size>>
    BY <1>9 DEF OpenLast, Fail, sending
  <2> QED BY <1>0, <2>1 DEF Before
<1>10. CASE Broken
  BY <1>0, <1>10 DEF Before, Broken, Fail, built, sending
<1>11. CASE UNCHANGED vars
  BY <1>0, <1>11 DEF Before, vars
<1> QED BY <1>1, <1>2, <1>3, <1>4, <1>5, <1>6, <1>7, <1>8, <1>9, <1>10, <1>11 DEF Next

LEMMA OpenedStep == IInv /\ [Next]_vars => Opened'
<1> SUFFICES ASSUME IInv, [Next]_vars, step' = "receive" PROVE Opened'
  BY DEF Opened
<1>0. pos \in Nat /\ index \in Nat /\ Sealed \subseteq Record
  BY SealedRecords, TransferAssumption DEF IInv, TypeOK
<1>1. CASE Serve
  <2>1. /\ parts = <<>> /\ pending = Empty /\ index = 0 /\ output = None
        /\ UNCHANGED <<receiver, pos, body, index, parts, pending>>
        /\ output' = IF receiver = "cli" THEN <<>> ELSE output
    BY <1>1 DEF Serve, IInv, Before, sending
  <2>2. Empty.units = <<>>
    BY DEF Empty
  <2>3. <<>> \o <<>> = <<>> /\ Len(<<>>) = 0
    OBVIOUS
  <2>4. Got' = <<>>
    BY <2>1, <2>2, <2>3 DEF Got
  <2>5. Units(0, 0) = <<>>
    BY UnitsAre
  <2>6. Sealed' = Sealed
    BY <2>1 DEF Sealed
  <2>7. \A r \in Sealed : r.index = 0 => r.from = 0
    BY DEF IInv, Chained
  <2> QED BY <1>0, <2>1, <2>3, <2>4, <2>5, <2>6, <2>7 DEF Opened
<1>2. CASE OpenRecord
  <2>1. ~ Gone
    BY DEF Gone
  <2> DEFINE record == SubSeq(buffer, 1, C)
  <2>2. /\ step = "receive" /\ record \in Seq(Cell) /\ OfSealed(record)
        /\ open_record(record, index, FALSE) /\ Keep(Plain(record)) /\ index' = index + 1
        /\ UNCHANGED <<receiver, pos, body>>
    BY <1>2, <2>1, Front, OpensRecord DEF OpenRecord, sending
  <2> HIDE DEF record
  <2>3. PICK r \in Sealed :
          /\ r.index = index /\ r.to \in Nat /\ r.to <= pos
          /\ Got \o Plain(record) = Units(0, r.to)
          /\ Plain(record) \in Seq(1 .. MaxSize)
    BY <2>2, Opens
  <2>4. Got' = Units(0, r.to)
    BY <2>2, <2>3, Keeps
  <2>5. Len(Units(0, r.to)) = r.to
    BY <2>3, FrontLength
  <2>6. Sealed' = Sealed
    BY <2>2 DEF Sealed
  <2>7. \A s \in Sealed : s.index = r.index + 1 => s.from = r.to
    BY <2>3 DEF IInv, Chained
  <2>8. index + 1 # 0
    BY <1>0
  <2> QED BY <2>2, <2>3, <2>4, <2>5, <2>6, <2>7, <2>8 DEF Opened
<1>3. CASE UNCHANGED <<step, receiver, pos, body, index, built>>
  <2>1. Got' = Got /\ Sealed' = Sealed
    BY <1>3 DEF Got, Sealed, built
  <2> QED BY <1>3, <2>1 DEF Opened, IInv
<1>4. Serve \/ OpenRecord \/ UNCHANGED <<step, receiver, pos, body, index, built>>
  BY DEF Next, vars, Stat, FileChanges, Seal, SealFails, Uploaded, Receive, OpenLast, Broken, Fail,
         built, sending
<1> QED BY <1>1, <1>2, <1>3, <1>4

LEMMA OutputStep == IInv /\ [Next]_vars => OutputIsPrefix' /\ SavedIsWhole'
<1> SUFFICES ASSUME IInv, [Next]_vars PROVE OutputIsPrefix' /\ SavedIsWhole'
  OBVIOUS
<1>0. pos \in Nat /\ OutputIsPrefix /\ SavedIsWhole
  BY TransferAssumption DEF IInv, TypeOK
<1>1. CASE Seal
  <2>1. output = None /\ output' = output /\ step' = "seal"
    BY <1>1 DEF Seal, IInv, Before, built
  <2> QED BY <2>1 DEF OutputIsPrefix, SavedIsWhole
<1>2. CASE Serve
  <2>1. output' = None \/ output' = <<>>
    BY <1>2 DEF Serve, IInv, Before
  <2>2. pos' = pos /\ step' = "receive"
    BY <1>2 DEF Serve, sending
  <2>3. Units(0, 0) = <<>> /\ Len(<<>>) = 0
    BY UnitsAre
  <2> QED BY <1>0, <2>1, <2>2, <2>3 DEF OutputIsPrefix, SavedIsWhole
<1>3. CASE OpenRecord /\ ~ Gone
  <2>1. step' = "receive" /\ pos' = pos /\ receiver' = receiver
    BY <1>3, OpensRecord DEF sending, OpenRecord
  <2>2. Opened' /\ Before'
    BY OpenedStep, BeforeStep
  <2>3. output' # None => output' = Got'
    BY <2>1, <2>2 DEF Got, Before
  <2> QED BY <2>1, <2>2, <2>3 DEF OutputIsPrefix, SavedIsWhole, Opened
<1>4. CASE OpenLast /\ ~ Gone
  <2>1. /\ step = "receive" /\ buffer \in Seq(Cell) /\ OfSealed(buffer) /\ step' = "saved"
        /\ open_record(buffer, index, TRUE) /\ KeepLast(Plain(buffer)) /\ pos' = pos
    BY <1>4, OpensLast DEF IInv, TypeOK, OpenLast, sending
  <2>2. PICK r \in Sealed :
          /\ r.last = TRUE /\ r.to \in Nat /\ r.to <= pos
          /\ Got \o Plain(buffer) = Units(0, r.to) /\ Plain(buffer) \in Seq(1 .. MaxSize)
    BY <2>1, Opens
  <2>3. output' = Units(0, r.to) /\ Len(Units(0, r.to)) = r.to
    BY <2>1, <2>2, KeepsLast, FrontLength
  <2>4. r.to = pos
    <3>1. r.index + 1 = plain_record_count(size)
      BY <2>2 DEF IInv, Chained
    <3>2. sealed = plain_record_count(size)
      BY <2>1 DEF IInv, Before
    <3> QED BY <2>2, <3>1, <3>2 DEF IInv, Chained
  <2> QED BY <2>1, <2>2, <2>3, <2>4 DEF OutputIsPrefix, SavedIsWhole
<1>5. CASE UNCHANGED <<pos, output>> /\ (step' = "saved" => step = "saved")
  BY <1>0, <1>5 DEF OutputIsPrefix, SavedIsWhole
<1>6. \/ Seal \/ Serve \/ (OpenRecord /\ ~ Gone) \/ (OpenLast /\ ~ Gone)
      \/ UNCHANGED <<pos, output>> /\ (step' = "saved" => step = "saved")
  BY DEF Next, vars, Stat, FileChanges, SealFails, Uploaded, Receive, Gone, Broken, Fail,
         built, sending
<1> QED BY <1>1, <1>2, <1>3, <1>4, <1>5, <1>6

(* Only the file, the server and the network excuse a failure, and for good. *)
LEMMA Excuses ==
  ASSUME IInv, [Next]_vars, ~ excuse'
  PROVE  /\ ~ excuse /\ ~ FileChanges /\ ~ SealFails /\ ~ Broken
         /\ UNCHANGED length
         /\ Serve => cipher_len' = Len(body) /\ wire' = body
<1>0. excuse' # TRUE
  BY TypeStep DEF TypeOK
<1>1. ~ FileChanges /\ ~ SealFails /\ ~ Broken
  BY <1>0, Zenon DEF FileChanges, SealFails, Broken
<1>2. Serve => cipher_len' = Len(body) /\ wire' = body
  BY <1>0, Zenon DEF Serve
<1>3. excuse' = excuse /\ length' = length
  <2>1. CASE OpenRecord \/ OpenLast
    BY <2>1, Zenon DEF OpenRecord, OpenLast, sending
  <2>2. CASE Serve
    BY <1>0, <2>2, Zenon DEF Serve, sending
  <2>3. CASE Stat \/ Seal \/ Uploaded \/ (\E n \in NetChunk : Receive(n)) \/ UNCHANGED vars
    BY <2>3, Zenon DEF vars, Stat, Seal, Uploaded, Receive, sending
  <2> QED BY <1>1, <2>1, <2>2, <2>3 DEF Next
<1> QED BY <1>1, <1>2, <1>3, Zenon

LEMMA OnBoundaryStep == IInv /\ [Next]_vars => OnBoundary'
<1> SUFFICES ASSUME IInv, [Next]_vars, (sender = "web" \/ ~excuse)'
             PROVE (pos = Least(sealed * CHUNK_SIZE, size))'
  BY DEF OnBoundary
<1>0. sender' = sender /\ (sender = "web" \/ ~excuse)
  <2>1. sender' = sender
    BY Senders DEF Stat, Seal
  <2> QED BY <2>1, Excuses
<1>1. CASE Stat
  <2>1. sealed = 0 /\ pos = 0 /\ UNCHANGED <<pos, sealed>> /\ size' \in Nat
    BY <1>1, TransferAssumption DEF Stat, IInv, Before, Chained, TypeOK
  <2>2. 0 * CHUNK_SIZE = 0
    BY FramingAssumption
  <2> QED BY <2>1, <2>2 DEF Least
<1>2. CASE Seal
  <2>1. sealed' = sealed + 1 /\ size' = size
    BY <1>2 DEF Seal
  <2> QED BY <1>0, <1>2, <2>1, ReadsOn
<1>3. CASE UNCHANGED <<sender, receiver, size, pos, sealed, body>>
  BY <1>0, <1>3 DEF IInv, OnBoundary
<1> QED BY <1>1, <1>2, <1>3, Senders

(* Records lie one after the other. *)
LEMMA OffsetsGrow ==
  ASSUME size \in Nat, NEW k \in Nat, NEW q \in Nat, k <= q
  PROVE  Offset(k) \in Nat /\ Offset(q) \in Nat /\ Offset(k) <= Offset(q)
<1>1. /\ k * CHUNK_SIZE <= q * CHUNK_SIZE /\ k * CHUNK_SIZE \in Nat /\ q * CHUNK_SIZE \in Nat
      /\ k * TAG_LEN <= q * TAG_LEN /\ k * TAG_LEN \in Nat /\ q * TAG_LEN \in Nat
  BY Ordered, FramingAssumption
<1> QED BY <1>1 DEF Offset, Least

(* Every record has a length. *)
LEMMA NthLength ==
  ASSUME size \in Nat, NEW k \in Nat
  PROVE  Nth(k).to - Nth(k).from + TAG_LEN \in Nat /\ Nth(k).to - Nth(k).from + TAG_LEN > 0
<1>1. Nth(k).from \in Nat /\ Nth(k).to \in Nat /\ Nth(k).from <= Nth(k).to
  BY Boundaries DEF Record
<1> QED BY <1>1, Sizes

LEMMA SameRecord ==
  ASSUME NEW r \in Record, NEW s \in Record,
         r.index = s.index, r.last = s.last, r.from = s.from, r.to = s.to
  PROVE  r = s
  BY DEF Record

LEMMA LaidOutStep == IInv /\ [Next]_vars => LaidOut'
<1> SUFFICES ASSUME IInv, [Next]_vars, ~ excuse' PROVE LaidOut'
  BY DEF LaidOut
<1>0. ~ excuse /\ LaidOut /\ UNCHANGED length
  BY Excuses DEF IInv
<1>1. CASE Stat
  <2>1. sealed' = 0 /\ body' = <<>> /\ size' = length /\ size' \in Nat
    BY <1>1, TransferAssumption DEF Stat, IInv, Before, TypeOK
  <2>2. 0 * CHUNK_SIZE = 0 /\ 0 * TAG_LEN = 0
    BY FramingAssumption
  <2>3. (Offset(sealed))' = 0
    BY <2>1, <2>2 DEF Offset, Least
  <2>4. 0 .. sealed' - 1 = {}
    BY <2>1
  <2> QED BY <1>0, <2>1, <2>3, <2>4 DEF LaidOut
<1>2. CASE Seal
  <2>0. size \in Nat /\ sealed \in Nat /\ sealed' = sealed + 1 /\ size' = size /\ step # "stat"
    BY <1>2, TransferAssumption DEF Seal, IInv, TypeOK
  <2>1. PICK r \in Record :
          /\ r.index = sealed /\ r.from = pos /\ r.to = pos' /\ r.from <= r.to
          /\ r.last <=> sealed + 1 = plain_record_count(size)
          /\ body' \in Seq(Cell)
          /\ Len(body') = Len(body) + (r.to - r.from + TAG_LEN)
          /\ \A i \in 1 .. Len(body) : body'[i] = body[i]
          /\ \A p \in 1 .. r.to - r.from + TAG_LEN :
               /\ body'[Len(body) + p] # Junk
               /\ body'[Len(body) + p].of = r /\ body'[Len(body) + p].at = p
          /\ Sealed' = Sealed \cup {r}
    BY <1>2, SealDoes
  <2>2. r = Nth(sealed)
    <3>1. r.from = Nth(sealed).from /\ r.to = Nth(sealed).to
      BY <1>0, <1>2, <2>0, <2>1, ReadsOn, Boundaries DEF IInv, OnBoundary
    <3>2. /\ Nth(sealed) \in Record /\ r.index = Nth(sealed).index
          /\ r.last = Nth(sealed).last
      BY <2>0, <2>1, Boundaries DEF Record
    <3> QED BY <3>1, <3>2, SameRecord
  <2>3. Len(body) = Offset(sealed) /\ Len(body') = Offset(sealed + 1)
    BY <1>0, <2>0, <2>1, <2>2, Boundaries DEF LaidOut
  <2>4. ASSUME NEW k \in 0 .. sealed, NEW p \in 1 .. Nth(k).to - Nth(k).from + TAG_LEN
        PROVE  body'[Offset(k) + p].of = Nth(k) /\ body'[Offset(k) + p].at = p
    <3>1. CASE k = sealed
      BY <2>1, <2>2, <2>3, <2>4, <3>1
    <3>2. CASE k < sealed
      <4>1. body[Offset(k) + p].of = Nth(k) /\ body[Offset(k) + p].at = p
        BY <1>0, <2>0, <3>2 DEF LaidOut
      <4>2. Offset(k) + p \in 1 .. Len(body)
        <5>1. /\ Offset(k) \in Nat /\ k \in Nat
              /\ Offset(k + 1) = Offset(k) + (Nth(k).to - Nth(k).from + TAG_LEN)
          BY <2>0, Boundaries
        <5>2. Offset(k + 1) \in Nat /\ Offset(k + 1) <= Len(body)
          BY <2>0, <2>3, <3>2, <5>1, OffsetsGrow
        <5>3. Len(body) \in Nat
          BY DEF IInv, TypeOK
        <5>4. Nth(k).to - Nth(k).from + TAG_LEN \in Nat
          BY <2>0, <5>1, NthLength
        <5> QED BY <2>4, <5>1, <5>2, <5>3, <5>4
      <4> QED BY <2>1, <4>1, <4>2
    <3> QED BY <2>0, <3>1, <3>2
  <2>5. \A k : Nth(k)' = Nth(k) /\ Offset(k)' = Offset(k)
    BY <2>0 DEF Nth, Offset
  <2>6. (length = size)'
    BY <1>0, <2>0 DEF LaidOut
  <2>7. sealed' - 1 = sealed
    BY <2>0
  <2> QED BY <2>0, <2>3, <2>4, <2>5, <2>6, <2>7 DEF LaidOut
<1>3. CASE UNCHANGED <<sender, receiver, size, pos, sealed, body>> /\ (step = "stat" => step' = "stat")
  <2>1. \A k : Nth(k)' = Nth(k) /\ Offset(k)' = Offset(k)
    BY <1>3 DEF Nth, Offset
  <2>2. (step # "stat" => length = size)' /\ Len(body') = Offset(sealed)'
    <3>1. (step # "stat" => length = size) /\ Len(body) = Offset(sealed)
      BY <1>0 DEF LaidOut
    <3>2. UNCHANGED <<length, size, body>> /\ (step' # "stat" => length = size)
      BY <1>0, <1>3, <3>1
    <3>3. Offset(sealed)' = Offset(sealed)
      BY <1>3 DEF Offset
    <3> QED BY <3>1, <3>2, <3>3
  <2>3. \A k \in 0 .. sealed' - 1 : \A p \in 1 .. Nth(k)'.to - Nth(k)'.from + TAG_LEN :
          body'[Offset(k)' + p].of = Nth(k)' /\ body'[Offset(k)' + p].at = p
    <3>1. body' = body /\ sealed' = sealed
      BY <1>3
    <3>2. \A k \in 0 .. sealed - 1 : \A p \in 1 .. Nth(k).to - Nth(k).from + TAG_LEN :
            body[Offset(k) + p].of = Nth(k) /\ body[Offset(k) + p].at = p
      BY <1>0 DEF LaidOut
    <3> QED BY <2>1, <3>1, <3>2
  <2> QED BY <2>2, <2>3 DEF LaidOut
<1>4. Stat \/ (step = "stat" => step' = "stat")
  BY DEF Next, vars, Stat, FileChanges, Seal, SealFails, Uploaded, Serve, Receive, OpenRecord,
         OpenLast, Broken, Fail
<1> QED BY <1>1, <1>2, <1>3, <1>4, Senders

-----------------------------------------------------------------------------
(* What an honest transfer delivers, and that it opens. *)

(* The whole file is sealed, and its length is what was computed ahead. *)
LEMMA WholeBody ==
  ASSUME IInv, ~ excuse, step \notin {"stat", "seal", "sendFailed"}
  PROVE  /\ size \in Nat /\ sealed \in Nat /\ sealed > 0 /\ sealed = plain_record_count(size)
         /\ pos = size /\ size = length
         /\ Len(body) = ciphertext_len(size) /\ Len(body) = Offset(sealed)
         /\ cipher_record_count(Len(body)) = sealed
         /\ plaintext_len(Len(body)) = size
<1>1. size \in Nat /\ sealed = plain_record_count(size) /\ size = length
  BY TransferAssumption DEF IInv, TypeOK, Before, LaidOut
<1>2. sealed \in Nat \ {0} /\ size <= sealed * CHUNK_SIZE /\ sealed * CHUNK_SIZE \in Nat
  <2>1. sealed \in Nat \ {0} /\ size <= sealed * CHUNK_SIZE
    BY <1>1, CountCovers
  <2> QED BY <2>1, Ordered, FramingAssumption
<1>3. Least(sealed * CHUNK_SIZE, size) = size
  BY <1>1, <1>2 DEF Least
<1>4. pos = size /\ Len(body) = size + sealed * TAG_LEN /\ Len(body) = Offset(sealed)
  BY <1>3 DEF IInv, OnBoundary, LaidOut, Offset
<1>5. Len(body) = ciphertext_len(size)
  BY <1>1, <1>4 DEF ciphertext_len, plain_record_count
<1> QED BY <1>1, <1>2, <1>4, <1>5, CountsAgree, LengthRecovered

(* Where a record begins that is not the first. *)
LEMMA FullBefore ==
  ASSUME size \in Nat, NEW k \in Nat, k < plain_record_count(size)
  PROVE  Offset(k) = k * C /\ k * C \in Nat
<1>1. k * CHUNK_SIZE <= size /\ k * CHUNK_SIZE \in Nat /\ k * TAG_LEN \in Nat
  BY CountCovers, Ordered, FramingAssumption
<1>2. Offset(k) = k * CHUNK_SIZE + k * TAG_LEN
  BY <1>1 DEF Offset, Least
<1>3. k * (CHUNK_SIZE + TAG_LEN) = k * CHUNK_SIZE + k * TAG_LEN
  BY FramingAssumption
<1> QED BY <1>1, <1>2, <1>3, Sizes

(* The front of an honest buffer is the record that comes next. *)
LEMMA NextRecord ==
  ASSUME IInv, ~ excuse, step = "receive",
         NEW n \in Nat, n = Nth(index).to - Nth(index).from + TAG_LEN,
         NEW s \in Seq(Cell), Len(s) = n,
         \A i \in 1 .. n : s[i] = body[index * C + i]
  PROVE  open_record(s, index, Nth(index).last)
<1>0. /\ size \in Nat /\ index \in Nat /\ sealed \in Nat /\ sealed = plain_record_count(size)
      /\ index < sealed /\ Len(body) = Offset(sealed) /\ body \in Seq(Cell)
  BY WholeBody DEF IInv, TypeOK, Delivered
<1>1. Nth(index) \in Record /\ Nth(index).from <= Nth(index).to /\ Nth(index).index = index
      /\ Offset(index + 1) = Offset(index) + n
  BY <1>0, Boundaries
<1>2. n > 0
  BY <1>0, NthLength
<1>3. Offset(index) = index * C /\ Offset(index) \in Nat
  BY <1>0, FullBefore
<1>4. Offset(index + 1) \in Nat /\ Offset(index + 1) <= Len(body) /\ Len(body) \in Nat
  <2>1. index + 1 \in Nat /\ index + 1 <= sealed
    BY <1>0
  <2>2. Len(body) \in Nat
    BY <1>0
  <2> QED BY <1>0, <2>1, <2>2, OffsetsGrow
<1>5. \A i \in 1 .. n : index * C + i \in 1 .. Len(body)
  BY <1>1, <1>2, <1>3, <1>4
<1>6. \A i \in 1 .. n : /\ s[i] \in [of: Record, at: Nat] /\ s[i] # Junk
                        /\ s[i].of = Nth(index) /\ s[i].at = i
  <2> SUFFICES ASSUME NEW i \in 1 .. n
               PROVE  /\ s[i] \in [of: Record, at: Nat] /\ s[i] # Junk
                      /\ s[i].of = Nth(index) /\ s[i].at = i
    OBVIOUS
  <2>1. s[i] = body[index * C + i] /\ index * C + i \in 1 .. Len(body)
    BY <1>5
  <2>2. s[i] \in Cell /\ s[i] # Junk
    BY <1>0, <2>1, ElementOfSeq DEF IInv, Chained
  <2>3. body[Offset(index) + i].of = Nth(index) /\ body[Offset(index) + i].at = i
    <3>1. index \in 0 .. sealed - 1
      BY <1>0
    <3> QED BY <3>1 DEF IInv, LaidOut
  <2> QED BY <1>3, <2>1, <2>2, <2>3 DEF Cell
<1>7. LET t == seal_record(Nth(index)) IN
      /\ t \in Seq(Cell) /\ Len(t) = n
      /\ \A i \in 1 .. n : t[i] \in [of: Record, at: Nat] /\ t[i].of = Nth(index) /\ t[i].at = i
  BY <1>1, SealedCells
<1>8. s = seal_record(Nth(index))
  <2> DEFINE t == seal_record(Nth(index))
  <2>1. t \in Seq(Cell) /\ Len(t) = n
    BY <1>7
  <2>2. \A i \in 1 .. n : t[i] \in [of: Record, at: Nat] /\ t[i].of = Nth(index) /\ t[i].at = i
    BY <1>7
  <2> HIDE DEF t
  <2>3. \A i \in 1 .. n : s[i] = t[i]
    BY <1>6, <2>2, SameCell
  <2>4. s = t
    BY <2>1, <2>3, SeqEqual
  <2> QED BY <2>4 DEF t
<1>9. s # <<>> /\ s[1] # Junk /\ s[1].of = Nth(index)
  <2>1. 1 \in 1 .. n
    BY <1>2
  <2> QED BY <1>2, <1>6, <2>1
<1> QED BY <1>1, <1>8, <1>9 DEF open_record

(* The buffer of an honest transfer, cell by cell. *)
LEMMA HonestBuffer ==
  ASSUME IInv, ~ excuse, step = "receive"
  PROVE  /\ index * C \in Nat /\ index * C = Offset(index)
         /\ Len(buffer) + Len(wire) = Len(body) - index * C
         /\ \A i \in 1 .. Len(buffer) : buffer[i] = body[index * C + i]
<1>0. /\ buffer \in Seq(Cell) /\ wire \in Seq(Cell) /\ body \in Seq(Cell) /\ index \in Nat
      /\ index < sealed /\ buffer \o wire = SubSeq(body, index * C + 1, Len(body))
  BY DEF IInv, TypeOK, Delivered
<1>a. Len(buffer) \in Nat /\ Len(wire) \in Nat /\ Len(body) \in Nat
  BY <1>0, LenProperties
<1>b. /\ size \in Nat /\ sealed \in Nat /\ sealed = plain_record_count(size)
      /\ Len(body) = Offset(sealed)
  BY WholeBody
<1>1. index * C \in Nat /\ index * C = Offset(index)
  BY <1>0, <1>b, FullBefore
<1>2. index * C <= Len(body)
  BY <1>0, <1>b, <1>1, OffsetsGrow
<1> DEFINE m == index * C  rest == SubSeq(body, m + 1, Len(body))
<1> HIDE DEF m
<1>3. m \in Nat /\ m <= Len(body)
  BY <1>1, <1>2 DEF m
<1>5. /\ Len(rest) = Len(body) - m
      /\ \A i \in 1 .. Len(body) - m : rest[i] = body[m + i]
  BY <1>0, <1>3, RestOf
<1>6. /\ Len(buffer \o wire) = Len(buffer) + Len(wire)
      /\ \A i \in 1 .. Len(buffer) : (buffer \o wire)[i] = buffer[i]
  <2>1. \A i \in 1 .. Len(buffer) : i \in 1 .. Len(buffer) + Len(wire) /\ i <= Len(buffer)
    BY <1>a
  <2> QED BY <1>0, <2>1, ConcatProperties
<1>7. buffer \o wire = rest
  BY <1>0 DEF m
<1> HIDE DEF rest
<1>8. Len(buffer) + Len(wire) = Len(body) - m
  BY <1>5, <1>6, <1>7
<1>9. \A i \in 1 .. Len(buffer) : buffer[i] = body[m + i]
  BY <1>a, <1>3, <1>5, <1>6, <1>7, <1>8
<1> QED BY <1>1, <1>8, <1>9 DEF m

(* An honest record opens when it is its turn. *)
LEMMA RecordOpens ==
  ASSUME IInv, ~ excuse, step = "receive", NotLast
  PROVE  /\ index + 1 < sealed
         /\ open_record(SubSeq(buffer, 1, C), index, FALSE)
<1>0. /\ index \in Nat /\ sealed \in Nat /\ size \in Nat /\ sealed = plain_record_count(size)
      /\ cipher_record_count(Len(body)) = sealed /\ cipher_len = Len(body)
  BY WholeBody DEF IInv, TypeOK, Delivered
<1>1. index + 1 < sealed /\ C <= Len(buffer) /\ buffer \in Seq(Cell) /\ Len(buffer) \in Nat
  BY <1>0 DEF NotLast, total_records, C, IInv, TypeOK
<1>2. Nth(index).to - Nth(index).from + TAG_LEN = C /\ Nth(index).last = FALSE
  <2>1. index + 1 \in Nat /\ index + 1 < plain_record_count(size)
    BY <1>0, <1>1
  <2>2. Offset(index) = index * C /\ Offset(index + 1) = (index + 1) * C
    BY <1>0, <1>1, <2>1, FullBefore
  <2>3. (index + 1) * C = index * C + C /\ index * C \in Nat
    BY <1>0, Sizes, Ordered
  <2>4. /\ Offset(index + 1) = Offset(index) + (Nth(index).to - Nth(index).from + TAG_LEN)
        /\ Nth(index).last <=> index + 1 = plain_record_count(size)
        /\ Nth(index) \in Record
    BY <1>0, Boundaries
  <2>5. Nth(index).to - Nth(index).from + TAG_LEN \in Nat
    BY <1>0, NthLength
  <2>6. Nth(index).last \in BOOLEAN
    BY <2>4 DEF Record
  <2> QED BY <2>1, <2>2, <2>3, <2>4, <2>5, <2>6, Sizes
<1> DEFINE s == SubSeq(buffer, 1, C)
<1>3. /\ s \in Seq(Cell) /\ Len(s) = C /\ \A i \in 1 .. C : s[i] = buffer[i]
  BY <1>1, Sizes, FrontOf
<1>4. \A i \in 1 .. C : s[i] = body[index * C + i]
  <2>1. \A i \in 1 .. C : i \in 1 .. Len(buffer)
    BY <1>1, Sizes
  <2> HIDE DEF s
  <2> QED BY <1>3, <2>1, HonestBuffer
<1> HIDE DEF s
<1>5. open_record(s, index, Nth(index).last)
  BY <1>2, <1>3, <1>4, Sizes, NextRecord
<1> QED BY <1>1, <1>2, <1>5 DEF s

LEMMA LastOpens ==
  ASSUME IInv, ~ excuse, step = "receive", ~ NotLast, wire = <<>>
  PROVE  index + 1 = total_records /\ open_record(buffer, index, TRUE)
<1>0. /\ index \in Nat /\ sealed \in Nat /\ size \in Nat /\ sealed = plain_record_count(size)
      /\ cipher_record_count(Len(body)) = sealed /\ cipher_len = Len(body)
      /\ index < sealed /\ Len(body) = Offset(sealed)
  BY WholeBody DEF IInv, TypeOK, Delivered
<1>a. buffer \in Seq(Cell) /\ Len(buffer) \in Nat /\ Len(body) \in Nat
  BY DEF IInv, TypeOK
<1>1. Len(buffer) = Len(body) - Offset(index) /\ Offset(index) \in Nat
  <2>1. Len(wire) = 0
    OBVIOUS
  <2>2. Len(buffer) + Len(wire) = Len(body) - index * C /\ index * C = Offset(index)
        /\ index * C \in Nat
    BY HonestBuffer
  <2> QED BY <1>a, <2>1, <2>2
<1>2. index + 1 = sealed
  <2> SUFFICES ASSUME index + 1 < sealed PROVE FALSE
    BY <1>0
  <2>1. index + 1 \in Nat /\ index + 1 < plain_record_count(size)
    BY <1>0
  <2>2. Offset(index) = index * C /\ Offset(index + 1) = (index + 1) * C
    BY <1>0, <2>1, FullBefore
  <2>3. (index + 1) * C = index * C + C /\ index * C \in Nat
    BY <1>0, Sizes, Ordered
  <2>4. Offset(index + 1) <= Len(body)
    BY <1>0, <2>1, OffsetsGrow
  <2>5. Len(buffer) < C
    BY <1>0, <1>a, Sizes DEF NotLast, total_records, C
  <2> QED BY <1>a, <1>1, <2>2, <2>3, <2>4, <2>5, Sizes
<1>3. Len(buffer) = Nth(index).to - Nth(index).from + TAG_LEN /\ Nth(index).last = TRUE
  <2>1. /\ Offset(index + 1) = Offset(index) + (Nth(index).to - Nth(index).from + TAG_LEN)
        /\ Nth(index).last <=> index + 1 = plain_record_count(size)
        /\ Nth(index) \in Record
    BY <1>0, Boundaries
  <2>2. Nth(index).to - Nth(index).from + TAG_LEN \in Nat
    BY <1>0, NthLength
  <2>3. Nth(index).last \in BOOLEAN
    BY <2>1 DEF Record
  <2> QED BY <1>0, <1>1, <1>2, <2>1, <2>2, <2>3
<1>4. \A i \in 1 .. Len(buffer) : buffer[i] = body[index * C + i]
  BY HonestBuffer
<1>5. open_record(buffer, index, Nth(index).last)
  BY <1>a, <1>3, <1>4, NextRecord
<1> QED BY <1>0, <1>2, <1>3, <1>5 DEF total_records

(* Cutting what is on the wire anywhere loses nothing. *)
LEMMA CutAnywhere ==
  ASSUME NEW w \in Seq(Cell), NEW n \in Nat
  PROVE  SubSeq(w, 1, Least(n, Len(w))) \o SubSeq(w, n + 1, Len(w)) = w
<1> DEFINE m == Least(n, Len(w))  s == SubSeq(w, 1, m)  t == SubSeq(w, n + 1, Len(w))
<1>0. Len(w) \in Nat /\ m \in Nat /\ m <= Len(w) /\ (n <= Len(w) => m = n)
      /\ (n > Len(w) => m = Len(w))
  BY DEF Least
<1> HIDE DEF m
<1>2. s \in Seq(Cell) /\ Len(s) = m /\ \A i \in 1 .. m : s[i] = w[i]
  BY <1>0, FrontOf
<1>3. t \in Seq(Cell) /\ Len(t) = Len(w) - m /\ \A i \in 1 .. Len(w) - m : t[i] = w[m + i]
  <2>1. CASE n <= Len(w)
    <3>1. m = n
      BY <1>0, <2>1
    <3>2. t \in Seq(Cell) /\ Len(t) = Len(w) - n /\ \A i \in 1 .. Len(w) - n : t[i] = w[n + i]
      BY <2>1, RestOf
    <3> QED BY <3>1, <3>2
  <2>2. CASE n > Len(w)
    <3>1. n + 1 \in Int /\ Len(w) \in Int /\ Len(w) < n + 1
      BY <1>0, <2>2
    <3>2. t = <<>>
      BY <3>1, SubSeqEmpty
    <3>3. Len(w) - m = 0 /\ 1 .. Len(w) - m = {}
      BY <1>0, <2>2
    <3> QED BY <3>2, <3>3, EmptySeq
  <2>3. n <= Len(w) \/ n > Len(w)
    BY <1>0
  <2> QED BY <2>1, <2>2, <2>3
<1> HIDE DEF s, t
<1>4. /\ s \o t \in Seq(Cell) /\ Len(s \o t) = Len(s) + Len(t)
      /\ \A i \in 1 .. Len(s) + Len(t) : (s \o t)[i] = IF i <= Len(s) THEN s[i] ELSE t[i - Len(s)]
  BY <1>2, <1>3, ConcatProperties
<1>5. Len(s \o t) = Len(w) /\ \A i \in 1 .. Len(w) : (s \o t)[i] = w[i]
  <2>1. Len(s) + Len(t) = Len(w)
    BY <1>0, <1>2, <1>3
  <2>2. \A i \in 1 .. Len(w) : IF i <= m THEN i \in 1 .. m
                               ELSE i - m \in 1 .. Len(w) - m /\ m + (i - m) = i
    BY <1>0
  <2> QED BY <1>2, <1>3, <1>4, <2>1, <2>2
<1>6. s \o t = w
  BY <1>4, <1>5, SeqEqual
<1> QED BY <1>6 DEF s, t, m

(* What is left of a sequence, and then of that. *)
LEMMA RestOfRest ==
  ASSUME NEW s \in Seq(Cell), NEW m \in Nat, NEW c \in Nat, m + c <= Len(s)
  PROVE  LET t == SubSeq(s, m + 1, Len(s)) IN
         SubSeq(t, c + 1, Len(t)) = SubSeq(s, m + c + 1, Len(s))
<1> DEFINE t == SubSeq(s, m + 1, Len(s))
           u == SubSeq(t, c + 1, Len(t))
           v == SubSeq(s, m + c + 1, Len(s))
<1>0. Len(s) \in Nat /\ m <= Len(s) /\ m + c \in Nat
  OBVIOUS
<1>1. t \in Seq(Cell) /\ Len(t) = Len(s) - m /\ \A i \in 1 .. Len(s) - m : t[i] = s[m + i]
  BY <1>0, RestOf
<1> HIDE DEF t
<1>2. c <= Len(t)
  BY <1>0, <1>1
<1>3. u \in Seq(Cell) /\ Len(u) = Len(t) - c /\ \A i \in 1 .. Len(t) - c : u[i] = t[c + i]
  BY <1>1, <1>2, RestOf
<1>4. v \in Seq(Cell) /\ Len(v) = Len(s) - (m + c)
      /\ \A i \in 1 .. Len(s) - (m + c) : v[i] = s[m + c + i]
  BY <1>0, RestOf
<1> HIDE DEF u, v
<1>5. Len(t) - c = Len(s) - (m + c)
  BY <1>0, <1>1
<1>6. \A i \in 1 .. Len(s) - (m + c) : c + i \in 1 .. Len(s) - m /\ m + (c + i) = m + c + i
  BY <1>0
<1>7. \A i \in 1 .. Len(s) - (m + c) : u[i] = v[i]
  BY <1>1, <1>3, <1>4, <1>5, <1>6
<1>8. u = v
  BY <1>3, <1>4, <1>5, <1>7, SeqEqual
<1> QED BY <1>8 DEF u, v, t

(* What is taken from the front of a buffer leaves the rest of both. *)
LEMMA RestOfJoin ==
  ASSUME NEW s \in Seq(Cell), NEW w \in Seq(Cell), NEW c \in Nat, c <= Len(s)
  PROVE  SubSeq(s, c + 1, Len(s)) \o w = SubSeq(s \o w, c + 1, Len(s \o w))
<1> DEFINE t == SubSeq(s, c + 1, Len(s))  z == s \o w  u == SubSeq(z, c + 1, Len(z))
<1>0. Len(s) \in Nat /\ Len(w) \in Nat
  OBVIOUS
<1>1. /\ z \in Seq(Cell) /\ Len(z) = Len(s) + Len(w)
      /\ \A i \in 1 .. Len(s) + Len(w) : z[i] = IF i <= Len(s) THEN s[i] ELSE w[i - Len(s)]
  BY ConcatProperties
<1>2. t \in Seq(Cell) /\ Len(t) = Len(s) - c /\ \A i \in 1 .. Len(s) - c : t[i] = s[c + i]
  BY RestOf
<1> HIDE DEF t, z
<1>3. u \in Seq(Cell) /\ Len(u) = Len(z) - c /\ \A i \in 1 .. Len(z) - c : u[i] = z[c + i]
  <2>1. c <= Len(z)
    BY <1>0, <1>1
  <2> QED BY <1>1, <2>1, RestOf
<1>4. /\ t \o w \in Seq(Cell) /\ Len(t \o w) = Len(t) + Len(w)
      /\ \A i \in 1 .. Len(t) + Len(w) : (t \o w)[i] = IF i <= Len(t) THEN t[i] ELSE w[i - Len(t)]
  BY <1>2, ConcatProperties
<1> HIDE DEF u
<1>a. PICK n \in Nat, k \in Nat : Len(s) = n /\ Len(w) = k /\ c <= n
  BY <1>0
<1>b. n - c \in Nat /\ n + k - c = (n - c) + k
  BY <1>a
<1>c. \A j \in 1 .. n + k : z[j] = IF j <= n THEN s[j] ELSE w[j - n]
  BY <1>1, <1>a
<1>5. /\ Len(t) = n - c /\ Len(z) = n + k /\ Len(u) = n + k - c /\ Len(t \o w) = n + k - c
  BY <1>1, <1>2, <1>3, <1>4, <1>a, <1>b
<1>6. ASSUME NEW i \in 1 .. n + k - c PROVE (t \o w)[i] = u[i]
  <2>0. i \in 1 .. (n - c) + k /\ c + i \in 1 .. n + k /\ u[i] = z[c + i]
    BY <1>3, <1>5, <1>a, <1>b
  <2>1. CASE i <= n - c
    <3>1. i \in 1 .. n - c /\ c + i <= n
      BY <1>a, <2>1
    <3>2. (t \o w)[i] = t[i]
      BY <1>4, <1>5, <1>a, <2>0, <2>1
    <3>3. t[i] = s[c + i]
      BY <1>2, <1>a, <3>1
    <3>4. z[c + i] = s[c + i]
      BY <1>c, <2>0, <3>1
    <3> QED BY <2>0, <3>2, <3>3, <3>4
  <2>2. CASE ~ (i <= n - c)
    <3>1. ~ (c + i <= n) /\ c + i - n = i - (n - c)
      BY <1>a, <2>2
    <3>2. (t \o w)[i] = w[i - (n - c)]
      BY <1>4, <1>5, <1>a, <2>0, <2>2
    <3>3. z[c + i] = w[c + i - n]
      <4>1. PICK j \in 1 .. n + k : j = c + i /\ ~ (j <= n)
        BY <2>0, <3>1
      <4>2. z[j] = w[j - n]
        BY <1>c, <4>1
      <4> QED BY <4>1, <4>2
    <3> QED BY <2>0, <3>1, <3>2, <3>3
  <2> QED BY <2>1, <2>2
<1>7. t \o w = u
  BY <1>3, <1>4, <1>5, <1>6, SeqEqual
<1> QED BY <1>7 DEF t, u, z

LEMMA DeliveredStep == IInv /\ [Next]_vars => Delivered'
<1> SUFFICES ASSUME IInv, [Next]_vars, ~ excuse' PROVE Delivered'
  BY DEF Delivered
<1>0. ~ excuse /\ ~ SealFails /\ ~ Broken /\ ~ FileChanges
      /\ (Serve => cipher_len' = Len(body) /\ wire' = body)
  BY Excuses
<1>1. /\ step \notin {"failed", "sendFailed"}
      /\ step = "receive" =>
           /\ index < sealed /\ cipher_len = Len(body)
           /\ buffer \o wire = SubSeq(body, index * C + 1, Len(body))
  BY <1>0 DEF IInv, Delivered
<1>2. CASE Stat \/ Seal \/ Uploaded
  <2>1. step' \in {"seal", "stored"}
    BY <1>2 DEF Stat, Seal, Uploaded
  <2> QED BY <2>1 DEF Delivered
<1>3. CASE Serve
  <2>1. /\ step = "stored" /\ step' = "receive" /\ UNCHANGED <<sealed, body, index, buffer>>
        /\ index = 0 /\ buffer = <<>> /\ cipher_len' = Len(body) /\ wire' = body
    BY <1>0, <1>3 DEF Serve, sending, IInv, Before
  <2>2. sealed > 0
    BY <1>0, <2>1, WholeBody
  <2>3. <<>> \o body = SubSeq(body, 1, Len(body))
    <3>1. body \in Seq(Cell)
      BY DEF IInv, TypeOK
    <3>2. <<>> \o body = body /\ Len(body) \in Nat
      BY <3>1, ConcatEmptySeq
    <3>3. SubSeq(body, 1, Len(body)) \in Seq(Cell) /\ Len(SubSeq(body, 1, Len(body))) = Len(body)
          /\ \A i \in 1 .. Len(body) : SubSeq(body, 1, Len(body))[i] = body[i]
      BY <3>1, <3>2, FrontOf
    <3>4. SubSeq(body, 1, Len(body)) = body
      BY <3>1, <3>3, SeqEqual
    <3> QED BY <3>2, <3>4
  <2>4. 0 * C + 1 = 1
    BY Sizes
  <2> QED BY <2>1, <2>2, <2>3, <2>4 DEF Delivered, C
<1>4. ASSUME NEW n \in NetChunk, Receive(n) PROVE Delivered'
  <2> DEFINE m == Least(n, Len(wire))  s == SubSeq(wire, 1, m)  t == SubSeq(wire, n + 1, Len(wire))
  <2>1. /\ step = "receive" /\ buffer' = buffer \o s /\ wire' = t
        /\ UNCHANGED <<step, sealed, body, cipher_len, index>>
    BY <1>4 DEF Receive, sending
  <2>2. /\ buffer \in Seq(Cell) /\ s \in Seq(Cell) /\ t \in Seq(Cell) /\ s \o t = wire
    <3>1. wire \in Seq(Cell) /\ buffer \in Seq(Cell)
      BY DEF IInv, TypeOK
    <3>2. n \in Nat
      BY TransferAssumption
    <3>3. s \in Seq(Cell) /\ t \in Seq(Cell)
      BY Chunk
    <3>4. s \o t = wire
      BY <3>1, <3>2, CutAnywhere
    <3> QED BY <3>1, <3>3, <3>4
  <2> HIDE DEF s, t
  <2>3. (buffer \o s) \o t = buffer \o wire
    <3>1. \A p, q, r \in Seq(Cell) : (p \o q) \o r = p \o (q \o r)
      BY ConcatAssociative
    <3> QED BY <2>2, <3>1, Zenon
  <2> QED BY <1>1, <2>1, <2>3 DEF Delivered, C
<1>5. CASE OpenRecord
  <2>1. step = "receive" /\ NotLast /\ open_record(SubSeq(buffer, 1, C), index, FALSE)
        /\ index + 1 < sealed
    BY <1>0, <1>5, RecordOpens DEF OpenRecord
  <2>2. /\ buffer' = SubSeq(buffer, C + 1, Len(buffer)) /\ index' = index + 1
        /\ UNCHANGED <<step, sealed, body, cipher_len, wire>>
    BY <1>5, <2>1 DEF OpenRecord, sending, C
  <2>3. /\ buffer \in Seq(Cell) /\ wire \in Seq(Cell) /\ body \in Seq(Cell) /\ index \in Nat
        /\ C \in Nat /\ C <= Len(buffer) /\ Len(body) \in Nat /\ Len(wire) \in Nat
        /\ Len(buffer) \in Nat
    BY <2>1, Sizes DEF IInv, TypeOK, NotLast, C
  <2>4. /\ index * C \in Nat /\ Len(buffer) + Len(wire) = Len(body) - index * C
        /\ (index + 1) * C = index * C + C
    BY <1>0, <2>1, <2>3, HonestBuffer, Ordered
  <2>5. SubSeq(buffer, C + 1, Len(buffer)) \o wire =
          SubSeq(buffer \o wire, C + 1, Len(buffer \o wire))
    BY <2>3, RestOfJoin
  <2>6. LET t == SubSeq(body, index * C + 1, Len(body)) IN
        SubSeq(t, C + 1, Len(t)) = SubSeq(body, index * C + C + 1, Len(body))
    <3>1. index * C + C <= Len(body)
      BY <2>3, <2>4
    <3> QED BY <2>3, <2>4, <3>1, RestOfRest
  <2>7. SubSeq(buffer, C + 1, Len(buffer)) \o wire = SubSeq(body, (index + 1) * C + 1, Len(body))
    BY <1>1, <2>1, <2>4, <2>5, <2>6
  <2> QED BY <1>1, <2>1, <2>2, <2>7 DEF Delivered, C
<1>6. CASE OpenLast
  <2>1. step = "receive" /\ ~ NotLast /\ wire = <<>>
    BY <1>6 DEF OpenLast
  <2>2. index + 1 = total_records /\ open_record(buffer, index, TRUE)
    BY <1>0, <2>1, LastOpens
  <2>3. step' = "saved"
    BY <1>6, <2>2 DEF OpenLast
  <2> QED BY <2>3 DEF Delivered
<1>7. CASE UNCHANGED vars
  BY <1>1, <1>7 DEF Delivered, vars, C
<1> QED BY <1>0, <1>2, <1>3, <1>4, <1>5, <1>6, <1>7 DEF Next

-----------------------------------------------------------------------------
(* The theorems. *)

LEMMA Starts == Init => IInv
<1> SUFFICES ASSUME Init PROVE IInv
  OBVIOUS
<1>0. <<>> \in Seq(Cell) /\ <<>> \in Seq(1 .. MaxSize) /\ Len(<<>>) = 0
  BY EmptySeq
<1>1. Empty \in [records: Nat, units: Seq(1 .. MaxSize)]
  BY <1>0 DEF Empty
<1>2. TypeOK
  <2>1. 0 \in 0 .. MaxSize
    BY TransferAssumption
  <2>2. /\ sender \in Client /\ receiver \in Client /\ step = "stat" /\ length \in 0 .. MaxSize
        /\ size = 0 /\ pos = 0 /\ sealed = 0 /\ cipher_len = 0 /\ index = 0 /\ excuse = FALSE
        /\ body = <<>> /\ wire = <<>> /\ buffer = <<>> /\ parts = <<>>
        /\ output = None /\ pending = Empty
    BY DEF Init, Client
  <2>3. step \in Step
    BY <2>2 DEF Step
  <2> QED BY <1>0, <1>1, <2>1, <2>2, <2>3 DEF TypeOK
<1>3. Sealed = {}
  BY <1>0 DEF Init, Sealed
<1>4. Chained
  <2>1. 0 <= plain_record_count(0)
    BY CountCovers
  <2> QED BY <1>0, <1>3, <2>1 DEF Init, Chained
<1>5. OfSealed(wire) /\ OfSealed(buffer)
  BY <1>0 DEF Init, OfSealed
<1>6. Before /\ Opened /\ OutputIsPrefix /\ SavedIsWhole
  BY DEF Init, Before, Opened, OutputIsPrefix, SavedIsWhole
<1>7. 0 * CHUNK_SIZE = 0 /\ 0 * TAG_LEN = 0
  BY FramingAssumption
<1>8. OnBoundary
  BY <1>7 DEF Init, OnBoundary, Least
<1>9. LaidOut
  <2>1. Offset(0) = 0
    BY <1>7 DEF Init, Offset, Least
  <2>2. 0 .. 0 - 1 = {}
    OBVIOUS
  <2> QED BY <1>0, <2>1, <2>2 DEF Init, LaidOut
<1>10. Delivered
  BY DEF Init, Delivered
<1> QED BY <1>2, <1>4, <1>5, <1>6, <1>8, <1>9, <1>10 DEF IInv

(***************************************************************************)
(* What was sealed lies end to end and keeps its place, whatever the       *)
(* server and the network make of it; what is open is a front of it.       *)
(***************************************************************************)
THEOREM InductiveInvariant == Spec => []IInv
<1>1. IInv /\ [Next]_vars => IInv'
  BY TypeStep, ChainedStep, OfSealedStep, BeforeStep, OpenedStep, OnBoundaryStep, LaidOutStep,
     DeliveredStep, OutputStep DEF IInv
<1> QED BY Starts, <1>1, PTL DEF Spec

(* The type of every variable, for every length of file, chunk and record. *)
THEOREM TypeCorrect == Spec => []TypeOK
<1>1. IInv => TypeOK
  BY DEF IInv
<1> QED BY <1>1, InductiveInvariant, PTL

(***************************************************************************)
(* Whatever the server serves and however the network cuts it, a download  *)
(* that says it succeeded saved all units that were sealed, in order.      *)
(***************************************************************************)
THEOREM SavedAlwaysWhole == Spec => []SavedIsWhole
<1>1. IInv => SavedIsWhole
  BY DEF IInv
<1> QED BY <1>1, InductiveInvariant, PTL

(* What the receiver has written, at any time, is a front of the file. *)
THEOREM OutputAlwaysPrefix == Spec => []OutputIsPrefix
<1>1. IInv => OutputIsPrefix
  BY DEF IInv
<1> QED BY <1>1, InductiveInvariant, PTL

(***************************************************************************)
(* An honest transfer of a file of any length never fails, wherever the    *)
(* network cuts it, and gives back the whole file.                         *)
(***************************************************************************)
THEOREM HonestAlwaysOpens == Spec => []HonestOpens
<1>1. IInv => HonestOpens
  <2> SUFFICES ASSUME IInv, ~ excuse PROVE HonestOpens
    BY DEF HonestOpens
  <2>1. step \notin {"failed", "sendFailed"}
    BY DEF IInv, Delivered
  <2>2. ASSUME step = "saved" PROVE Len(output) = length
    <3>1. pos = size /\ size = length /\ size \in Nat
      BY <2>2, WholeBody
    <3>2. output = Units(0, pos)
      BY <2>2 DEF IInv, SavedIsWhole
    <3> QED BY <3>1, <3>2, FrontLength
  <2> QED BY <2>1, <2>2 DEF HonestOpens
<1> QED BY <1>1, InductiveInvariant, PTL

(* The lengths computed ahead are those of the body that is stored. *)
THEOREM LengthsAlwaysAgree == Spec => []LengthsAgree
<1>1. IInv => LengthsAgree
  BY WholeBody DEF LengthsAgree
<1> QED BY <1>1, InductiveInvariant, PTL
=============================================================================
