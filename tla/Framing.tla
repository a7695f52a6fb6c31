------------------------------- MODULE Framing -------------------------------
(***************************************************************************)
(* Record framing as arithmetic: how many records a body is cut into and   *)
(* how long the body is before and after sealing.  Shared by the server's  *)
(* wire types and by both clients.                                         *)
(***************************************************************************)
EXTENDS Integers

CONSTANTS
  CHUNK_SIZE,  \* plaintext bytes of a full record
  TAG_LEN      \* bytes a record grows by when it is sealed

ASSUME FramingAssumption ==
  /\ CHUNK_SIZE \in Nat \ {0}
  /\ TAG_LEN \in Nat \ {0}

CHUNK_CIPHERTEXT_SIZE == CHUNK_SIZE + TAG_LEN

div_ceil(n, d) == (n + d - 1) \div d

(* Seeded fault: an empty body gets no record. *)
record_count_empty(len, chunk) == div_ceil(len, chunk)

record_count(len, chunk) == IF len = 0 THEN 1 ELSE div_ceil(len, chunk)

plain_record_count(size) == record_count(size, CHUNK_SIZE)
cipher_record_count(cipher_len) == record_count(cipher_len, CHUNK_CIPHERTEXT_SIZE)

(* Seeded fault: one tag for the whole body. *)
ciphertext_len_one_tag(len) == len + TAG_LEN

ciphertext_len(len) == len + record_count(len, CHUNK_SIZE) * TAG_LEN

(* The plaintext length of a ciphertext length, or -1 for Rust's None. *)
plaintext_len(cipher_len) ==
  LET whole == cipher_len \div CHUNK_CIPHERTEXT_SIZE
      rest == cipher_len % CHUNK_CIPHERTEXT_SIZE
  IN IF rest = 0
     THEN IF whole = 0 THEN -1 ELSE cipher_len - whole * TAG_LEN
     ELSE IF rest < TAG_LEN THEN -1 ELSE cipher_len - (whole + 1) * TAG_LEN
=============================================================================
