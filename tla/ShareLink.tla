------------------------------ MODULE ShareLink ------------------------------
(***************************************************************************)
(* A share as the clients see it: the capability a link or a passphrase    *)
(* gives, and what the server answers to one request.  ShareServer opens   *)
(* the requests; here each is one step, and everything else that ends a    *)
(* share (its expiry, its last download, its owner) is Vanish.             *)
(*                                                                         *)
(* A number n of Share stands for all that is drawn at random for one      *)
(* upload: the secret in the link, the nonce prefix, the salt, and the id  *)
(* and owner token the server draws if it stores it.                       *)
(***************************************************************************)
EXTENDS Integers, FiniteSets

CONSTANTS
  MaxShare,   \* bound: uploads begun
  MaxSalt,    \* bound: changes of one share's password
  MaxClick,   \* bound: what people do, over all pages, commands and owners
  File,       \* contents
  Passphrase, \* what a person may type; "" is an empty field
  Budget,     \* download budgets a client may ask for
  Limit,      \* the budget the server clamps to
  None

Share == 1 .. MaxShare

(* An empty field, or no --password. *)
NoPass == ""

(* The key derived from a link, and the one derived from a passphrase. *)
LinkCap(n) == <<"link", n>>
PassCap(p, salt) == <<"pass", p, salt>>

Salt == Share \X (0 .. MaxSalt)
Cap == {LinkCap(n) : n \in Share} \cup {PassCap(p, s) : p \in Passphrase, s \in Salt}

ShareRec == [file: File, auth: Cap, salt: Salt \cup {None}, left: Nat,
             changes: 0 .. MaxSalt]

(* What a number was drawn for. *)
Drawn == [file: File, pass: Passphrase]

ASSUME LinkAssumption ==
  /\ {MaxShare, MaxSalt, MaxClick} \subseteq Nat /\ Limit \in Nat \ {0}
  /\ Budget \subseteq Nat \ {0} /\ 1 \in Budget /\ NoPass \in Passphrase
  /\ None \notin File /\ None \notin Passphrase
  /\ None \notin Share /\ None \notin Salt /\ None \notin Cap
  /\ None \notin ShareRec /\ None \notin Drawn

VARIABLES
  shares,  \* shares[n]: the ShareRec the server has, or None
  sealed,  \* sealed[n]: the file and passphrase n was drawn for, or None
  handed,  \* the shares whose link somebody was shown
  clicks   \* how much people have done so far

server == <<shares, sealed, handed>>

LinkTypeOK ==
  /\ shares \in [Share -> ShareRec \cup {None}]
  /\ sealed \in [Share -> Drawn \cup {None}]
  /\ handed \subseteq Share
  /\ clicks \in 0 .. MaxClick

LinkInit ==
  /\ shares = [n \in Share |-> None] /\ sealed = [n \in Share |-> None]
  /\ handed = {} /\ clicks = 0

(* Somebody does something. *)
Click == clicks < MaxClick /\ clicks' = clicks + 1

(* What an upload sends to be compared later, and the salt it sends along. *)
auth_of(n, p, v) == IF p = NoPass THEN LinkCap(n) ELSE PassCap(p, <<n, v>>)
salt_of(n, p, v) == IF p = NoPass THEN None ELSE <<n, v>>

(* Seal number n, drawn afresh. *)
Draw(n, f, p) ==
  /\ \A m \in Share : sealed[m] = None <=> m >= n
  /\ sealed' = [sealed EXCEPT ![n] = [file |-> f, pass |-> p]]

(* POST /api/files. *)
upload(n, ask) ==
  LET p == sealed[n].pass IN
  shares' = [shares EXCEPT ![n] =
    [file |-> sealed[n].file, auth |-> auth_of(n, p, 0), salt |-> salt_of(n, p, 0),
     left |-> IF ask < Limit THEN ask ELSE Limit, changes |-> 0]]

(* GET /api/files/{id}/params. *)
params(n) == IF shares[n] # None /\ shares[n].left > 0 THEN "ok" ELSE "missing"

(* Seeded fault: only the key is looked at. *)
metadata_unmetered(n, cap) ==
  IF shares[n] = None THEN "missing"
  ELSE IF shares[n].auth # cap THEN "unauthorized" ELSE "ok"

(* GET /api/files/{id}/metadata; GET .../blob answers alike. *)
metadata(n, cap) ==
  IF shares[n] = None THEN "missing"
  ELSE IF shares[n].auth # cap THEN "unauthorized"
  ELSE params(n)

(* GET /api/files/{id}/blob takes one download. *)
claim(n) == shares' = [shares EXCEPT ![n].left = @ - 1]

(* The share ends: its time, its last download, or an owner's DELETE. *)
Vanish(n) ==
  /\ shares[n] # None
  /\ shares' = [shares EXCEPT ![n] = None]
  /\ UNCHANGED <<sealed, handed, clicks>>

(* PUT /api/files/{id}/password: with a new salt, or the link's own again. *)
ChangePassword(n, p) ==
  /\ Click /\ shares[n] # None /\ shares[n].changes < MaxSalt
  /\ LET v == shares[n].changes + 1 IN
     shares' = [shares EXCEPT ![n].auth = auth_of(n, p, v), ![n].salt = salt_of(n, p, v),
                              ![n].changes = v]
  /\ UNCHANGED <<sealed, handed>>
=============================================================================
