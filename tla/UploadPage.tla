------------------------------ MODULE UploadPage ------------------------------
(***************************************************************************)
(* The upload page of the web client: one file, the options beside it, and *)
(* the link shown in the end.                                              *)
(*                                                                         *)
(* What is clicked changes the page at once; the work is a task that runs  *)
(* on while the page takes more clicks, and sets the page's signals when   *)
(* its awaits come back.  The page may have any number of tasks: that it   *)
(* has one at a time is what its disabled buttons are for.  The expiry is  *)
(* treated as the download limit is, and left out; the size limit is the   *)
(* server's to enforce (the page may not know it yet).                     *)
(***************************************************************************)
EXTENDS ShareLink

VARIABLES
  file,           \* the chosen file, or None
  passphrase,     \* what is in the field
  max_downloads,  \* the limit that is picked
  phase,          \* "Idle", "Encrypting", "Uploading", "Done" or "Failed"
  share,          \* the Shown link, or None
  deleted,        \* the shares this page says are deleted
  uploads,        \* upload tasks
  deletes         \* delete tasks: the shares they work on

page == <<file, passphrase, max_downloads, phase, share, deleted>>
upload_vars == <<page, uploads, deletes>>

(* What ShareResult shows, and the file it was made from. *)
Shown == [n: Share, pass: Passphrase, max: Budget, of: File]

ASSUME UploadAssumption == None \notin Shown

UploadTask ==
  [n: Share, file: File, pass: Passphrase, ask: Budget, step: {"seal", "post", "stored"}]

UploadTypeOK ==
  /\ file \in File \cup {None} /\ passphrase \in Passphrase
  /\ max_downloads \in Budget
  /\ phase \in {"Idle", "Encrypting", "Uploading", "Done", "Failed"}
  /\ share \in Shown \cup {None}
  /\ deleted \subseteq Share
  /\ uploads \subseteq UploadTask /\ deletes \subseteq Share

UploadInit ==
  /\ file = None /\ passphrase = NoPass /\ max_downloads = 1
  /\ phase = "Idle" /\ share = None /\ deleted = {}
  /\ uploads = {} /\ deletes = {}

busy == phase \in {"Encrypting", "Uploading"}

(* A file is picked or dropped where none is chosen yet. *)
accept(f) ==
  /\ Click
  /\ file = None
  /\ file' = f /\ share' = None /\ phase' = "Idle"
  /\ UNCHANGED <<passphrase, max_downloads, deleted, uploads, deletes, server>>

(* Seeded fault: another file can be chosen while one is on its way. *)
CanReplaceAnyTime == file # None

CanReplace == file # None /\ ~ busy

Replace ==
  /\ Click
  /\ CanReplace
  /\ file' = None /\ share' = None /\ phase' = "Idle"
  /\ UNCHANGED <<passphrase, max_downloads, deleted, uploads, deletes, server>>

(* The passphrase is typed or generated, the limit picked, at any time. *)
SetOptions ==
  /\ Click
  /\ passphrase' \in Passphrase /\ max_downloads' \in Budget
  /\ UNCHANGED <<file, phase, share, deleted, uploads, deletes, server>>

(* Seeded fault: the button stays enabled. *)
CanSubmitAnyTime == file # None

CanSubmit == file # None /\ ~ busy

(* The task takes the options as they are now; the link shown stays. *)
submit ==
  /\ Click
  /\ CanSubmit
  /\ \E n \in Share :
       /\ Draw(n, file, passphrase)
       /\ uploads' = uploads \cup
            {[n |-> n, file |-> file, pass |-> passphrase, ask |-> max_downloads,
              step |-> "seal"]}
  /\ phase' = "Encrypting"
  /\ UNCHANGED <<file, passphrase, max_downloads, share, deleted, deletes, shares, handed>>

Becomes(t, step) == uploads' = (uploads \ {t}) \cup {[t EXCEPT !.step = step]}

(* seal_file, then the right to download derived from link or passphrase. *)
Sealed(t) ==
  /\ t.step = "seal"
  /\ phase' = "Uploading" /\ Becomes(t, "post")
  /\ UNCHANGED <<file, passphrase, max_downloads, share, deleted, deletes, server>>

(* The server stores the share; the answer is still to arrive. *)
Posted(t) ==
  /\ t.step = "post"
  /\ upload(t.n, t.ask) /\ Becomes(t, "stored")
  /\ UNCHANGED <<page, deletes, sealed, handed>>

(* Seeded fault: the passphrase is read from its field in the end. *)
ShownLate(t) == [n |-> t.n, pass |-> passphrase, max |-> t.ask, of |-> t.file]

(* The limit shown is the one asked for, not the one the server settled on. *)
ShownFor(t) == [n |-> t.n, pass |-> t.pass, max |-> t.ask, of |-> t.file]

UploadOk(t) ==
  /\ t.step = "stored"
  /\ share' = ShownFor(t) /\ phase' = "Done"
  /\ uploads' = uploads \ {t} /\ handed' = handed \cup {t.n}
  /\ UNCHANGED <<file, passphrase, max_downloads, deleted, deletes, shares, sealed>>

(* Seeded fault: an upload that fails leaves the page as it is. *)
UploadErrQuiet(t) ==
  /\ uploads' = uploads \ {t}
  /\ UNCHANGED <<page, deletes, server>>

(* Reading, encrypting or deriving fails, the server refuses, or the request *)
(* breaks, which it may after the share was stored.                         *)
UploadErr(t) ==
  /\ phase' = "Failed"
  /\ uploads' = uploads \ {t}
  /\ UNCHANGED <<file, passphrase, max_downloads, share, deleted, deletes, server>>

(* ShareResult: its button is there until the share is deleted.  The task  *)
(* keeps the id and token of the share it was started for.                 *)
delete ==
  /\ Click
  /\ share # None /\ share.n \notin deleted
  /\ deletes' = deletes \cup {share.n}
  /\ UNCHANGED <<page, uploads, server>>

(* Seeded fault: any answer counts as the deletion. *)
DeletedByAnyAnswer(n) ==
  /\ deleted' = deleted \cup {n}
  /\ shares' \in {shares, [shares EXCEPT ![n] = None]}

(* DELETE answers Ok, or an error that is only logged. *)
DeleteAnswered(n) ==
  \/ /\ shares[n] # None
     /\ shares' = [shares EXCEPT ![n] = None]
     /\ deleted' \in {deleted, deleted \cup {n}}
  \/ UNCHANGED <<shares, deleted>>

DeleteDone(n) ==
  /\ n \in deletes
  /\ DeleteAnswered(n)
  /\ deletes' = deletes \ {n}
  /\ UNCHANGED <<file, passphrase, max_downloads, phase, share, uploads, sealed, handed>>

UploadStep(t) == Sealed(t) \/ Posted(t) \/ UploadOk(t) \/ UploadErr(t)

UploadNext ==
  \/ \E f \in File : accept(f)
  \/ Replace \/ SetOptions \/ submit \/ delete
  \/ \E t \in uploads : UploadStep(t) /\ UNCHANGED clicks
  \/ \E n \in Share : DeleteDone(n) /\ UNCHANGED clicks

-----------------------------------------------------------------------------
(***************************************************************************)
(* The link on the page is a link to the file that is on the page, however *)
(* long its upload took and whatever was clicked meanwhile: no file is     *)
(* replaced, and no second upload begun, under one that is on its way      *)
(* (upload.rs:239, 394).                                                   *)
(***************************************************************************)
ShownIsChosen == share # None => share.of = file

(***************************************************************************)
(* While the share is as it was stored, the link on the page, with the     *)
(* passphrase shown beside it, if any, opens the file on the page.         *)
(***************************************************************************)
ShownOpens ==
  share # None /\ shares[share.n] # None /\ shares[share.n].changes = 0 =>
    /\ shares[share.n].auth = auth_of(share.n, share.pass, 0)
    /\ shares[share.n].file = file

(***************************************************************************)
(* "The link no longer works" (i18n.rs:291) is only said of a share that   *)
(* is gone, also when the page shows another link by then.                 *)
(***************************************************************************)
DeletedIsGone == \A n \in deleted : shares[n] = None
=============================================================================
