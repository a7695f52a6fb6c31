----------------------------- MODULE DownloadPage -----------------------------
(***************************************************************************)
(* The download pages of the web client, one per visit: /d/{id}#{secret}.  *)
(*                                                                         *)
(* As on the upload page a click changes the page and starts a task, and   *)
(* the page takes clicks while tasks run.  A task goes through requests;   *)
(* what the page keeps between them (the salt, the unlocked metadata, the  *)
(* downloads left) may be out of date by the next one.                     *)
(***************************************************************************)
EXTENDS ShareLink

CONSTANT Visit  \* pages opened

VARIABLES
  link,      \* link[v]: the share page v was opened for, or None
  view,      \* view[v]: the phase the page shows, and which of its messages
  salt,      \* salt[v]: the salt in the file_params the page keeps, or None
  unlocked,  \* unlocked[v]: key, file and downloads left as they were, or None
  tasks,     \* tasks[v]: its tasks
  spent      \* history: the downloads page v was granted

download_vars == <<link, view, salt, unlocked, tasks, spent>>

View == {"closed", "Loading", "NeedPassphrase", "WrongPassphrase", "Ready",
         "Working", "Saved", "Gone", "Failed"}

(* A task makes one request of the four at a time, with the key it has. *)
Task == [k: 1 .. MaxClick, do: {"params", "resolve", "unlock", "blob", "stream"},
         cap: Cap \cup {None}]

Unlocked == [cap: Cap, file: File, left: Nat]

ASSUME DownloadAssumption == None \notin Unlocked

DownloadTypeOK ==
  /\ link \in [Visit -> Share \cup {None}]
  /\ view \in [Visit -> View]
  /\ salt \in [Visit -> Salt \cup {None}]
  /\ unlocked \in [Visit -> Unlocked \cup {None}]
  /\ tasks \in [Visit -> SUBSET Task]
  /\ spent \in [Visit -> Nat]

DownloadInit ==
  /\ link = [v \in Visit |-> None] /\ view = [v \in Visit |-> "closed"]
  /\ salt = [v \in Visit |-> None] /\ unlocked = [v \in Visit |-> None]
  /\ tasks = [v \in Visit |-> {}] /\ spent = [v \in Visit |-> 0]

Show(v, what) == view' = [view EXCEPT ![v] = what]

(* A task is known by the click that started it. *)
Spawn(v, do, cap) ==
  tasks' = [tasks EXCEPT ![v] = @ \cup {[k |-> clicks + 1, do |-> do, cap |-> cap]}]

Ends(v, t) == tasks' = [tasks EXCEPT ![v] = @ \ {t}]

Goes(v, t, do, cap) ==
  tasks' = [tasks EXCEPT ![v] = (@ \ {t}) \cup {[t EXCEPT !.do = do, !.cap = cap]}]

-----------------------------------------------------------------------------
(* The page is opened with a whole link; without the part after the # it   *)
(* only says so.                                                           *)
OpenPage(v) ==
  /\ Click
  /\ view[v] = "closed"
  /\ \/ \E n \in handed : link' = [link EXCEPT ![v] = n]
        /\ Show(v, "Loading") /\ Spawn(v, "params", None)
     \/ Show(v, "Failed") /\ UNCHANGED <<link, tasks>>
  /\ UNCHANGED <<salt, unlocked, spent, server>>

(* Seeded fault: a request that never got an answer counts as a share gone. *)
is_missing_or_lost(v) == TRUE

is_missing(v) == params(link[v]) = "missing"

(* params is answered, or the request breaks. *)
ParamsRefused(v, t) ==
  /\ t.do = "params"
  /\ \/ is_missing(v) /\ Show(v, "Gone")
     \/ Show(v, "Failed")
  /\ Ends(v, t)
  /\ UNCHANGED <<link, salt, unlocked, spent, server>>

ParamsOk(v, t) ==
  LET s == shares[link[v]].salt IN
  /\ t.do = "params" /\ params(link[v]) = "ok"
  /\ salt' = [salt EXCEPT ![v] = s]
  /\ IF s = None THEN Goes(v, t, "resolve", LinkCap(link[v])) /\ UNCHANGED view
                 ELSE Ends(v, t) /\ Show(v, "NeedPassphrase")
  /\ UNCHANGED <<link, unlocked, spent, server>>

(* The field takes Enter and the button a click: with the salt read at load. *)
unlock(v) ==
  /\ Click
  /\ view[v] \in {"NeedPassphrase", "WrongPassphrase"}
  /\ \E p \in Passphrase \ {NoPass} : Spawn(v, "unlock", PassCap(p, salt[v]))
  /\ Show(v, "Working")
  /\ UNCHANGED <<link, salt, unlocked, spent, server>>

(* resolve: the metadata request, then the metadata opened. *)
ResolveOk(v, t) ==
  LET n == link[v] IN
  /\ t.do \in {"resolve", "unlock"} /\ metadata(n, t.cap) = "ok"
  /\ unlocked' = [unlocked EXCEPT ![v] =
       [cap |-> t.cap, file |-> shares[n].file, left |-> shares[n].left]]
  /\ Show(v, "Ready") /\ Ends(v, t)
  /\ UNCHANGED <<link, salt, spent, server>>

(* It is refused, or the request breaks: of a passphrase the page says that *)
(* it does not fit, whatever the cause.                                     *)
ResolveErr(v, t) ==
  /\ t.do \in {"resolve", "unlock"}
  /\ Show(v, IF t.do = "unlock" THEN "WrongPassphrase" ELSE "Failed")
  /\ Ends(v, t)
  /\ UNCHANGED <<link, salt, unlocked, spent, server>>

(* Seeded fault: the button can be clicked while a download runs. *)
CanStartAgain(v) == unlocked[v] # None /\ view[v] # "Saved"

(* The button is shown with the metadata, also after a failure. *)
CanStart(v) == unlocked[v] # None /\ view[v] \notin {"Saved", "Working"}

start(v) ==
  /\ Click
  /\ CanStart(v)
  /\ Spawn(v, "blob", unlocked[v].cap)
  /\ Show(v, "Working")
  /\ UNCHANGED <<link, salt, unlocked, spent, server>>

(* The server takes one download from the budget and begins the body. *)
BlobGranted(v, t) ==
  /\ t.do = "blob" /\ metadata(link[v], t.cap) = "ok"
  /\ claim(link[v]) /\ spent' = [spent EXCEPT ![v] = @ + 1]
  /\ Goes(v, t, "stream", t.cap)
  /\ UNCHANGED <<link, view, salt, unlocked, sealed, handed>>

(* Seeded fault: an open that fails leaves the page as it is. *)
DownloadErrQuiet(v, t) ==
  /\ t.do \in {"blob", "stream"}
  /\ Ends(v, t)
  /\ UNCHANGED <<link, view, salt, unlocked, spent, server>>

(* The download is refused, breaks, or does not authenticate. *)
DownloadErr(v, t) ==
  /\ t.do \in {"blob", "stream"}
  /\ Show(v, "Failed") /\ Ends(v, t)
  /\ UNCHANGED <<link, salt, unlocked, spent, server>>

(* open_file has opened every record, save_blob hands the file over. *)
DownloadOk(v, t) ==
  /\ t.do = "stream"
  /\ Show(v, "Saved") /\ Ends(v, t)
  /\ UNCHANGED <<link, salt, unlocked, spent, server>>

TaskStep(v, t) ==
  \/ ParamsRefused(v, t) \/ ParamsOk(v, t) \/ ResolveOk(v, t) \/ ResolveErr(v, t)
  \/ BlobGranted(v, t) \/ DownloadErr(v, t) \/ DownloadOk(v, t)

DownloadNext ==
  \E v \in Visit :
    \/ OpenPage(v) \/ unlock(v) \/ start(v)
    \/ \E t \in tasks[v] : TaskStep(v, t) /\ UNCHANGED clicks

-----------------------------------------------------------------------------
(***************************************************************************)
(* A page has at most one task, so that no download is paid for twice and  *)
(* no late answer replaces the page a newer one made (download.rs:304).    *)
(***************************************************************************)
OneTask == \A v \in Visit : Cardinality(tasks[v]) <= 1

(***************************************************************************)
(* "This link has expired, been used up, or was deleted" (i18n.rs:310) is  *)
(* said of such a share only, and stays true.                              *)
(***************************************************************************)
GoneIsGone == \A v \in Visit : view[v] = "Gone" => params(link[v]) = "missing"

(* Seeded fault: the warning comes one download early. *)
WarnsEarly(v) == unlocked[v].left <= 2

(* The page says "This is the last download", by what it read when unlocked. *)
Warns(v) == unlocked[v].left <= 1

(***************************************************************************)
(* A download that is granted to a page that warned is the last, however   *)
(* long ago it read what is left: "The server deletes the file as soon as  *)
(* you save it" (i18n.rs:323).                                             *)
(***************************************************************************)
WarnedIsLast ==
  [][\A v \in Visit : spent'[v] > spent[v] /\ Warns(v) => params(link[v])' = "missing"]_spent
=============================================================================
