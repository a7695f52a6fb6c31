------------------------------- MODULE Clients -------------------------------
(***************************************************************************)
(* An upload page, download pages and commands on the shares of one        *)
(* server.  They share nothing but the server and the links that people    *)
(* pass on: every step is a step of one of them, of the server, or of an   *)
(* owner who uses the API by other means.                                  *)
(***************************************************************************)
EXTENDS UploadPage, DownloadPage, CliCommands

vars == <<server, clicks, upload_vars, download_vars, cli_vars>>

(* The type of every variable. *)
TypeOK == LinkTypeOK /\ UploadTypeOK /\ DownloadTypeOK /\ CliTypeOK

Init == LinkInit /\ UploadInit /\ DownloadInit /\ CliInit

ServerNext == \E n \in Share : Vanish(n) \/ \E p \in Passphrase : ChangePassword(n, p)

Next ==
  \/ UploadNext /\ UNCHANGED <<download_vars, cli_vars>>
  \/ DownloadNext /\ UNCHANGED <<upload_vars, cli_vars>>
  \/ CliNext /\ UNCHANGED <<upload_vars, download_vars>>
  \/ ServerNext /\ UNCHANGED <<upload_vars, download_vars, cli_vars>>

(* A task of the upload page, a page or a command goes on, or fails. *)
UploadGoesOn(steps) ==
  \E t \in uploads :
    t.step \in steps /\ UploadStep(t) /\ UNCHANGED <<clicks, download_vars, cli_vars>>

PageGoesOn(v) ==
  \E t \in tasks[v] : TaskStep(v, t) /\ UNCHANGED <<clicks, upload_vars, cli_vars>>

CommandGoesOn(c, steps) ==
  cmd[c].step \in steps /\ CliStep(c) /\ UNCHANGED <<clicks, upload_vars, download_vars>>

(***************************************************************************)
(* The clients' own part: what waits for no answer goes on.  Every other   *)
(* step of a page or a command is behind the await of a request or of a    *)
(* body.                                                                   *)
(***************************************************************************)
Fairness ==
  /\ WF_vars(UploadGoesOn({"seal"}))
  /\ \A c \in Command : WF_vars(CommandGoesOn(c, {"create"}))

Spec == Init /\ [][Next]_vars /\ Fairness

-----------------------------------------------------------------------------
(***************************************************************************)
(* An assumption on the server and the network, which no client enforces:  *)
(* every request that was sent is answered or breaks in the end, and so    *)
(* does every body.  None of them sets a timeout (cli/src/main.rs:11,      *)
(* web/src/api.rs:91, :186), so that a server that accepts a request and   *)
(* never answers it keeps a page busy, and a command running, for as long  *)
(* as the connection lasts.                                                *)
(***************************************************************************)
RequestsEnd ==
  /\ WF_vars(UploadGoesOn({"post", "stored"}))
  /\ \A v \in Visit : WF_vars(PageGoesOn(v))
  /\ \A c \in Command : WF_vars(CommandGoesOn(c, Step \ {"create"}))

(***************************************************************************)
(* As long as every request ends, however it ends, nothing waits for ever: *)
(* a page that is busy comes back with a result or an error, and a command *)
(* ends, whatever the owner does and whatever is clicked meanwhile         *)
(* (upload.rs:106-188, download.rs:62-172).                                *)
(***************************************************************************)
Settles ==
  RequestsEnd =>
    /\ busy ~> ~ busy
    /\ \A v \in Visit :
         view[v] \in {"Loading", "Working"} ~> view[v] \notin {"Loading", "Working"}
    /\ \A c \in Command : Running(c) ~> ~ Running(c)
=============================================================================
