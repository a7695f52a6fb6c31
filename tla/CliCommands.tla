----------------------------- MODULE CliCommands -----------------------------
(***************************************************************************)
(* The command-line client: one run of `senders-cli download' or `upload'  *)
(* per member of Command.  A command goes straight through its steps and   *)
(* ends with success or with the first error; it asks nothing and retries  *)
(* nothing.                                                                *)
(***************************************************************************)
EXTENDS ShareLink

CONSTANT Command

VARIABLES
  cmd,  \* cmd[c]: the command, its arguments and what it knows so far
  out   \* out[c]: the file at the output path

cli_vars == <<cmd, out>>

Step == {"none", "params", "metadata", "create", "blob", "stream",
         "post", "stored", "ok", "error"}

(* share: the link given, or the number drawn; pass: --password, or NoPass;  *)
(* took: history, the downloads it was granted.                              *)
Cmd == [step: Step, share: Share \cup {None}, pass: Passphrase, cap: Cap \cup {None},
        ask: Budget, took: Nat]

CliTypeOK ==
  /\ cmd \in [Command -> Cmd]
  /\ out \in [Command -> {"old", "empty", "partial", "whole"}]

CliInit ==
  /\ cmd = [c \in Command |-> [step |-> "none", share |-> None, pass |-> NoPass,
                               cap |-> None, ask |-> 1, took |-> 0]]
  /\ out = [c \in Command |-> "old"]

Goto(c, step) == cmd' = [cmd EXCEPT ![c].step = step]
(* The process is gone: of its arguments and keys nothing is left. *)
Exit(c, step) ==
  cmd' = [cmd EXCEPT ![c] = [step |-> step, share |-> None, pass |-> NoPass, cap |-> None,
                             ask |-> 1, took |-> @.took]]

Running(c) == cmd[c].step \notin {"none", "ok", "error"}

-----------------------------------------------------------------------------
(* senders-cli download: the link is whole or the command ends at once. *)
Download(c) ==
  /\ Click
  /\ cmd[c].step = "none"
  /\ \E n \in handed, p \in Passphrase :
       cmd' = [cmd EXCEPT ![c].step = "params", ![c].share = n, ![c].pass = p]
  /\ UNCHANGED <<out, server>>

(* The key is the link's, unless the share has a passphrase. *)
CliParams(c) ==
  LET n == cmd[c].share  s == shares[n].salt IN
  /\ cmd[c].step = "params" /\ params(n) = "ok"
  /\ IF s # None /\ cmd[c].pass = NoPass THEN Exit(c, "error")
     ELSE cmd' = [cmd EXCEPT ![c].step = "metadata",
            ![c].cap = IF s = None THEN LinkCap(n) ELSE PassCap(cmd[c].pass, s)]
  /\ UNCHANGED <<out, server>>

CliMetadata(c) ==
  /\ cmd[c].step = "metadata" /\ metadata(cmd[c].share, cmd[c].cap) = "ok"
  /\ Goto(c, "create")
  /\ UNCHANGED <<out, server>>

(* File::create: whatever was at the path is gone from here on. *)
CreateOutput(c) ==
  /\ cmd[c].step = "create"
  /\ out' = [out EXCEPT ![c] = "empty"]
  /\ Goto(c, "blob")
  /\ UNCHANGED server

(* Seeded fault: the output is created when the body arrives. *)
CliBlobFirst(c) ==
  /\ cmd[c].step \in {"create", "blob"} /\ metadata(cmd[c].share, cmd[c].cap) = "ok"
  /\ claim(cmd[c].share)
  /\ cmd' = [cmd EXCEPT ![c].step = "stream", ![c].took = @ + 1]
  /\ UNCHANGED <<out, sealed, handed>>

CliBlob(c) ==
  /\ cmd[c].step = "blob" /\ metadata(cmd[c].share, cmd[c].cap) = "ok"
  /\ claim(cmd[c].share)
  /\ cmd' = [cmd EXCEPT ![c].step = "stream", ![c].took = @ + 1]
  /\ UNCHANGED <<out, sealed, handed>>

CliSaved(c) ==
  /\ cmd[c].step = "stream"
  /\ out' = [out EXCEPT ![c] = "whole"] /\ Exit(c, "ok")
  /\ UNCHANGED server

(* The stream breaks or a record does not open: what came before stays. *)
CliStreamErr(c) ==
  /\ cmd[c].step = "stream"
  /\ \E left \in {"empty", "partial"} : out' = [out EXCEPT ![c] = left]
  /\ Exit(c, "error")
  /\ UNCHANGED server

-----------------------------------------------------------------------------
(* senders-cli upload: keys and salt are drawn before the file is opened;  *)
(* sealing and sending are one stream.                                     *)
CliUpload(c) ==
  /\ Click
  /\ cmd[c].step = "none"
  /\ \E n \in Share, f \in File, p \in Passphrase, a \in Budget :
       /\ Draw(n, f, p)
       /\ cmd' = [cmd EXCEPT ![c].step = "post", ![c].share = n, ![c].pass = p, ![c].ask = a]
  /\ UNCHANGED <<out, shares, handed>>

CliStored(c) ==
  /\ cmd[c].step = "post"
  /\ upload(cmd[c].share, cmd[c].ask)
  /\ Goto(c, "stored")
  /\ UNCHANGED <<out, sealed, handed>>

(* The link, the owner token and what the server settled on are printed. *)
Printed(c) ==
  /\ cmd[c].step = "stored"
  /\ handed' = handed \cup {cmd[c].share}
  /\ Exit(c, "ok")
  /\ UNCHANGED <<out, shares, sealed>>

(* Any request may break, be refused, or meet a full disk. *)
CliErr(c) ==
  /\ Running(c) /\ cmd[c].step # "stream"
  /\ Exit(c, "error")
  /\ UNCHANGED <<out, server>>

CliStep(c) ==
  \/ CliParams(c) \/ CliMetadata(c) \/ CreateOutput(c) \/ CliBlob(c)
  \/ CliSaved(c) \/ CliStreamErr(c) \/ CliStored(c) \/ Printed(c) \/ CliErr(c)

CliNext ==
  \E c \in Command : Download(c) \/ CliUpload(c) \/ (CliStep(c) /\ UNCHANGED clicks)

-----------------------------------------------------------------------------
(***************************************************************************)
(* A command that ends in an error and leaves the file at its output path  *)
(* alone has used no download: a path that cannot be written, a passphrase *)
(* that does not fit, or a share that is gone cost nothing.                *)
(***************************************************************************)
RefusedIsFree == \A c \in Command : out[c] = "old" => cmd[c].took = 0
=============================================================================
