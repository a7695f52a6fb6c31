---------------------------- MODULE ClientsProofs ----------------------------
(* What the pages show and the commands leave behind is true: for any number *)
(* of visits, commands, shares, budgets and clicks.                          *)
EXTENDS Clients, FiniteSetTheorems, TLAPS

-----------------------------------------------------------------------------
(* The inductive invariant. *)

(* The numbers whose link nobody was shown yet, of tasks and of commands. *)
Sends(c) == cmd[c].step \in {"post", "stored"}
UploadNumbers == {t.n : t \in uploads}
CliNumbers == {cmd[c].share : c \in {c \in Command : Sends(c)}}
OnItsWay == UploadNumbers \cup CliNumbers

(* A number is drawn before it is used, by one task or command alone, and  *)
(* that one is done with it when the link is handed on.                    *)
DrawnOnce ==
  /\ \A n \in handed \cup OnItsWay : sealed[n] # None
  /\ handed \cap OnItsWay = {} /\ UploadNumbers \cap CliNumbers = {}
  /\ \A c, d \in Command : Sends(c) /\ Sends(d) /\ cmd[c].share = cmd[d].share => c = d

(* The server has what was sealed; its first key is the one sealed with. *)
AsSealed(n) ==
  shares[n] # None =>
    /\ sealed[n] # None /\ shares[n].file = sealed[n].file
    /\ shares[n].changes = 0 => shares[n].auth = auth_of(n, sealed[n].pass, 0)

(* The upload page is busy with one task at most, which is for its file. *)
OneUpload ==
  \A t \in uploads :
    /\ t.file = file /\ \A u \in uploads : u = t
    /\ t.step = "seal" => phase = "Encrypting"
    /\ t.step # "seal" => phase = "Uploading"
    /\ sealed[t.n] # None /\ sealed[t.n].file = t.file /\ sealed[t.n].pass = t.pass

(* What it shows was made from its file, and is a link handed on. *)
ShownIsSealed ==
  share # None =>
    /\ share.of = file /\ share.n \in handed
    /\ sealed[share.n] # None
    /\ sealed[share.n].file = share.of /\ sealed[share.n].pass = share.pass

DeletedForGood ==
  /\ deletes \cup deleted \subseteq handed
  /\ DeletedIsGone

(* The phase of a download page tells which task it has, and what it knows. *)
Awaited(v) ==
  /\ \A t \in tasks[v] :
       /\ \A u \in tasks[v] : u = t
       /\ t.do \in {"params", "resolve"} => view[v] = "Loading"
       /\ t.do \in {"unlock", "blob", "stream"} => view[v] = "Working"
       /\ t.do \in {"blob", "stream"} <=> unlocked[v] # None
       /\ t.do # "params" => t.cap # None
       /\ t.do = "unlock" => salt[v] # None
  /\ view[v] = "closed" => tasks[v] = {}
  /\ view[v] \notin {"closed", "Failed"} => link[v] # None
  /\ view[v] \in {"NeedPassphrase", "WrongPassphrase"} => salt[v] # None
  /\ unlocked[v] # None => view[v] \in {"Ready", "Working", "Saved", "Failed"}

(* What a download page keeps or says of its share is out of date one way only. *)
OutOfDate(v) ==
  /\ link[v] # None => link[v] \in handed
  /\ unlocked[v] # None =>
       /\ link[v] # None
       /\ shares[link[v]] # None => shares[link[v]].left <= unlocked[v].left
  /\ view[v] = "Gone" => link[v] # None /\ params(link[v]) = "missing"

(* A command has its share while it runs, and creates its output before it pays. *)
PaysLate(c) ==
  /\ Running(c) => cmd[c].share # None
  /\ cmd[c].step \in {"blob", "stream"} \/ cmd[c].took # 0 => out[c] # "old"

IInv ==
  /\ TypeOK /\ DrawnOnce /\ OneUpload /\ ShownIsSealed /\ DeletedForGood
  /\ \A n \in Share : AsSealed(n)
  /\ \A v \in Visit : Awaited(v) /\ OutOfDate(v)
  /\ \A c \in Command : PaysLate(c)

-----------------------------------------------------------------------------
(* What a step does to the server, whoever takes it. *)

DrawsNumber(n, f, p) ==
  /\ sealed[n] = None /\ sealed' = [sealed EXCEPT ![n] = [file |-> f, pass |-> p]]
  /\ UNCHANGED <<shares, handed>>

StoresShare(n, ask) == upload(n, ask) /\ UNCHANGED <<sealed, handed>>

HandsOn(n) == handed' = handed \cup {n} /\ UNCHANGED <<shares, sealed>>

TakesOne(n) == params(n) = "ok" /\ claim(n) /\ UNCHANGED <<sealed, handed>>

EndsShare(n) ==
  /\ shares[n] # None /\ shares' = [shares EXCEPT ![n] = None]
  /\ UNCHANGED <<sealed, handed>>

ChangesKey(n, p) ==
  /\ shares[n] # None /\ shares[n].changes < MaxSalt
  /\ LET v == shares[n].changes + 1 IN
     shares' = [shares EXCEPT ![n].auth = auth_of(n, p, v), ![n].salt = salt_of(n, p, v),
                              ![n].changes = v]
  /\ UNCHANGED <<sealed, handed>>

ServerEffect ==
  \/ UNCHANGED server
  \/ \E n \in Share, f \in File, p \in Passphrase : DrawsNumber(n, f, p)
  \/ \E n \in OnItsWay : HandsOn(n) \/ \E ask \in Budget : StoresShare(n, ask)
  \/ \E n \in Share : TakesOne(n) \/ EndsShare(n) \/ \E p \in Passphrase : ChangesKey(n, p)

(* Lemmas about the operators the actions are built from. *)

LEMMA CapType ==
  ASSUME NEW n \in Share, NEW p \in Passphrase, NEW v \in 0 .. MaxSalt
  PROVE  /\ auth_of(n, p, v) \in Cap /\ salt_of(n, p, v) \in Salt \cup {None}
         /\ LinkCap(n) \in Cap
  BY DEF auth_of, salt_of, Cap, Salt, LinkCap, PassCap

LEMMA PassCapType ==
  ASSUME NEW p \in Passphrase, NEW s \in Salt
  PROVE  PassCap(p, s) \in Cap
  BY DEF Cap

LEMMA UnderWay ==
  ASSUME IInv, NEW n \in OnItsWay
  PROVE  n \in Share /\ sealed[n] # None /\ n \notin handed
<1>1. \A t \in uploads : t.n \in Share
  BY DEF IInv, TypeOK, UploadTypeOK, UploadTask
<1>2. \A c \in Command : Sends(c) => cmd[c].share \in Share
  <2> SUFFICES ASSUME NEW c \in Command, Sends(c) PROVE cmd[c].share \in Share
    OBVIOUS
  <2>1. cmd[c].share \in Share \cup {None}
    BY DEF IInv, TypeOK, CliTypeOK, Cmd
  <2> QED BY <2>1 DEF IInv, PaysLate, Running, Sends
<1>3. n \in Share
  BY <1>1, <1>2 DEF OnItsWay, UploadNumbers, CliNumbers
<1> QED BY <1>3 DEF IInv, DrawnOnce

(* A request that is let in finds a share with a download left. *)
LEMMA LetIn ==
  ASSUME NEW n, NEW cap, metadata(n, cap) = "ok"
  PROVE  params(n) = "ok"
  BY DEF metadata

LEMMA FreshNumber ==
  ASSUME NEW n \in Share, NEW f, NEW p, Draw(n, f, p)
  PROVE  sealed[n] = None /\ sealed' = [sealed EXCEPT ![n] = [file |-> f, pass |-> p]]
<1>1. n >= n
  BY DEF Share
<1> QED BY <1>1 DEF Draw

LEMMA Initially == Init => IInv
<1> SUFFICES ASSUME Init PROVE IInv
  OBVIOUS
<1> USE LinkAssumption DEF Init, LinkInit, UploadInit, DownloadInit, CliInit
<1>1. LinkTypeOK
  BY DEF LinkTypeOK
<1>2. UploadTypeOK
  BY DEF UploadTypeOK
<1>3. DownloadTypeOK
  BY DEF DownloadTypeOK, View
<1>4. CliTypeOK
  BY DEF CliTypeOK, Cmd, Step
<1>5. UploadNumbers = {} /\ CliNumbers = {} /\ \A c \in Command : ~ Sends(c)
  BY DEF UploadNumbers, CliNumbers, Sends
<1>6. DrawnOnce
  BY <1>5 DEF DrawnOnce, OnItsWay
<1>7. OneUpload /\ ShownIsSealed /\ DeletedForGood
  BY DEF OneUpload, ShownIsSealed, DeletedForGood, DeletedIsGone
<1>8. ASSUME NEW n \in Share PROVE AsSealed(n)
  BY DEF AsSealed
<1>9. ASSUME NEW v \in Visit PROVE Awaited(v) /\ OutOfDate(v)
  BY DEF Awaited, OutOfDate
<1>10. ASSUME NEW c \in Command PROVE PaysLate(c)
  BY DEF PaysLate, Running
<1> QED BY <1>1, <1>2, <1>3, <1>4, <1>6, <1>7, <1>8, <1>9, <1>10 DEF IInv, TypeOK

(* The helpers of the download page, at the visit they are about. *)
NewTask(d, cap) == [k |-> clicks + 1, do |-> d, cap |-> cap]
NextTask(t, d, cap) == [t EXCEPT !.do = d, !.cap = cap]

PageOps(v) ==
  /\ \A what : Show(v, what) => view'[v] = what
  /\ \A d, cap : Spawn(v, d, cap) => tasks'[v] = tasks[v] \cup {NewTask(d, cap)}
  /\ \A t : Ends(v, t) => tasks'[v] = tasks[v] \ {t}
  /\ \A t, d, cap : Goes(v, t, d, cap) =>
       tasks'[v] = (tasks[v] \ {t}) \cup {NextTask(t, d, cap)}

LEMMA PageHelpers ==
  ASSUME DownloadTypeOK, NEW v \in Visit
  PROVE  PageOps(v)
<1> USE DEF DownloadTypeOK
<1>1. ASSUME NEW what, Show(v, what) PROVE view'[v] = what
  BY <1>1 DEF Show
<1>2. ASSUME NEW d, NEW cap, Spawn(v, d, cap)
      PROVE  tasks'[v] = tasks[v] \cup {NewTask(d, cap)}
  BY <1>2 DEF Spawn, NewTask
<1>3. ASSUME NEW t, Ends(v, t) PROVE tasks'[v] = tasks[v] \ {t}
  BY <1>3 DEF Ends
<1>4. ASSUME NEW t, NEW d, NEW cap, Goes(v, t, d, cap)
      PROVE  tasks'[v] = (tasks[v] \ {t}) \cup {NextTask(t, d, cap)}
  BY <1>4 DEF Goes, NextTask
<1> QED BY <1>1, <1>2, <1>3, <1>4 DEF PageOps

LEMMA NewTaskType ==
  ASSUME LinkTypeOK, Click, NEW d \in {"params", "unlock", "blob"}, NEW cap \in Cap \cup {None}
  PROVE  NewTask(d, cap) \in Task /\ NewTask(d, cap).do = d /\ NewTask(d, cap).cap = cap
<1>1. clicks + 1 \in 1 .. MaxClick
  BY LinkAssumption DEF LinkTypeOK, Click
<1> QED BY <1>1 DEF NewTask, Task

LEMMA NextTaskType ==
  ASSUME NEW t \in Task, NEW d \in {"resolve", "stream"}, NEW cap \in Cap \cup {None}
  PROVE  /\ NextTask(t, d, cap) \in Task
         /\ NextTask(t, d, cap).do = d /\ NextTask(t, d, cap).cap = cap
  BY DEF NextTask, Task

(* What a command learns is of its type. *)
LEMMA CmdStep ==
  ASSUME NEW k \in Cmd, NEW step \in Step
  PROVE  [k EXCEPT !.step = step] \in Cmd
  BY DEF Cmd

LEMMA CmdBegins ==
  ASSUME NEW k \in Cmd, NEW step \in Step, NEW n \in Share, NEW p \in Passphrase,
         NEW a \in Budget
  PROVE  /\ [k EXCEPT !.step = step, !.share = n, !.pass = p] \in Cmd
         /\ [k EXCEPT !.step = step, !.share = n, !.pass = p, !.ask = a] \in Cmd
  BY DEF Cmd

LEMMA CmdLearns ==
  ASSUME NEW k \in Cmd, NEW step \in Step, NEW cap \in Cap
  PROVE  [k EXCEPT !.step = step, !.cap = cap] \in Cmd
  BY DEF Cmd

LEMMA CmdPays ==
  ASSUME NEW k \in Cmd, NEW step \in Step
  PROVE  [k EXCEPT !.step = step, !.took = k.took + 1] \in Cmd
<1>1. k.took + 1 \in Nat
  BY DEF Cmd
<1> QED BY <1>1 DEF Cmd

-----------------------------------------------------------------------------
(* The step lemmas. *)

(* Whoever takes a step, the server sees one of six things, or nothing. *)
LEMMA ServerDoes == IInv /\ [Next]_vars => ServerEffect
<1> SUFFICES ASSUME IInv, [Next]_vars PROVE ServerEffect
  OBVIOUS
<1> USE DEF ServerEffect
<1>1. CASE UploadNext /\ UNCHANGED <<download_vars, cli_vars>>
  <2>1. ASSUME NEW f \in File, accept(f) PROVE ServerEffect
    BY <1>1, <2>1 DEF accept, server
  <2>2. CASE Replace
    BY <1>1, <2>2 DEF Replace, server
  <2>3. CASE SetOptions
    BY <1>1, <2>3 DEF SetOptions, server
  <2>4. CASE submit
    <3>1. PICK n \in Share : Draw(n, file, passphrase)
      BY <1>1, <2>4 DEF submit
    <3>2. file \in File /\ passphrase \in Passphrase /\ UNCHANGED <<shares, handed>>
      BY <1>1, <2>4 DEF submit, CanSubmit, IInv, TypeOK, UploadTypeOK
    <3>3. DrawsNumber(n, file, passphrase)
      BY <3>1, <3>2, FreshNumber DEF DrawsNumber
    <3> QED BY <3>2, <3>3
  <2>5. CASE delete
    BY <1>1, <2>5 DEF delete, server
  <2>6. ASSUME NEW t \in uploads, Sealed(t) PROVE ServerEffect
    BY <1>1, <2>6 DEF Sealed, Becomes, server
  <2>7. ASSUME NEW t \in uploads, Posted(t) PROVE ServerEffect
    <3>1. t.n \in OnItsWay /\ t.ask \in Budget
      BY <1>1, <2>7 DEF OnItsWay, UploadNumbers, IInv, TypeOK, UploadTypeOK, UploadTask
    <3>2. StoresShare(t.n, t.ask)
      BY <1>1, <2>7 DEF Posted, StoresShare
    <3> QED BY <3>1, <3>2
  <2>8. ASSUME NEW t \in uploads, UploadOk(t) PROVE ServerEffect
    BY <1>1, <2>8 DEF UploadOk, OnItsWay, UploadNumbers, HandsOn
  <2>9. ASSUME NEW t \in uploads, UploadErr(t) PROVE ServerEffect
    BY <1>1, <2>9 DEF UploadErr, server
  <2>10. ASSUME NEW n \in Share, DeleteDone(n) PROVE ServerEffect
    BY <1>1, <2>10 DEF DeleteDone, DeleteAnswered, EndsShare, server
  <2> QED BY <1>1, <2>1, <2>2, <2>3, <2>4, <2>5, <2>6, <2>7, <2>8, <2>9, <2>10
            DEF UploadNext, UploadStep
<1>2. CASE DownloadNext /\ UNCHANGED <<upload_vars, cli_vars>>
  <2>1. ASSUME NEW v \in Visit, OpenPage(v) PROVE ServerEffect
    BY <1>2, <2>1 DEF OpenPage, Show, Spawn, server
  <2>2. ASSUME NEW v \in Visit, unlock(v) PROVE ServerEffect
    BY <1>2, <2>2 DEF unlock, Show, Spawn, server
  <2>3. ASSUME NEW v \in Visit, start(v) PROVE ServerEffect
    BY <1>2, <2>3 DEF start, CanStart, Show, Spawn, server
  <2>4. ASSUME NEW v \in Visit, NEW t \in tasks[v], ParamsRefused(v, t) PROVE ServerEffect
    BY <1>2, <2>4 DEF ParamsRefused, is_missing, Show, Ends, server
  <2>5. ASSUME NEW v \in Visit, NEW t \in tasks[v], ParamsOk(v, t) PROVE ServerEffect
    BY <1>2, <2>5 DEF ParamsOk, Show, Ends, Goes, server
  <2>6. ASSUME NEW v \in Visit, NEW t \in tasks[v], ResolveOk(v, t) PROVE ServerEffect
    BY <1>2, <2>6 DEF ResolveOk, Show, Ends, server
  <2>7. ASSUME NEW v \in Visit, NEW t \in tasks[v], ResolveErr(v, t) PROVE ServerEffect
    BY <1>2, <2>7 DEF ResolveErr, Show, Ends, server
  <2>8. ASSUME NEW v \in Visit, NEW t \in tasks[v], BlobGranted(v, t) PROVE ServerEffect
    <3>1. params(link[v]) = "ok" /\ TakesOne(link[v])
      BY <1>2, <2>8, LetIn DEF BlobGranted, TakesOne
    <3>2. link[v] \in Share
      BY <1>2, <2>8 DEF BlobGranted, IInv, TypeOK, DownloadTypeOK, Awaited, OutOfDate
    <3> QED BY <3>1, <3>2
  <2>9. ASSUME NEW v \in Visit, NEW t \in tasks[v], DownloadErr(v, t) PROVE ServerEffect
    BY <1>2, <2>9 DEF DownloadErr, Show, Ends, server
  <2>10. ASSUME NEW v \in Visit, NEW t \in tasks[v], DownloadOk(v, t) PROVE ServerEffect
    BY <1>2, <2>10 DEF DownloadOk, Show, Ends, server
  <2> QED BY <1>2, <2>1, <2>2, <2>3, <2>4, <2>5, <2>6, <2>7, <2>8, <2>9, <2>10
            DEF DownloadNext, TaskStep
<1>3. CASE CliNext /\ UNCHANGED <<upload_vars, download_vars>>
  <2>1. ASSUME NEW c \in Command, Download(c) PROVE ServerEffect
    BY <1>3, <2>1 DEF Download, server
  <2>2. ASSUME NEW c \in Command, CliUpload(c) PROVE ServerEffect
    <3>1. PICK n \in Share, f \in File, p \in Passphrase : Draw(n, f, p)
      BY <1>3, <2>2 DEF CliUpload
    <3>2. DrawsNumber(n, f, p)
      BY <1>3, <2>2, <3>1, FreshNumber DEF CliUpload, DrawsNumber
    <3> QED BY <3>2
  <2>3. ASSUME NEW c \in Command, CliParams(c) PROVE ServerEffect
    BY <1>3, <2>3 DEF CliParams, Exit, server
  <2>4. ASSUME NEW c \in Command, CliMetadata(c) PROVE ServerEffect
    BY <1>3, <2>4 DEF CliMetadata, Goto, server
  <2>5. ASSUME NEW c \in Command, CreateOutput(c) PROVE ServerEffect
    BY <1>3, <2>5 DEF CreateOutput, Goto, server
  <2>6. ASSUME NEW c \in Command, CliBlob(c) PROVE ServerEffect
    <3>1. TakesOne(cmd[c].share)
      BY <1>3, <2>6, LetIn DEF CliBlob, TakesOne
    <3>2. cmd[c].share \in Share
      BY <1>3, <2>6 DEF CliBlob, IInv, TypeOK, CliTypeOK, Cmd, PaysLate, Running
    <3> QED BY <3>1, <3>2
  <2>7. ASSUME NEW c \in Command, CliSaved(c) PROVE ServerEffect
    BY <1>3, <2>7 DEF CliSaved, Exit, server
  <2>8. ASSUME NEW c \in Command, CliStreamErr(c) PROVE ServerEffect
    BY <1>3, <2>8 DEF CliStreamErr, Exit, server
  <2>9. ASSUME NEW c \in Command, CliStored(c) PROVE ServerEffect
    <3>1. cmd[c].share \in OnItsWay /\ cmd[c].ask \in Budget
      BY <1>3, <2>9 DEF CliStored, OnItsWay, CliNumbers, Sends, IInv, TypeOK, CliTypeOK, Cmd
    <3>2. StoresShare(cmd[c].share, cmd[c].ask)
      BY <1>3, <2>9 DEF CliStored, StoresShare
    <3> QED BY <3>1, <3>2
  <2>10. ASSUME NEW c \in Command, Printed(c) PROVE ServerEffect
    <3>1. cmd[c].share \in OnItsWay
      BY <1>3, <2>10 DEF Printed, OnItsWay, CliNumbers, Sends
    <3>2. HandsOn(cmd[c].share)
      BY <1>3, <2>10 DEF Printed, HandsOn
    <3> QED BY <3>1, <3>2
  <2>11. ASSUME NEW c \in Command, CliErr(c) PROVE ServerEffect
    BY <1>3, <2>11 DEF CliErr, Exit, server
  <2> QED BY <1>3, <2>1, <2>2, <2>3, <2>4, <2>5, <2>6, <2>7, <2>8, <2>9, <2>10, <2>11
            DEF CliNext, CliStep
<1>4. CASE ServerNext /\ UNCHANGED <<upload_vars, download_vars, cli_vars>>
  <2>1. ASSUME NEW n \in Share, Vanish(n) PROVE ServerEffect
    BY <1>4, <2>1 DEF Vanish, EndsShare
  <2>2. ASSUME NEW n \in Share, NEW p \in Passphrase, ChangePassword(n, p) PROVE ServerEffect
    <3>1. ChangesKey(n, p)
      BY <1>4, <2>2 DEF ChangePassword, ChangesKey
    <3> QED BY <3>1
  <2> QED BY <1>4, <2>1, <2>2 DEF ServerNext
<1>5. CASE UNCHANGED vars
  BY <1>5 DEF vars, server
<1> QED BY <1>1, <1>2, <1>3, <1>4, <1>5 DEF Next

(* A drawn number keeps what it was drawn for, a link handed on stays so,  *)
(* and its share is not stored again, nor are more downloads left.         *)
ServerMoves ==
  /\ \A n \in Share : sealed[n] # None => sealed'[n] = sealed[n]
  /\ handed \subseteq handed'
  /\ \A n \in handed : shares'[n] # None =>
       shares[n] # None /\ shares'[n].left <= shares[n].left

LEMMA OneWay == IInv /\ [Next]_vars => ServerMoves
<1> SUFFICES ASSUME IInv, ServerEffect PROVE ServerMoves
  BY ServerDoes
<1> USE DEF IInv, TypeOK, LinkTypeOK, ServerMoves
<1>1. \A n \in handed : shares[n] # None => shares[n].left <= shares[n].left
  BY DEF ShareRec
<1>2. CASE UNCHANGED server
  BY <1>1, <1>2 DEF server
<1>3. ASSUME NEW n \in Share, NEW f \in File, NEW p \in Passphrase, DrawsNumber(n, f, p)
      PROVE  ServerMoves
  BY <1>1, <1>3 DEF DrawsNumber
<1>4. ASSUME NEW n \in OnItsWay, HandsOn(n) PROVE ServerMoves
  BY <1>1, <1>4 DEF HandsOn
<1>5. ASSUME NEW n \in OnItsWay, NEW ask \in Budget, StoresShare(n, ask) PROVE ServerMoves
  BY <1>1, <1>5, UnderWay DEF StoresShare, upload
<1>6. ASSUME NEW n \in Share, TakesOne(n) PROVE ServerMoves
  <2>1. shares[n] # None /\ shares[n] \in ShareRec
    BY <1>6 DEF TakesOne, params
  <2>2. shares'[n].left = shares[n].left - 1 /\ shares[n].left \in Nat
    BY <1>6, <2>1 DEF TakesOne, claim, ShareRec
  <2>3. shares'[n].left <= shares[n].left
    BY <2>2
  <2>4. \A m \in Share : m # n => shares'[m] = shares[m]
    BY <1>6 DEF TakesOne, claim
  <2> QED BY <1>1, <1>6, <2>1, <2>3, <2>4 DEF TakesOne
<1>7. ASSUME NEW n \in Share, EndsShare(n) PROVE ServerMoves
  BY <1>1, <1>7 DEF EndsShare
<1>8. ASSUME NEW n \in Share, NEW p \in Passphrase, ChangesKey(n, p) PROVE ServerMoves
  <2>1. \A m \in Share : m # n => shares'[m] = shares[m]
    BY <1>8 DEF ChangesKey
  <2>2. shares[n] # None /\ shares'[n].left = shares[n].left
    BY <1>8 DEF ChangesKey, ShareRec
  <2> QED BY <1>1, <1>8, <2>1, <2>2 DEF ChangesKey
<1> QED BY <1>2, <1>3, <1>4, <1>5, <1>6, <1>7, <1>8 DEF ServerEffect

LEMMA SharesStep == IInv /\ [Next]_vars => (shares \in [Share -> ShareRec \cup {None}])'
<1> SUFFICES ASSUME IInv, ServerEffect PROVE shares' \in [Share -> ShareRec \cup {None}]
  BY ServerDoes
<1> USE DEF IInv, TypeOK, LinkTypeOK
<1>2. CASE UNCHANGED server
  BY <1>2 DEF server
<1>3. ASSUME NEW n \in Share, NEW f \in File, NEW p \in Passphrase, DrawsNumber(n, f, p)
      PROVE  shares' \in [Share -> ShareRec \cup {None}]
  BY <1>3 DEF DrawsNumber
<1>4. ASSUME NEW n \in OnItsWay, HandsOn(n) PROVE shares' \in [Share -> ShareRec \cup {None}]
  BY <1>4 DEF HandsOn
<1>5. ASSUME NEW n \in OnItsWay, NEW ask \in Budget, StoresShare(n, ask)
      PROVE  shares' \in [Share -> ShareRec \cup {None}]
  <2>1. n \in Share /\ sealed[n] \in Drawn
    BY UnderWay
  <2>2. 0 \in 0 .. MaxSalt /\ (IF ask < Limit THEN ask ELSE Limit) \in Nat
    BY LinkAssumption
  <2>3. sealed[n].pass \in Passphrase /\ sealed[n].file \in File
    BY <2>1 DEF Drawn
  <2>4. /\ auth_of(n, sealed[n].pass, 0) \in Cap
        /\ salt_of(n, sealed[n].pass, 0) \in Salt \cup {None}
    BY <2>1, <2>2, <2>3, CapType
  <2>5. [file |-> sealed[n].file, auth |-> auth_of(n, sealed[n].pass, 0),
         salt |-> salt_of(n, sealed[n].pass, 0),
         left |-> IF ask < Limit THEN ask ELSE Limit, changes |-> 0] \in ShareRec
    BY <2>2, <2>3, <2>4 DEF ShareRec
  <2> QED BY <1>5, <2>1, <2>5 DEF StoresShare, upload
<1>6. ASSUME NEW n \in Share, TakesOne(n) PROVE shares' \in [Share -> ShareRec \cup {None}]
  <2>1. shares[n] \in ShareRec /\ shares[n].left > 0
    BY <1>6 DEF TakesOne, params
  <2>2. shares[n].left - 1 \in Nat
    BY <2>1 DEF ShareRec
  <2>3. [shares[n] EXCEPT !.left = @ - 1] \in ShareRec
    BY <2>1, <2>2 DEF ShareRec
  <2> QED BY <1>6, <2>3 DEF TakesOne, claim
<1>7. ASSUME NEW n \in Share, EndsShare(n) PROVE shares' \in [Share -> ShareRec \cup {None}]
  BY <1>7 DEF EndsShare
<1>8. ASSUME NEW n \in Share, NEW p \in Passphrase, ChangesKey(n, p)
      PROVE  shares' \in [Share -> ShareRec \cup {None}]
  <2> DEFINE v == shares[n].changes + 1
  <2>1. shares[n] \in ShareRec /\ shares[n].changes < MaxSalt
    BY <1>8 DEF ChangesKey
  <2>2. v \in 0 .. MaxSalt
    BY <2>1, LinkAssumption DEF ShareRec
  <2>3. shares' = [shares EXCEPT ![n] =
          [shares[n] EXCEPT !.auth = auth_of(n, p, v), !.salt = salt_of(n, p, v), !.changes = v]]
    BY <1>8 DEF ChangesKey
  <2>4. auth_of(n, p, v) \in Cap /\ salt_of(n, p, v) \in Salt \cup {None}
    BY <2>2, CapType
  <2> HIDE DEF v
  <2>5. [shares[n] EXCEPT !.auth = auth_of(n, p, v), !.salt = salt_of(n, p, v), !.changes = v]
          \in ShareRec
    BY <2>1, <2>2, <2>4 DEF ShareRec
  <2> QED BY <2>3, <2>5
<1> QED BY <1>2, <1>3, <1>4, <1>5, <1>6, <1>7, <1>8 DEF ServerEffect

LEMMA LinkStep == IInv /\ [Next]_vars => LinkTypeOK'
<1> SUFFICES ASSUME IInv, [Next]_vars PROVE LinkTypeOK'
  OBVIOUS
<1>1. shares' \in [Share -> ShareRec \cup {None}]
  BY SharesStep
<1>2. sealed' \in [Share -> Drawn \cup {None}]
  <2>1. sealed \in [Share -> Drawn \cup {None}]
    BY DEF IInv, TypeOK, LinkTypeOK
  <2>2. ASSUME NEW n \in Share, NEW f \in File, NEW p \in Passphrase, DrawsNumber(n, f, p)
        PROVE  sealed' \in [Share -> Drawn \cup {None}]
    BY <2>1, <2>2 DEF DrawsNumber, Drawn
  <2>3. UNCHANGED sealed \/ \E n \in Share, f \in File, p \in Passphrase : DrawsNumber(n, f, p)
    BY ServerDoes, Zenon
    DEF ServerEffect, server, HandsOn, StoresShare, TakesOne, EndsShare, ChangesKey
  <2> QED BY <2>1, <2>2, <2>3
<1>3. handed' \subseteq Share
  <2>1. UNCHANGED handed \/ \E n \in OnItsWay : handed' = handed \cup {n}
    BY ServerDoes, Zenon
    DEF ServerEffect, server, DrawsNumber, HandsOn, StoresShare, TakesOne, EndsShare, ChangesKey
  <2> QED BY <2>1, UnderWay DEF IInv, TypeOK, LinkTypeOK
<1>4. clicks' \in 0 .. MaxClick
  <2>1. UploadNext => Click \/ UNCHANGED clicks
    BY DEF UploadNext, accept, Replace, SetOptions, submit, delete
  <2>2. DownloadNext => Click \/ UNCHANGED clicks
    BY DEF DownloadNext, OpenPage, unlock, start
  <2>3. CliNext => Click \/ UNCHANGED clicks
    BY Zenon DEF CliNext, Download, CliUpload
  <2>4. ServerNext => Click \/ UNCHANGED clicks
    BY Zenon DEF ServerNext, Vanish, ChangePassword
  <2>5. Click \/ UNCHANGED clicks
    BY <2>1, <2>2, <2>3, <2>4 DEF Next, vars
  <2> QED BY <2>5, LinkAssumption DEF Click, IInv, TypeOK, LinkTypeOK
<1> QED BY <1>1, <1>2, <1>3, <1>4 DEF LinkTypeOK

(* A password change leaves the file, and counts; a new share is as sealed. *)
LEMMA SealedStep == IInv /\ [Next]_vars => (\A m \in Share : AsSealed(m))'
<1> SUFFICES ASSUME IInv, ServerEffect, ServerMoves, NEW m \in Share PROVE AsSealed(m)'
  BY ServerDoes, OneWay
<1> USE DEF IInv, TypeOK, LinkTypeOK, AsSealed
<1>1. sealed[m] # None => sealed'[m] = sealed[m]
  BY DEF ServerMoves
<1>2. CASE shares'[m] = shares[m]
  BY <1>1, <1>2
<1>3. ASSUME NEW n \in OnItsWay, NEW ask \in Budget, StoresShare(n, ask), m = n
      PROVE  AsSealed(m)'
  BY <1>3, UnderWay DEF StoresShare, upload
<1>4. CASE TakesOne(m)
  <2>1. /\ shares[m] # None /\ shares'[m].file = shares[m].file
        /\ shares'[m].auth = shares[m].auth /\ shares'[m].changes = shares[m].changes
    BY <1>4 DEF TakesOne, params, claim, ShareRec
  <2> QED BY <1>1, <2>1
<1>5. CASE EndsShare(m)
  BY <1>5 DEF EndsShare
<1>6. ASSUME NEW p \in Passphrase, ChangesKey(m, p) PROVE AsSealed(m)'
  <2>1. /\ shares[m] # None /\ shares'[m].file = shares[m].file
        /\ shares'[m].changes = shares[m].changes + 1 /\ shares[m].changes \in Nat
    BY <1>6 DEF ChangesKey, ShareRec
  <2> QED BY <1>1, <2>1
<1>7. ASSUME NEW n \in Share, n # m, TakesOne(n) \/ EndsShare(n) PROVE shares'[m] = shares[m]
  BY <1>7 DEF TakesOne, claim, EndsShare
<1>8. ASSUME NEW n \in Share, n # m, NEW p \in Passphrase, ChangesKey(n, p)
      PROVE  shares'[m] = shares[m]
  BY <1>8 DEF ChangesKey
<1>9. ASSUME NEW n \in OnItsWay, NEW ask \in Budget, StoresShare(n, ask), m # n
      PROVE  shares'[m] = shares[m]
  BY <1>9 DEF StoresShare, upload
<1>10. ASSUME NEW n \in OnItsWay, HandsOn(n) PROVE shares'[m] = shares[m]
  BY <1>10 DEF HandsOn
<1>11. ASSUME NEW n \in Share, NEW f \in File, NEW p \in Passphrase, DrawsNumber(n, f, p)
       PROVE  shares'[m] = shares[m]
  BY <1>11 DEF DrawsNumber
<1>12. UNCHANGED server => shares'[m] = shares[m]
  BY DEF server
<1> HIDE DEF AsSealed
<1> QED BY <1>2, <1>3, <1>4, <1>5, <1>6, <1>7, <1>8, <1>9, <1>10, <1>11, <1>12
          DEF ServerEffect

(* The upload page keeps its types. *)
LEMMA UploadTypes == IInv /\ [Next]_vars => UploadTypeOK'
<1> SUFFICES ASSUME IInv, [Next]_vars PROVE UploadTypeOK'
  OBVIOUS
<1> USE DEF UploadTypeOK, IInv, TypeOK
<1>1. CASE UploadNext /\ UNCHANGED <<download_vars, cli_vars>>
  <2>1. ASSUME NEW f \in File, accept(f) PROVE UploadTypeOK'
    BY <1>1, <2>1 DEF accept, page
  <2>2. CASE Replace
    BY <1>1, <2>2 DEF Replace, page
  <2>3. CASE SetOptions
    BY <1>1, <2>3 DEF SetOptions, page
  <2>4. CASE submit
    <3>1. PICK n \in Share :
            uploads' = uploads \cup {[n |-> n, file |-> file, pass |-> passphrase,
                                     ask |-> max_downloads, step |-> "seal"]}
      BY <1>1, <2>4 DEF submit
    <3>2. [n |-> n, file |-> file, pass |-> passphrase, ask |-> max_downloads, step |-> "seal"]
            \in UploadTask
      BY <1>1, <2>4 DEF submit, CanSubmit, UploadTask
    <3> QED BY <1>1, <2>4, <3>1, <3>2 DEF submit
  <2>5. CASE delete
    <3>1. share.n \in Share
      BY <1>1, <2>5 DEF delete, Shown
    <3> QED BY <1>1, <2>5, <3>1 DEF delete, page
  <2>6. ASSUME NEW t \in uploads, Sealed(t) PROVE UploadTypeOK'
    <3>1. [t EXCEPT !.step = "post"] \in UploadTask
      BY DEF UploadTask
    <3> QED BY <1>1, <2>6, <3>1 DEF Sealed, Becomes
  <2>7. ASSUME NEW t \in uploads, Posted(t) PROVE UploadTypeOK'
    <3>1. [t EXCEPT !.step = "stored"] \in UploadTask
      BY DEF UploadTask
    <3> QED BY <1>1, <2>7, <3>1 DEF Posted, Becomes, page
  <2>8. ASSUME NEW t \in uploads, UploadOk(t) PROVE UploadTypeOK'
    <3>1. ShownFor(t) \in Shown
      BY DEF ShownFor, Shown, UploadTask
    <3> QED BY <1>1, <2>8, <3>1 DEF UploadOk
  <2>9. ASSUME NEW t \in uploads, UploadErr(t) PROVE UploadTypeOK'
    BY <1>1, <2>9 DEF UploadErr, page
  <2>10. ASSUME NEW n \in Share, DeleteDone(n) PROVE UploadTypeOK'
    BY <1>1, <2>10 DEF DeleteDone, DeleteAnswered, page
  <2> QED BY <1>1, <2>1, <2>2, <2>3, <2>4, <2>5, <2>6, <2>7, <2>8, <2>9, <2>10
            DEF UploadNext, UploadStep
<1>2. CASE DownloadNext /\ UNCHANGED <<upload_vars, cli_vars>>
  BY <1>2 DEF upload_vars, page
<1>3. CASE CliNext /\ UNCHANGED <<upload_vars, download_vars>>
  BY <1>3 DEF upload_vars, page
<1>4. CASE ServerNext /\ UNCHANGED <<upload_vars, download_vars, cli_vars>>
  BY <1>4 DEF upload_vars, page
<1>5. CASE UNCHANGED vars
  BY <1>5 DEF vars, upload_vars, page
<1> QED BY <1>1, <1>2, <1>3, <1>4, <1>5 DEF Next

(* Nothing replaces the file, and nothing is submitted, while the page is busy. *)
LEMMA OneUploadStep == IInv /\ [Next]_vars => OneUpload'
<1> SUFFICES ASSUME IInv, [Next]_vars PROVE OneUpload'
  OBVIOUS
<1>0. \A t \in uploads :
         /\ t \in UploadTask /\ sealed'[t.n] = sealed[t.n] /\ t.file = file
         /\ \A u \in uploads : u = t
         /\ t.step = "seal" => phase = "Encrypting"
         /\ t.step # "seal" => phase = "Uploading"
         /\ sealed[t.n] # None /\ sealed[t.n].file = t.file /\ sealed[t.n].pass = t.pass
  <2>1. \A t \in uploads : t \in UploadTask /\ t.n \in OnItsWay
    BY DEF IInv, TypeOK, UploadTypeOK, OnItsWay, UploadNumbers
  <2> QED BY <2>1, UnderWay, OneWay DEF ServerMoves, IInv, OneUpload
<1> USE DEF OneUpload
<1>1. CASE UploadNext /\ UNCHANGED <<download_vars, cli_vars>>
  <2>1. ASSUME NEW f \in File, accept(f) PROVE OneUpload'
    <3>1. uploads = {}
      BY <1>1, <2>1, <1>0, LinkAssumption DEF accept, UploadTask
    <3> QED BY <1>1, <2>1, <3>1 DEF accept
  <2>2. CASE Replace
    BY <1>1, <2>2, <1>0 DEF Replace, page, CanReplace, CanSubmit, busy
  <2>3. CASE SetOptions
    BY <1>1, <2>3, <1>0 DEF SetOptions, page, CanReplace, CanSubmit, busy
  <2>4. CASE submit
    <3>1. PICK n \in Share :
            /\ Draw(n, file, passphrase)
            /\ uploads' = uploads \cup {[n |-> n, file |-> file, pass |-> passphrase,
                                     ask |-> max_downloads, step |-> "seal"]}
      BY <1>1, <2>4 DEF submit
    <3>2. uploads = {}
      BY <1>1, <2>4, <1>0 DEF submit, CanSubmit, busy
    <3>3. /\ sealed'[n] # None
          /\ sealed'[n].file = file /\ sealed'[n].pass = passphrase
      BY <1>1, <2>4, <3>1, FreshNumber, LinkAssumption
      DEF submit, CanSubmit, IInv, TypeOK, LinkTypeOK, UploadTypeOK, Drawn
    <3> QED BY <1>1, <2>4, <3>1, <3>2, <3>3 DEF submit
  <2>5. CASE delete
    BY <1>1, <2>5, <1>0 DEF delete, page, CanReplace, CanSubmit, busy
  <2>6. ASSUME NEW t \in uploads, Sealed(t) PROVE OneUpload'
    <3>1. uploads' = {[t EXCEPT !.step = "post"]} /\ phase' = "Uploading" /\ file' = file
      BY <1>1, <2>6, <1>0 DEF Sealed, Becomes
    <3> QED BY <1>0, <3>1 DEF UploadTask
  <2>7. ASSUME NEW t \in uploads, Posted(t) PROVE OneUpload'
    <3>1. uploads' = {[t EXCEPT !.step = "stored"]} /\ phase' = phase /\ file' = file
      BY <1>1, <2>7, <1>0 DEF Posted, Becomes, page
    <3>2. phase = "Uploading"
      BY <1>1, <2>7, <1>0 DEF Posted
    <3> QED BY <1>0, <3>1, <3>2 DEF UploadTask
  <2>8. ASSUME NEW t \in uploads, UploadOk(t) PROVE OneUpload'
    BY <1>1, <2>8, <1>0 DEF UploadOk, ShownFor, page, CanReplace, CanSubmit, busy
  <2>9. ASSUME NEW t \in uploads, UploadErr(t) PROVE OneUpload'
    BY <1>1, <2>9, <1>0 DEF UploadErr, page, CanReplace, CanSubmit, busy
  <2>10. ASSUME NEW n \in Share, DeleteDone(n) PROVE OneUpload'
    BY <1>1, <2>10, <1>0 DEF DeleteDone, DeleteAnswered, page, CanReplace, CanSubmit, busy
  <2> QED BY <1>1, <2>1, <2>2, <2>3, <2>4, <2>5, <2>6, <2>7, <2>8, <2>9, <2>10
            DEF UploadNext, UploadStep
<1>2. CASE DownloadNext /\ UNCHANGED <<upload_vars, cli_vars>>
  BY <1>2, <1>0 DEF upload_vars, page
<1>3. CASE CliNext /\ UNCHANGED <<upload_vars, download_vars>>
  BY <1>3, <1>0 DEF upload_vars, page
<1>4. CASE ServerNext /\ UNCHANGED <<upload_vars, download_vars, cli_vars>>
  BY <1>4, <1>0 DEF upload_vars, page
<1>5. CASE UNCHANGED vars
  BY <1>5, <1>0 DEF vars, upload_vars, page
<1> QED BY <1>1, <1>2, <1>3, <1>4, <1>5 DEF Next

(* A link appears with the file its task was for, and goes with it. *)
LEMMA ShownStep == IInv /\ [Next]_vars => ShownIsSealed'
<1> SUFFICES ASSUME IInv, [Next]_vars PROVE ShownIsSealed'
  OBVIOUS
<1>0. ServerMoves
  BY OneWay
<1> USE LinkAssumption, UploadAssumption DEF ShownIsSealed, IInv, TypeOK, UploadTypeOK,
          Shown, LinkTypeOK, ServerMoves, Drawn
<1>1. CASE UploadNext /\ UNCHANGED <<download_vars, cli_vars>>
  <2>1. ASSUME NEW f \in File, accept(f) PROVE ShownIsSealed'
    BY <1>1, <2>1, <1>0 DEF accept, page, CanReplace, CanSubmit, busy, OneUpload
  <2>2. CASE Replace
    BY <1>1, <2>2, <1>0 DEF Replace, page, CanReplace, CanSubmit, busy, OneUpload
  <2>3. CASE SetOptions
    BY <1>1, <2>3, <1>0 DEF SetOptions, page, CanReplace, CanSubmit, busy, OneUpload
  <2>4. CASE submit
    BY <1>1, <2>4, <1>0 DEF submit, page, CanReplace, CanSubmit, busy, OneUpload
  <2>5. CASE delete
    BY <1>1, <2>5, <1>0 DEF delete, page, CanReplace, CanSubmit, busy, OneUpload
  <2>6. ASSUME NEW t \in uploads, Sealed(t) PROVE ShownIsSealed'
    BY <1>1, <2>6, <1>0 DEF Sealed, Becomes, page, CanReplace, CanSubmit, busy, OneUpload
  <2>7. ASSUME NEW t \in uploads, Posted(t) PROVE ShownIsSealed'
    BY <1>1, <2>7, <1>0
      DEF Posted, Becomes, page, page, CanReplace, CanSubmit, busy, OneUpload
  <2>8. ASSUME NEW t \in uploads, UploadOk(t) PROVE ShownIsSealed'
    <3>1. /\ t.n \in Share /\ sealed[t.n] # None /\ sealed[t.n].file = file
          /\ sealed[t.n].pass = t.pass /\ t.file = file
      BY DEF OneUpload, UploadTask
    <3> QED BY <1>1, <2>8, <3>1 DEF UploadOk, ShownFor
  <2>9. ASSUME NEW t \in uploads, UploadErr(t) PROVE ShownIsSealed'
    BY <1>1, <2>9, <1>0 DEF UploadErr, page, CanReplace, CanSubmit, busy, OneUpload
  <2>10. ASSUME NEW n \in Share, DeleteDone(n) PROVE ShownIsSealed'
    BY <1>1, <2>10, <1>0
      DEF DeleteDone, DeleteAnswered, page, CanReplace, CanSubmit, busy, OneUpload
  <2> QED BY <1>1, <2>1, <2>2, <2>3, <2>4, <2>5, <2>6, <2>7, <2>8, <2>9, <2>10
            DEF UploadNext, UploadStep
<1>2. CASE DownloadNext /\ UNCHANGED <<upload_vars, cli_vars>>
  BY <1>2, <1>0 DEF upload_vars, page
<1>3. CASE CliNext /\ UNCHANGED <<upload_vars, download_vars>>
  BY <1>3, <1>0 DEF upload_vars, page
<1>4. CASE ServerNext /\ UNCHANGED <<upload_vars, download_vars, cli_vars>>
  BY <1>4, <1>0 DEF upload_vars, page
<1>5. CASE UNCHANGED vars
  BY <1>5, <1>0 DEF vars, upload_vars, page, server
<1> QED BY <1>1, <1>2, <1>3, <1>4, <1>5 DEF Next

(* Only an answered request makes a share deleted, and it is not stored again. *)
LEMMA DeletedStep == IInv /\ [Next]_vars => DeletedForGood'
<1> SUFFICES ASSUME IInv, [Next]_vars PROVE DeletedForGood'
  OBVIOUS
<1>0. ServerMoves
  BY OneWay
<1> USE DEF DeletedForGood, DeletedIsGone, IInv, TypeOK, UploadTypeOK, LinkTypeOK,
          ServerMoves
<1>1. CASE UploadNext /\ UNCHANGED <<download_vars, cli_vars>>
  <2>1. ASSUME NEW f \in File, accept(f) PROVE DeletedForGood'
    BY <1>1, <2>1, <1>0 DEF accept, page, server
  <2>2. CASE Replace
    BY <1>1, <2>2, <1>0 DEF Replace, page, server
  <2>3. CASE SetOptions
    BY <1>1, <2>3, <1>0 DEF SetOptions, page, server
  <2>4. CASE submit
    BY <1>1, <2>4, <1>0 DEF submit, page, server
  <2>5. CASE delete
    BY <1>1, <2>5, <1>0 DEF delete, ShownIsSealed, page, server
  <2>6. ASSUME NEW t \in uploads, Sealed(t) PROVE DeletedForGood'
    BY <1>1, <2>6, <1>0 DEF Sealed, Becomes, page, server
  <2>7. ASSUME NEW t \in uploads, Posted(t) PROVE DeletedForGood'
    BY <1>1, <2>7, <1>0 DEF Posted, Becomes, page, page, server
  <2>8. ASSUME NEW t \in uploads, UploadOk(t) PROVE DeletedForGood'
    BY <1>1, <2>8, <1>0 DEF UploadOk, ShownFor, page, server
  <2>9. ASSUME NEW t \in uploads, UploadErr(t) PROVE DeletedForGood'
    BY <1>1, <2>9, <1>0 DEF UploadErr, page, server
  <2>10. ASSUME NEW n \in Share, DeleteDone(n) PROVE DeletedForGood'
    BY <1>1, <2>10, <1>0 DEF DeleteDone, DeleteAnswered, page, server
  <2> QED BY <1>1, <2>1, <2>2, <2>3, <2>4, <2>5, <2>6, <2>7, <2>8, <2>9, <2>10
            DEF UploadNext, UploadStep
<1>2. CASE DownloadNext /\ UNCHANGED <<upload_vars, cli_vars>>
  BY <1>2, <1>0 DEF upload_vars, page
<1>3. CASE CliNext /\ UNCHANGED <<upload_vars, download_vars>>
  BY <1>3, <1>0 DEF upload_vars, page
<1>4. CASE ServerNext /\ UNCHANGED <<upload_vars, download_vars, cli_vars>>
  BY <1>4, <1>0 DEF upload_vars, page
<1>5. CASE UNCHANGED vars
  BY <1>5, <1>0 DEF vars, upload_vars, page, server
<1> QED BY <1>1, <1>2, <1>3, <1>4, <1>5 DEF Next

(* The download pages keep their types. *)
LEMMA DownloadTypes == IInv /\ [Next]_vars => DownloadTypeOK'
<1> SUFFICES ASSUME IInv, [Next]_vars PROVE DownloadTypeOK'
  OBVIOUS
<1>0. DownloadTypeOK /\ LinkTypeOK /\ \A v \in Visit : Awaited(v)
  BY DEF IInv, TypeOK
<1> USE LinkAssumption DEF DownloadTypeOK
<1>1. CASE UploadNext /\ UNCHANGED <<download_vars, cli_vars>>
  BY <1>1, <1>0 DEF download_vars
<1>2. CASE DownloadNext /\ UNCHANGED <<upload_vars, cli_vars>>
  <2>1. ASSUME NEW v \in Visit, OpenPage(v) PROVE DownloadTypeOK'
    <3>1. NewTask("params", None) \in Task
      BY <1>2, <2>1, <1>0, NewTaskType DEF OpenPage
    <3> QED BY <1>2, <2>1, <1>0, <3>1 DEF OpenPage, Show, Spawn, View, LinkTypeOK, NewTask
  <2>2. ASSUME NEW v \in Visit, unlock(v) PROVE DownloadTypeOK'
    <3>1. salt[v] \in Salt
      BY <1>2, <2>2, <1>0 DEF unlock, Awaited
    <3>2. PICK p \in Passphrase : Spawn(v, "unlock", PassCap(p, salt[v]))
      BY <1>2, <2>2 DEF unlock
    <3>3. NewTask("unlock", PassCap(p, salt[v])) \in Task
      BY <1>2, <2>2, <1>0, <3>1, PassCapType, NewTaskType DEF unlock
    <3> QED BY <1>2, <2>2, <1>0, <3>2, <3>3 DEF unlock, Show, Spawn, View, NewTask
  <2>3. ASSUME NEW v \in Visit, start(v) PROVE DownloadTypeOK'
    <3>1. unlocked[v].cap \in Cap
      BY <1>2, <2>3, <1>0 DEF start, CanStart, Unlocked
    <3>2. NewTask("blob", unlocked[v].cap) \in Task
      BY <1>2, <2>3, <1>0, <3>1, NewTaskType DEF start
    <3> QED BY <1>2, <2>3, <1>0, <3>2 DEF start, Show, Spawn, View, NewTask
  <2>4. ASSUME NEW v \in Visit, NEW t \in tasks[v], ParamsRefused(v, t) PROVE DownloadTypeOK'
    BY <1>2, <2>4, <1>0 DEF ParamsRefused, is_missing, Show, Ends, View
  <2>5. ASSUME NEW v \in Visit, NEW t \in tasks[v], ParamsOk(v, t) PROVE DownloadTypeOK'
    <3>1. link[v] \in Share
      BY <1>2, <2>5, <1>0 DEF ParamsOk, Awaited
    <3>2. shares[link[v]] # None
      BY <1>2, <2>5 DEF ParamsOk, params
    <3>3. shares[link[v]].salt \in Salt \cup {None}
      BY <1>0, <3>1, <3>2 DEF ShareRec, LinkTypeOK
    <3>4. t \in Task /\ LinkCap(link[v]) \in Cap
      BY <1>0, <3>1 DEF Cap
    <3>5. NextTask(t, "resolve", LinkCap(link[v])) \in Task
      BY <3>4, NextTaskType
    <3> QED BY <1>2, <2>5, <1>0, <3>3, <3>5 DEF ParamsOk, Show, Ends, Goes, View, NextTask
  <2>6. ASSUME NEW v \in Visit, NEW t \in tasks[v], ResolveOk(v, t) PROVE DownloadTypeOK'
    <3>1. link[v] \in Share /\ t.cap \in Cap
      BY <1>2, <2>6, <1>0 DEF ResolveOk, Awaited, Task
    <3>2. shares[link[v]] \in ShareRec
      BY <1>2, <2>6, <1>0, <3>1 DEF ResolveOk, metadata, LinkTypeOK
    <3>3. [cap |-> t.cap, file |-> shares[link[v]].file, left |-> shares[link[v]].left]
            \in Unlocked
      BY <3>1, <3>2 DEF Unlocked, ShareRec
    <3> QED BY <1>2, <2>6, <1>0, <3>3 DEF ResolveOk, Show, Ends, View
  <2>7. ASSUME NEW v \in Visit, NEW t \in tasks[v], ResolveErr(v, t) PROVE DownloadTypeOK'
    BY <1>2, <2>7, <1>0 DEF ResolveErr, Show, Ends, View
  <2>8. ASSUME NEW v \in Visit, NEW t \in tasks[v], BlobGranted(v, t) PROVE DownloadTypeOK'
    <3>1. t \in Task /\ t.cap \in Cap \cup {None}
      BY <1>0 DEF Task
    <3>2. NextTask(t, "stream", t.cap) \in Task
      BY <3>1, NextTaskType
    <3> QED BY <1>2, <2>8, <1>0, <3>2 DEF BlobGranted, Goes, NextTask
  <2>9. ASSUME NEW v \in Visit, NEW t \in tasks[v], DownloadErr(v, t) PROVE DownloadTypeOK'
    BY <1>2, <2>9, <1>0 DEF DownloadErr, Show, Ends, View
  <2>10. ASSUME NEW v \in Visit, NEW t \in tasks[v], DownloadOk(v, t) PROVE DownloadTypeOK'
    BY <1>2, <2>10, <1>0 DEF DownloadOk, Show, Ends, View
  <2> QED BY <1>2, <2>1, <2>2, <2>3, <2>4, <2>5, <2>6, <2>7, <2>8, <2>9, <2>10
            DEF DownloadNext, TaskStep
<1>3. CASE CliNext /\ UNCHANGED <<upload_vars, download_vars>>
  BY <1>3, <1>0 DEF download_vars
<1>4. CASE ServerNext /\ UNCHANGED <<upload_vars, download_vars, cli_vars>>
  BY <1>4, <1>0 DEF download_vars
<1>5. CASE UNCHANGED vars
  BY <1>5, <1>0 DEF vars, download_vars
<1> QED BY <1>1, <1>2, <1>3, <1>4, <1>5 DEF Next

(* The commands keep their types. *)
LEMMA CliTypes == IInv /\ [Next]_vars => CliTypeOK'
<1> SUFFICES ASSUME IInv, [Next]_vars PROVE CliTypeOK'
  OBVIOUS
<1>0. /\ CliTypeOK /\ LinkTypeOK /\ \A c \in Command : PaysLate(c)
  BY DEF IInv, TypeOK
<1>9. ASSUME NEW c \in Command, NEW step \in Step, Exit(c, step)
      PROVE  cmd' \in [Command -> Cmd]
  BY <1>0, <1>9, LinkAssumption DEF CliTypeOK, Exit, Cmd
<1>8. handed \subseteq Share
  BY <1>0 DEF LinkTypeOK
<1> USE DEF CliTypeOK
<1>1. CASE UploadNext /\ UNCHANGED <<download_vars, cli_vars>>
  BY <1>1, <1>0 DEF cli_vars
<1>2. CASE DownloadNext /\ UNCHANGED <<upload_vars, cli_vars>>
  BY <1>2, <1>0 DEF cli_vars
<1>3. CASE CliNext /\ UNCHANGED <<upload_vars, download_vars>>
  <2>1. ASSUME NEW c \in Command, Download(c) PROVE CliTypeOK'
    <3>1. PICK n \in handed, p \in Passphrase :
            cmd' = [cmd EXCEPT ![c].step = "params", ![c].share = n, ![c].pass = p]
      BY <1>3, <2>1, Zenon DEF Download
    <3>2. [cmd[c] EXCEPT !.step = "params", !.share = n, !.pass = p] \in Cmd
      BY <1>0, <1>8, CmdBegins, LinkAssumption, Zenon DEF Step, CliTypeOK
    <3>3. UNCHANGED out
      BY <1>3, <2>1 DEF Download
    <3> QED BY <1>0, <3>1, <3>2, <3>3
  <2>2. ASSUME NEW c \in Command, CliUpload(c) PROVE CliTypeOK'
    <3>1. PICK n \in Share, p \in Passphrase, a \in Budget :
            cmd' = [cmd EXCEPT ![c].step = "post", ![c].share = n, ![c].pass = p, ![c].ask = a]
      BY <1>3, <2>2, Zenon DEF CliUpload
    <3>2. [cmd[c] EXCEPT !.step = "post", !.share = n, !.pass = p, !.ask = a] \in Cmd
      BY <1>0, CmdBegins, Zenon DEF Step
    <3> QED BY <1>3, <2>2, <1>0, <3>1, <3>2 DEF CliUpload
  <2>3. ASSUME NEW c \in Command, CliParams(c) PROVE CliTypeOK'
    <3>1. cmd[c].share \in Share /\ cmd[c].pass \in Passphrase
      BY <1>3, <2>3, <1>0 DEF CliParams, PaysLate, Running, Cmd
    <3>2. shares[cmd[c].share] \in ShareRec
      BY <1>3, <2>3, <1>0, <3>1 DEF CliParams, params, LinkTypeOK
    <3> DEFINE s == shares[cmd[c].share].salt
               cap == IF s = None THEN LinkCap(cmd[c].share) ELSE PassCap(cmd[c].pass, s)
    <3>3. s \in Salt \cup {None}
      BY <3>2 DEF ShareRec
    <3>4. cap \in Cap
      <4>1. LinkCap(cmd[c].share) \in Cap
        BY <3>1 DEF Cap
      <4> QED BY <3>1, <3>3, <4>1, PassCapType
    <3>5. cmd' = [cmd EXCEPT ![c].step = "metadata", ![c].cap = cap] \/ Exit(c, "error")
      BY <1>3, <2>3 DEF CliParams
    <3> HIDE DEF s, cap
    <3>6. [cmd[c] EXCEPT !.step = "metadata", !.cap = cap] \in Cmd
      BY <1>0, <3>4, CmdLearns, Zenon DEF Step
    <3>7. UNCHANGED out
      BY <1>3, <2>3 DEF CliParams
    <3> QED BY <1>0, <1>9, <3>5, <3>6, <3>7 DEF Step
  <2>4. ASSUME NEW c \in Command, CliMetadata(c) PROVE CliTypeOK'
    <3>1. [cmd[c] EXCEPT !.step = "create"] \in Cmd
      BY <1>0, CmdStep, Zenon DEF Step
    <3> QED BY <1>3, <2>4, <1>0, <3>1 DEF CliMetadata, Goto
  <2>5. ASSUME NEW c \in Command, CreateOutput(c) PROVE CliTypeOK'
    <3>1. [cmd[c] EXCEPT !.step = "blob"] \in Cmd
      BY <1>0, CmdStep, Zenon DEF Step
    <3> QED BY <1>3, <2>5, <1>0, <3>1 DEF CreateOutput, Goto
  <2>6. ASSUME NEW c \in Command, CliBlob(c) PROVE CliTypeOK'
    <3>1. [cmd[c] EXCEPT !.step = "stream", !.took = cmd[c].took + 1] \in Cmd
      BY <1>0, CmdPays, Zenon DEF Step
    <3> QED BY <1>3, <2>6, <1>0, <3>1 DEF CliBlob
  <2>7. ASSUME NEW c \in Command, CliSaved(c) PROVE CliTypeOK'
    BY <1>3, <2>7, <1>0, <1>9 DEF CliSaved, Step
  <2>8. ASSUME NEW c \in Command, CliStreamErr(c) PROVE CliTypeOK'
    BY <1>3, <2>8, <1>0, <1>9 DEF CliStreamErr, Step
  <2>9. ASSUME NEW c \in Command, CliStored(c) PROVE CliTypeOK'
    <3>1. [cmd[c] EXCEPT !.step = "stored"] \in Cmd
      BY <1>0, CmdStep, Zenon DEF Step
    <3> QED BY <1>3, <2>9, <1>0, <3>1 DEF CliStored, Goto
  <2>10. ASSUME NEW c \in Command, Printed(c) PROVE CliTypeOK'
    BY <1>3, <2>10, <1>0, <1>9 DEF Printed, Step
  <2>11. ASSUME NEW c \in Command, CliErr(c) PROVE CliTypeOK'
    BY <1>3, <2>11, <1>0, <1>9 DEF CliErr, Step
  <2> QED BY <1>3, <2>1, <2>2, <2>3, <2>4, <2>5, <2>6, <2>7, <2>8, <2>9, <2>10, <2>11
            DEF CliNext, CliStep
<1>4. CASE ServerNext /\ UNCHANGED <<upload_vars, download_vars, cli_vars>>
  BY <1>4, <1>0 DEF cli_vars
<1>5. CASE UNCHANGED vars
  BY <1>5, <1>0 DEF vars, cli_vars
<1> QED BY <1>1, <1>2, <1>3, <1>4, <1>5 DEF Next

(* The output is created first. *)
LEMMA PaysStep == IInv /\ [Next]_vars => (\A d \in Command : PaysLate(d))'
<1> SUFFICES ASSUME IInv, [Next]_vars, NEW d \in Command PROVE PaysLate(d)'
  OBVIOUS
<1> USE DEF PaysLate, Running, IInv, TypeOK, CliTypeOK, Cmd, LinkTypeOK
<1>1. CASE UploadNext /\ UNCHANGED <<download_vars, cli_vars>>
  BY <1>1 DEF cli_vars
<1>2. CASE DownloadNext /\ UNCHANGED <<upload_vars, cli_vars>>
  BY <1>2 DEF cli_vars
<1>3. CASE CliNext /\ UNCHANGED <<upload_vars, download_vars>>
  <2>1. ASSUME NEW c \in Command, Download(c) PROVE PaysLate(d)'
    BY <1>3, <2>1, LinkAssumption DEF Download
  <2>2. ASSUME NEW c \in Command, CliUpload(c) PROVE PaysLate(d)'
    BY <1>3, <2>2, LinkAssumption DEF CliUpload
  <2>3. ASSUME NEW c \in Command, CliParams(c) PROVE PaysLate(d)'
    <3>1. out' = out /\ cmd[c].step = "params"
      BY <2>3 DEF CliParams
    <3>2. CASE Exit(c, "error")
      BY <3>1, <3>2 DEF Exit
    <3>3. CASE ~ Exit(c, "error")
      <4>1. /\ cmd'[d].took = cmd[d].took /\ cmd'[d].share = cmd[d].share
            /\ cmd'[d].step = IF d = c THEN "metadata" ELSE cmd[d].step
        BY <2>3, <3>3 DEF CliParams
      <4> QED BY <3>1, <4>1
    <3> QED BY <3>2, <3>3
  <2>4. ASSUME NEW c \in Command, CliMetadata(c) PROVE PaysLate(d)'
    BY <1>3, <2>4, LinkAssumption DEF CliMetadata, Goto
  <2>5. ASSUME NEW c \in Command, CreateOutput(c) PROVE PaysLate(d)'
    BY <1>3, <2>5, LinkAssumption DEF CreateOutput, Goto
  <2>6. ASSUME NEW c \in Command, CliBlob(c) PROVE PaysLate(d)'
    BY <1>3, <2>6, LinkAssumption DEF CliBlob
  <2>7. ASSUME NEW c \in Command, CliSaved(c) PROVE PaysLate(d)'
    BY <1>3, <2>7, LinkAssumption DEF CliSaved, Exit
  <2>8. ASSUME NEW c \in Command, CliStreamErr(c) PROVE PaysLate(d)'
    BY <1>3, <2>8, LinkAssumption DEF CliStreamErr, Exit
  <2>9. ASSUME NEW c \in Command, CliStored(c) PROVE PaysLate(d)'
    BY <1>3, <2>9, LinkAssumption DEF CliStored, Goto
  <2>10. ASSUME NEW c \in Command, Printed(c) PROVE PaysLate(d)'
    BY <1>3, <2>10, LinkAssumption DEF Printed, Exit
  <2>11. ASSUME NEW c \in Command, CliErr(c) PROVE PaysLate(d)'
    BY <1>3, <2>11, LinkAssumption DEF CliErr, Exit
  <2> QED BY <1>3, <2>1, <2>2, <2>3, <2>4, <2>5, <2>6, <2>7, <2>8, <2>9, <2>10, <2>11
            DEF CliNext, CliStep
<1>4. CASE ServerNext /\ UNCHANGED <<upload_vars, download_vars, cli_vars>>
  BY <1>4 DEF cli_vars
<1>5. CASE UNCHANGED vars
  BY <1>5 DEF vars, cli_vars
<1> QED BY <1>1, <1>2, <1>3, <1>4, <1>5 DEF Next

(* A share whose link was handed on: never more downloads left, and gone stays gone. *)
OnlyLess(n) ==
  /\ n \in handed'
  /\ \A k \in Nat : (shares[n] # None => shares[n].left <= k)
                   => (shares'[n] # None => shares'[n].left <= k)
  /\ params(n) = "missing" => params(n)' = "missing"

LEMMA LessAndLess == IInv /\ [Next]_vars => \A n \in handed : OnlyLess(n)
<1> SUFFICES ASSUME IInv, ServerMoves, LinkTypeOK', NEW n \in handed PROVE OnlyLess(n)
  BY OneWay, LinkStep
<1>1. n \in Share /\ n \in handed' /\ handed' \subseteq Share
  BY DEF IInv, TypeOK, LinkTypeOK, ServerMoves
<1>2. CASE shares'[n] = None
  BY <1>1, <1>2 DEF OnlyLess, params
<1>3. CASE shares'[n] # None
  <2>1. shares[n] # None /\ shares'[n].left <= shares[n].left
    BY <1>3 DEF ServerMoves
  <2>2. shares[n].left \in Nat /\ shares'[n].left \in Nat
    BY <1>1, <1>3, <2>1 DEF IInv, TypeOK, LinkTypeOK, ShareRec
  <2> QED BY <1>1, <1>3, <2>1, <2>2 DEF OnlyLess, params
<1> QED BY <1>2, <1>3

(* A page is left alone, or takes a step of its own. *)
Untouched(v) ==
  /\ link'[v] = link[v] /\ view'[v] = view[v] /\ salt'[v] = salt[v]
  /\ unlocked'[v] = unlocked[v] /\ tasks'[v] = tasks[v]

LEMMA OnePage ==
  ASSUME IInv, [Next]_vars, NEW w \in Visit
  PROVE  \/ Untouched(w)
         \/ OpenPage(w) \/ unlock(w) \/ start(w)
         \/ \E t \in tasks[w] : TaskStep(w, t)
<1> USE DEF Untouched
<1>1. CASE UNCHANGED download_vars
  BY <1>1 DEF download_vars
<1>2. ASSUME NEW v \in Visit, v # w, OpenPage(v) \/ unlock(v) \/ start(v) PROVE Untouched(w)
  BY <1>2 DEF OpenPage, unlock, start, Show, Spawn, IInv, TypeOK, DownloadTypeOK
<1>3. ASSUME NEW v \in Visit, v # w, NEW t \in tasks[v], TaskStep(v, t) PROVE Untouched(w)
  <2>1. CASE ParamsRefused(v, t)
    BY <1>3, <2>1 DEF ParamsRefused, is_missing, Show, Ends, IInv, TypeOK, DownloadTypeOK
  <2>2. CASE ParamsOk(v, t)
    BY <1>3, <2>2 DEF ParamsOk, Show, Ends, Goes, IInv, TypeOK, DownloadTypeOK
  <2>3. CASE ResolveOk(v, t)
    BY <1>3, <2>3 DEF ResolveOk, Show, Ends, IInv, TypeOK, DownloadTypeOK
  <2>4. CASE ResolveErr(v, t)
    BY <1>3, <2>4 DEF ResolveErr, Show, Ends, IInv, TypeOK, DownloadTypeOK
  <2>5. CASE BlobGranted(v, t)
    BY <1>3, <2>5 DEF BlobGranted, Goes, IInv, TypeOK, DownloadTypeOK
  <2>6. CASE DownloadErr(v, t)
    BY <1>3, <2>6 DEF DownloadErr, Show, Ends, IInv, TypeOK, DownloadTypeOK
  <2>7. CASE DownloadOk(v, t)
    BY <1>3, <2>7 DEF DownloadOk, Show, Ends, IInv, TypeOK, DownloadTypeOK
  <2> QED BY <1>3, <2>1, <2>2, <2>3, <2>4, <2>5, <2>6, <2>7 DEF TaskStep
<1>4. UNCHANGED download_vars \/ DownloadNext
  BY DEF Next, vars
<1> HIDE DEF Untouched
<1> QED BY <1>1, <1>2, <1>3, <1>4 DEF DownloadNext

(* A page starts a task only when it has none, and shows the end of each. *)
LEMMA AwaitedStep == IInv /\ [Next]_vars => (\A w \in Visit : Awaited(w))'
<1> SUFFICES ASSUME IInv, [Next]_vars, NEW w \in Visit PROVE Awaited(w)'
  OBVIOUS
<1>0. Awaited(w) /\ DownloadTypeOK /\ OutOfDate(w) /\ LinkTypeOK
  BY DEF IInv, TypeOK
<1>00. PageOps(w)
  BY <1>0, PageHelpers
<1>1. CASE Untouched(w)
  BY <1>0, <1>1 DEF Untouched, Awaited
<1>2. CASE OpenPage(w)
  <2>1. /\ NewTask("params", None).do = "params" /\ tasks[w] = {}
    BY <1>0, <1>00, <1>2, NewTaskType DEF OpenPage, Awaited
  <2>2. \/ view'[w] = "Failed" /\ tasks'[w] = {} /\ link'[w] = link[w]
        \/ /\ view'[w] = "Loading" /\ tasks'[w] = {NewTask("params", None)} /\ link'[w] # None
    BY <1>0, <1>00, <1>2, <2>1, LinkAssumption
      DEF OpenPage, DownloadTypeOK, LinkTypeOK, PageOps
  <2>3. salt'[w] = salt[w] /\ unlocked'[w] = None
    BY <1>0, <1>00, <1>2 DEF OpenPage, Awaited
  <2> QED BY <2>1, <2>2, <2>3 DEF Awaited
<1>3. CASE unlock(w)
  <2>0. view[w] \in {"NeedPassphrase", "WrongPassphrase"}
    BY <1>0, <1>00, <1>3 DEF unlock
  <2>1. tasks[w] = {} /\ unlocked[w] = None /\ link[w] # None /\ salt[w] \in Salt
    BY <1>0, <2>0 DEF Awaited, DownloadTypeOK, Task
  <2>2. PICK p \in Passphrase : Spawn(w, "unlock", PassCap(p, salt[w]))
    BY <1>0, <1>00, <1>3 DEF unlock
  <2> DEFINE t == NewTask("unlock", PassCap(p, salt[w]))
  <2>3. t.do = "unlock" /\ t.cap # None
    BY <1>0, <1>00, <1>3, <2>1, PassCapType, NewTaskType, LinkAssumption DEF unlock
  <2>4. tasks'[w] = {t} /\ view'[w] = "Working" /\ UNCHANGED <<link, salt, unlocked>>
    BY <1>0, <1>00, <1>3, <2>1, <2>2 DEF unlock, PageOps
  <2> HIDE DEF t
  <2> QED BY <2>1, <2>3, <2>4, LinkAssumption DEF Awaited
<1>4. CASE start(w)
  <2>1. tasks[w] = {} /\ link[w] # None /\ unlocked[w] # None /\ unlocked[w].cap \in Cap
    BY <1>0, <1>00, <1>4 DEF start, CanStart, Awaited, OutOfDate, DownloadTypeOK, Unlocked
  <2> DEFINE t == NewTask("blob", unlocked[w].cap)
  <2>2. t.do = "blob" /\ t.cap # None
    BY <1>0, <1>00, <1>4, <2>1, NewTaskType, LinkAssumption DEF start
  <2>3. tasks'[w] = {t} /\ view'[w] = "Working" /\ UNCHANGED <<link, salt, unlocked>>
    BY <1>0, <1>00, <1>4, <2>1 DEF start, PageOps
  <2> HIDE DEF t
  <2> QED BY <2>1, <2>2, <2>3 DEF Awaited
<1>5. ASSUME NEW t \in tasks[w], ParamsRefused(w, t) PROVE Awaited(w)'
  BY <1>0, <1>00, <1>5, LinkAssumption, DownloadAssumption
    DEF ParamsRefused, Awaited, DownloadTypeOK, PageOps
<1>6. ASSUME NEW t \in tasks[w], ParamsOk(w, t) PROVE Awaited(w)'
  <2>1. /\ view[w] = "Loading" /\ link[w] \in Share /\ unlocked[w] = None /\ t \in Task
        /\ \A u \in tasks[w] : u = t
    BY <1>0, <1>00, <1>6 DEF ParamsOk, Awaited, DownloadTypeOK
  <2>2. UNCHANGED <<link, unlocked>> /\ salt'[w] = shares[link[w]].salt
    BY <1>0, <1>00, <1>6 DEF ParamsOk, DownloadTypeOK
  <2>3. CASE shares[link[w]].salt = None
    <3> DEFINE u == NextTask(t, "resolve", LinkCap(link[w]))
    <3>1. u.do = "resolve" /\ u.cap # None
      BY <2>1, NextTaskType, LinkAssumption DEF Cap
    <3>2. tasks'[w] = {u} /\ view'[w] = view[w]
      BY <1>0, <1>00, <1>6, <2>1, <2>3 DEF ParamsOk, PageOps
    <3> HIDE DEF u
    <3> QED BY <2>1, <2>2, <3>1, <3>2, LinkAssumption DEF Awaited
  <2>4. CASE shares[link[w]].salt # None
    <3>1. tasks'[w] = {} /\ view'[w] = "NeedPassphrase"
      BY <1>0, <1>00, <1>6, <2>1, <2>4 DEF ParamsOk, PageOps
    <3> QED BY <2>1, <2>2, <2>4, <3>1, LinkAssumption DEF Awaited
  <2> QED BY <2>3, <2>4
<1>7. ASSUME NEW t \in tasks[w], ResolveOk(w, t) PROVE Awaited(w)'
  BY <1>0, <1>00, <1>7, LinkAssumption, DownloadAssumption
    DEF ResolveOk, Awaited, DownloadTypeOK, PageOps
<1>8. ASSUME NEW t \in tasks[w], ResolveErr(w, t) PROVE Awaited(w)'
  <2>1. /\ link[w] # None /\ unlocked[w] = None /\ \A u \in tasks[w] : u = t
        /\ t.do = "unlock" => salt[w] # None
    BY <1>0, <1>00, <1>8 DEF ResolveErr, Awaited
  <2>2. tasks'[w] = {} /\ UNCHANGED <<link, salt, unlocked>>
    BY <1>0, <1>00, <1>8, <2>1 DEF ResolveErr, PageOps
  <2>3. view'[w] = IF t.do = "unlock" THEN "WrongPassphrase" ELSE "Failed"
    BY <1>0, <1>00, <1>8 DEF ResolveErr, PageOps
  <2> QED BY <2>1, <2>2, <2>3 DEF Awaited
<1>9. ASSUME NEW t \in tasks[w], BlobGranted(w, t) PROVE Awaited(w)'
  <2>1. /\ view[w] = "Working" /\ unlocked[w] # None /\ t.cap # None /\ t \in Task
        /\ link[w] # None /\ \A u \in tasks[w] : u = t
    BY <1>0, <1>00, <1>9 DEF BlobGranted, Awaited, DownloadTypeOK, OutOfDate
  <2> DEFINE u == NextTask(t, "stream", t.cap)
  <2>2. u.do = "stream" /\ u.cap = t.cap
    BY <2>1, NextTaskType DEF Task
  <2>3. tasks'[w] = {u} /\ UNCHANGED <<link, view, salt, unlocked>>
    BY <1>0, <1>00, <1>9, <2>1 DEF BlobGranted, PageOps
  <2> HIDE DEF u
  <2> QED BY <2>1, <2>2, <2>3 DEF Awaited
<1>10. ASSUME NEW t \in tasks[w], DownloadErr(w, t) PROVE Awaited(w)'
  BY <1>0, <1>00, <1>10, LinkAssumption, DownloadAssumption
    DEF DownloadErr, Awaited, DownloadTypeOK, PageOps
<1>11. ASSUME NEW t \in tasks[w], DownloadOk(w, t) PROVE Awaited(w)'
  BY <1>0, <1>00, <1>11, LinkAssumption, DownloadAssumption
    DEF DownloadOk, Awaited, DownloadTypeOK, PageOps
<1> QED BY OnePage, <1>1, <1>2, <1>3, <1>4, <1>5, <1>6, <1>7, <1>8, <1>9, <1>10, <1>11
          DEF TaskStep

(* What a page knows of its share was true, and only becomes less. *)
LEMMA OutOfDateStep == IInv /\ [Next]_vars => (\A w \in Visit : OutOfDate(w))'
<1> SUFFICES ASSUME IInv, [Next]_vars, NEW w \in Visit PROVE OutOfDate(w)'
  OBVIOUS
<1>0. /\ Awaited(w) /\ DownloadTypeOK /\ OutOfDate(w) /\ LinkTypeOK
      /\ link[w] # None => OnlyLess(link[w])
      /\ unlocked[w] # None => unlocked[w].left \in Nat
  BY LessAndLess DEF IInv, TypeOK, DownloadTypeOK, Unlocked, OutOfDate
<1>00. PageOps(w)
  BY <1>0, PageHelpers
<1>1. CASE Untouched(w)
  BY <1>0, <1>1 DEF Untouched, OutOfDate, OnlyLess
<1>2. CASE OpenPage(w)
  <2>1. unlocked'[w] = None /\ view'[w] \in {"Failed", "Loading"}
    BY <1>0, <1>00, <1>2 DEF OpenPage, PageOps, Awaited
  <2>2. link'[w] # None => link'[w] \in handed'
    BY <1>0, <1>00, <1>2 DEF OpenPage, DownloadTypeOK, LinkTypeOK, OutOfDate, server
  <2> QED BY <2>1, <2>2 DEF OutOfDate
<1>3. CASE unlock(w)
  <2>1. /\ view'[w] = "Working" /\ link'[w] = link[w] /\ unlocked'[w] = unlocked[w]
    BY <1>0, <1>00, <1>3 DEF unlock, PageOps
  <2> QED BY <1>0, <2>1 DEF OutOfDate, OnlyLess
<1>4. CASE start(w)
  <2>1. /\ view'[w] = "Working" /\ link'[w] = link[w] /\ unlocked'[w] = unlocked[w]
    BY <1>0, <1>00, <1>4 DEF start, PageOps
  <2> QED BY <1>0, <2>1 DEF OutOfDate, OnlyLess
<1>5. ASSUME NEW t \in tasks[w], ParamsRefused(w, t) PROVE OutOfDate(w)'
  <2>1. /\ view'[w] = "Gone" => params(link[w]) = "missing" /\ link[w] # None
        /\ link'[w] = link[w] /\ unlocked'[w] = unlocked[w]
    BY <1>0, <1>00, <1>5 DEF ParamsRefused, is_missing, PageOps, Awaited
  <2> QED BY <1>0, <2>1 DEF OutOfDate, OnlyLess
<1>6. ASSUME NEW t \in tasks[w], ParamsOk(w, t) PROVE OutOfDate(w)'
  <2>1. view'[w] # "Gone" /\ link'[w] = link[w] /\ unlocked'[w] = unlocked[w]
    BY <1>0, <1>00, <1>6 DEF ParamsOk, PageOps, Awaited
  <2> QED BY <1>0, <2>1 DEF OutOfDate, OnlyLess
<1>7. ASSUME NEW t \in tasks[w], ResolveOk(w, t) PROVE OutOfDate(w)'
  <2>1. link[w] \in Share /\ link[w] \in handed /\ shares[link[w]] \in ShareRec
    BY <1>0, <1>00, <1>7
      DEF ResolveOk, metadata, Awaited, OutOfDate, DownloadTypeOK, LinkTypeOK
  <2>2. /\ view'[w] = "Ready" /\ link'[w] = link[w]
        /\ unlocked'[w] = [cap |-> t.cap, file |-> shares[link[w]].file,
                          left |-> shares[link[w]].left]
        /\ shares' = shares /\ handed' = handed
    BY <1>0, <1>00, <1>7 DEF ResolveOk, DownloadTypeOK, PageOps, server
  <2>3. unlocked'[w].left = shares[link[w]].left /\ shares[link[w]].left \in Nat
    BY <2>1, <2>2 DEF ShareRec
  <2>4. shares'[link'[w]].left <= unlocked'[w].left
    BY <2>2, <2>3
  <2> QED BY <2>1, <2>2, <2>4, LinkAssumption DEF OutOfDate
<1>8. ASSUME NEW t \in tasks[w], ResolveErr(w, t) PROVE OutOfDate(w)'
  <2>1. view'[w] # "Gone" /\ link'[w] = link[w] /\ unlocked'[w] = unlocked[w]
    BY <1>0, <1>00, <1>8 DEF ResolveErr, PageOps, Awaited
  <2> QED BY <1>0, <2>1 DEF OutOfDate, OnlyLess
<1>9. ASSUME NEW t \in tasks[w], BlobGranted(w, t) PROVE OutOfDate(w)'
  <2>1. view'[w] # "Gone" /\ link'[w] = link[w] /\ unlocked'[w] = unlocked[w]
    BY <1>0, <1>00, <1>9 DEF BlobGranted, PageOps, Awaited
  <2> QED BY <1>0, <2>1 DEF OutOfDate, OnlyLess
<1>10. ASSUME NEW t \in tasks[w], DownloadErr(w, t) PROVE OutOfDate(w)'
  <2>1. view'[w] # "Gone" /\ link'[w] = link[w] /\ unlocked'[w] = unlocked[w]
    BY <1>0, <1>00, <1>10 DEF DownloadErr, PageOps, Awaited
  <2> QED BY <1>0, <2>1 DEF OutOfDate, OnlyLess
<1>11. ASSUME NEW t \in tasks[w], DownloadOk(w, t) PROVE OutOfDate(w)'
  <2>1. view'[w] # "Gone" /\ link'[w] = link[w] /\ unlocked'[w] = unlocked[w]
    BY <1>0, <1>00, <1>11 DEF DownloadOk, PageOps, Awaited
  <2> QED BY <1>0, <2>1 DEF OutOfDate, OnlyLess
<1> QED BY OnePage, <1>1, <1>2, <1>3, <1>4, <1>5, <1>6, <1>7, <1>8, <1>9, <1>10, <1>11
          DEF TaskStep

(* Numbers come fresh, and go; the link of one that goes may be handed on. *)
LEMMA UploadMoves ==
  ASSUME IInv, UploadNext
  PROVE  \/ UploadNumbers' \subseteq UploadNumbers /\ handed' = handed
         \/ \E n \in Share : /\ sealed[n] = None /\ sealed'[n] # None
                            /\ UploadNumbers' \subseteq {n} /\ handed' = handed
         \/ \E n \in UploadNumbers : UploadNumbers' = {} /\ handed' = handed \cup {n}
<1>0. /\ \A t \in uploads : t \in UploadTask /\ \A u \in uploads : u = t
      /\ CanSubmit => uploads = {}
  BY DEF IInv, TypeOK, UploadTypeOK, OneUpload, CanSubmit, busy
<1>1. CASE UNCHANGED <<uploads, handed>>
  BY <1>1 DEF UploadNumbers
<1>2. CASE submit
  <2>1. PICK n \in Share :
          /\ Draw(n, file, passphrase)
          /\ uploads' = uploads \cup {[n |-> n, file |-> file, pass |-> passphrase,
                                   ask |-> max_downloads, step |-> "seal"]}
    BY <1>2 DEF submit
  <2>2. uploads = {} /\ handed' = handed /\ file \in File /\ passphrase \in Passphrase
    BY <1>0, <1>2 DEF submit, CanSubmit, IInv, TypeOK, UploadTypeOK
  <2>3. sealed[n] = None /\ sealed'[n] # None
    BY <2>1, <2>2, FreshNumber, LinkAssumption DEF IInv, TypeOK, LinkTypeOK, Drawn
  <2>4. UploadNumbers' \subseteq {n}
    BY <2>1, <2>2 DEF UploadNumbers
  <2> QED BY <2>2, <2>3, <2>4
<1>3. ASSUME NEW t \in uploads, Sealed(t)
      PROVE  UploadNumbers' \subseteq UploadNumbers /\ handed' = handed
  <2>1. uploads' = {[t EXCEPT !.step = "post"]} /\ handed' = handed
    BY <1>0, <1>3 DEF Sealed, Becomes, server
  <2> QED BY <1>0, <2>1 DEF UploadNumbers, UploadTask
<1>4. ASSUME NEW t \in uploads, Posted(t)
      PROVE  UploadNumbers' \subseteq UploadNumbers /\ handed' = handed
  <2>1. uploads' = {[t EXCEPT !.step = "stored"]} /\ handed' = handed
    BY <1>0, <1>4 DEF Posted, Becomes
  <2> QED BY <1>0, <2>1 DEF UploadNumbers, UploadTask
<1>5. ASSUME NEW t \in uploads, UploadOk(t)
      PROVE  t.n \in UploadNumbers /\ UploadNumbers' = {} /\ handed' = handed \cup {t.n}
  <2>1. uploads' = {} /\ handed' = handed \cup {t.n}
    BY <1>0, <1>5 DEF UploadOk
  <2> QED BY <2>1 DEF UploadNumbers
<1>6. ASSUME NEW t \in uploads, UploadErr(t)
      PROVE  UploadNumbers' \subseteq UploadNumbers /\ handed' = handed
  BY <1>6 DEF UploadErr, UploadNumbers, server
<1>7. \/ UNCHANGED <<uploads, handed>> \/ submit
      \/ \E t \in uploads : Sealed(t) \/ Posted(t) \/ UploadOk(t) \/ UploadErr(t)
  BY DEF UploadNext, UploadStep, accept, Replace, SetOptions, delete, DeleteDone, server
<1> QED BY <1>1, <1>2, <1>3, <1>4, <1>5, <1>6, <1>7

(* The same for the command that takes a step. *)
CliMove(c) ==
  /\ \A d \in Command : d # c => cmd'[d] = cmd[d]
  /\ \/ ~ Sends(c)' /\ handed' = handed
     \/ Sends(c) /\ Sends(c)' /\ cmd'[c].share = cmd[c].share /\ handed' = handed
     \/ /\ Sends(c)' /\ sealed[cmd'[c].share] = None /\ sealed'[cmd'[c].share] # None
        /\ handed' = handed
     \/ Sends(c) /\ ~ Sends(c)' /\ handed' = handed \cup {cmd[c].share}

LEMMA CliMoves ==
  ASSUME IInv, CliNext
  PROVE  \E c \in Command : CliMove(c)
<1>0. /\ cmd \in [Command -> Cmd] /\ sealed \in [Share -> Drawn \cup {None}]
      /\ \A c \in Command : cmd[c] \in Cmd
  BY DEF IInv, TypeOK, CliTypeOK, LinkTypeOK
<1>1. ASSUME NEW c \in Command, CliUpload(c) PROVE CliMove(c)
  <2>1. PICK n \in Share, f \in File, p \in Passphrase, a \in Budget :
          /\ Draw(n, f, p)
          /\ cmd' = [cmd EXCEPT ![c].step = "post", ![c].share = n, ![c].pass = p, ![c].ask = a]
    BY <1>1, Zenon DEF CliUpload
  <2>2. sealed[n] = None /\ sealed'[n] # None
    BY <1>0, <2>1, FreshNumber, LinkAssumption DEF Drawn
  <2>3. /\ cmd'[c].step = "post" /\ cmd'[c].share = n
        /\ \A d \in Command : d # c => cmd'[d] = cmd[d]
    BY <1>0, <2>1 DEF Cmd
  <2>4. handed' = handed
    BY <1>1 DEF CliUpload
  <2> QED BY <2>2, <2>3, <2>4 DEF CliMove, Sends
<1>2. ASSUME NEW c \in Command, NEW step \in {"ok", "error"}, Exit(c, step), handed' = handed
      PROVE  CliMove(c)
  BY <1>0, <1>2 DEF Exit, CliMove, Sends
<1>3. ASSUME NEW c \in Command, Printed(c) PROVE CliMove(c)
  BY <1>0, <1>3 DEF Printed, Exit, CliMove, Sends
<1>4. ASSUME NEW c \in Command, CliStored(c) PROVE CliMove(c)
  BY <1>0, <1>4 DEF CliStored, Goto, CliMove, Sends, Cmd
<1>5. ASSUME NEW c \in Command, CliMetadata(c) \/ CreateOutput(c) \/ CliBlob(c) PROVE CliMove(c)
  BY <1>0, <1>5 DEF CliMetadata, CreateOutput, CliBlob, Goto, CliMove, Sends, Cmd, server
<1>6. ASSUME NEW c \in Command, Download(c) PROVE CliMove(c)
  <2>1. PICK n \in handed, p \in Passphrase :
          cmd' = [cmd EXCEPT ![c].step = "params", ![c].share = n, ![c].pass = p]
    BY <1>6, Zenon DEF Download
  <2>2. cmd'[c].step = "params" /\ \A d \in Command : d # c => cmd'[d] = cmd[d]
    BY <1>0, <2>1 DEF Cmd
  <2>3. handed' = handed
    BY <1>6 DEF Download, server
  <2> QED BY <2>2, <2>3 DEF CliMove, Sends
<1>7. ASSUME NEW c \in Command, CliParams(c) PROVE CliMove(c)
  <2>1. handed' = handed
    BY <1>7 DEF CliParams, server
  <2>2. CASE Exit(c, "error")
    BY <1>2, <2>1, <2>2
  <2>3. ASSUME NEW cap, cmd' = [cmd EXCEPT ![c].step = "metadata", ![c].cap = cap]
        PROVE  CliMove(c)
    BY <1>0, <2>1, <2>3 DEF CliMove, Sends, Cmd
  <2> QED BY <1>7, <2>2, <2>3 DEF CliParams
<1>8. ASSUME NEW c \in Command, CliSaved(c) \/ CliStreamErr(c) \/ CliErr(c) PROVE CliMove(c)
  BY <1>2, <1>8 DEF CliSaved, CliStreamErr, CliErr, server
<1> QED BY <1>1, <1>3, <1>4, <1>5, <1>6, <1>7, <1>8 DEF CliNext, CliStep

(* A number that is drawn is nobody else's. *)
LEMMA DrawnStep == IInv /\ [Next]_vars => DrawnOnce'
<1> SUFFICES ASSUME IInv, [Next]_vars PROVE DrawnOnce'
  OBVIOUS
<1>0. /\ DrawnOnce /\ handed \cup OnItsWay \subseteq Share
      /\ \A n \in Share : sealed[n] # None => sealed'[n] = sealed[n]
  BY UnderWay, OneWay DEF IInv, TypeOK, LinkTypeOK, ServerMoves
<1>1. CASE UploadNext /\ UNCHANGED <<download_vars, cli_vars>>
  <2>1. UNCHANGED cmd
    BY <1>1 DEF cli_vars
  <2>2. CliNumbers' = CliNumbers /\ \A c \in Command : Sends(c)' = Sends(c)
    BY <2>1 DEF CliNumbers, Sends
  <2> QED BY <1>0, <1>1, <2>1, <2>2, UploadMoves DEF DrawnOnce, OnItsWay
<1>2. CASE CliNext /\ UNCHANGED <<upload_vars, download_vars>>
  <2>1. PICK c \in Command : CliMove(c)
    BY <1>2, CliMoves
  <2>2. UploadNumbers' = UploadNumbers
    BY <1>2 DEF UploadNumbers, upload_vars
  <2>3. /\ \A d \in Command : d # c => cmd'[d] = cmd[d] /\ (Sends(d)' <=> Sends(d))
        /\ \A d \in Command : Sends(d) => cmd[d].share \in CliNumbers
        /\ \A n \in CliNumbers' : (Sends(c)' /\ n = cmd'[c].share)
                                 \/ \E d \in Command : d # c /\ Sends(d) /\ n = cmd[d].share
    BY <2>1 DEF CliMove, Sends, CliNumbers
  <2>4. CASE ~ Sends(c)' /\ handed' = handed
    BY <1>0, <2>2, <2>3, <2>4 DEF DrawnOnce, OnItsWay
  <2>5. CASE Sends(c) /\ Sends(c)' /\ cmd'[c].share = cmd[c].share /\ handed' = handed
    BY <1>0, <2>2, <2>3, <2>5 DEF DrawnOnce, OnItsWay
  <2>6. CASE /\ Sends(c)' /\ sealed[cmd'[c].share] = None /\ sealed'[cmd'[c].share] # None
             /\ handed' = handed
    BY <1>0, <2>2, <2>3, <2>6 DEF DrawnOnce, OnItsWay
  <2>7. CASE Sends(c) /\ ~ Sends(c)' /\ handed' = handed \cup {cmd[c].share}
    BY <1>0, <2>2, <2>3, <2>7 DEF DrawnOnce, OnItsWay
  <2> QED BY <2>1, <2>4, <2>5, <2>6, <2>7 DEF CliMove
<1>3. ASSUME UNCHANGED <<uploads, cmd, handed>> PROVE DrawnOnce'
  <2>1. /\ UploadNumbers' = UploadNumbers /\ CliNumbers' = CliNumbers
        /\ \A c \in Command : Sends(c)' <=> Sends(c)
    BY <1>3 DEF UploadNumbers, CliNumbers, Sends
  <2> QED BY <1>0, <1>3, <2>1 DEF DrawnOnce, OnItsWay
<1>4. CASE DownloadNext /\ UNCHANGED <<upload_vars, cli_vars>>
  <2>1. UNCHANGED handed
    BY <1>4 DEF DownloadNext, TaskStep, OpenPage, unlock, start, ParamsRefused, ParamsOk,
              ResolveOk,
                ResolveErr, BlobGranted, DownloadErr, DownloadOk, server
  <2> QED BY <1>3, <1>4, <2>1 DEF upload_vars, cli_vars
<1>5. CASE ServerNext /\ UNCHANGED <<upload_vars, download_vars, cli_vars>>
  <2>1. UNCHANGED handed
    BY <1>5, Zenon DEF ServerNext, Vanish, ChangePassword
  <2> QED BY <1>3, <1>5, <2>1 DEF upload_vars, cli_vars
<1>6. CASE UNCHANGED vars
  BY <1>3, <1>6 DEF vars, server, upload_vars, cli_vars
<1> QED BY <1>1, <1>2, <1>4, <1>5, <1>6 DEF Next

-----------------------------------------------------------------------------
(* The invariant, and the theorems. *)

LEMMA Inductive == IInv /\ [Next]_vars => IInv'
  BY LinkStep, UploadTypes, DownloadTypes, CliTypes, DrawnStep, SealedStep, OneUploadStep,
     ShownStep, DeletedStep, AwaitedStep, OutOfDateStep, PaysStep DEF IInv, TypeOK

(***************************************************************************)
(* A number is used by one task or command alone and its share stored once, *)
(* each page has one task at most, whose phase it shows, and what a page    *)
(* keeps of a share is out of date in one direction only.                   *)
(***************************************************************************)
THEOREM InductiveInvariant == Spec => []IInv
  BY Initially, Inductive, PTL DEF Spec

(* Types hold, for any number of pages, commands and shares. *)
THEOREM TypeCorrect == Spec => []TypeOK
<1>1. IInv => TypeOK
  BY DEF IInv
<1> QED BY InductiveInvariant, <1>1, PTL

(***************************************************************************)
(* The link on the upload page is to the file on it (upload.rs:239, 394).  *)
(***************************************************************************)
THEOREM LinkIsToTheFile == Spec => []ShownIsChosen
<1>1. IInv => ShownIsChosen
  BY DEF IInv, ShownIsSealed, ShownIsChosen
<1> QED BY InductiveInvariant, <1>1, PTL

(***************************************************************************)
(* Until its owner changes the password, the link on the page, with the    *)
(* passphrase shown beside it, opens the file on the page (upload.rs:95).  *)
(***************************************************************************)
THEOREM LinkOpensTheFile == Spec => []ShownOpens
<1>1. IInv => ShownOpens
  <2> SUFFICES ASSUME IInv, share # None, shares[share.n] # None, shares[share.n].changes = 0
               PROVE  /\ shares[share.n].auth = auth_of(share.n, share.pass, 0)
                      /\ shares[share.n].file = file
    BY DEF ShownOpens
  <2>1. share.n \in Share
    BY DEF IInv, TypeOK, UploadTypeOK, Shown
  <2>2. AsSealed(share.n) /\ ShownIsSealed
    BY <2>1 DEF IInv
  <2> QED BY <2>2 DEF AsSealed, ShownIsSealed
<1> QED BY InductiveInvariant, <1>1, PTL

(***************************************************************************)
(* A share the page calls deleted is gone for good (upload.rs:459).        *)
(***************************************************************************)
THEOREM DeletedStaysGone == Spec => []DeletedIsGone
<1>1. IInv => DeletedIsGone
  BY DEF IInv, DeletedForGood
<1> QED BY InductiveInvariant, <1>1, PTL

(***************************************************************************)
(* A download page never has two tasks (download.rs:304).                  *)
(***************************************************************************)
THEOREM NeverTwoTasks == Spec => []OneTask
<1>1. IInv => OneTask
  <2> SUFFICES ASSUME IInv, NEW v \in Visit PROVE Cardinality(tasks[v]) <= 1
    BY DEF OneTask
  <2>1. CASE tasks[v] = {}
    BY <2>1, FS_EmptySet
  <2>2. ASSUME NEW t \in tasks[v] PROVE Cardinality(tasks[v]) <= 1
    <3>1. tasks[v] = {t}
      BY <2>2 DEF IInv, Awaited
    <3>2. Cardinality({t}) = 1
      BY FS_Singleton
    <3> QED BY <3>1, <3>2
  <2> QED BY <2>1, <2>2
<1> QED BY InductiveInvariant, <1>1, PTL

(***************************************************************************)
(* "Gone" is said only of a share that is gone, and stays true             *)
(* (i18n.rs:310).                                                          *)
(***************************************************************************)
THEOREM GoneStaysGone == Spec => []GoneIsGone
<1>1. IInv => GoneIsGone
  BY DEF IInv, OutOfDate, GoneIsGone
<1> QED BY InductiveInvariant, <1>1, PTL

(***************************************************************************)
(* A command that leaves the file at its output path alone has paid for no *)
(* download (cli download.rs:62).                                          *)
(***************************************************************************)
THEOREM RefusedCostsNothing == Spec => []RefusedIsFree
<1>1. IInv => RefusedIsFree
  BY DEF IInv, PaysLate, RefusedIsFree
<1> QED BY InductiveInvariant, <1>1, PTL

(***************************************************************************)
(* A download granted to a page that warned is the last, however long ago  *)
(* it read what is left (i18n.rs:323).                                     *)
(***************************************************************************)
THEOREM WarnedWasRight == Spec => WarnedIsLast
<1>1. IInv /\ [Next]_vars =>
        [\A v \in Visit : spent'[v] > spent[v] /\ Warns(v) => params(link[v])' = "missing"]_spent
  <2> SUFFICES ASSUME IInv, [Next]_vars, NEW w \in Visit, spent'[w] > spent[w], Warns(w)
               PROVE  params(link[w])' = "missing"
    OBVIOUS
  <2>0. spent \in [Visit -> Nat] /\ DownloadTypeOK /\ LinkTypeOK /\ Awaited(w) /\ OutOfDate(w)
    BY DEF IInv, TypeOK, DownloadTypeOK
  <2>1. PICK t \in tasks[w] : BlobGranted(w, t)
    <3>1. spent'[w] # spent[w]
      BY <2>0
    <3>2. ASSUME UNCHANGED spent PROVE FALSE
      BY <3>1, <3>2
    <3>3. DownloadNext
      BY <3>2 DEF Next, vars, download_vars
    <3>4. PICK v \in Visit : \E t \in tasks[v] : BlobGranted(v, t)
      BY <3>2, <3>3
      DEF DownloadNext, TaskStep, OpenPage, unlock, start, ParamsRefused, ParamsOk, ResolveOk,
          ResolveErr, DownloadErr, DownloadOk
    <3>5. v = w
      BY <2>0, <3>1, <3>4 DEF BlobGranted
    <3> QED BY <3>4, <3>5
  <2>2. /\ link[w] \in Share /\ shares[link[w]] \in ShareRec /\ unlocked[w] # None
        /\ shares[link[w]].left > 0 /\ unlocked[w] \in Unlocked
    BY <2>0, <2>1, LetIn, LinkAssumption
    DEF BlobGranted, Awaited, OutOfDate, DownloadTypeOK, LinkTypeOK, params
  <2>3. shares[link[w]].left <= unlocked[w].left /\ unlocked[w].left <= 1
    BY <2>0, <2>2, LinkAssumption DEF OutOfDate, Warns
  <2>4. shares[link[w]].left - 1 = 0
    BY <2>2, <2>3 DEF ShareRec, Unlocked
  <2>5. link' = link /\ shares' = [shares EXCEPT ![link[w]].left = @ - 1]
    BY <2>1 DEF BlobGranted, claim
  <2>6. shares'[link[w]].left = 0
    BY <2>0, <2>2, <2>4, <2>5 DEF ShareRec, LinkTypeOK
  <2> QED BY <2>5, <2>6 DEF params
<1> QED BY InductiveInvariant, <1>1, PTL DEF Spec, WarnedIsLast

=============================================================================
