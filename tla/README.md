# senders: specifications, checks and proofs

`senders` is an end-to-end encrypted file sharing service. A client encrypts a
file, uploads the ciphertext and gets a link; whoever has the link may download
the ciphertext until a download budget or a lifetime runs out, or until the
owner deletes it. This directory models the server, its stores, its login and
both clients in TLA+, checks them with TLC and proves their safety with TLAPS.

Paths below are relative to `src/crates/` of the repository.

## 1. The system

| Component | Source | State | Operations | Talks to |
|---|---|---|---|---|
| Share handlers | `server/src/api.rs` | none of its own; what a request holds between two awaits | upload, download, owner delete, set password; read-only: params, metadata, owner, info | both stores |
| Destruction and expiry | `server/src/state.rs`, `reaper.rs` | the reaper's current batch; destroy tasks spawned from dropped bodies | `AppState::destroy` (blob, then metadata); `sweep` every interval | both stores |
| Metadata trait, in-memory store | `server/src/meta/mod.rs`, `memory.rs` | a map from id to `FileRecord` under a mutex | put, get, claim_download, set_auth, delete, expired | — |
| Metadata in Redis | `server/src/meta/redis.rs` | a hash with a TTL per share, one sorted set of expiry times | the same, as one to three Redis commands each; the claim is a script | Redis, shared by all replicas |
| Blob stores | `server/src/blob/` | one object per id, in a directory or a bucket | put (streamed, bounded), get, delete | file system, S3 |
| Limits | `server/src/config.rs`, `proto/src/lib.rs` | configuration | clamp a requested lifetime and budget | upload |
| Login and sessions | `server/src/auth.rs`, `auth/oidc.rs` | cookies only: a session, and one for the login under way | login, callback, logout; extractors in front of the handlers | the identity provider |
| Lifecycle | `server/src/main.rs`, `lib.rs` | the shutdown channel | start, graceful shutdown | server, reaper |
| Protocol | `proto/src/` | none | record framing, lengths, links, passphrases | both clients |
| Command-line client | `cli/src/` | the files it reads and writes | upload, download, info | server |
| Web client | `web/src/` | page signals | the upload and download pages | server |

A replica is one process: any number of handlers run as tasks, one reaper, and
the destroy tasks left behind by the bodies of last downloads. Replicas share
Redis and the blob store and nothing else. With metadata in memory there is one
replica, and its death loses the metadata.

### What is hard

- Every handler is several store calls with an await at each. Between them
  other requests, destroy tasks and reapers run, the share may expire, the
  client may go away (the handler's future is dropped), the replica may die.
- Two stores without a transaction: an upload writes the blob and then the
  record, a destroy removes the blob and then the record, and either half can
  fail, or succeed and lose its answer.
- In Redis, `put`, `set_auth` and `delete` are themselves several commands, and
  the TTL is a second timer that runs beside the reaper.
- Expiry relies on one periodic task per replica that must retry what failed
  and still get to the rest, with a bounded batch.
- A `put` is a sequence of file operations or S3 requests, fed by a body that may
  break off anywhere, and its future may be dropped at each of them.
- A login is two requests to any replica, joined only by a cookie that all tabs of
  a browser share.
- A body is sealed and opened record by record; the network cuts it elsewhere, and
  the server that keeps it need not be honest.
- The pages run tasks that outlive the click that started them, on state that the
  next click changes; what they know of a share may be out of date.

### What makes each part correct

- *Handlers*: a share is handed out at most as often as its uploader was told;
  exactly one download is the last, and it destroys the share; a share is taken
  away only for a cause (its time is up, its budget is spent, its owner asked);
  a share that is gone stays gone.
- *Destruction and expiry*: ciphertext of a published share never outlives its
  record; an expired share is gone in the end whatever fails in between.
- *Metadata*: a claim is an atomic check and increment; the methods that are
  several commands never show in between to a claim; the index never loses a
  share whose ciphertext exists.
- *Blob stores*: what is stored and served is a whole body; a put that failed
  leaves nothing.
- *Login*: a session belongs to the browser, the login and the user it came from,
  and ends in time; a login is refused for a cause only.
- *Transfer*: a download that succeeds saved exactly the file that was sealed, and
  an honest one succeeds.
- *Pages and commands*: what they say about a share is true, they pay for no
  download nobody asked for, and they come back from every failure of a request
  that ends.
- *Limits*: whatever is asked for, what is granted lies in the window of the
  server and of the protocol, and never is an empty budget.

`PROJECT.json` lists every hazard at its source line with the properties that
watch it.

## 2. Modules

| Module | What it is |
|---|---|
| `Limits` | the clamps of `config.rs` |
| `SharePromise` | abstract specification: the life of a share as its users may rely on it |
| `ShareServer` | handlers, destroy tasks and reapers over the two stores at the grain of their traits; extends `Limits`, refines `SharePromise` |
| `MetaStore` | abstract specification: the `MetaStore` trait, each method one step |
| `RedisMeta` | the Redis store command by command; refines `MetaStore` |
| `BlobStores` | `put`, `get` and `delete` of the file and the S3 store, call by call |
| `Framing` | record counts and lengths of `proto/src/lib.rs` |
| `Transfer` | a file from one client to another: sealing, an untrusted server, a network, opening; extends `Framing` |
| `Login` | the two requests of a login, logout, and what the replicas make of the cookies |
| `ShareLink` | a share as the clients see it, one step per request |
| `UploadPage`, `DownloadPage` | the pages of the web client; extend `ShareLink` |
| `CliCommands` | the commands of the command-line client; extends `ShareLink` |
| `Clients` | the pages and commands composed, on the shares of one server |
| `MCShareServer`, `MCLogin` | instances for TLC |
| `LimitsProofs` | what the clamps return |
| `ShareServerProofs` | type correctness, the inductive invariant and the safety theorems |
| `ShareServerRefines` | the proof that `ShareServer` implements `SharePromise` |
| `RedisMetaProofs` | the same for `RedisMeta`, and that it implements `MetaStore` |
| `BlobStoresProofs`, `LoginProofs`, `ClientsProofs` | the same for these modules |
| `TransferProofs` | the lengths and counts of `Framing` fit each other; the same for `Transfer` |

An operator whose comment begins "Seeded fault" is a plausible bug: a variant of
the operator after it. No action uses one; put in the other's place, it must
violate the property `PROJECT.json` names for it under `mutants`.

### ShareServer and the code

`at[a]` is the store call actor `a` makes next, so each of its values is an await
in the source:

| Handler | Steps | Source |
|---|---|---|
| upload | `put` → `record` → idle, or `undo` → idle | `blobs.put` api.rs:181, `meta.put` :209, `blobs.delete` :210 |
| download | `claim` → `open` → idle, or `openLast` → `lastBody` → `burnBlob` → `burnMeta` → idle | `claim_download` :305, `blobs.get` :316, the body, then `DestroyOnDrop` :278 and `destroy` state.rs:41 |
| owner delete | `delBlob` → `delMeta` → idle | api.rs:372, state.rs:42-43 |
| set password | `setAuth` → idle | api.rs:404 |
| reaper | `Sweep`, then per id `delBlob` → `delMeta` → idle | reaper.rs:41-57 |

`files` is the metadata store, `blobs` the ids ciphertext is stored under, `now`
the clock, `used` the ids drawn. `promised`, `grants` and `revoked` are history:
the budget the upload response named, the slots answered with success, the
owners who asked for deletion. A request slot is reused once it is idle.

`files` keeps a record until a destroy deletes it. For Redis this stands for
"the hash or its index entry": the TTL that drops the hash an hour after expiry
is in `RedisMeta`, where `IndexKept` shows that the index entry stays.

Failures, each switched by `Faults`: `"meta"` and `"blob"` (the store reports an
error; the call may have taken effect all the same), `"hangup"` (the client goes
away and the future is dropped at an await; once the last body exists its guard
runs instead), `"crash"` (`Durable`: one actor of a replica loses what it was
doing — a replica dying is as many of these steps as it had actors; not
`Durable`: the one process restarts and the map is empty). `Stuck` are shares
whose ciphertext the blob store never manages to delete.

What the model abstracts: keys stand for the auth hashes they are checked
against, so a correct key is one that equals the record's; the owner token, the
metadata ciphertext, sizes and salts change no control flow after their checks;
requests that are refused before they change anything take no step; a non-last
response needs nothing more from the server once its stream is open.

### RedisMeta and the code

One action per Redis command, between the call that begins a method and its
return: `put` is `PutHset`, `PutExpire`, `PutZadd` (redis.rs:98-121),
`claim_download` is `ClaimScript` (one script, atomic), `set_auth` is `LoadRec`,
`LoadDownloads`, `SetAuthHset` (:77-78, :155), `delete` is `DeleteDel`,
`DeleteZrem` (:164-165). `hash[id]` has the fields `rec`, `downloads` and
`max_downloads` and the TTL; a hash with none of them is one that does not
exist. `Drop` ends a caller between two commands. The TTL runs with the clock: a
tick drops every hash whose time is up, which in `MetaStore` is `expire` and takes
several records at once, each past its expiry. The blob an upload stores
first and a destroy deletes first is kept, because that is what the commands
race with.

### BlobStores and the code

`at[id]` is the call the put of `id` makes next. For the file store these are
`create`, `write` (each chunk), `sync`, `rename`, and `remove` after a failure
(fs.rs:32-76); for S3 `fill` (the first part is buffered), then `putObject` for a
short body, or `createUpload`, `stream`, `tail`, `complete`, and `abort` after a
failure of `stream` or `tail` (s3.rs:50-146, 176-212). A body is counted in
units; what is stored is the sequence of pieces of it, so that one without its
end or a part can be told from a whole one. `Faults`: the body breaks off, a call
fails, a call takes effect and its answer is lost, a clean-up fails, the future
is dropped, the host stops (a file that was not synced loses its end; a rename is
taken to be durable, although the directory is not synced).

### Transfer and the code

`sender` and `receiver` are each the CLI or the web client. They differ in how
they read (the CLI reads on until a record is full, `CliRead`, cli/transfer.rs:40;
the web client slices by offset, `WebSlice`) and in what a failure leaves (the
CLI writes each record as it opens, the web client hands the file over in the
end, through `BlobBuilder`: `push`, `finish`). A ciphertext is a sequence of
cells that know their record; only all cells of one record, in order, opened with
its own counter and final flag, give its units back. That is all that is assumed
of the cipher. The server may send a body with cells cut out, repeated, moved or
replaced, and name any length (`Serve`); the file may change while it is read.

### Login and the code

The server keeps nothing: `flow[b]` and `session[b]` are cookies of a browser,
and a cookie is worth what the replica that reads it can verify (`key`: the shared
secret, or one drawn at start-up). `login` and `callback` may be answered by
different replicas; `callback` awaits the token endpoint between `callback` and
`FinishLogin`, while other tabs go on. Callback addresses are opened again,
anywhere (`OpenAgain`); replicas restart. The provider and its token endpoint are
external: it says who logged in, or refuses, and honours a code once.

### The clients and the code

`ShareLink` answers a request in one step (`ShareServer` opens it); everything
else that ends a share is `Vanish`. A password change is one such step, so the
race of `RedisResurrected` is not visible in `DeletedIsGone` and `GoneIsGone`: they
speak of a store whose `set_auth` is atomic, and over Redis a share the page says
is deleted may show its metadata again. On the pages, every handler of an event is an
action that changes the page at once and may start a task; every await of a task
ends a step. Nothing in the model keeps a page to one task: that is left to the
buttons the pages disable (`CanSubmit`, `CanReplace`, `CanStart`), and
`ShownIsChosen` and `OneTask` check that it is enough. `CliCommands` runs each
command straight through its requests; `out` is the file at the output path.

## 3. What TLC checks

One unit of time is the protocol's shortest lifetime (a day).

| Run | Instance | Properties | What it shows |
|---|---|---|---|
| `ServerHandlers` | 1 share, 3 requests, 2 keys, a reaper, no faults, handlers fair | `TypeOK`, `BudgetKept`, `OneFinalSlot`, `SpentHasBurner`, `SpentIsBurnt` | interleavings alone break nothing; a spent share always has someone about to destroy it and is destroyed without its expiry |
| `ServerFaults` | 1 share, 3 requests, 2 replicas, every fault | `NoOrphan`, `IInv`, `KeepsPromise` | the refinement of `SharePromise`, and the inductive invariant of the proofs |
| `ServerReap` | 3 shares, one of them stuck, batch of 2, a backlog at the start; stores fail, replicas die, reaper fair | `EventuallyGone` | every published share that can be deleted is gone in the end, also when more have expired than a sweep takes and one of them never goes |
| `ServerMemory` | metadata in memory, restarts | `NeverReturns` | a restart brings nothing back |
| `RedisRaces` | 1 share, 2 callers, calls dropped anywhere, the TTL may fire first, reaping fair | `TypeOK`, `BudgetKept`, `IndexKept`, `NoGrantAfterDelete`, `KeepsTrait`, `EventuallyCollected` | to a claim, every interleaving of commands is a sequence of whole methods; the index and the blob store are emptied in the end |
| `BlobStores` | bodies of up to 8 units in chunks of 1 to 3, parts of 3; every fault | `TypeOK`, `OnlyWhole`, `PartsLegal`, `RefusedLeavesNothing` | only whole bodies are stored and served, every multipart upload is a legal one, a refused body leaves nothing |
| `Transfer` | files of 0 to 5 units, records of 2 and a tag, network chunks of 1 and 4; all four pairs of clients; every fault | `TypeOK`, `SavedIsWhole`, `OutputIsPrefix`, `HonestOpens`, `LengthsAgree` | success means the whole file, nothing else is ever written, an honest transfer succeeds |
| `Login` | 2 tabs and 1 tab of 2 browsers, 2 replicas, 2 logins, a restart, one clock tick | `TypeOK`, `SessionIsItsOwn`, `AdmittedInTime`, `RefusedForCause`, `FinishedOnce`, `SignedInStays` | sessions are their own and end in time; logins fail for a cause; who is signed in stays so at every replica; with and without a shared secret |
| `Clients` | an upload page, a download page, a command; 2 shares, a password change, 5 clicks; pages and commands fair | `TypeOK`, `ShownIsChosen`, `ShownOpens`, `DeletedIsGone`, `OneTask`, `GoneIsGone`, `RefusedIsFree`, `WarnedIsLast`, `Settles` | the pages say nothing false, pay for nothing unasked, and settle as long as every request ends |

Bounds. One share suffices for the safety of a share, since handlers of
different shares touch different records and objects; three appear where they
compete (`ServerReap`). There two shares have expired at the start (`Backlog`, at
the same time or one after the other) and a third is uploaded and expires
beside them, while one sweep takes two and the stuck share, whatever its rank,
keeps its place. So a sweep has to leave a share out, by rank, and the share it
leaves out has to get its turn. Three requests
are the smallest number with a last download, an earlier download and a third
party (owner, late downloader) at once; two replicas let one reaper overtake the
other. Budgets of 1 and 2 give a share with and without a slot before the last.
`MaxNow` stops the clock only when no record is left to expire, so every expiry
happens. In `ServerHandlers` uploads leave the budget header out, ask for less
than the window allows (0) and for more (5), so each branch of the clamp occurs;
lifetimes of one and two units move the expiry against the other steps. 
`RedisRaces` has two callers, since two are what races in one hash needs (one
mid-way through its commands, one that overtakes it); a caller goes on to another
method when one is done. It has one key, so the write of `set_auth` changes
nothing that `MetaStore` sees; that it is the trait's `set_auth` when the key
changes is left to the proof (`ImplementsTrait`). In `BlobStores` 8 units are two full parts and a short
one, and sizes on, before and after a part boundary and at the limit all occur;
one id suffices, as ids share no file or key. In `Transfer` 5 units are two full
records and a short one, 0, 2 and 4 are the boundaries, and chunks of 1 and 4
deliver less and more than a record; two records per `Blob` spill and leave
some. Two logins in `Login` (`MaxFlow`) are one for each of two tabs, or a second
try; a lifetime of one tick makes every cookie expire. In `Clients` `MaxClick`
counts what people do, over both pages, the command and owners: five are, with a
share uploaded by the command, an opened page, a passphrase, a download and a
changed password, or, on the two pages, a file, an upload, an opened page, a
download and one click more; tasks and the server go on without clicks. `MaxSalt` allows one password change per share.
Where
request slots or callers are interchangeable some safety runs use symmetry; no
liveness run does. Deadlock is not checked: a server without work, at the end of the
clock's bound, rightly stops.

Fairness. `ReapFairness`: the clock ticks; a reaper's ticker goes on
(`tokio::time::interval` in reaper.rs:23, restarted with its pod); a destroy
that was begun returns, and a call that can succeed on one share does not fail
every time (strong fairness per share: `DestroyBlob`, `DestroyMeta`). That is
what "transient failure" means; what fails for ever is in `Stuck`. Replicas may
go on dying, but not always with part of their batch still ahead: one that dies
in each sweep at the same share never gets to the shares ranked after it.
`HandlerFairness`: a handler or destroy that can run does (the runtime polls
ready tasks) and every body ends (hyper drops it when the connection does). `RedisFairness`:
a command is answered or fails, and no command of a destroy fails for ever.
In `Clients` the specification assumes only that the steps which wait for no
answer go on (`Fairness`: sealing, creating the output file). That every request is
answered or breaks, and every body ends, is `RequestsEnd`, a hypothesis of
`Settles`: no client enforces it, since the CLI's `reqwest::Client::new()`
(cli/src/main.rs:11) and the web client's requests (web/src/api.rs:91, :186) set
no timeout. Without it TLC finds an upload that waits for ever. Nothing is assumed
of people and owners. The other modules have safety properties only.

### What the repository says and the code does not do

Each is a run in which TLC finds the quoted statement violated (`findings` in
`PROJECT.json` has the quotations).

| Run | What happens |
|---|---|
| `RedisResurrected` | `set_auth` has read the record, `delete` deletes it, `set_auth` writes it back: metadata of a deleted share is served again, without TTL (redis.rs:151-159 against server/tests/api.rs:342). It grants nothing (`NoGrantAfterDelete`): `max_downloads` is missing |
| `SpentUnburnt` | the client leaves, or the open fails, after the last claim and before the guard exists: the spent share waits for its expiry (api.rs:305-327 against :269) |
| `BlobLeftover` | completing a multipart upload fails and is not followed by an abort, or a rename fails and the `.part` file stays (s3.rs:78-90, fs.rs:65-67 against blob/mod.rs:36, s3.rs:50) |

The models show more of the kind, which no run is spent on:

- `RedisMeta`: a replica that dies between HSET and EXPIRE leaves a hash with no
  TTL and in no index (redis.rs:98-121 against :10).
- `ShareServer`: as many undeletable shares as the batch is long, ranked first,
  starve every other expired share (reaper.rs:42); `ServerReap` leaves one place.
  An earlier download whose slot was counted finds the ciphertext destroyed by
  the last one and is answered 404 (api.rs:305, :316). The undo of a failed
  upload may fail as well, or never run, which leaves ciphertext without a record
  (api.rs:210 against :207).
- `Transfer`: a CLI download that fails at its end leaves the records before it
  at the output path (cli/transfer.rs:84 against :60 "as an error rather than as
  partial data"); the front it leaves is authentic (`OutputIsPrefix`).
- `Framing`: `plaintext_len` also answers for full records and a lone tag, which
  `ciphertext_len` never gives (proto/src/lib.rs:245 against :228); only a file
  that shrank while it was sealed makes such a body.
- `Login`: a logout does not stop a callback that waits for the provider; the
  session appears after it.
- `UploadPage`: the download limit shown is the one asked for, not the one the
  server settled on (upload.rs:178); a second upload replaces the link and owner
  token of the first.
- `DownloadPage`: whatever fails in an unlock is shown as a wrong passphrase
  (download.rs:131), also when the salt the page keeps is out of date.
- `Clients`: a server that takes a request and never answers it keeps a page busy,
  or a command running, as long as the connection lasts (cli/src/main.rs:11,
  web/src/api.rs:91, :186: no timeout is set).
- `CliCommands`: the output file is emptied before the download is granted
  (cli/commands/download.rs:62).

A download checks the key and the expiry on the record `load` read and claims
afterwards; the claim looks at neither again (memory.rs:37-51, redis.rs:37-49).
A share that expires, or whose password changes, in between still serves that
download. The model keeps this (`DownloadStart`, `ClaimGranted`); no property
forbids it.

## 4. What is proved

TLC checks the instances above; TLAPS proves, for every value of the constants,
every safety property that a passing run checks and the two refinements: for
every number of shares, requests, replicas, callers, tabs, browsers, pages and
commands, for bodies, chunks, parts and records of every size, and for every
combination of faults. A row names the property the theorem is about (`Spec` of
the module without `Proofs` implies it, always).

| Theorem | Property | It says |
|---|---|---|
| `LimitsProofs!ExpiryInWindow`, `BudgetInWindow` | | whatever is asked for, the lifetime and the budget granted lie in the server's window and in the protocol's, and no budget is empty |
| `ShareServerProofs!TypeCorrect`, `InductiveInvariant` | `TypeOK`, `IInv` | |
| `ShareServerProofs!BudgetNeverExceeded` | `BudgetKept` | no share is handed out more often than its uploader was told |
| `ShareServerProofs!FinalSlotIsUnique` | `OneFinalSlot` | one response at a time carries the guard that destroys, and only the last does |
| `ShareServerProofs!SpentAlwaysHasBurner` | `SpentHasBurner` | if nothing fails (`Faults` and `Stuck` are empty), a spent share has the response or task that will destroy it |
| `ShareServerProofs!NothingOrphaned` | `NoOrphan` | if metadata is `Durable`, ciphertext never outlives its record |
| `ShareServerProofs!GoneForGood` | `NeverReturns` | no share comes back |
| `ShareServerRefines!ServerKeepsPromise` | `KeepsPromise` | if metadata is `Durable`, the server implements `SharePromise` |
| `RedisMetaProofs!TypeCorrect`, `InductiveInvariant` | `TypeOK` | |
| `RedisMetaProofs!BudgetAlwaysKept` | `BudgetKept` | claims stay within the budget, whatever commands come in between |
| `RedisMetaProofs!IndexAlwaysKept` | `IndexKept` | published ciphertext stays in the expiry index |
| `RedisMetaProofs!NeverGrantedAgain` | `NoGrantAfterDelete` | a deleted share grants nothing, also when a password change writes its record back |
| `RedisMetaProofs!ImplementsTrait` | `KeepsTrait` | the commands of the Redis store implement the atomic methods of `MetaStore`, as far as a claim can tell |
| `BlobStoresProofs!TypeCorrect`, `InductiveInvariant` | `TypeOK` | |
| `BlobStoresProofs!OnlyWholeStored` | `OnlyWhole` | what is stored or served is a whole body, for both stores |
| `BlobStoresProofs!PartsAlwaysLegal` | `PartsLegal` | every multipart upload keeps the rules of S3 |
| `BlobStoresProofs!RefusedLeftNothing` | `RefusedLeavesNothing` | a put that is refused without a fault leaves nothing |
| `TransferProofs!LengthRecovered`, `CountsAgree` | | `plaintext_len` undoes `ciphertext_len`; both ends count the same records |
| `TransferProofs!TypeCorrect`, `InductiveInvariant` | `TypeOK` | |
| `TransferProofs!SavedAlwaysWhole` | `SavedIsWhole` | a download that reports success saved all that was sealed, whatever the server and the network did |
| `TransferProofs!OutputAlwaysPrefix` | `OutputIsPrefix` | what is written is at any time a front of the file |
| `TransferProofs!HonestAlwaysOpens` | `HonestOpens` | an honest transfer of an unchanged file never fails and gives back the file |
| `TransferProofs!LengthsAlwaysAgree` | `LengthsAgree` | the stored body is as long as was computed ahead |
| `LoginProofs!TypeCorrect`, `InductiveInvariant` | `TypeOK` | |
| `LoginProofs!SessionAlwaysItsOwn` | `SessionIsItsOwn` | a browser's session is of a login that was begun in that browser |
| `LoginProofs!AdmittedAlwaysInTime` | `AdmittedInTime` | a session is honoured in its time and its browser only, and without a shared secret only by the replica that made it |
| `LoginProofs!FinishedOnlyOnce` | `FinishedOnce` | the provider is not asked again about a login that is finished |
| `LoginProofs!RefusedOnlyForCause` | `RefusedForCause` | with a shared secret, a login that comes back to its browser fails for a cause only: it is excused by what happened to it, or the provider's answer is not on the allow-list |
| `LoginProofs!SignedInAlwaysStays` | `SignedInStays` | with a shared secret, who is admitted at one replica stays admitted at every replica, whatever restarts and whatever other tabs do, until the session ends in time or by logout |
| `ClientsProofs!TypeCorrect`, `InductiveInvariant` | `TypeOK` | |
| `ClientsProofs!LinkIsToTheFile`, `LinkOpensTheFile` | `ShownIsChosen`, `ShownOpens` | the link the upload page shows is to the file it shows, and opens it until a password change |
| `ClientsProofs!DeletedStaysGone` | `DeletedIsGone` | what the page says it deleted is gone |
| `ClientsProofs!NeverTwoTasks` | `OneTask` | the buttons the pages disable keep each page to one task |
| `ClientsProofs!GoneStaysGone` | `GoneIsGone` | a share the page says is gone is gone |
| `ClientsProofs!RefusedCostsNothing` | `RefusedIsFree` | a command that leaves the output file alone has spent no download |
| `ClientsProofs!WarnedWasRight` | `WarnedIsLast` | a download granted to a page that warned it is the last, is the last |

### Assumptions

Each module names what it assumes of its constants, and TLC evaluates it on every
run: `None` and `Junk` are outside the sets of values they stand beside, bounds
and budgets are numbers, roles are disjoint. The ones with content:

- `FramingAssumption`: a record and a tag have at least a byte.
- `LimitsAssumption`: the protocol's constants, and the part of
  `Config::validate` about the default lifetime, which `build_state` calls at
  startup.
- `RedisAssumption`: budgets and lifetimes are not zero (`Limits`) and the TTL
  ends strictly after the expiry (an hour, redis.rs).
- `BlobAssumption`: a chunk and a part have at least a byte.
- `LoginAssumption`: a flow cookie lives for some time (600 s); each tab belongs to
  a browser.
- `LinkAssumption`: the empty field (`NoPass`) is a passphrase somebody may enter;
  1 can be asked for and the server's limit allows it, so that a clamped budget
  can be granted.

`Durable` is a hypothesis of two theorems because a restart of the in-memory store
does orphan ciphertext; the hypothesis of `SpentAlwaysHasBurner` is there because
with faults it is false (`SpentUnburnt` shows it).

### The arguments

No property is inductive as it stands. Each module has an `IInv` of named parts,
which say what the code relies on without saying it. `IInv` is proved inductive
one part at a time, one step per action; TLC has checked each on the instance of
its module first. The properties then follow from it, the action properties from
it and one step.

**ShareServer.**

- `FreshIds`, `UploadsAlone`: until its record is put, an upload is alone with
  its id, because ids are random and are told to nobody before the response. So
  no reaper, downloader or owner can be at work on a share when its record
  appears.
- `Counted`: the record of a published share has counted at least what was
  granted, against the budget that was told. Lost answers make it count more.
- `OneFinalSlot`: the last slot is taken when the count reaches the budget, the
  count never goes down, so a second claim cannot also be last.
- `BlobFirst`: whoever is about to delete a record has seen the ciphertext go,
  and since only the upload stores ciphertext, it is still gone.
- `Stored`, `Caused`: a record is put only where ciphertext is, and what is
  being destroyed has expired, or its owner asked, or its budget is spent, and
  none of these is ever undone.

The refinement maps each action to one of `SharePromise` or to a stutter:
`UploadRecord` to `Publish`, `ClaimGranted` to `Grant`, a claim with a lost
answer to `Waste`, `OwnerDelete` to `Revoke`, deleting ciphertext to `Close`
(the cause comes from `Caused` and `OneFinalSlot`), deleting a record to
`Forget` (that the ciphertext is gone comes from `BlobFirst`).

**RedisMeta.** `Role` says what a caller knows of its share at each command;
`PutSoFar` and `Alone`, that a put has its share to itself and how far the hash
is; `Unused`, that nothing is known of an id not drawn. `Whole`: a hash with a
budget has its record and counter and, with `SameExpiry` (a password change
writes back the expiry it read), a TTL after its expiry; so the TTL takes only
what has expired. `Revoked`: the budget field of a deleted share never comes back,
which is why the record that `set_auth` resurrects grants nothing. `Counted` and
`Indexed` are the invariants themselves, for one share. The refinement takes as
the record of a share the hash that has a budget field:
`PutHset` is `put`, which sets all fields at once (what follows it in `put`, EXPIRE
and ZADD, is a stutter), the script `claim_download`, the write of `set_auth` is
`set_auth` or, on what is deleted, a stutter, DEL is `delete`, and a tick is
`expire`, which may take several records at once, all past their expiry.

**BlobStores.** `NotYet`: an object appears with the last call of its put. For
the file store `PartFile` (the `.part` file is what was received, synced before the
rename); for S3 `PartsSoFar` (the parts are the front of the body, all full but
the last, and all of it when they are completed); `BodyLength` says how long that
is. `Finished` and `Outcome` say what a finished put leaves; `OwnStore` keeps the
two stores apart.

**Transfer.** The framing lemmas split a length into full records and a rest
(`Records`) and follow both through sealing (`SealedLength`). `Chained`: the
sealed records lie end to end from the start of the file, have distinct numbers,
and the last alone is marked. `OfSealed`: whatever the server does, each cell on
the wire or in the buffer is of a record that was sealed, or is junk; so what
opens under a number and a final flag is the one sealed record that has them
(`Opens`). `Opened`: what is open is a front of the file and ends where the record
with the next number begins. That gives `SavedIsWhole`, and needs nothing of
the sender's reads. `HonestOpens` does: `OnBoundary` and `LaidOut` say where each
record and each cell of an unchanged file is, `Delivered` that buffer and wire
together are the rest of the body. Then the front of the buffer is exactly the
next record (`NextRecord`), and the loop stops at the last one (`LastOpens`) by
`CountsAgree`.

**Login.** `TabOnItsWay` and `ProviderSaid` tie each tab to the flow it began and
to what the provider made of it; `FirstAtProvider`: only one tab is at the provider
with a flow, so it answers once. `FlowCookie`, `SessionCookie`: the cookies of a
browser are of logins it began, with their times; a flow cookie is of a login
that is not finished, which is `FinishedOnce`. `StillGood`: a login that nothing
excuses is the one in its browser's cookie, and fresh, so that `callback` has no
cause to refuse it; after the exchange only the allow-list can (`ProviderSaid`:
what the provider said has not changed since). `SignedInStays` follows from the
types and one step: a session cookie is only ever replaced by a good one, with
a shared secret every replica has the same key, and a tick takes a session only
when its time is up.

**Clients.** `DrawnOnce`: a share is uploaded by one task or command alone.
`AsSealed`: the server's first key is the one sealed with. `OneUpload`, `Awaited`:
the phase of a page says which task it has, which is what the disabled buttons
are for. `ShownIsSealed`, `DeletedForGood`: what the upload page shows is what was
sealed, and what it deleted does not come back. `OutOfDate`: what a page knows of
its share is wrong in one direction only, the downloads left are never more than
it thinks. `PaysLate`: a command creates its output before it claims a download.

The theorems about `ShareServer` and about `Clients` are over a store whose methods
are atomic; in `ShareLink` a whole request is. The in-memory store is one. The Redis store is one as far as claims
can tell (`ImplementsTrait`), and is not where `RedisResurrected` and the missing
TTL above show it.

### What stays with TLC

Liveness (`SpentIsBurnt`, `EventuallyGone`, `EventuallyCollected`, `Settles`) and
the fairness it rests on (`ENABLED`) are beyond TLAPS's backends. The runs that
find a statement violated have nothing to prove.

## 5. Not modelled, and the plan

Not modelled, because they hold no state a property could be about: texts and
languages (`web/src/i18n.rs`), layout and icons, the log beside the pages,
progress bars, argument and configuration parsing, routing, static files, the
mapping of errors to answers, random ids and hashing (ids and keys are values and
taken to be fresh), telemetry, deployment files.

Left out of what is modelled:

- the order of a graceful shutdown (main.rs:43): a task it cuts off is one that
  `Crash` ends in `ShareServer`;
- the `u32` counter of records (2^32 records of 64 KiB are beyond any limit);
- browsers dropping cookies at their Max-Age (they are kept, and must be refused
  by their content); the address a login returns to;
- on the upload page the expiry, which goes the way of the download limit, and
  the check of the size, which the server repeats; in the CLI an empty
  `--password`, a wordlist passphrase and `--output` naming;
- links that are not whole, beyond the error they end in.

Planned:

1. `Shutdown`: the order of `main` with bodies, destroy tasks and the reaper under
   way.
2. `RedisMeta` under the handlers of `ShareServer` in one module, so that what the
   Redis store does not keep of the trait is seen from the requests.
