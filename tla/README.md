# TLA+ models of Arx Runa

Arx Runa is a zero-knowledge file vault: a Tauri desktop application (Rust
backend under `src-tauri/src`, Leptos frontend under `src`) that encrypts files
into fixed-size blobs, keeps their metadata in a SQLCipher database (the
*manifest*), and synchronises blobs, an encrypted copy of the manifest and a
plaintext *vault header* with a cloud destination through rclone.

These modules model what in it depends on the order of steps: which blobs exist
where, who holds the keys when, how a vault moves from one master key to the
next, what two devices, a mirror or a recipient may find in the cloud, and what
the frontend knows of all this. Paths below are relative to `src/src-tauri/src/`
of the repository; those of the frontend begin with `src/src/`.

## 1. The system and its parts

| Part | State it keeps | Operations | Module |
|---|---|---|---|
| Upload pipeline (`storage/vault_ops/upload_file.rs`, `storage/pipeline/encrypt_file.rs`) | blobs written so far | encrypt chunk by chunk into `staging/pending`, then one transaction; small files go to the epoch buffer | `VaultStore`, `Transfer` |
| Epoch buffer (`storage/vault_ops/epoch_flush.rs`) | `epoch_buffer`, `epoch_blobs` rows | flush, called by the user, by every push and by `lock_session`; `flush_mutex` | `VaultStore`, `Transfer` |
| Download (`storage/vault_ops/download_file.rs`, `storage/pipeline/decrypt_file.rs`, `ui/video_stream.rs`) | a temporary file beside the destination | save to a path, view in memory, stream ranges, prefetch | `Transfer` |
| Deletion (`delete_file.rs`, `delete_directory.rs`) | `pending_deletions` rows | read blob names, transaction, unlink staged files | `VaultStore`, `NodeTree` |
| Directory tree (`storage/sqlcipher.rs`, `ui/file_commands.rs`, `src/src/vault.rs`) | `nodes`, `root_id` | create the root, drop folders, insert, move, delete a subtree | `NodeTree` |
| Staging directory (`storage/staging.rs`) | `pending/`, `cache/`, flat root | migration and orphan sweep at unlock | `VaultStore` |
| Push (`storage/cloud/sync.rs`, `manifest_backup.rs`, `vault_header_io.rs`) | `sync_mutex`, progress of the push | probe the cloud counter, list, upload, count, export and upload the manifest, upload the header, drain deletions | `VaultStore`, `CloudSync` |
| Pull and reconcile (`ui/sync_commands.rs`, `src/src/state/sync_context.rs`) | the store that the session holds | replace the local database by the cloud's, put pending files back | `CloudSync` |
| Destinations (`ui/destination_commands.rs`, `ui/sync_commands.rs`, `storage/cloud/destination_session.rs`) | `destination_sessions`, `pending_backup`, failures, transport, `rclone.conf` | add, delete, promote, migrate, back up to mirrors | `Destinations` |
| OAuth setup (`storage/cloud/wizard.rs`, `src/src/components/destination_selector.rs`) | two tables of `AppState`, an rclone child, a temporary conf | begin, poll, choose a drive, cancel | `OAuthSetup` |
| Session manager (`auth/session/manager.rs`) | keys, lifecycle, gate and counter, timer task, vault id, `rclone.conf` path, failed logins | authenticate, lock, timeout, reset, operation guards, key swap | `SessionManager` |
| Key ceremonies (`auth/ceremonies/*`) | header in memory, pending header file | change password, rotate key file, set up and use a recovery phrase | `Rekey` |
| Sharing (`sharing/*`, `storage/sharing.rs`, `ui/sharing_commands.rs`) | contacts, shares, re-encrypted copies, receipts | share, revoke, sweep, import, download, receipt | `Sharing` |
| Application state (`ui/state.rs`, `ui/auth_commands.rs`, `lib.rs`) and the frontend's contexts (`src/src/state/*`) | transport, active vault, vault directories; what the screen shows | login, create, recover, lock, delete, timeout, restart; navigate | `AppShell` |
| Cryptography, rclone's subprocess, pages, reports | | | see section 5 |

Commands are `async` functions on a multi-threaded tokio runtime and interleave
at every `await`. Two mutexes order some of them (`flush_mutex`, and
`sync_mutex` taken with `try_lock`), and only the key ceremonies take an
`OperationGuard`; uploads, deletes, flushes and syncs do not, so a lock, a
timeout or the next unlock may run beside them. Nothing but single SQLite
transactions is atomic: a ceremony, a push, a share or a promotion spans
database, disk, cloud and session. The frontend learns of the backend only
through answers to its calls and one event.

What is hard here, and what the properties are about:

* *blobs*: a blob a file refers to must stay reachable until the file is
  deleted; the cloud must neither lose such a blob nor keep one for ever; a
  reader gets the bytes that were written, or a failure with a cause;
* *snapshots*: a published manifest must describe what the cloud holds, and
  never drop what another device published;
* *sessions*: keys must not be dropped under an operation that holds its guard,
  and must not survive a lock; the credentials file goes with the session;
* *keys*: after any ceremony the header on disk, the database, the wrapped file
  keys, the session and the cloud must agree on one master key;
* *destinations and shares*: a mirror gets what it lacks, a primary has
  everything, a revoked recipient has nothing;
* *the screen*: it shows the vault that is open, or none.

`PROJECT.json` lists every hazard with its line and the properties that cover
it.

## 2. Modules

| Module | Models | Composition |
|---|---|---|
| `VaultFiles` | what the next two have in common: the files and whether the epoch buffer is on | |
| `VaultStore` | upload, epoch buffer, delete, blob cache, push, drain, orphan sweep, lock, timeout and crash, on one device with its primary destination | these parts share the tables, the staging directory and the cloud, so they are one module with one action per step |
| `Transfer` | a file's bytes: route, chunks, padding, packing, and every way to read them | the blobs of `VaultStore` with their contents; commits are one step |
| `NodeTree` | the `nodes` table and the commands that change it | |
| `SharedVault` | abstract: files added to and deleted from one vault | |
| `CloudSync` | two devices that push, conflict, pull, reconcile and join | implements `SharedVault` (`INSTANCE SharedVault WITH ...`, property `SharedSpec`) |
| `Destinations` | primary, mirrors, their queues, promotion and migration | sees a push as `PushBegin` ... `PushEnd` |
| `OAuthSetup` | backend and form of one kind of setup | |
| `SessionManager` | `SessionManager`, its timer task, `OperationGuard`, `rclone.conf` | |
| `Rekey` | key ceremonies with syncs, uploads, lock and unlock, as far as keys go | |
| `Sharing` | owner, cloud and recipients | |
| `AppShell` | commands that open and close a vault, vault directories, transport, events and the frontend's session and vault contexts | a ceremony succeeds or fails; its keys are in `Rekey`, the timer in `SessionManager` |
| `VaultStoreProofs` | theorems about the two views of one vault, its rows and blobs (`VaultStore`) and its bytes (`Transfer`) | EXTENDS both: names of the latter's specification begin with `Transfer` |
| `SessionManagerProofs`, `CloudSyncProofs`, `NodeTreeProofs`, `DestinationsProofs`, `RekeyProofs`, `SharingProofs` | theorems about the module they are named after, with their inductive invariants and lemmas | each EXTENDS its module and `TLAPS` |
| `FrontendProofs` | theorems about the two modules that have the frontend in them | EXTENDS both, `AppShell` and `OAuthSetup`: names of the latter's specification begin with `Setup` |
| `MC*` | model values and symmetry for TLC | EXTEND the above |

Operators named `...Not`, `...Blind`, `...Keeps` and so on, introduced by a
comment "Mutant of X", are X with a plausible bug. No specification uses them;
`PROJECT.json` names, for every checked property, the mutant that breaks it.

Several modules have a constant `Perils` (elsewhere `Habits`, `Overlap`, `CalmOverlap`,
`LockDuringOps` and the like). The code allows everything such a constant
names: an overlap nothing prevents, a failure nothing undoes. A property that
needs one of them absent is checked without it, and refuted with it, as listed
in section 3. So a run says precisely under which circumstances its
properties hold.

### VaultStore

State: `node`, `sized`, `refs`, `epochBlobs`, `buffer`, `pendingDel`, `counter`
are the tables; `pending`, `cache`, `root` the three places a staged blob can be
(the user's flush command writes to the staging root, the other two flushes to
`pending/`); `cloudBlobs`, `cloudManifest` the objects in the cloud; the rest are
the program counters and locals of the running tasks. File contents, keys and
names are abstracted: a file is its node id, a blob its UUID, and a manifest its
counter with the set of blobs it lists. `used` makes UUIDs fresh.

Each transaction, file write, file removal and transport call is one action.
`delete_file` has three (names read; transaction; unlink), `push_vault` eleven.
An upload or a cloud call that fails may still have stored its object
(`PushUploadFail`, `PushManifestFail`). The cloud's manifest may cease to open
with the key of the session (`ManifestUnreadable`: it was encrypted with another
key, or damaged); `PushProbe` then compares nothing and the push replaces it, so
`ManifestsOrdered` is about a manifest that opens (`opens`). `PushIncrement` is refused at
`MaxCounter`, the model's `u64::MAX`. A crash resets every task, keeps tables,
files and cloud. `NoLostBlob` speaks of blobs one file owns; those that packed
files share are in `Transfer`, whose `ContentKept` speaks of both.

### Transfer

Byte k of a file is `<<file, k>>`, so that a byte from a wrong place shows.
`nodes` has the rows of `nodes` and `chunks`, `entries` those of `epoch_buffer`,
`left` the entries a flush has read and not written yet, `sealed` the blobs by
name and `at` where they are (`pending`, the staging `root`, `cache`, `cloud`) and
in which directory the flush under way writes; `temp`, `dest` and a task's `bak` are the files at
and beside the destination of a save. `orig` remembers what each source held.
`Chunk` is the chunk size; the sizes lie around it and around what packs into
one blob. A sealed chunk opens with its key, file and index only. An upload
commits in one step (its steps are in `VaultStore`); a flush writes one batch at
a time (`IsBatch`: as many entries as fit, at least one), into `root` if the
user's command called it, where a fetch does not look (`AtHand`) and a decryption
does (`Resolve`); `Exit` includes the next unlock, which moves `root` to `pending`.
A read goes chunk by chunk, with the fetch of missing blobs before it
and, for a file saved to a path, the temporary file, the backup of an old
destination and the two renames after it. `OpenRange` and `ClosedRange` are
what `parse_range_header` makes of a request.

### NodeTree

`node` is the table. An adding task has its place `pc`, the row `new` it is to
insert and, for a dropped folder, the stack `drop` of directories it is inside
of; a recursive deletion has the stack `del` of listings. Between two transactions of
one command any other may run. `Below` is what the recursive query of
`ensure_move_respects_hierarchy` finds, the set of nodes whose parent is the
node or in the set; `MoveNode` refuses such a destination. Nothing in the application calls
it yet, it is modelled as the store offers it.

### CloudSync and SharedVault

A device is a database (`files`, `dels`, `buffer`, `counter`), a staging directory
(`pending`, `root`), a push, a pull, and the state its frontend shows. A file stands
for its one blob; a small file has none and waits in the epoch buffer, which is
part of the database and so of the manifest, until a flush packs it (`Flush` in a
push, `Restart` in a lock). A push begins with a flush (`PushFlushFail` if it
cannot); a pull does not. A pull
closes the store, replaces the database, buffer included, and puts back the files
whose blobs still wait in `pending`, each in a transaction: a small file
uploaded between the conflict and the pull is dropped (peril `buffered_pull`).
A manifest that does not open counts as none (`PushProbe`, peril `unreadable`).
`SharedVault` knows
only `added`, `alive` and `condemned` files: a file is added once, deleted at
the wish of a user, and never comes back. The refinement maps `alive` to
`AliveFiles`: what the published manifest lists, and what some device still
carries to it (buffered, staged, just uploaded, or uploaded and listed by a device
that is not behind); `SharedSpec` therefore fails as soon as a push or a pull drops a
file nobody deleted, or revives one.

### Destinations

`registered`, `primary`, `mode` are the rows, `pendingBackup` and `failures` the
queues; `store` is what each remote holds, `transport` and `conf` what the
session talks to. A push (`pushPc`, `pushVia`, `pushTodo`, ...) or a backup
(`bkPc`, ...) holds `sync_mutex`; the commands of `Admins` do not, each keeps
what it has read in a record `admin[a]`. `WithoutFailures` is the view of the run: the failure table is
reported to the user and nothing reads it.

### OAuthSetup

`setup[i]` is what exists of a setup in the backend (child, conf, which table);
`task[i]` is where the frontend's polling task is; `flow` is `OAuthFlowState`.
rclone's questions are reduced to how they end, the 180 seconds to `old`. Every
way a setup ends kills the child and removes the conf, and either may fail, which
the code at most logs (`Gone`); a begin that fails after the spawn leaves the
child (`Refused`), and a poll that cannot read the child's state leaves the setup
in its table with nobody to poll it again (`Poll`). What such a failure left is
remembered in `left`, and `NothingAbandoned` is about everything else. The form's
own limit of 150 polls is never met: they take 300 seconds, and a poll after 180
is not answered with "pending".

### SessionManager

The fields of the struct are behind separate locks and atomics; every access is
one step, so `authenticate` has seven steps, `lock` ten, the timer six,
`begin_operation` three. `restart_timer` (cancel, spawn, store the handle) is one
step: the timer mutex is taken twice in it, and two restarts that overlap there
are outside the model. A timer task that is aborted stops between two of its
steps. Deleting `rclone.conf` is two steps: its path is taken (`LockTakeConf`,
`TimerTakeConf`; `lockConf`, `timerConf` hold it), then the file is overwritten and
removed, or stays with a warning (`Wipe`; `warned` remembers those). Login wipes a
conf left over before it records a new path. `gate_and_counter` is never decremented in the code; `MaxOps` keeps the
count below `GateFlag`, which stands for 2^31. Key material is the number of the
authentication that produced it; `wrong` counts the logins that failed, beside
the code's own `failed_attempts`. In a behaviour with `races = FALSE` tasks that
open or renew a session do not overlap tasks that close it, and one task closes
it at a time: with races a reset may abort the timer between the two steps.

### Rekey

A master key is a generation number; a header yields the key of its salt, and
a recovery slot records the phrase whose salt it has, the phrase it was last
wrapped with, and the key inside. `change_password` and `rotate_key_file` have
the same shape and are the kind `"change"`. `wrapped[f]` is the key a file's row
is wrapped under; a `Packed` file's key is in `epoch_blobs`, where a row that
does not unwrap is skipped instead of rolling back. A behaviour is *calm*
(`CalmOverlap`, `CalmFaults` say what may overlap or fail) or not (`Overlap`,
`Faults`); all properties but `KeysOrdered` are about calm ones.
`configured` is chosen at the start and never changes. The uploads of a recovery
may always fail, because they run before the session has a transport.

Modelled from use: a connection opened with the old key fails once the file is
re-keyed (SQLCipher), and an upload may be stored although it is reported as
failed (the provider). `pending-vault-header.json` is what
`upload_vault_header` leaves in the ceremony's staging directory;
`retry_pending_vault_operation` parses a different type, and nothing outside
tests writes it, so the command is the predicate `Retryable` rather than an
action. A ceremony is assumed to keep its session (`Lock` waits for it);
`SessionManager` shows when the guard fails to do that.

### Sharing

`row`, `snaps`, `contacts` are the owner's tables, `blobs` and `grants` what is in
the cloud: the copy's chunks and the credentials minted for it. An upload that
fails may have stored its chunk; `share_file` removes the chunks it knows to be
uploaded, that one not among them (`stray`). All recipients
of a file use one copy. A recipient is a person with the packages imported, the
receipts still to be uploaded and the downloads completed. `now` is the clock.
`ReceiptIsTrue` says of a receipt what it can prove; it cannot prove who sent
it (`ReceiptIsPersonal`).

### AppShell

`disk` holds the files of each vault directory, `app` the fields of `AppState`,
`confs` the session-lived conf files. A command is a task with a program
counter; its answer, like the `session-changed` event, is delivered some time
after it was sent, while the user goes on. `ui` is what the frontend believes.

## 3. Runs

Every run takes at most two or three minutes with two workers.

### Passing

| Run | Shows |
|---|---|
| `VaultStore_core` | two files, two blobs, the epoch buffer, file operations overlapping pushes that fail and are retried: `QueuedUnreferenced` (a queued blob is referenced by nobody), `NoCloudLeak` (a cloud object is referenced or queued for deletion), `NoLostBlob` (a file's own blob is staged or in the cloud), `CloudDeleteSafe` (no step deletes a referenced cloud object) |
| `VaultStore_live` | one file, two counter values: `ManifestsOrdered` (only a newer manifest replaces one that opens); `PushEnds`: each push ends, although cloud deletions may fail for ever |
| `Transfer` | `DownloadExact` (what is read is what was asked for), `ContentKept` (no stored content becomes unreadable), `FailsWithCause` (a read fails only for the transport, the disk, a damaged or deleted blob, a file still buffered, or one the user's flush put where no fetch looks), `NoTrace` (a failed download leaves no plaintext and the old file) |
| `NodeTree` | `Forest`, `Reachable` (every row hangs below the root), `Accounted` (a committed file is in the table or its blob is queued for deletion, whichever command removed it) |
| `CloudSync` | `SharedSpec` (the refinement), `ManifestBacked` (a published manifest lists no file whose blob is missing, unless its buffer has the text), `NoOrphans` (no cloud object is without a row somewhere) |
| `Destinations` | `MirrorsQueued` (what a mirror lacks is queued for it), `PrimaryComplete` (the primary has all that is not staged), `PruneSafe` |
| `OAuthSetup` | `NothingAbandoned` (no child and no token is forgotten but by a step that failed), `CompletionWanted`, and under fairness `WaitEnds` |
| `SessionManager` | `WatchCountsGuards` under every overlap, `GuardProtectsKeys` and `ClosedLeavesNothing` (no keys, and no conf but one a warning speaks of) without, and under fairness `LockReturns` and `InactivityCloses` |
| `Rekey` | calm: `Openable`, `FileKeysCurrent`, `PhrasesOpen`, `StaleCloudFlagged`; everything overlapping, failing and crashing: `KeysOrdered` |
| `Sharing` | `ActiveIsServed`, `RevokedIsCut`, `CopiesAreOwned` (every chunk of a copy has a share or a command, but a chunk stored by an upload reported as failed), `ReceiptIsTrue` |
| `AppShell` | `ScreenMatches`, `NoForeignListing`, `WiredToSession`, `VaultsKept` |

### Where code and documentation disagree

`Transfer_v_flush` checks `ContentKept` with a flush that may fail between two
batches. TLC refutes it: `commit_epoch_flush` ends with `DELETE FROM
epoch_buffer`, which clears the entries of the batches still to be written too;
`chunking-and-manifest/design.md:778` has it "clear the flushed epoch_buffer
entries".

The models reach more. Each row below is found by TLC after the named change to
a configuration (with the property as its only one); where a document or a
comment states the property, it is quoted.

| Configuration and change | Property | What happens |
|---|---|---|
| `VaultStore_core` as it is; also with `EpochEnabled = FALSE`, or with `OpsDuringPush = FALSE` (it holds with both) | `CloudRestorable` | a file uploaded between the push's listing and its manifest export is in the pushed manifest, its blob is not in the cloud; and the user's flush command (`ui/file_commands.rs:624`) stages epoch blobs in the staging root, where the push does not look. "after the first successful push, the cloud is in a consistent state" (`cloud-synchronisation/design.md:983`) |
| `VaultStore_live` as it is | `ManifestsOrdered` without `opens =>` | a push over a manifest that does not open compares no counters (`sync.rs:530`; its test at `:1209` wants it so) |
| `VaultStore_core` as it is | `NoOrphanedNode` | `DELETE FROM epoch_buffer` also removes files staged since the flush read the buffer; `sqlcipher.rs:1814` rules out "an orphaned node with no buffer entry" |
| `VaultStore_core` as it is | `NoSelfConflict` | a manifest upload that was stored but reported as failed rolls the counter back: the next push conflicts with itself, which `cloud-synchronisation/design.md:918` reads as "another device pushed" |
| `VaultStore_core`, `LockDuringOps = TRUE` | `NoLostBlob`, `SweepKeepsReferenced` | the orphan sweep of a new session removes a blob that an upload of the old session commits after the sweep listed the names; "Orphan cleanup never deletes a blob that is referenced in the manifest" (`3.3-staging-and-error-recovery.md:36`) |
| `Transfer`, `Perils` = | | |
| ... `{"stage_in_flush"}` | `ContentKept`, `FailsWithCause` | as `NoOrphanedNode` above |
| ... `{"delete_packed"}` | `ContentKept`, `FailsWithCause` | `delete_file.rs:37` unlinks the staged blob other packed files share; the test at `sqlcipher.rs:2451` asserts that only its row stays |
| ... `{"changing"}`; also with `Sizes = {4, 5}` | `FailsWithCause`; `NoTrace` | a source that changes between `stat` and read is stored with a size it does not have: too few chunks for it, or a save that ends in padding |
| ... `{"read_in_flush"}`, `{"push"}`, `{"stream_epoch"}` | `FailsWithCause` | a read between two batches of a flush; a push that removes the pending copy after the fetch saw it; a range of a file still in the epoch buffer |
| ... `{"epoch_disk"}`, `{"disk"}`, `{"crash"}` | `NoTrace` | `decrypt_epoch_file` leaves its temporary file after a write error; the old destination stays under the backup's name |
| `Transfer` as it is | `FailsWithCause` without `\cup at.root` in `Fetch` | a download right after `flush_epoch_buffer` asks the cloud for a blob that is in the staging root (`ui/file_commands.rs:624`, `sync.rs:449`) |
| `NodeTree`, `TwoRoots = TRUE` | `Reachable` | two first commands both find no root (`ui/file_commands.rs:35`) and create one each |
| `NodeTree` as it is | `NoStagedOrphan` | an upload into a directory that is being deleted leaves its blob in staging until the next unlock |
| `CloudSync`, `{"two_pushes"}`, `{"cut_push"}` or `{"unreadable"}` | all three | the later of two manifests hides the files of the earlier; a push cut short leaves blobs no manifest lists; a push replaces a newer manifest it cannot read (`sync.rs:530`) |
| `CloudSync`, `{"cut_pull"}`; `{"buffered_pull"}` | `SharedSpec` | files not yet put back are lost; small files in the buffer are not put back at all (`ui/sync_commands.rs:757`: no flush before the pull, and `:237` looks at staged blobs only) |
| `CloudSync`, `{"ops_in_pull"}`; `{"ops_in_push"}` | `SharedSpec`, `ManifestBacked` | an upload during the pull commits to a database that is replaced (`ui/sync_commands.rs:735`); the export is later than the listing, and a manifest that carries a small file in its buffer brings a deleted file back through an older pull |
| `CloudSync`, `{"cut_flush"}`; `{"hand_flush"}` | `SharedSpec`, `ManifestBacked` | as in `Transfer_v_flush`; files the user's flush put into the staging root are listed by the next manifest and not uploaded (`ui/file_commands.rs:624`; no screen calls this command) |
| `Destinations`, `CutShort = TRUE` | `MirrorsQueued` | blobs of a push that failed after some uploads are never queued (`ui/sync_commands.rs:107`) |
| `Destinations`, `Overlap = {"promote"}`; `{"migrate"}` | `MirrorsQueued`, `PrimaryComplete`; `PrimaryComplete`, `PruneSafe` | the primary changes under a push or a backup |
| `Destinations`, `PromoteClean = FALSE`; `ConfFails = TRUE` | `PrimaryComplete` | a mirror with a queue is promoted; the transport keeps talking to the old primary |
| `OAuthSetup`, `{"hasty"}`, `{"switch"}`, `{"cross"}` | `NothingAbandoned`, `CompletionWanted` | the poll loop looks only at whether the form waits (`destination_selector.rs:355`); switching cancels only a setup that waits for the browser (`:278`); a cancel arrives when the poll has taken the setup |
| `OAuthSetup`, `{"leave"}` | `NothingAbandoned` | leaving the page cancels nothing; "so it must be cleaned up on either path" (`ui/state.rs:47`) |
| `OAuthSetup` as it is | `NothingAbandoned` without `left` | a begin that fails after the spawn (`wizard.rs:752`), a poll that cannot read the child's state (`destination_commands.rs:547`), a kill or a removal that fails (`:728`, `wizard.rs:831`) |
| `OAuthSetup` as it is | `PauseEnds`, `FormMatches` | no timeout is enforced on a drive choice (`ui/state.rs:57`) |
| `SessionManager` as it is | `GateOpenWhileActive` | `reset_timer` aborts a timer that has closed the gate: an active session whose operations get empty guards (`manager.rs:820`, against `:379`) |
| `SessionManager` as it is | `VaultIdOnlyWhileActive` | a timeout leaves the vault id behind; `manager.rs:729` promises "`None` if not `Active`" |
| `SessionManager` as it is | `BackoffCounts` | the counter is reset as soon as a key was derived (`manager.rs:266`), before the database refuses a wrong password: it never exceeds one for them |
| `SessionManager`, without `~races` in the property | `GuardProtectsKeys`, `ClosedLeavesNothing` | the second key drop of a `lock()` hits a new session; `rclone.conf` is written, or keys are swapped in, after a lock has dropped both; a timer is aborted with the path in hand |
| `SessionManager` as it is | `ClosedLeavesNothing` with `confFiles = {}` | the overwriting or the removal of `rclone.conf` fails, which `manager.rs:759` documents and only logs |
| `Rekey`, `Calm = {TRUE}` and `CalmOverlap` = `{"change", "file"}`; `{"change", "sync"}`; `{"change", "setup"}` | `FileKeysCurrent`; `StaleCloudFlagged`; `Openable` | an upload inserts a row under the old key between the re-wrap's COMMIT and the re-keying; a sync overwrites the new cloud header by the old one; `setup_recovery` writes back the header it read before a change |
| `Rekey`, `Calm = {TRUE}` and `MaxPhrases = 2` | `PhrasesOpen`, `RecoveredPhraseOpens` | a second slot goes stale at the next change ("Any slot unlocks the vault", auth `design.md:549`), and a recovery with it leaves that phrase unable to open anything ("so the phrase stays valid", `recover_with_phrase.rs:210`) |
| `Rekey`, `Calm = {TRUE}` and `CalmFaults` = `{"keyfile"}`; `{"upload"}`; `{"crash"}` | `DatabaseKept`; `FailedUploadRetryable`; `RecoverablePath` | a recovery whose key file cannot be written deletes the local database; the artifact of a failed upload cannot be parsed by the retry command; a crash between COMMIT and re-keying leaves rows no header's key opens ("a recoverable path after power loss", auth `design.md:504`) |
| `Sharing`, `{"overlap"}`; `{"delete_fails"}`; `{"creds_fail"}`; `{"delete_file"}`; `{"slow"}`; `{"stops"}` | `ActiveIsServed`, `CopiesAreOwned`; `ActiveIsServed`, `RevokedIsCut`; `CopiesAreOwned`; `CopiesAreOwned`; `RevokedIsCut`; all but `ReceiptIsTrue` | the last share of a copy is revoked while a new one reuses it; a partial deletion; a copy whose credentials could not be made; the rows of a deleted file cascade away, its copies do not; expiry passes during a command; a stop in the middle |
| `Sharing` as it is | `CopiesAreOwned` without `\ stray` | the upload of a chunk is reported as failed though it was stored; only the chunks before it are removed (`sharing/cloud.rs:308`) |
| `Sharing`, `Provider = "drive"` | `RevokedIsCut` | the sweep of expired shares does not remove the folder permission, which revoking does |
| `Sharing` as it is | `ReceiptIsPersonal` | receipts are per copy, not per recipient |
| `AppShell`, `{"again"}` | `VaultsKept`, `WiredToSession` | a recovery asked for twice removes the directory the first one installed |
| `AppShell`, `{"late"}` | `NoForeignListing`, `SessionShown` | an old lock event closes the screen of a new session, a listing asked for before arrives after |
| `AppShell`, `{"fail_tail"}`, `{"wire_fails"}`, `{"sweep"}` | `WiredToSession` | the header write, the wiring of the transport, or the start-up sweep (`lib.rs:237`) leaves the open session with another's transport or without its conf |
| `AppShell`, `{"reload"}`; `{"slow_scan"}` | `SessionShown`; `KeyChoiceKept` | the reloaded page shows the login of an open session; a late scan replaces the key file the user chose |
| `AppShell` as it is | `UiKnowsTier` | the tier is lost when the session status is asked for (`session_context.rs:34`) |

### Bounds

*VaultStore*: two files and two blobs: a blob shared by two files, a file with
two blobs, a file uploaded while another is deleted. Since names are fresh for
ever, two blobs also bound how much can happen. `MaxCounter` is 1 in
`VaultStore_core`: any number of failed pushes and retries after a rolled back
counter, one that completes, and the overflow branch after it; the blobs do not
depend on the counter's value. It is 2 in `VaultStore_live`, with one file: there
a complete push also replaces the manifest of a complete push. *Transfer*: two
files of sizes 0, 1, 2 and 4 with chunks of 3: empty, packed alone, packed
together, two batches, two chunks with padding; one reader. *NodeTree*: five
ids, two adders and one deleter. *CloudSync*: two devices, two files, counters
to 4. *Destinations*: two blobs, a primary and one that comes and goes, one
command beside push and backup. *OAuthSetup*: two setups, one of which replaces the other. *SessionManager*:
two authentications and two ceremonies, so that an operation of an old session
meets a new one; with races, one authentication and one ceremony that may run
twice; two failed logins. *Rekey*: three to five master keys, so that a second
and third change meets the leftovers of the first; two tasks. *Sharing*: two
recipients of one file, a share that expires and one that does not, a clock of
three. *AppShell*: two vaults, one of them in the cloud too, two commands and two
listings in flight. The theorems of section 4 have no bounds. Symmetry is
never used with liveness.

### Fairness

`VaultStore!FairSpec` assumes weak fairness of the steps of a started push with
its drain (one task: it goes on, but no error that would end it is owed) and of
a started flush: tokio polls every ready task, and every transport call ends,
because the rclone transport puts a timeout on its subprocess. The push's wait
for `flush_mutex` is strongly fair, since tokio's `Mutex` is FIFO while other
flushes may take it again and again. Nothing is assumed of users, failures
or crashes. `SessionManager!FairSpec` assumes weak fairness of each started task
and of the timer; a ceremony ends because its steps are bounded computations and
transport calls with timeouts. `OAuthSetup!FairSpec` assumes that calls are
answered, that the two-second sleep and the 180 seconds pass; of the user and the
browser it assumes nothing.

`CHECK_DEADLOCK FALSE` stands where a bounded run may come to rest: no name,
setup or share is left to be handed out, and every task has ended.

## 4. Proofs

Every theorem is checked by TLAPS for all values of the constants that satisfy
the named assumptions of the module (sets of any size, counters with any bound).
Where a theorem has a hypothesis about constants, the run of the module
satisfies it: the code allows more, and section 3 shows what breaks then. Each
inductive invariant was checked with TLC on the configuration of that run
before it was proved; no run repeats it. A proof has one lemma per group of
actions, in it one step per action and conjunct.

### VaultStoreProofs

| Theorem | States | For |
|---|---|---|
| `TypeCorrect` | `[]TypeOK` | all constants |
| `QueueInvariant`, `QueuedAreUnreferenced` | `[]QueueInv`, `[]QueuedUnreferenced` | all |
| `CloudDeletesAreSafe` | `CloudDeleteSafe` | all |
| `NothingLeaks` | `[]NoCloudLeak` | all |
| `ManifestsAreOrdered` | `ManifestsOrdered` | all |
| `NothingLost` | `[]NoLostBlob` | `LockDuringOps = FALSE` |

That a queued blob is unreferenced is not inductive: an upload could commit a
blob that is already queued. `QueueInv` adds what excludes it: only nodes with a
row have references (`RefsOfRows`); every name in a table, directory or task was
generated (`NamesUsed`); a blob an upload or a flush has written and not
committed is in no table and belongs to one task (`StagedPrivate`, `FlushHolds`);
a blob two files refer to is an epoch blob (`SharedAreEpoch`), which is what the
`NOT EXISTS` clause of `delete_node` relies on; and what the drain has in hand is
still queued (`DrainQueued`), since only the drain unqueues. `CloudDeleteSafe`
then follows for each step, because `DrainDelete` is the only one that removes
from the cloud. `LeakInv` adds that whatever a push is still to upload was
listed, hence is referenced or queued. `CounterInv` says that from the comparison
of the counters to the upload of the manifest nobody else counts or publishes:
it needs no lock but the push's own, and holds of the manifest the probe saw,
which is the one in the cloud as long as it opens. `LostInv` follows a blob from the
upload that wrote it (`WrittenStaged`) through the push, which removes a local
copy only of what it has stored (`SentStored`), the deletions, which by then own
the names they unlink (`DeletesOwn`), and the orphan sweep, which runs with no
upload beside it (`SweepAlone`: here a lock during an operation would break it).

| Theorem | States | For |
|---|---|---|
| `DownloadsAreExact` | `[]DownloadExact` | `"changing" \notin Perils` |
| `ContentIsKept` | `[]ContentKept` | none of `changing`, `flush_fails`, `stage_in_flush`, `delete_packed` |
| `FailuresHaveCauses` | `[]FailsWithCause` | none of these, nor `read_in_flush`, `push`, `stream_epoch` |
| `SavesLeaveNoTrace` | `[]NoTrace` | none of `changing`, `epoch_disk`, `disk`, `crash` |

These are theorems of `Transfer`, for any chunk size, sizes, files and number of
downloads at once. They rest on what the recursive definitions compute:
`Packed` (the bytes of a batch, entry after entry), the chunks of a file put
together, and what a reader has written so far. Recursion unfolds by lemma
`Recursion`; an induction over a length goes by the set of numbers up to which a
statement holds, which is all of `Nat` because a set of numbers without a least
element is empty (`UpTo`). From there:

* `ByteInv`: the rows of a file lead to its text (`Leads`: the blobs they name
  are sealed for this file and index and hold the padded piece, or hold the text
  at the extent of an epoch row); buffered entries hold the text, one per file;
  a reader at row i has written exactly the wanted part of the chunks before it
  (`Reading`, `Given`), so that the row it reads next adds what is due
  (`ReadNext`) and after the last nothing is missing (`AllGiven`). A blob is
  never written twice (`NameOK`), so that what a reader took from the rows stays
  true though the file is deleted under it (`LeadsStill`).
* `KeptInv`: a file that is buffered is in the buffer or with the flush under
  way, and if both are there they are the same; the blobs of a file that is
  ready are pending, in the staging root or in the cloud. A deletion removes no blob that another
  file has rows in.
* `CauseInv`: a reader whose file was not deleted reads the rows the file still
  has; the blobs it has dealt with are pending, in the staging root or cached
  (`Near`); a blob it has resolved is where it was found.
* `TraceInv`: a temporary file belongs to a save that is under way; a backup
  belongs to a save about to rename or unlink, and is a whole file; if the user's
  file is away, some save has it as its backup and is about to rename. The last
  one holds although several saves replace one destination at a time.

`ByteInv` excludes one peril because a stored size would be wrong from the start.
The others are excluded where TLC refutes the property with them (section 3).

### SessionManagerProofs

| Theorem | States | For |
|---|---|---|
| `TypeCorrect` | `[]TypeOK` | all constants, every overlap |
| `GuardsCounted` | `[]WatchCountsGuards` | all constants, every overlap |
| `KeysProtected` | `[]GuardProtectsKeys` | behaviours without races |
| `NothingLeft` | `[]ClosedLeavesNothing` | behaviours without races |

`WatchCountsGuards` is inductive together with the types and with the places
where an operation can have a guard (`GuardsAfterRecheck`); the count is the
cardinality of a finite set of operations, one of which each step adds or
removes. `SessionInv` says of behaviours without races that opening and closing
exclude each other, that a lock or timeout that has waited for the guards finds
no operation (`LateFindsNoOps`: `begin_operation` re-checks the gate after it
has registered), that one task closes the session at a time (`ClosesAlone`) and
alone has a taken path in hand (`PathsInHand`), that the only `rclone.conf` on disk
is the one recorded or in hand, or one a warning speaks of (`ConfRecorded`), and
that what has been destroyed stays so (`LateLeaves`).

### CloudSyncProofs

| Theorem | States | For |
|---|---|---|
| `TypeCorrect` | `[]TypeOK` | all constants |
| `ManifestIsBacked` | `[]ManifestBacked` | `Perils = {}` |
| `NothingOrphaned` | `[]NoOrphans` | `Perils = {}` |
| `Implements` | `SharedSpec`: `CloudSync` implements `SharedVault` | `Perils = {}` |

All are for any number of devices. `Unbuffered` comes first: who probes, publishes
or pulls has an empty buffer, hence no manifest carries one, and nothing is in a
staging root. `QuietInv` is the argument: one device at a
time is between its look at the cloud and its manifest (`OnePublisher`); it is the
only one ahead of the cloud, by one (`CountersFollow`); what a device has buffered or
staged (`Local`) is private to it (`StagedPrivate`); deletions that a manifest has published are final
(`PublishedIsFinal`); and a device in sync differs from the manifest only by what
it buffered, staged, uploads or deleted (`SyncedDiffers`), which is why replacing the
database by the manifest loses nothing. For the refinement every step is shown to
add, condemn or drop a file of `SharedVault`, or to leave `AliveFiles` unchanged.

### NodeTreeProofs

| Theorem | States | For |
|---|---|---|
| `TypeCorrect`, `RowsFormForest`, `NoFileForgotten` | `[]TypeOK`, `[]Forest`, `[]Accounted` | all constants, every overlap |
| `NodesReachable` | `[]Reachable` | `TwoRoots = FALSE` |

`TreeInv` adds to the properties that a row that is gone has no parent
(`NoGhosts`) and that an adding task has an id of its own (`NewFresh`). `Forest`
is stated as: no set of rows has all its parents in itself. That the
set the recursive query finds exists (`BelowFixed`), and in a forest is the
least closed one (`BelowLeast`), is proved without induction; a move outside it
cannot close a cycle. `ReachInv` adds that the recorded root is a directory
without a parent and nobody makes another (`RootStands`), that a task only has
directories in hand that are or were below it (`Destined`), and that no
deletion has the root in hand (`RootSpared`).

### DestinationsProofs

| Theorem | States | For |
|---|---|---|
| `TypeCorrect` | `[]TypeOK`, with at most one primary | all constants |
| `PruneIsSafe` | `PruneSafe` | `"migrate" \notin Overlap` |
| `MirrorsAreQueued` | `[]MirrorsQueued` | `Calm` |
| `PrimaryIsComplete` | `[]PrimaryComplete` | `Calm` |

`Calm`: one destination command at a time, promotions and migrations while
neither push nor backup runs, promoted mirrors healthy, nothing cut short.
`PruneInv`: a running backup knows of every listed blob that any remote holds
(`BackupKnows`), because `sync_mutex` keeps pushes away (`Alone`) and names are
fresh (`NamesUsed`); a migration beside it would break this. `CompleteInv`: the
destination of the row and the one the session talks to are both complete, also
between the promotion of the row and the swap of the transport (`PrimaryHolds`,
`Moving`); a blob is on its way to a mirror in one of four forms (`Bound`); and
what pushes, backups and commands read at their start is still true
(`TasksSane`, `CommandsSane`).

### RekeyProofs

| Theorem | States | For |
|---|---|---|
| `TypeCorrect` | `[]TypeOK` | all constants |
| `KeysAreOrdered` | `[]KeysOrdered` | all constants: everything may overlap, fail and crash |
| `VaultStaysOpenable` | `[]Openable` | `Calmly` |
| `FileKeysStayCurrent` | `[]FileKeysCurrent` | `Calmly` |
| `StaleCloudIsFlagged` | `[]StaleCloudFlagged` | `Calmly` |
| `PhraseStaysValid` | `[]PhrasesOpen` | `Calmly`, one phrase |

`Calmly` says that calm behaviours overlap at most changes and meet at most
failed pushes; the failing uploads of a recovery, and of a setup without a
destination, are part of them. `OrderInv`: at most one ceremony is between the
COMMIT of its transaction and the re-keying of the file, because it left the
identity row ahead of the database and `Rewrap` needs them equal
(`TasksOrdered`); a recovery is alone while it has no session, since changes and
setups have one (`Guarded`), so the database it may remove is nobody else's
(`NoDatabase`). `CalmInv` adds where the keys are while one ceremony is past its
COMMIT (`UnderWay`), that everyone else waiting at its own transaction took an
older key and will be refused (`TakenKeys`), and that the four places agree
otherwise (`AtRest`). `CloudInv` follows header and manifest to the cloud,
step by step, and `SlotInv` the first slot, which is the one every
ceremony re-wraps; with several phrases the others go stale (section 3).

### SharingProofs

| Theorem | States | For |
|---|---|---|
| `TypeCorrect` | `[]TypeOK` | all constants |
| `ReceiptsAreTrue` | `[]ReceiptIsTrue` | all constants: every peril, both providers |
| `ActiveSharesServed` | `[]ActiveIsServed` | `Perils = {}` |
| `NoCopyLeftBehind` | `[]CopiesAreOwned` | `Perils = {}` |
| `RevokedSharesCut` | `[]RevokedIsCut` | `Perils = {}`, `Provider = "b2"` |

`Perils = {}` is one command at a time that fails, or is cut short, only where it
undoes what it did, has done nothing yet, or relies on another active share;
recipients act at any time. `ReceiptInv`
adds that every receipt owed or stored was preceded by the download it reports
(`NotesTrue`), which outlives the share and the copy. `SoloInv`: while one command
works (`Solo`), what it read is still so. A `share_file` that reuses a copy has
an active share beside it and a complete copy (`Sharing1`), so it may fail without
cleaning up; a revocation that found itself the last user of the copy is still
the last, and its list is exactly what is left of the copy (`Revoking1`), so that
marking the row and dropping the snapshot leave no blob and take none from
others. `stray` names the chunks a failed upload stored; `CopiesAreOwned` says of
every other one that it has an owner. `CutInv` follows a key from its making: it is named after its share
(`Named`), it ends by the share's expiry because the time to live was computed
from a clock that has not moved (`Timed`), and unless it has ended the share is
active or the command is about to delete it (`Bounded`). That is why the sweep
of expired shares may leave keys alone, and why neither a slow command nor a
Drive permission, which has no end, is covered (section 3).

### FrontendProofs

| Theorem | States | For |
|---|---|---|
| `TypeCorrect` | `[]TypeOK` of `AppShell` | all constants |
| `WholeVaultsKept` | `VaultsKept` | `"again" \notin Perils` |
| `ScreenAndSessionAgree` | `[]ScreenMatches` | `Calm`: none of `again`, `late`, `reload`, `fail_tail` |
| `ListingIsOwn` | `[]NoForeignListing` | `Calm` |
| `SessionIsWired` | `[]WiredToSession` | `Sound`: `Perils \subseteq {"slow_scan"}` |
| `SetupsAreWatched` | `[]NothingAbandoned` | `Habits = {}` |
| `OnlyWantedCompletions` | `CompletionWanted` | `Patient`: `Habits \subseteq {"leave"}` |

*AppShell.* `DiskInv`: two commands in flight are both logins (`Solo`), and
where a ceremony stands says what its directory holds (`Built`), so that every
directory a cleanup removes is one that is not whole yet. `ScreenInv` adds where
an opening command stands with respect to the session: before its ceremony
nothing is open, after it the vault it was asked for (`OpensOwn`); a second
command is in flight only while a vault is open (`Together`), which is why the
loser of two logins finds the session taken and its failure changes nothing; an
open vault is whole but for the header a recovery by phrase is about to write
(`WholeOnDisk`); nothing moves while the status is asked for (`StatusFresh`);
what is open is on the screen or on its way there (`Shown`). `ListingInv` says
that a listing call that is not outdated was made on the present screen, for the
vault it shows. `WiredInv` follows the wiring: the sweep of old confs is through
before anything opens, the transport is the vault's own from the step `wire` on,
the recorded vault from `record` on.

`WholeVaultsKept` and `ScreenAndSessionAgree` need all they assume: TLC refutes
them with any one of the perils they rule out. `ListingIsOwn` and `SessionIsWired`
are built on `ScreenInv` and rule out what breaks it; TLC finds no violation of
`NoForeignListing` with `reload` or `fail_tail` alone, nor of `WiredToSession`
with `reload`, so weaker hypotheses may do there.

*OAuthSetup.* `FormInv`: one polling task runs at a time, and the form shows
where it stands unless the task was cancelled asleep (`InForm`). `SetupInv` adds
for each place a setup can be in in the backend (begun, taken by a poll, parked
for a drive choice) who will come for it (`InBackend`), and that a child or a
token outside of these places was left by a step that failed. TLC refutes
`NothingAbandoned` with each habit alone.

### Only model-checked

Liveness (`PushEnds`, `WaitEnds`, `LockReturns`, `InactivityCloses`), since fairness
arguments are out of the prover's reach. Every other property of a run is stated
by a theorem.

## 5. Not modelled

* Cryptography and key memory: the models use what the primitives promise (the
  right key opens), not how they do it; EXIF stripping is a change of contents.
* rclone's subprocess: a call is done, not found, failed, or failed but stored
  (pushes, manifests, headers, the copies of shares).
  The wizard's steps for S3, Backblaze and service accounts are single calls.
* `recover_from_cloud` with `pull_vault`, and `delete_vault_from_cloud`: each runs
  alone, before or after a vault exists on the device.
* `rename_node` and `set_gdrive_service_account` change a name or a setting no
  property tells apart. `enqueue_pending_deletions` is called by tests,
  `delete_contact` by nobody.
* Listings, health reports, the security audit, types of requests and answers,
  pages and their styling, progress and messages: they keep no state that
  another step reads. How an operating system reports a mounted drive.
* Migrations of vaults written by older versions; the state they lead to is the
  initial state.

## 6. Plan

What is left to prove: weaker hypotheses for `ListingIsOwn` and `SessionIsWired`,
and that `Transfer`'s commits of one step are implemented by `VaultStore`'s steps,
which needs contents in the latter. Of the code,
`recover_from_cloud` and `delete_vault_from_cloud` are the next to model.
