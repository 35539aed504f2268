# Formal models of Syncpeer

TLA+ models of the parts of Syncpeer that keep users' files: how folder replicas record, exchange
and merge changes, and how a replica survives interruption; of the document store that holds an
application's writes until they are published, and the passes that keep favourites in step with a
peer; and of the parts that keep a connection to a peer. TLC checks the models on small instances;
TLAPS proves the central results for every value of the constants.

All paths below are relative to the repository; `core/` is `packages/core/src/`.

## 1. The system

Syncpeer is a TypeScript core that speaks Syncthing's Block Exchange Protocol (BEP), with a
desktop shell (Tauri), an Android plugin, a command line client and a document file system
on top. Two devices share a folder as *replicas*: each keeps a durable index of file records
(version vector, blocks, deletion flag), scans its folder into that index, publishes the
index to its peers, and merges the records its peers publish.

| component | state | operations | what makes it hard | what makes it correct |
|---|---|---|---|---|
| version vectors `core/core/protocol/versionVector.ts` | a map device -> counter | advance, merge, compare (two ways) | counters overflow at 2^64; zero counters are equal to missing ones | advancing dominates; merging is the least upper bound |
| replica merge `core/sync/replicaMerge.ts` | none (pure) | `planReplicaMerge` | concurrent versions, deletions against edits, conflict copies of conflict copies | both sides choose the same winner; no live content is dropped |
| folder replica `core/sync/replicaStorage.ts`, `replicaReceive.ts`, `replicaIndex.ts`, `nodeReplica.ts`, `nodeFolderStorage.ts` | files, index with a pending marker, archive, lock | scan, receive, edit, read a block | a stop between any two steps, an editor without the lock, loss of what was not flushed | nothing saved is lost; no phantom edits; the index never goes back |
| mesh of replicas | the durable indexes of all devices | edit, merge | records late, twice, out of order, from any device | convergence; one content per version |
| BEP session, `core/client.ts` (`BepSession`) | `state.files`, `pendingIndexByFolder`, `sentReplicaSequences`, three asynchronous tasks | cluster config, index, request, timer | tasks interleave at every await, frames queue and replace each other | it does only what the mesh allows; both ends come to agree |
| replica controller `core/sync/replicaControl.ts` | admitted operations, pause flag, transition | run, pause, resume, close | pausing while operations run, close during a transition | paused means drained |
| peer session manager `core/sync/peerSessionManager.ts` | one session per peer | admit, close | both ends dial at once; a probe dials while a session is in use | both ends keep the same connection |
| connection lifecycle `core/ui/connectionLifecycle.ts` | the active session, the opening attempt, a generation, timers | connect, adopt, disconnect, ensure, suspend, upgrade | every call can overtake every await of every other | no session leaks, the phase is true, a connection that is wanted comes about |
| encrypted storage, ciphertext replica `core/sync/encryptedReplica*.ts`, `ciphertextReplica.ts` | an encrypted store, pending and complete records | prepare, complete, read | crashes between records | a complete record is whole |
| baseline folder sync `core/sync/folderSync.ts` | a baseline and a journal | three-way plan, apply | the folder changes between plan and apply | nothing outside the plan is touched |
| document drafts and file system `core/sync/documentDraft.ts`, `documentFilesystem.ts` | a directory per draft (base, chunks, head), open handles, one queue of operations | open, write, flush, discard, download, recover, rename, remove | stops between the files of a draft; a peer's session changes the document meanwhile | an acknowledged write is published once and whole, or set aside; a conflict copy has a rival |
| folder registry, retention, credential vault `core/sync/folderRegistry.ts`, `replicaPurge.ts`, `credentialVault.ts` | open folders, the vault's lock, committed releases; other holders | lock, unlock, release a local copy | a lock or a stop in the middle of work, of an opening or of a purge | nothing works on a closed folder; a release is carried through and never undone |
| favourite sync `core/sync/serviceFavoriteSync.ts`, `favoriteSyncPlan.ts`, `documentFavoriteState.ts` | a baseline and an entry per favourite, recorded renames | a pass: renames, plan, upload, download, deletion | a plan is carried out after documents and the peer's index have changed | which steps can lose a content; resolutions last until one is carried out; both sides agree or a conflict is shown |
| personal space | a signed change graph | apply, save | concurrent saves | only authorised changes count |
| discovery, dialing, transports; session store and UI; PIM data; hosts | sockets, presentation, formatting | | I/O | outside these models |

How they interact: the hosts open connections through the *connection lifecycle*; a new
connection goes through the *peer session manager* and becomes a *BEP session*; its tasks
call the *folder replica* through the *replica controller* (scan before publishing, receive
after an index) and serve the peer's block requests; receives call the *replica merge*, which
uses *version vectors*. The *document file system* runs one operation of an application at a
time, keeps its writes in *drafts* and publishes them through `replica.edit`; the *credential
vault* closes its folders when it is locked and opens them, drafts first, when it is unlocked.
*Favourite sync* runs passes through the same queue and moves contents over the BEP session.

`PROJECT.json` lists every component with its status, and under `hazards` what in this code
is hard to test, each at its line with the property that would catch it.

## 2. The modules

| module | models | composes |
|---|---|---|
| `VersionVectors` | `versionVector.ts` as operators | |
| `ReplicaMerge` | `planReplicaMerge`, its refusals, the order of a receive | `VersionVectors` |
| `ReplicaMesh` | what the replicas of several devices promise together: the abstract specification | `ReplicaMerge` |
| `FolderReplica` | one disk replica, transaction step by transaction step | `ReplicaMerge` |
| `ReplicaExchange` | two devices, each with the tasks of a session | `ReplicaMerge`, an INSTANCE of `ReplicaMesh` |
| `ConnectionLifecycle` | `connectionLifecycle.ts` between two awaits, with the browser client's `openSession` around it | |
| `DocumentStore` | `documentDraft.ts`, with the queue, the lock, the controller and the release around it | |
| `FavoriteSync` | the passes of `serviceFavoriteSync.ts` with their plan, between two awaits | |
| `ReplicaMergeProofs`, `ReplicaMeshProofs` | theorems about merging and the mesh | |
| `FolderReplicaProofs` | theorems about one device's replica | |
| `ReplicaExchangeProofs` | theorems about two sessions, with the step from them to the mesh | |
| `ConnectionLifecycleProofs` | theorems about the lifecycle | |
| `DocumentStoreProofs`, `DocumentWritesProofs` | theorems about the store, the second module resting on the first | |
| `FavoriteSyncProofs` | theorems about the passes of favourite sync | |
| `MC*` | values of the constants for TLC | |

Each module holds a few operators marked *Wrong on purpose*. No specification uses them:
each is a plausible defect of one definition, and the property named with it in
`PROJECT.json` fails when it takes that definition's place. They keep the properties honest.

### Records

A record is `[version, content, mtime]`. `content` stands for `replicaContentSignature`: two
records have equal content exactly when their signatures are equal, and a tombstone's content
is `Tombstone`. A conflict copy's path is the pair of the path and the content that lost
there, as the code appends a hash of the content to the name. Counters are naturals up to
`MaxCounter`, which the code refuses to pass (2^64 - 1). Short device ids are compared as
numbers; the code compares them as numbers too.

### ReplicaMesh

`entries[d][p]` is the record of path `p` in the durable index of `d`; `published` is every
record any index has held, so a merge may take any of them at any time: this is what a
network that delays, repeats and reorders can do. `Write` and `Delete` are what a scan or an
edit adds; `InstallConflictCopy` and `ReceiveWinner` are the two durable steps of
`receiveReplicaFiles`, and a device may stop between them.

A scan treats every path alike, and a user resolves a conflict by editing or deleting the copy:
`Copies` are the conflict copies that users change as well as the files of their own
(`Names`); together they are `Edited`. Copies of copies are left alone. A copy is installed as
it is, without merging its version with that of a copy that is there (`NeedsConflictCopy`), so
it can put back what its user changed or deleted. The properties say what that leaves: content
saved under a user's own name is safe, a copy's path may get back the content it is named for,
and what a user wrote into a copy may be lost (`NoEditedCopyLost`, see findings).

`birth`, `superseded` and `deletes` record the users' history for the properties.
`ClocksAgree` says that every edit has a time of its own, later than that of what it replaces;
without it files have any time (restored backups, wrong clocks).

### FolderReplica

The variables `disk`, `older`, `archived` and `index` are what survives a stop of the process;
`older[p]` are the files a loss of power may bring back at `p`. The replica flushes what it
installs and the path of a pending update; an editor flushes nothing, so what it replaced, or
its deletion, may come back until the replica flushes that path. `step` says how far the
transaction that holds the lock is:

| step reached | code |
|---|---|
| `listed` | the scan's first listing; then `RecoverPending` compares the file of the pending marker, and `HashFile` reads every file whose revision or size the index does not have, one after the other |
| `hashed` | `FinishScan`: second listing equal to the first, missing files turned into tombstones |
| `flushedPending` | the path of a pending update is flushed |
| `ready` | index saved; `receiveReplicaFiles` comes to the next record |
| `chosen` | a record needs installing: its copy first, then its winner |
| `staged`, `archived` | bytes verified in a temporary file; the file to replace archived |
| `journaled`, `doomed` | index saved with the pending marker (for a deletion, before archiving) |
| `checked`, `replaced`, `flushed` | last check, rename or removal, flush; then `SaveInstalled` |

Every step is a separate action, so that the editor, the application and a stop come between
any two. A failing check throws (`EndTransaction`), which leaves the durable state as it is.
A file that is written after it was listed may be read torn (`Read`): any content of its
length, even one that nobody wrote. A revision stands for device, inode, size and times of a
file: `FreshRevision` gives each new file one that nothing remembers, and `IsKnown` compares
revision and size as `replicaIndex.ts:157` does.

The replica cannot close one window: between the last check of a file and the listing that
follows its replacement (`replicaReceive.ts:85`) an editor's write is either overwritten by the
rename or, if it has the size of the peer's file, recorded as the peer's content, which later
scans skip. `EditorRaces = FALSE` keeps the editor from that path in that window
(`EditorKeepsOut`); the run and four of the theorems assume it.

An editor's write that a power loss undoes was never the replica's to keep: it counts as given
up, and what comes back in its place looks to the next scan like a change of the user's, so it
counts as one (`PowerIsLost`).

Left out: directories and their markers; ignored and case-folded names; pruning of the archive
(`archived` only grows); pausing; the lock file a killed process leaves behind, which a user
removes by hand; the ciphertext branch; files half written at a loss of power; edits of copies
of copies. `HistoryNeverForgotten` and `EditsReplaceWhatTheyRead` speak of names of the users'
own only: a copy may be installed again over what it became, as in the mesh.

### ReplicaExchange

`step[d][t]` is the place of task `t` of the session of `d`. `config` is
`handleClusterConfig`, `apply` is `handleIndex` with its loop over `pendingIndexByFolder`, and
`timer` is the interval `startReplicaSync` sets. A scan records one path at a time; a record is
installed in one step (`FolderReplica` shows its parts). `AtStart` are the files a device has
before its first scan, `Authors` what its users may write, to files of their own and to the
conflict copies in `Copies` the device has. `wire[d]` are the frames on the way,
`unmarked[d]` the writes whose completion has not yet set `sentReplicaSequences`. With
`Encrypted` the scan is encrypted between being taken and being compared and written, and a
block request is answered only for the file last advertised (both devices know the password).

Left out: several folders in a session, replicas that are paused, uploads and deletes through
the remote file system, a scan failure in the answer to the cluster config (it closes the
session, which `DropSession` covers), request timeouts, and zero-size encrypted files.

### ConnectionLifecycle

An action is what `createConnectionLifecycle` runs between two awaits, so any call, timer, dial
or closure comes between. `attempts` are the promises of `openDesired` that have not settled
(`leaving`: the session came too late and is being closed), `opening` the one that later calls
join, `callers` the calls of `connect` and `ensureSession` that go on when an opening settles
(`Waiter`: its own; `Refresher`: a stale one it has cancelled). A call goes on as soon as its
promise settles, before any other event (`Settled`). `watched` says whether the closure of the
active session still counts in the present generation. `rank` is `pathRank`; 0 is a closed
session.

What `openSession` of the browser client does around it depends on `role`:

| `role` | `Finds`, what an opening or a probe ends with |
|---|---|
| `dials`: no listener | a new session; then `prepareBackgroundHandoff`, which may fail |
| `dials and listens` | a new session if there is none in use; otherwise the session manager keeps or replaces the one in use |
| `accepts` | the session in use, or the incoming one about to be offered to `adopt` |

The session manager chooses by direction and connection id whether it admits a new session while
another is in use. Refused, `openSession` returns the session in use; admitted, the one in use is
closed as by request. Either way a probe ends with the closure of the session in use by the
lifecycle or under it, and with none left, so the model has `Finds` return the session in use and
`LetGo` close it. `MayBeAdmitted` says that an opening of the lifecycle itself finds none in use:
it starts after the last one was closed. A failed handoff (`HandoffFails`, `ProbeStrands`) rejects
after the session is open and leaves it so: `stranded`. Only devices without a listener have a
handoff (`tauriAdapters.ts:649`, `:873`), so only they strand sessions.

| action | code |
|---|---|
| `Connect`, `Ensure`, `Adopt`, `Disconnect`, `SetOnline`, `SetForeground`, `SetTransferActive` | the operations, up to their first wait |
| `Resume`, `DisconnectEnds` | what `connect`, `ensureSession` and `disconnect` do after it |
| `Opened`, `OpeningFails`, `RetryFires` | `openDesired`, `scheduleRetry` |
| `HandoffFails`, `ProbeStrands` | the rejection at `browserClient.ts:893`, for an opening and for a probe |
| `UpgradeFires`, `Probed`, `ProbeFails` | `scheduleUpgrade` |
| `Lost` | `watchClosure` |
| `Arrives` | `onSession` of the peer service |
| `ConfigurationChanges`, `RefreshSession` | `onSessionConfigurationChange` of the browser client |

Left out: the length of delays and the failure streak; subscribers; which of two live sessions
the manager of either device keeps, and the replacement of a listener; timers of an older
generation, which do nothing. Dial, admission, handoff and the settling of the opening are one
step, so that a call that comes while a session is admitted but not yet returned is seen as
coming before it. The runs have one value of the options: switching between peers is covered by
the proofs only.

### DocumentStore

`disk[d]` is the directory of draft `d`: whether it is made, its base, its chunks and its head;
`held[d]` is the head an open handle keeps in memory. `op` is the operation at the head of the
queue of `documentFilesystem.ts`, which runs one at a time; each of its steps ends where a file
has been written or the index read, so that the peer's session, which works through the
controller outside the queue, and a stop come between any two:

| `op.at` | code |
|---|---|
| `copy`, `first` | `openDocumentDraft`: directory made, index read; base copied; then the head saved |
| `mark`, `chunk`, `head` | `writeBatch`: head marked dirty, chunk written, head saved and the write acknowledged |
| `clean` | `flush` has published or found nothing to do and has yet to save the clean head |
| `discard` | the directory is removed, file by file |

`vault` follows `lock` (`closing`: handles, controller, storage in turn), `unlock` (`opening`:
the folder is opened, each draft in `todo` recovered, handles admitted) and the release
(`releasing`). `Flush` and `Recover` publish as `flush` does: over the document if it still has
the version of the head, and otherwise as the draft's conflict copy, if it does not match
already. `owed`, `aborted` and `rivals` record what the properties speak of: acknowledged and
unpublished blocks, edits given up, drafts whose document somebody else changed.

Abstracted: one document and one file of the peer's (a resumed download whose metadata no
longer match is not discarded); two blocks instead of any number, no encryption, no block
sizes; the dirty flag of a handle and that of its head are one; the scans at an opening are one
and the directory is made with it; the removal of a draft appears file by file only in what a
stop leaves (`Remnants`); `replica.edit` is one step, its parts are in `FolderReplica`. Left
out: reads, directories, the cache, the settings folder, the count of other holders that a
release asks for.

### FavoriteSync

`doc` are the local documents, `peer` the peer's entries, `seen` those of the index the session
has, `base` the baseline, `entry` the saved issue and resolution of the favourite, `renames`
the recorded renames, `job` where the pass is and what it has read, `out` a publication on its
way. For the properties, `live` are the contents nobody has replaced or deleted on purpose, and
`stale` the paths whose baseline a pass was about to replace when it was cut off.

| action | code |
|---|---|
| `StartPass`, `PlanRename`, `RemoveOldName`, `PlanLoneRename`, `MoveFavorite`, `ClearRenames` | `runRenames`, `renameFavorite` |
| `List`, `RunCandidate` | the listing of `syncFolderFavorites`; `planAndRunCandidate` with `planFavoriteSync` |
| `Publish`, `Confirm`, `TimesOut`, `Vouch` | `uploadFavorite` and `publishFileFromSource`; its wait for the peer, which may end without an answer while the publication is still on its way; the new baseline, of what was published |
| `Fetch`, `Commit`, `SaveDownloaded` | `beginDownloadAction`, `finishDownloadAction`, `markSynced` |
| `RemoveLocal`, `ClearBaseline`, `MarkSynced` | the three operations of `runDeleteLocal` |
| `Consume` | `removeFavoriteSyncEntry` once a resolution is carried out |
| `UserWrites`, `UserRemoves`, `UserRenames`, `UserResolves` | the commands of the file system, between the awaits of a pass |
| `SessionLost`, `Crash` | both cut the pass off (`CutOff`) |

Abstracted: one favourite of one folder and the two names it may have; a failed rename ends the
pass; backoff only delays attempts, so it is left out. A stamp is the time of a publication (the
code's `nowMs` of the pass) and unique; two contents under one stamp are taken to differ in
size. One publication is on its way at a time. That `clearSyncBaseline` itself fails is left
out. The peer is another program: it takes a publication that continues its version, settles one
that does not by keeping either, with the other in a conflict copy, and lets no deletion win
over a change.

## 3. What the runs check

| run | properties | shows |
|---|---|---|
| `mesh_edits` | `OneContentPerVersion`, `NoSavedContentLost`, `EventuallyConverged` | with agreeing clocks and no deletion, three devices (one only relays) that edit and merge in every order keep one content per version, keep every content, and converge |
| `mesh_deletes` | `TypeOK`, `NoSavedContentLost`, `HistoryNeverForgotten` | with any clocks, a deletion, a directory and a conflict copy that is edited or deleted, no content saved under a user's name is lost and no such path goes back |
| `mesh_same_version` | `OneContentPerVersion` | *violated*: see findings |
| `mesh_copies` | `NoEditedCopyLost` | *violated*: see findings |
| `folder_transactions` | `TypeOK`, `NoSavedContentLost`, `RevisionVouches`, `NothingTornIsIndexed`, `NoPhantomEdit`, `HistoryNeverForgotten`, `EditsReplaceWhatTheyRead`, `EventuallyInSync` | a stop of process or machine at any step, an editor that writes while files are read and flushes nothing, an application and a peer |
| `exchange_converges` | `WantedIsServed`, `ImplementsMesh`, `EventuallyInSync` | a device with a file, another whose user writes the same file, and a conflict copy that is edited: the session implements the mesh and brings both to agree |
| `exchange_encrypted` | `TypeOK`, `SentIsCurrent`, `EventuallyInSync` | a file that is fetched and deleted, with asynchronous encryption and a lost connection |
| `exchange_stall` | `EventuallyInSync` | *violated*: see findings |
| `lifecycle` | `TypeOK`, `NoSessionLeaks`, `ConnectedHasSession`, `EventuallyConnected` | calls, retries, adoptions, upgrade probes, losses, failed handoffs and configuration changes that overtake each other leak no session but those of the failed handoffs, and end connected |
| `lifecycle_probe` | `ProbeKeepsSession` | *violated*: see findings |
| `documents` | `TypeOK`, `AcknowledgedWritesSurvive`, `NoWorkOnClosedStorage`, `ReleasedStaysClosed`, `ConflictNeedsRival`, `PublishedDraftsAreWhole`, `RetainedDraftsArePublished`, `ReleaseCompletes` | a draft that is opened, written, flushed, recovered or downloaded while the peer changes its document, the vault is locked, the copy released and the process stopped at any step |
| `favorites` | `TypeOK`, `NothingLost`, `ResolutionSurvives`, `RenamesFollowed`, `Settles` | passes between whose awaits a user edits, removes, renames and resolves and a peer changes its copy, with a late message, a lost session or a stop: content is lost in the steps `KnownGap` names and in no other |

**Bounds.** One name with its conflict copies, two or three contents, one or two modification
times, one deletion, one stop or one lost connection. One name suffices because paths meet
only where a conflict copy's path is that of another record, and copies of every name are in
`Paths`. Two contents are the fewest that conflict; three let a merged winner meet a third
edit, give a third device something to relay, and give a conflict copy something to become.
One conflict copy is enough that is edited or deleted: `CopyOfX` in `mesh_deletes` and
`folder_transactions`, `CopyOfY` in `exchange_converges`; it meets the copy that the next merge
makes. Two times make a tie and both orders; in `mesh_deletes` two contents share a time
(`Restored`) and an edit may be older than what it replaces. `mesh_copies` needs a fourth content
and edits on three devices. One stop is enough to leave every intermediate durable state: the
next transaction starts from it. In `folder_transactions` all contents have one size
(`OneSize`), so that only revisions tell files apart, and the third content is written by
nobody: it can only come from a torn read. `MaxCounter` is 9, above every counter the edits can
reach; overflow is refused by a guard (`CanAdvance`) and covered by the proofs, not by the runs.
`lifecycle` has four events among calls, losses, failed handoffs and configuration changes -
enough to connect, suspend, resume and lose or refresh the session in any order - and five
session names, one more than the sessions that a generation with three losses can use one after
the other. A device that listens has only best paths there (`BestWhereListening`), so that it
never probes: `lifecycle_probe` shows what a probe does to it.
`documents` has one draft (`MaxDrafts`): drafts meet only in the document, where the receive of
a peer's update stands for any other change, and the proofs cover every number of them. Five
ticks of the clock are two writes, a publication and an update of the peer's before or after
each; one lock and one stop leave every durable state an opening can find, and `Remnants` the
halves of a removal. Edits are not aborted there (`AbortsEdits = FALSE`), see below.
`favorites` has three events of users and peer: a conflict takes two, and the third comes while
it is being resolved or carried out; one failure: a lost session, a message that is late, or a
stop.

**Deadlock** is checked in every run but those of the mesh, where devices that hold the same
records really have nothing left to do, those of the lifecycle, which rests once it is
connected, or disconnected, and nobody calls, and `documents` and `favorites`, where nothing is
left to do when no application, user or peer acts.

**Fairness.** `ReplicaMesh` assumes that a device that can merge eventually does: every device
receives periodically. `FolderReplica` assumes weak fairness of the transaction's own steps (a
promise chain runs on) and of the peer's merges, and strong fairness of taking the lock for a
receive and for the application's edit: the timer and the application retry for ever, and the
lock is passed in turn among them and scans. `ReplicaExchange` assumes weak fairness of
delivery, completion of writes and scans, of the timer's task, and of the two other tasks
together. `ConnectionLifecycle` assumes weak fairness of timers, of calls whose promise has
settled and of cancelled openings, and strong fairness of dialing and of the peer's dialing: a
peer that is tried again and again is reached at last. `DocumentStore` assumes weak fairness
of what goes on once it was asked for (`SystemStep`): the queue runs on, receives end, and a
locked vault is unlocked again. `FavoriteSync` assumes weak fairness of the pass and of the
network: the service of the Android host starts a pass every 15 seconds, and messages arrive.
Users, stops and losses are never required; their bounds make them stop.

**Findings.**

1. *Same version, different contents* (`mesh_same_version`). Two devices suffice. Device 1
   writes *x* {1:1} and deletes it {1:2}; device 2 concurrently writes *y* {2:1}. Device 1 has
   only its tombstone and merges *y*: {1:2, 2:1}. Device 2 hears *x* first, which wins by time:
   *x* {1:1, 2:1}; then the tombstone, which loses to live content: *x* {1:2, 2:1}. The same
   version now names *x* and *y*, `planReplicaMerge` throws "Different contents have the same
   version." (`core/sync/replicaMerge.ts:25`), and the path syncs no more.
2. *A conflict copy that was edited is overwritten* (`mesh_copies`). Devices 1, 2 and 3 write
   *w*, *x* and *y* to one path, in the order of their times. Device 3 merges *x*: *y* wins, and
   the copy of *x* gets {2:1, 3:1}. Device 1 merges *x*, which wins over *w*, and publishes *x*
   with {1:1, 2:1}. The user of device 3 edits the copy to *z*, {2:1, 3:2}. Then device 3 merges
   *x* {1:1, 2:1}: *y* wins again, and the copy of *x* made this time, {1:1, 2:1, 3:1}, is
   concurrent with *z*. Although *z* is the later one, `install` puts *x* in its place
   (`core/sync/replicaReceive.ts:99`), and no conflict copy of *z* is written: *z* is in no index
   and no folder, only in the version archive of device 3. `SYSTEM_DEFINITION.csv:65` promises a
   conflict copy when both sides changed concurrently.
3. *A receive that fails keeps a device from publishing* (`exchange_stall`). Each device has a
   file of its own at one path and has sent its record, {1:1} and {2:1}; before the other has
   fetched it both users delete theirs. Each device prefers the other's live record to its own
   new tombstone; the bytes are gone; the receive throws, and the timer skips
   `sendSharedFolderIndexes` (`core/client.ts:1196`). Neither ever hears of the other's
   deletion, and every round fails in the same way.
4. *An upgrade probe closes the session in use* (`lifecycle_probe`), on every device that listens.
   Where the peer dials, `openSession` returns the session in use; the probe takes it for the
   replacement, finds its path no better than its own, and closes it
   (`core/ui/connectionLifecycle.ts:147`). Where this device dials, the session manager refuses
   the probe's session, which ends the same way, or admits it and closes the one in use
   (`core/sync/peerSessionManager.ts:66`). The closure counts as the user's, so no retry follows.

**Noticed while modelling.** No run claims what follows; a model leaves it out, or a property
excepts it, where said. The gaps of favourites contradict `SYSTEM_DEFINITION.csv:245` ("shall
never silently replace an unverified local edit") and `:249` ("consume the resolution only after
success", "Both directions re-verify hashes before replacing anything"); of the others the
repository says nothing.

- An editor that writes a file of the peer's size after the rename of a replacement, before the
  listing that follows it, has its content recorded as the peer's: later scans skip the file
  (`replicaIndex.ts:157`), and it is not published until it changes again (`EditorRaces`).
- A failed handoff to the background service rejects the opening and leaves the session it has
  opened open (`core/ui/browserClient.ts:893`): `NoSessionLeaks` excepts it.
- A stop between making a draft's directory and saving its head leaves a directory that makes
  every later `beginDownload` of the folder throw (`core/sync/documentDraft.ts:489`). The guard
  of `Open` has it.
- A clean draft whose base has another size than its head says stays an issue for ever.
- A stop before or in the middle of discarding an aborted edit leaves a dirty draft, which the
  next unlock publishes: with `AbortsEdits = TRUE`, `PublishedDraftsAreWhole` fails.
- A release looks at open handles only (`core/sync/documentFilesystem.ts:1345`): the purge
  deletes drafts whose acknowledged writes no unlock has published yet.
  `AcknowledgedWritesSurvive` speaks of folders that were not released.
- `finishDownload` reads the document's version after publishing: the baseline it returns may be
  that of a peer's later change.
- A local deletion that a pass makes checks no hash (`core/sync/serviceFavoriteSync.ts:177`): a
  document that changed since the pass hashed it is removed. A publication continues whatever
  version the index has by then, so it replaces an entry that arrived after the listing; one
  that a pass has stopped waiting for may still arrive and replace a later change. A resolution
  is carried out on what either side has become since the user decided. When a pass is cut off
  before it saves its baseline, the next one may plan a deletion or a download by the old one.
  These are the steps of `KnownGap`, which `NothingLost` excepts; the run finds no other.
- A resolution that the user changes while a pass carries it out goes with the entry the pass
  clears (`:262-264`), without being carried out, against `SYSTEM_DEFINITION.csv:249`:
  `ResolutionSurvives` says only that some resolution was carried out. A stop before the entry is
  cleared applies a resolution again, to newer contents.
- A rename made while a pass publishes another is dropped with it
  (`core/sync/documentFavoriteState.ts:148`), and the selection stays at a name that is gone. A
  document that is renamed and renamed back before a pass has one record, as
  `recordRenamedFavorite` records only a selected source: the pass takes the document for deleted
  under its new name, deletes the peer's copy of the old one, though the document is there again,
  and moves the selection to the new name. `RenamesFollowed` takes the record at its word.
- One rename that fails holds up every favourite of its folder for the pass; "keep local" of a
  document deleted locally, and "keep remote" of one the peer deleted, fail every time.

## 4. What is proved

`ReplicaMergeProofs`: the operators of `VersionVectors` and `ReplicaMerge`. Merging gives the
least vector above both; advancing gives a strictly greater one; comparing is antisymmetric.
**`MergeIsSymmetric`**: for records with different versions, the two devices that merge each
other's record reach the same winner and the same conflict copy.

`ReplicaMeshProofs`: for every set of devices, editors, names, conflict copies that users change,
contents, directories and times, with or without agreeing clocks,

- **`TypeCorrect`**: `Spec => []TypeOK`
- **`SavedContentSurvives`**: `Spec => []NoSavedContentLost`
- **`HistoryKept`**: `Spec => HistoryNeverForgotten`
- **`DriedUpMeansAgreed`**: `Spec => [](NothingToMerge /\ OneContentPerVersion => Agreed)`

and, with agreeing clocks, no deletion and conflict copies left alone (`ClocksAgree /\
MaxDeletes = 0 /\ Copies = {}`),

- **`VersionsNameContents`**: `Spec => []OneContentPerVersion`
- **`DriedUpMeansConverged`**: `Spec => [](NothingToMerge => Converged)`

The assumptions are those the modules name: `DevicesAssumption`, `ContentsAssumption`,
`NoInfoAssumption`, `MeshAssumption`.

`NoSavedContentLost` is not inductive: that a content is live somewhere says nothing of what a
later merge with an old record does to it. The invariant `IInv` adds

- `EntriesPublished` - what an index holds has been published, so facts about published
  records hold for every local one;
- `CopyContent` - a record at a conflict copy's path has the content the path is named after,
  unless a user changed that copy and so gave the content up;
- `OwnCounters` - no record knows more of a device's edits of a user's file than the device's own
  entry does: an edit's new counter is therefore one nobody has seen;
- `Births` - the device that saved a content under a user's name keeps knowing of that edit: its
  own counter at the path is at least the one the edit got, which is at least one;
- `KnownContent` - a published record of that path whose version knows the edit of the content
  carries it (`EditAccountedFor`), or a user has superseded the content, or some device has a
  record of its conflict copy (`CopyExists`).

The last is the heart: a merge replaces a record only by one whose version includes its own, so
the new record either carries the content or the copy was installed before (copy first, winner
second). A copy's record carries the content the copy is named for, or a user gave that content
up. The proof has one lemma per action, with copies apart (`WriteStep`, `WriteCopyStep`,
`DeleteStep`, `DeleteCopyStep`, `InstallStep`, `ReceiveStep`). TLC had checked `IInv` before it
was proved. `HistoryKept` follows from the versions a plan can return (`PlanResult`,
`WinnerKnows`); the step it excepts, a copy that is installed again, is the one `Grows` names.

`OneContentPerVersion` does not hold of every mesh: `mesh_same_version` is its counterexample with
a deletion; clocks that disagree, and copies that are edited, have others. Where it holds, the
reason is the order of time, and `Chronological` is that reason as an invariant beside `IInv`:

- `NothingDeleted`, `TimesTell` - every record carries content somebody saved, and contents and
  modification times name each other;
- `NewestWins` - a record at a path users edit carries the newest of all contents its version
  knows of.

Two records of the same version know the same edits, so both carry the newest of them, which is
one content. A merge keeps this because it merges the versions and takes the later time
(`MergeIsNewest`); a write does because its time is later than that of what it replaces
(`WriteIsNewest`). `DriedUpMeansAgreed` and `DriedUpMeansConverged` are the safety part of
`EventuallyConverged`: when no published record is news to any device (`NothingToMerge`), equal
versions, contents and records follow (`NoNews`). That merges come to an end stays with TLC.

### FolderReplica

`FolderReplicaProofs`, for every finite set of names and contents, every set of times, sizes and
conflict copies that users change, and any number of edits, stops and losses of power, in a folder
without directories (`FolderAssumption`, `NothingAssumption`):

- **`TypeCorrect`**: `Spec => []TypeOK`
- **`HistoryKept`**: `Spec => HistoryNeverForgotten`
- **`NothingTornGetsIndexed`**: `Spec => []NothingTornIsIndexed`

and, with `~EditorRaces`,

- **`RevisionsVouch`**: `Spec => []RevisionVouches`
- **`SavedContentIsKept`**: `Spec => []NoSavedContentLost`
- **`EditsReplaceOnlyWhatTheyRead`**: `Spec => EditsReplaceWhatTheyRead`

`~EditorRaces` says that no other program writes the path between the last check of a file and
the index that records its replacement. The code cannot close that window, so the last three
theorems need the assumption.

The invariants build on each other, and each theorem takes only those it needs:

- `Shape` (**`ShapeHolds`**) - the ranges of the variables, and what a transaction holds at each
  step.
- `History` - what the transaction has in memory, and what the pending marker holds, succeeds
  what is saved at the names of the users: a version that is not older, and equal versions with
  equal content (`MemoryAhead`, `PendingAhead`). A scan settles the pending update first
  (`PendingFirst`), and none is left when it saves (`NothingPending`).
- `InPlace` - from the last check on, the file is still the one that was checked, and after the
  replacement it is the installed one.
- `Vouching` - a revision stands for one content, among the files that are there, were listed or
  may come back after a loss of power (`Seen`), and so does the revision an entry has. A file
  that was written since it was listed may have been read as anything (`Torn`); then the second
  listing differs, and it is not saved.
- `Authentic` - every content is one that a user has written: of the files (`FilesUsed`), the
  indexes (`IndexUsed`), and the records (`RecordsUsed`).
- `ArchivedFirst`, `EditUnderway` - what is about to be replaced is in the archive; an edit that
  has been accepted is installed or on disk before it is acknowledged.
- `Kept` - saved content is given up, archived, or in a file that no loss of power takes away
  unnoticed (`Safe`, `Firm`).
- `DraftRead` - what the index has at the path of an edit succeeds what the edit has read.

### ReplicaExchange

`ReplicaExchangeProofs`, for two devices, every set of names, contents, times and conflict copies
that users change, encrypted or not, and any number of edits, deletions and lost connections
(`ExchangeAssumption`, `NoFrameAssumption`, and the assumptions of `ReplicaMerge` and
`VersionVectors`):

- **`TypeCorrect`**: `Spec => []TypeOK`
- **`SessionsImplementMesh`**: `Spec => ImplementsMesh`
- **`SentStaysCurrent`**: `Spec => []SentIsCurrent`
- **`WantedStaysServed`**: `Spec => []WantedIsServed`
- **`SessionsLoseNothing`**: `Spec => []Mesh!NoSavedContentLost`
- **`SessionsForgetNothing`**: `Spec => Mesh!HistoryNeverForgotten`

`SessionsImplementMesh` relates the sessions to the mesh: every step of a session is an edit or a
merge of a published record in `ReplicaMesh`, or a stutter (`ScanEdits`, `InstallMerges`).
`SessionsLoseNothing` and `SessionsForgetNothing` carry the mesh's theorems across that relation:
the constants satisfy the mesh's assumptions (`MeshConstants`), the steps are steps of the mesh the
proofs are about (`SameSteps`), so `IInv` of the mesh holds of the two indexes (`MeshInvariant`).
What the relation needs is that sessions hold nothing but what an index has held:

- `MeshShape` - the indexes hold records, all of them published; the record at a conflict copy's
  path has the content the path is named after, or a user changed that copy and gave it up;
- `CopiesHad` - a device that has a file at a conflict copy's path has a record of it: its users
  change only copies that are there, as in the mesh;
- `SessionShape` - what is on the wire, waiting, being merged or being sent is a set of
  published records (`Known`);
- `Queue` - a frame whose write is not complete belongs to a task that waits for it, and to one
  only; the task that answers the cluster config never receives; an idle apply task leaves no
  index waiting.

`SentIsCurrent` speaks of the moment after a write completes, when `sentReplicaSequences` takes
the sequence of a scan that may be old by then. `Current` strengthens it to what holds before:
a scan a task has under way has the records of the index as it is, or the sequence has moved on
since; and the records of the last task to write are part of what the peer will know once it has
read the wire (`LastSaid`). One lemma per kind of step shows that neither is lost
(`WriteSays`, `SendSays`, `MarkSays`, `DeliverSays`, `GrowthSays`).

`WantedIsServed` says that content one end still wants, at a name of the users', can be had from
the other end, though the record it is named by may be long out of date there. Its conditions are
real: a content that a user has given up may be gone (`exchange_stall`), a merge may be refused
(`mesh_same_version`), and a file the peer's user has changed since the last scan is not served.
`Vouching` is why. Whatever a device has said of a path users edit, wherever that is now (`Says`:
its index, a scan being encrypted, the wire, what waits at the peer, what the peer's tasks merge),
the device stands by (`StandsBy`): its index has not gone back behind the record, and the content,
unless a user gave it up, is still at the path, or in a conflict copy, or the peer too has reached
that version. Steps that leave the indexes alone say nothing new (`NothingNew`); a scan or a merge
stores a version above the old one, and a content it replaces goes to a copy first, or is
superseded, or was the peer's record and so is reached there (`StoreVouches`, `ScanVouches`,
`InstallVouches`). A record that a task still wants is one its device has not reached, which
leaves the first two places. TLC had checked the invariant on the configuration of the run, and
with deletions and lost connections, before it was proved.

### ConnectionLifecycle

`ConnectionLifecycleProofs`, for every set of options, sessions and path ranks, each role and
every number of events (`LifecycleAssumption`):

- **`TypeCorrect`**: `Spec => []TypeOK`
- **`SessionsDoNotLeak`**: `Spec => []NoSessionLeaks`
- **`ConnectedIsTrue`**: `Spec => []ConnectedHasSession`

That a session is not lost depends on who may still act on it. `IInv` has three parts: `Held`
(what is open is the active session, the one being offered, or one whose handoff has failed, and
the key in use belongs to the active one), `Opens` (the opening that later calls join is of the
present generation and has an attempt that has not settled, so that a stale one can never be
joined) and `Shown` (while the phase reads connected nothing is opening, something is wanted, and
only going offline can have lost the session). `Probing`, that a probe set out to replace a
session, is carried beside it. One lemma stands for each helper of the code that several actions
share (`CloseHolds`, `ActivateHolds`, `RetiredHolds`, `OpenDesiredHolds`, `ReopenHolds`,
`EnsureHolds`, `HandoffsHold`).

### DocumentStore

For every number of drafts, ticks, locks and stops (`StoreConstants`, `NoneAssumption`):

- **`NobodyOnClosedStorage`**: `Spec => []NoWorkOnClosedStorage`
- **`ReleasedIsNotReopened`**: `Spec => []ReleasedStaysClosed`
- **`TypeCorrect`**: `Spec => []TypeOK`
- **`WritesSurvive`**: `Spec => []AcknowledgedWritesSurvive`
- **`CopiesHaveRivals`**: `Spec => ConflictNeedsRival`
- **`PublicationsAreWhole`**: `~AbortsEdits => (Spec => PublishedDraftsAreWhole)`

The invariants build on each other:

- `Control` (`DocumentStoreProofs`) ties the phase of the vault to what may be running: work is
  admitted only while the controller runs, the controller runs only over open storage, and a
  committed release has neither.
- `Shape` (`DocumentWritesProofs`): an open handle has in memory the head that is on disk and can
  be read; the operation under way is on a draft nobody else touches.
- `Kept` (`DocumentWritesProofs`): `Safe` - an acknowledged block that is not published is in a
  chunk on disk, under a dirty head that covers it and over a base that can be read; `Carried` -
  the write under way carries a token at least as young as any acknowledged for its block. The
  order of the writes (dirty head before the first chunk, clean head after the publication) is
  what makes it inductive.
- `Linked` (`DocumentWritesProofs`): a draft's head has the version of the document, or
  somebody else changed the document, or the draft was just published and its head is not saved
  yet, in which case document and draft match.
- `Grounded`: while the versions agree, the blocks that were not written are the document's.
  This needs that a dirty draft is never half removed, hence `~AbortsEdits`.

### FavoriteSync

`FavoriteSyncProofs`, for any number of changes on both sides, passes, lost sessions and stops
(`FavoriteConstants`):

- **`TypeCorrect`**: `Spec => []TypeOK`
- **`ResolutionsSurvive`**: `Spec => ResolutionSurvives`
- **`DownloadsReplaceWhatTheyRead`**: `Spec => []DownloadsFit`

`Shape` says what a pass remembers at each step: one set of records for each kind of pass
(`Renaming`, `Planning`, `Carrying`, `Keeping`, `Taking`, `Loading` and so on). A resolution is
consumed only in a step that a pass reaches over a new baseline, whose content is the outcome
(`Done`): no other step of a pass, and nothing that users, peer and stops do, comes between the
two and takes the baseline away; every other saved entry keeps the resolution (`Saving`).
`DownloadsFit` says what `Commit` and `SaveDownloaded` rest on: the document that is replaced is
still the one whose hash the pass compared, and what is saved as the baseline is the document's
content.

### Only model-checked

Liveness, since fairness and ENABLED are out of the prover's reach: `EventuallyConverged`,
`EventuallyInSync`, `EventuallyConnected`, `RetainedDraftsArePublished`, `ReleaseCompletes`,
`RenamesFollowed`, `Settles`. And two safety properties: `NoPhantomEdit`, which counts the changes
of users against versions and over losses of power, and `NothingLost`, whose exceptions are those
of `KnownGap`. Every other invariant and action property of a passing run is stated by a theorem.
No definition is recursive, so nothing rests on induction over data.

## 5. Plan

Done, in this order: `VersionVectors`, `ReplicaMerge`, `ReplicaMesh`, `FolderReplica`,
`ReplicaExchange`, the proofs of the first three, `ConnectionLifecycle`, `DocumentStore`,
`FavoriteSync`, the proofs of `DocumentStore`, `ConnectionLifecycle`, `FolderReplica`,
`ReplicaExchange` and `FavoriteSync`.

**Not modelled**, and why:

1. `ReplicaController`, pause and resume (close is in `DocumentStore`): only `nodeReplica.ts`
   gives it a setting to save; a resumed folder goes on with the next scan, as after a stop.
2. `PeerSessions`: the managers of two devices choosing one of several connections, and over it
   `ConnectionLifecycle` with two peers. The next module to write; what one manager's choice does
   to the lifecycle (a session refused, admitted, or closed for another) is in
   `ConnectionLifecycle`.
3. `FolderSync` (the three-way plan against a baseline, and its journal) and `CiphertextReplica`
   (pending, generation and complete records across stops).
4. `FolderRetention`: the count of other holders. The holders are other devices' claims, so the
   model would state what the peers promise rather than what this code does.
5. `SpaceMembership`: the signed change graph of a personal space; authorisation over graphs that
   need recursion, for TLC only.
6. Recovering remote operations (`recoveringRemoteFs.ts`): retries around single requests over
   the lifecycle; an upload whose outcome is unknown is reported and not repeated. Their favourite
   counterpart is in `FavoriteSync`.
7. Discovery, dialing, transports, block transfer, the session store and screens, contacts and
   calendars, the command line client and the hosts: input and output, presentation and
   formatting, where a model would repeat the code. They are most of the repository's lines.

Proof left: that `FolderReplica` implements one device of `ReplicaMesh`, so that what is proved of
the mesh holds of a replica whose transactions may stop at any step. A scan saves the changes of
several paths, and the recovered update, in one write of the index, where the mesh takes one step
for each: the mapping needs a mesh whose device may take several steps at once.
