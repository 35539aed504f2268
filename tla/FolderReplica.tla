---------------------------- MODULE FolderReplica ----------------------------
(***************************************************************************)
(* One device's folder replica (createFolderReplica on a disk folder): the *)
(* files on disk, the durable index with its pending marker, the archive,  *)
(* and the step-by-step scan, receive and edit transactions that change    *)
(* them under the folder lock.                                             *)
(*                                                                         *)
(* Around it: a user whose editor writes the files without taking the lock *)
(* and without flushing them, an application that edits through the        *)
(* replica (a draft based on a version it has read), one peer that edits   *)
(* and merges on its own, and stops of the process or the machine between  *)
(* any two steps.                                                          *)
(*                                                                         *)
(* Files only: directories are not modelled.  Every content is saved once. *)
(***************************************************************************)
EXTENDS ReplicaMerge, FiniteSets

CONSTANTS
  Self, Peer,     \* the device with this replica, and the other one
  Names,          \* names the users give to files
  Copies,         \* the conflict copies of those that users change as well
  Sizes,          \* Sizes[c]: the size of a file with content c
  Times,          \* Times[c]: modification times a file that saves c may get
  NoFile,         \* nothing at a path
  MaxDeletes,     \* bound: deletions by the users of either device
  MaxCrashes,     \* bound: stops of the process or of the machine
  EditorRaces     \* the editor may write between a check and what it guards

\* A user resolves a conflict by editing or deleting the copy; copies of copies
\* are left alone.
Edited == Names \cup Copies

ASSUME FolderAssumption ==
  /\ {Self, Peer} \subseteq Devices /\ Self # Peer
  /\ Copies \subseteq Names \X Contents
  /\ Names \cap (Edited \X Contents) = {}
  /\ Sizes \in [Contents -> Nat]
  /\ IsFiniteSet(Names) /\ IsFiniteSet(Contents)
  /\ Times \in [Contents -> SUBSET Nat]
  /\ Directories = {}
  /\ EditorRaces \in BOOLEAN

\* The files users change, and their conflict copies.
Paths == Edited \cup {ConflictPath(p, c) : p \in Edited, c \in Contents}

VARIABLES
  disk,       \* disk[p]: content, revision and modification time of the file
  older,      \* older[p]: what a loss of power may bring back, for want of a flush
  archived,   \* contents copied to the version archive
  index,      \* the durable index: files, and the pending marker
  step, kind, \* how far the transaction that holds the lock is, and which it is
  listing,    \* the scan's first listing of the folder
  memory,     \* the transaction's index, saved at its save points
  todo, work, \* the records still to receive, and the one at hand
  draft,      \* the application's edit that is not yet published
  peer,       \* peer[p]: the peer's record (its disk always agrees)
  used,       \* contents some user has written
  saved,      \* contents this device's user or application has saved
  givenUp,    \* contents this device's user has replaced or deleted
  authored,   \* authored[p]: changes here to p and its copies that are the users'
  deletes, crashes

transaction == <<step, kind, listing, memory, todo, work>>
folder      == <<disk, older, archived, index>>
users       == <<used, saved, givenUp, authored, deletes>>
vars        == <<folder, transaction, draft, peer, users, crashes>>

-----------------------------------------------------------------------------

File  == [content : Contents, revision : Nat, mtime : Nat]
Entry == [revision : Nat, info : FileInfo]

\* The application's edit: the version and content it has read, and its own.
Draft == [path : Edited, content : Contents \cup {Tombstone}, mtime : Nat,
          expected : Vector \cup {NoInfo}, base : Contents \cup {Tombstone}]

Record == [path : Paths, info : FileInfo]

ASSUME NothingAssumption ==
  NoFile \notin File \cup Contents /\ NoInfo \notin Entry \cup Draft \cup Record \cup Vector

Deleted == 0       \* the revision of a tombstone's entry

EmptyIndex == [files |-> [p \in Paths |-> NoInfo], pending |-> NoInfo]

Init ==
  /\ disk = [p \in Paths |-> NoFile] /\ older = [p \in Paths |-> {}]
  /\ archived = {}
  /\ index = EmptyIndex
  /\ step = "idle" /\ kind = "none"
  /\ listing = disk /\ memory = EmptyIndex
  /\ todo = {} /\ work = NoInfo
  /\ draft = NoInfo
  /\ peer = [p \in Paths |-> NoInfo]
  /\ used = {} /\ saved = {} /\ givenUp = {}
  /\ authored = [p \in Names |-> 0]
  /\ deletes = 0 /\ crashes = 0

RevisionOf(file) == IF file = NoFile THEN Deleted ELSE file.revision

InfoAt(idx, path) == IF idx.files[path] = NoInfo THEN NoInfo ELSE idx.files[path].info

IsLive(info) == info # NoInfo /\ ~IsDeleted(info)

PreviousVersion(info) == IF info = NoInfo THEN NoCounters ELSE info.version

Revisions(files) == {RevisionOf(files[p]) : p \in Paths}
OlderRevisions == {RevisionOf(file) : file \in UNION {older[p] : p \in Paths}}
EntryRevisions(idx) == {idx.files[p].revision : p \in {q \in Paths : idx.files[q] # NoInfo}}

\* A revision nothing remembers: device, inode, size, times of a new file.
FreshRevision ==
  LET known == {Deleted} \cup Revisions(disk) \cup OlderRevisions \cup Revisions(listing)
                         \cup EntryRevisions(index) \cup EntryRevisions(memory)
  IN  Least(0 .. Cardinality(known) \ known)

-----------------------------------------------------------------------------
(* Scanning *)

Idle == step = "idle"

\* The transaction ends, by its last step or by a throw; the durable state stays.
EndTransaction ==
  /\ step' = "idle" /\ kind' = "none"
  /\ listing' = [p \in Paths |-> NoFile] /\ memory' = EmptyIndex
  /\ todo' = {} /\ work' = NoInfo

BeginScan(k) ==
  /\ Idle
  /\ step' = "listed" /\ kind' = k /\ listing' = disk /\ memory' = index
  /\ UNCHANGED <<folder, todo, work, draft, peer, users, crashes>>

\* What reading a listed file gives, block by block: its content, or, where the
\* file was written since, any content of that size, even one that nobody wrote;
\* NoFile where the file is gone or too short by now.
Read(path) ==
  IF listing[path] = NoFile \/ disk[path] = NoFile THEN {NoFile}
  ELSE IF disk[path].revision = listing[path].revision THEN {disk[path].content}
  ELSE IF Sizes[disk[path].content] < Sizes[listing[path].content] THEN {NoFile}
  ELSE {c \in Contents : Sizes[c] = Sizes[listing[path].content]}

\* Wrong on purpose: any file at the path is taken for the pending one.
PendingHasFile(update, content) ==
  (listing[update.path] = NoFile) = IsDeleted(update.info)

\* The pending update did reach the disk before the transaction was cut off.
PendingMatches(update, content) ==
  IF IsDeleted(update.info) THEN listing[update.path] = NoFile
  ELSE content = update.info.content /\ Sizes[listing[update.path].content] = Sizes[content]

\* Wrong on purpose: the marker is ignored.
NotRecovered(update, content) == memory.files

Recovered(update, content) ==
  IF PendingMatches(update, content)
  THEN [memory.files EXCEPT ![update.path] =
          [revision |-> RevisionOf(listing[update.path]), info |-> update.info]]
  ELSE memory.files

RecoverPending ==
  /\ step = "listed" /\ memory.pending # NoInfo
  /\ \E content \in Read(memory.pending.path) :
       memory' = [files |-> Recovered(memory.pending, content), pending |-> NoInfo]
  /\ UNCHANGED <<folder, step, kind, listing, todo, work, draft, peer, users, crashes>>

\* A file is not read again when the index has its revision and its size.
IsKnown(path) ==
  LET old == memory.files[path]
  IN  /\ old # NoInfo /\ ~IsDeleted(old.info)
      /\ old.revision = listing[path].revision
      /\ Sizes[old.info.content] = Sizes[listing[path].content]

\* Wrong on purpose: a file that comes back starts a new history.
ReadEntryAnew(path, content) ==
  [revision |-> listing[path].revision,
   info |-> [content |-> content, mtime |-> listing[path].mtime,
             version |-> advanceVersionVector(
               IF IsLive(InfoAt(memory, path)) THEN InfoAt(memory, path).version ELSE NoCounters, Self)]]

\* The entry of a file that was read: revision and time are the listing's.
ReadEntry(path, content) ==
  [revision |-> listing[path].revision,
   info |-> [content |-> content, mtime |-> listing[path].mtime,
             version |-> advanceVersionVector(PreviousVersion(InfoAt(memory, path)), Self)]]

HashFile(path) ==
  /\ step = "listed" /\ memory.pending = NoInfo
  /\ listing[path] # NoFile /\ ~IsKnown(path)
  /\ \E content \in Read(path) :
       IF content = NoFile THEN EndTransaction
       ELSE /\ memory' = [memory EXCEPT !.files[path] = ReadEntry(path, content)]
            /\ UNCHANGED <<step, kind, listing, todo, work>>
  /\ UNCHANGED <<folder, draft, peer, users, crashes>>

\* Wrong on purpose: the entry of a missing file is left alone.
MissingKept(path) == memory.files[path]

\* Wrong on purpose: the tombstone is no content of a record.
MissingAbsent(path) ==
  IF listing[path] = NoFile /\ IsLive(InfoAt(memory, path))
  THEN [revision |-> Deleted, info |-> [memory.files[path].info EXCEPT !.content = NoFile]]
  ELSE memory.files[path]

\* The entry of a missing file becomes a tombstone, with the time it had.
MissingEntry(path) ==
  IF listing[path] = NoFile /\ IsLive(InfoAt(memory, path))
  THEN [revision |-> Deleted,
        info |-> [memory.files[path].info EXCEPT !.content = Tombstone,
                                                 !.version = advanceVersionVector(@, Self)]]
  ELSE memory.files[path]

\* Wrong on purpose: the folder is not listed a second time.
NotListedAgain == TRUE

\* Every file was read; a second listing must equal the first.
FolderUnchanged == \A p \in Paths : RevisionOf(disk[p]) = RevisionOf(listing[p])

FinishScan ==
  /\ step = "listed" /\ memory.pending = NoInfo
  /\ \A p \in Paths : listing[p] # NoFile => IsKnown(p)
  /\ IF FolderUnchanged
     THEN /\ memory' = [memory EXCEPT !.files = [p \in Paths |-> MissingEntry(p)]]
          /\ step' = "hashed"
          /\ UNCHANGED <<kind, listing, todo, work>>
     ELSE EndTransaction
  /\ UNCHANGED <<folder, draft, peer, users, crashes>>

FlushPending ==
  /\ step = "hashed"
  /\ older' = IF index.pending = NoInfo THEN older
              ELSE [older EXCEPT ![index.pending.path] = {}]
  /\ step' = "flushedPending"
  /\ UNCHANGED <<disk, archived, index, kind, listing, memory, todo, work, draft, peer, users, crashes>>

\* Wrong on purpose: the version the draft was based on is not compared.
DraftIsUnchecked ==
  draft.content = Tombstone => IsLive(InfoAt(memory, draft.path))

\* The edit is refused when the path has moved on since the draft was opened.
DraftIsCurrent ==
  LET old == InfoAt(memory, draft.path)
  IN  /\ IF draft.expected = NoInfo THEN old = NoInfo
         ELSE old # NoInfo /\ compareConcurrentVersionCounters(old.version, draft.expected) = 0
      /\ draft.content = Tombstone => IsLive(old)

EditRecord ==
  [content |-> draft.content, mtime |-> draft.mtime,
   version |-> advanceVersionVector(PreviousVersion(InfoAt(memory, draft.path)), Self)]

PeerRecords == {[path |-> p, info |-> peer[p]] : p \in {q \in Paths : peer[q] # NoInfo}}

SaveScan ==
  /\ step = "flushedPending"
  /\ index' = memory
  /\ CASE kind = "receive" -> /\ todo' = PeerRecords /\ step' = "ready"
                              /\ UNCHANGED <<kind, listing, memory, work, draft>>
       [] kind = "edit" /\ DraftIsCurrent ->
                              /\ todo' = {[path |-> draft.path, info |-> EditRecord]} /\ step' = "ready"
                              /\ UNCHANGED <<kind, listing, memory, work, draft>>
       [] kind = "edit" /\ ~DraftIsCurrent -> draft' = NoInfo /\ EndTransaction
       [] OTHER -> EndTransaction /\ UNCHANGED draft
  /\ UNCHANGED <<disk, older, archived, peer, users, crashes>>

-----------------------------------------------------------------------------
(* Receiving *)

\* How many names a path goes back: none, or one for each time it is a copy.
Depth(path) == IF path \in Names THEN 0 ELSE IF path \in Names \X Contents THEN 1 ELSE 2

CopyIsNeeded(existing, copy) ==
  copy # NoInfo /\ (existing = NoInfo \/ planReplicaMerge(existing, copy).action # "keep")

\* The plan for a record, or the plan for its conflict copy, is refused.
ReceiveRefused(records, path, remote) ==
  LET copy == planReplicaMerge(records[path], remote).conflict
  IN  \/ MergeRefused(records[path], remote)
      \/ copy # NoInfo /\ MergeRefused(records[ConflictPath(path, copy.content)], copy)

Known == [p \in Paths |-> InfoAt(memory, p)]

ChooseRecord ==
  /\ step = "ready"
  /\ \E r \in todo :
       LET local == InfoAt(memory, r.path)
       IN  /\ \A s \in todo : ReceiveOrder(r.info, Depth(r.path)) <= ReceiveOrder(s.info, Depth(s.path))
           /\ IF ReceiveRefused(Known, r.path, r.info) THEN EndTransaction
              ELSE /\ todo' = todo \ {r}
                   /\ IF planReplicaMerge(local, r.info).action = "keep"
                      THEN UNCHANGED <<step, work>>
                      ELSE step' = "chosen" /\ work' = r
                   /\ UNCHANGED <<kind, listing, memory>>
  /\ UNCHANGED <<folder, draft, peer, users, crashes>>

\* The application's edit is acknowledged when its transaction is complete.
FinishReceive ==
  /\ step = "ready" /\ todo = {}
  /\ IF kind = "edit"
     THEN draft' = NoInfo /\ saved' = saved \cup ({draft.content} \ {Tombstone})
     ELSE UNCHANGED <<draft, saved>>
  /\ EndTransaction
  /\ UNCHANGED <<folder, peer, used, givenUp, authored, deletes, crashes>>

Plan == planReplicaMerge(InfoAt(memory, work.path), work.info)

InstallsCopy ==
  /\ Plan.conflict # NoInfo
  /\ CopyIsNeeded(InfoAt(memory, ConflictPath(work.path, Plan.conflict.content)), Plan.conflict)

Target  == IF InstallsCopy THEN ConflictPath(work.path, Plan.conflict.content) ELSE work.path
Install == IF InstallsCopy THEN Plan.conflict ELSE Plan.winner
FromDisk == InstallsCopy /\ Plan.source = "remote"   \* the local file loses

\* checkLocal: the file on disk is still the one the index knows.
LocalUnchanged ==
  RevisionOf(disk[Target]) =
    IF IsLive(InfoAt(memory, Target)) THEN memory.files[Target].revision ELSE Deleted

Save(idx) == memory' = idx /\ index' = idx

SaveLocalWinner ==
  /\ step = "chosen" /\ ~InstallsCopy /\ Plan.source = "local"
  /\ Save([memory EXCEPT !.files[work.path].info = Plan.winner])
  /\ step' = "ready" /\ work' = NoInfo
  /\ UNCHANGED <<disk, older, archived, kind, listing, todo, draft, peer, users, crashes>>

Installing(s) == step = s /\ (InstallsCopy \/ Plan.source = "remote")

CopiesOf(path) == {ConflictPath(path, c) : c \in Contents}

\* A device serves a block from the file itself or from a conflict copy of it:
\* the name of a copy starts with the name it was made of.
NamedAfter(path) ==
  Paths \cap ({path} \cup CopiesOf(path) \cup UNION {CopiesOf(p) : p \in CopiesOf(path)})

PeerServes(path, content) ==
  \E q \in NamedAfter(path) : IsLive(peer[q]) /\ peer[q].content = content

\* The bytes come from the loser on disk, the draft, or the peer, or they are
\* those of the file in place already; all are verified.
Download ==
  /\ Installing("chosen") /\ ~IsDeleted(Install)
  /\ LET arrives == IF FromDisk
                    THEN disk[work.path] # NoFile /\ disk[work.path].content = Install.content
                    ELSE \/ kind = "edit" \/ PeerServes(work.path, Install.content)
                         \/ disk[Target] # NoFile /\ disk[Target].content = Install.content
     IN  IF LocalUnchanged /\ arrives
         THEN step' = "staged" /\ UNCHANGED <<kind, listing, memory, todo, work>>
         ELSE EndTransaction
  /\ UNCHANGED <<folder, draft, peer, users, crashes>>

\* Wrong on purpose: nothing is archived.
ArchiveNothing == archived' = archived

ArchiveTarget ==
  archived' = IF disk[Target] # NoFile /\ IsLive(InfoAt(memory, Target))
              THEN archived \cup {disk[Target].content} ELSE archived

ArchiveReplaced ==
  /\ Installing("staged")
  /\ IF LocalUnchanged
     THEN /\ ArchiveTarget /\ step' = "archived" /\ UNCHANGED <<kind, listing, memory, todo, work>>
     ELSE /\ EndTransaction /\ UNCHANGED archived
  /\ UNCHANGED <<disk, older, index, draft, peer, users, crashes>>

Journaled == [memory EXCEPT !.pending = [path |-> Target, info |-> Install]]

JournalFile ==
  /\ Installing("archived") /\ ~IsDeleted(Install)
  /\ IF LocalUnchanged
     THEN Save(Journaled) /\ step' = "journaled" /\ UNCHANGED <<kind, listing, todo, work>>
     ELSE EndTransaction /\ UNCHANGED index
  /\ UNCHANGED <<disk, older, archived, draft, peer, users, crashes>>

JournalDeletion ==
  /\ Installing("chosen") /\ IsDeleted(Install)
  /\ IF LocalUnchanged
     THEN /\ Save(Journaled)
          /\ step' = IF IsLive(InfoAt(memory, Target)) THEN "doomed" ELSE "replaced"
          /\ UNCHANGED <<kind, listing, todo, work>>
     ELSE EndTransaction /\ UNCHANGED index
  /\ UNCHANGED <<disk, older, archived, draft, peer, users, crashes>>

ArchiveDoomed ==
  /\ step = "doomed"
  /\ ArchiveTarget /\ step' = "journaled"
  /\ UNCHANGED <<disk, older, index, kind, listing, memory, todo, work, draft, peer, users, crashes>>

FinalCheck ==
  /\ step = "journaled"
  /\ IF LocalUnchanged THEN step' = "checked" /\ UNCHANGED <<kind, listing, memory, todo, work>>
     ELSE EndTransaction
  /\ UNCHANGED <<folder, draft, peer, users, crashes>>

\* sink.commit renames the verified file into place; remove deletes it.
Replace ==
  /\ step = "checked"
  /\ disk' = [disk EXCEPT ![Target] =
       IF IsDeleted(Install) THEN NoFile
       ELSE [content |-> Install.content, revision |-> FreshRevision, mtime |-> Install.mtime]]
  /\ older' = [older EXCEPT ![Target] = @ \cup {disk[Target]}]
  /\ step' = "replaced"
  /\ UNCHANGED <<archived, index, kind, listing, memory, todo, work, draft, peer, users, crashes>>

FlushTarget ==
  /\ step = "replaced"
  /\ older' = [older EXCEPT ![Target] = {}]
  /\ step' = "flushed"
  /\ UNCHANGED <<disk, archived, index, kind, listing, memory, todo, work, draft, peer, users, crashes>>

SaveInstalled ==
  /\ step = "flushed"
  /\ Save([files |-> [memory.files EXCEPT ![Target] =
                        [revision |-> RevisionOf(disk[Target]), info |-> Install]],
           pending |-> NoInfo])
  /\ IF InstallsCopy THEN step' = "chosen" /\ UNCHANGED work
                     ELSE step' = "ready" /\ work' = NoInfo
  /\ UNCHANGED <<disk, older, archived, kind, listing, todo, draft, peer, users, crashes>>

-----------------------------------------------------------------------------
(* The users, the peer, and stops *)

\* The user's own name for a file, of which a path may be a copy, or a copy's copy.
NameOf(path) ==
  CASE path \in Names -> path
    [] path \in Names \X Contents -> path[1]
    [] OTHER -> path[1][1]

Authored(path) == authored' = [authored EXCEPT ![NameOf(path)] = @ + 1]

\* The window between the last check of a file and the listing that follows its
\* replacement cannot be closed by the replica.
EditorKeepsOut(path) ==
  ~EditorRaces => ~(step \in {"checked", "replaced", "flushed"} /\ Target = path)

\* The editor need not flush what it writes, and the replica does not.
PutFile(path, file) ==
  /\ EditorKeepsOut(path)
  /\ disk' = [disk EXCEPT ![path] = file]
  /\ older' = [older EXCEPT ![path] = @ \cup {disk[path]}]
  /\ givenUp' = IF disk[path] = NoFile THEN givenUp ELSE givenUp \cup {disk[path].content}
  /\ Authored(path)
  /\ UNCHANGED <<archived, index, transaction, draft, peer, crashes>>

UserWrites(path, content, time) ==
  /\ content \notin used
  /\ PutFile(path, [content |-> content, revision |-> FreshRevision, mtime |-> time])
  /\ used' = used \cup {content} /\ saved' = saved \cup {content}
  /\ UNCHANGED deletes

UserDeletes(path) ==
  /\ disk[path] # NoFile /\ deletes < MaxDeletes
  /\ PutFile(path, NoFile)
  /\ deletes' = deletes + 1
  /\ UNCHANGED <<used, saved>>

\* An application opens an edit on the version the durable index shows; `base`
\* is the content it has read there.  Where a file was deleted the edit names the
\* version of the tombstone.
OpenDraft(path, content, time) ==
  /\ draft = NoInfo
  /\ IF content = Tombstone THEN deletes < MaxDeletes ELSE content \notin used
  /\ LET read == InfoAt(index, path)
     IN  draft' = [path |-> path, content |-> content, mtime |-> time,
                   expected |-> IF read = NoInfo THEN NoInfo ELSE read.version,
                   base     |-> IF read = NoInfo THEN Tombstone ELSE read.content]
  /\ used' = used \cup ({content} \ {Tombstone})
  /\ deletes' = IF content = Tombstone THEN deletes + 1 ELSE deletes
  /\ Authored(path)
  /\ UNCHANGED <<folder, transaction, peer, saved, givenUp, crashes>>

PeerWrites(path, content, time) ==
  /\ content \notin used
  /\ peer' = [peer EXCEPT ![path] =
       [content |-> content, mtime |-> time,
        version |-> advanceVersionVector(PreviousVersion(peer[path]), Peer)]]
  /\ used' = used \cup {content}
  /\ UNCHANGED <<folder, transaction, draft, saved, givenUp, authored, deletes, crashes>>

PeerDeletes(path) ==
  /\ IsLive(peer[path]) /\ deletes < MaxDeletes
  /\ peer' = [peer EXCEPT ![path] =
       [peer[path] EXCEPT !.content = Tombstone, !.version = advanceVersionVector(@, Peer)]]
  /\ deletes' = deletes + 1
  /\ UNCHANGED <<folder, transaction, draft, used, saved, givenUp, authored, crashes>>

\* readReplicaBlock: an indexed file whose bytes still have the indexed hash.
Serves(path, content) ==
  \E q \in NamedAfter(path) :
    /\ IsLive(InfoAt(index, q)) /\ InfoAt(index, q).content = content
    /\ disk[q] # NoFile /\ disk[q].content = content

PeerMerges(path) ==
  LET record == InfoAt(index, path)
      plan   == planReplicaMerge(peer[path], record)
      copy   == plan.conflict
  IN  /\ record # NoInfo /\ ~ReceiveRefused(peer, path, record)
      /\ plan.action # "keep"
      /\ IsLive(record) => Serves(path, record.content)
      /\ peer' = [q \in Paths |->
           IF q = path THEN plan.winner
           ELSE IF copy # NoInfo /\ q = ConflictPath(path, copy.content) /\ CopyIsNeeded(peer[q], copy)
           THEN copy ELSE peer[q]]
      /\ UNCHANGED <<folder, transaction, draft, users, crashes>>

\* The process stops: what it wrote stays in the page cache.
ProcessStops ==
  /\ ~Idle /\ crashes < MaxCrashes /\ crashes' = crashes + 1
  /\ EndTransaction
  /\ UNCHANGED <<folder, draft, peer, users>>

\* The replacement at a path that was under way has reached the folder.
Arrived(path) ==
  /\ index.pending # NoInfo /\ index.pending.path = path
  /\ IF IsDeleted(index.pending.info) THEN disk[path] = NoFile
     ELSE disk[path] # NoFile /\ disk[path].content = index.pending.info.content

IndexedRevision(path) == IF IsLive(InfoAt(index, path)) THEN index.files[path].revision ELSE Deleted

\* Power is lost, and with it changes that were not flushed: `back` are the files
\* that come back.  A lost write of an editor was never the replica's to keep, and
\* what comes back in its place looks to the next scan like a change of the user's;
\* but a replacement of the replica's own that is undone leaves what it replaced.
PowerIsLost(back) ==
  /\ disk' = [p \in Paths |-> IF p \in DOMAIN back THEN back[p] ELSE disk[p]]
  /\ givenUp' = givenUp \cup
       {disk[p].content : p \in {q \in DOMAIN back : disk[q] # NoFile /\ ~Arrived(q)}}
  /\ authored' = [n \in Names |-> authored[n] + Cardinality(
       {p \in DOMAIN back : NameOf(p) = n /\ ~(Arrived(p) /\ RevisionOf(back[p]) = IndexedRevision(p))})]

MachineStops ==
  /\ crashes < MaxCrashes /\ crashes' = crashes + 1
  /\ \E lost \in SUBSET {p \in Paths : older[p] # {}} :
       \E back \in [lost -> UNION {older[p] : p \in lost}] :
         /\ \A p \in lost : back[p] \in older[p] /\ back[p] # disk[p]
         /\ PowerIsLost(back)
  /\ older' = [p \in Paths |-> {}]
  /\ EndTransaction
  /\ UNCHANGED <<archived, index, draft, peer, used, saved, deletes>>

-----------------------------------------------------------------------------

Proceed ==
  \/ RecoverPending \/ (\E p \in Paths : HashFile(p)) \/ FinishScan \/ FlushPending \/ SaveScan \/ ChooseRecord \/ FinishReceive
  \/ SaveLocalWinner \/ Download \/ ArchiveReplaced \/ JournalFile
  \/ JournalDeletion \/ ArchiveDoomed \/ FinalCheck \/ Replace \/ FlushTarget \/ SaveInstalled

Begin ==
  \/ BeginScan("scan")
  \/ BeginScan("receive")
  \/ draft # NoInfo /\ BeginScan("edit")

\* Nobody gives a file the name of a conflict copy, which holds a hash: only a
\* copy that is there is changed or deleted.
Users ==
  \/ \E p \in Names \cup {q \in Copies : disk[q] # NoFile} :
       UserDeletes(p) \/ \E c \in Contents : \E t \in Times[c] : UserWrites(p, c, t)
  \/ \E p \in Names \cup {q \in Copies : IsLive(InfoAt(index, q))} :
       \E c \in Contents : \E t \in Times[c] : OpenDraft(p, c, t) \/ OpenDraft(p, Tombstone, t)
  \/ \E p \in Names \cup {q \in Copies : IsLive(peer[q])} :
       PeerDeletes(p) \/ \E c \in Contents : \E t \in Times[c] : PeerWrites(p, c, t)

Next ==
  \/ Begin \/ Proceed \/ Users
  \/ \E p \in Paths : PeerMerges(p)
  \/ ProcessStops \/ MachineStops

Spec == Init /\ [][Next]_vars

\* Transactions run on, the session's timer keeps receiving, the application
\* retries its draft, and the peer keeps merging.  The lock is taken in turn.
FairSpec ==
  /\ Spec
  /\ WF_vars(Proceed)
  /\ SF_vars(BeginScan("receive"))
  /\ SF_vars(draft # NoInfo /\ BeginScan("edit"))
  /\ WF_vars(\E p \in Paths : PeerMerges(p))

-----------------------------------------------------------------------------

\* Type invariant: what the transactions leave on disk, in the archive and in the
\* saved index are files, contents and records.
TypeOK ==
  /\ disk \in [Paths -> File \cup {NoFile}]
  /\ older \in [Paths -> SUBSET (File \cup {NoFile})]
  /\ archived \subseteq Contents
  /\ index.files \in [Paths -> Entry \cup {NoInfo}]
  /\ memory.files \in [Paths -> Entry \cup {NoInfo}]
  /\ peer \in [Paths -> FileInfo \cup {NoInfo}]
  /\ saved \subseteq used /\ used \subseteq Contents
  /\ authored \in [Names -> Nat]

\* Content the user or the application saved here, and nobody here replaced or
\* deleted, is in the folder or in its archive, wherever receiveReplicaFiles was
\* cut off: it archives before it replaces, and copies a loser before its winner.
\* What an editor had not flushed when power was lost counts as given up.
NoSavedContentLost ==
  \A c \in saved \ givenUp :
    c \in archived \/ \E p \in Paths : disk[p] # NoFile /\ disk[p].content = c

\* scanReplicaIndex does not read a file again whose revision and size the index
\* has; then the file is what the index says.
RevisionVouches ==
  \A p \in Paths :
    /\ IsLive(InfoAt(index, p)) /\ disk[p] # NoFile
    /\ index.files[p].revision = disk[p].revision
    /\ Sizes[InfoAt(index, p).content] = Sizes[disk[p].content]
    => disk[p].content = InfoAt(index, p).content

\* No mixture of two versions is published as a version: a file that was written
\* while hashReplicaEntry read it differs in the scan's second listing.
NothingTornIsIndexed ==
  \A p \in Paths : IsLive(InfoAt(index, p)) => InfoAt(index, p).content \in used

\* The device's own counter counts the changes of its users and the writes of
\* their editors that a loss of power undid.  What the replica put on disk itself,
\* or took back there, never comes as a local edit: scanReplicaIndex recognises an
\* interrupted replacement by the pending marker.
NoPhantomEdit ==
  \A p \in Paths : PreviousVersion(InfoAt(index, p))[Self] <= authored[NameOf(p)]

\* The durable index never goes back from a version of a file with a name of the
\* users': no save point of receiveReplicaFiles writes an older record, and a scan
\* keeps the tombstones.
HistoryNeverForgotten ==
  [][\A p \in Names :
       DominatedBy(PreviousVersion(InfoAt(index, p)), PreviousVersion(InfoAt(index, p)'))]_vars

\* An application's edit of a file of the users' replaces only what the application
\* had read when it opened the draft, whatever the user and the peer did since:
\* edit() compares expectedVersion under the lock, and checkLocal guards the file to
\* the end.  A conflict copy that is edited may get its first content back under a
\* version it has had, so there the comparison shows less.
EditsReplaceWhatTheyRead ==
  [][kind = "edit" /\ draft.path \in Names /\ step = "checked" /\ step' = "replaced" =>
       IF draft.base = Tombstone THEN disk[draft.path] = NoFile
       ELSE disk[draft.path] # NoFile /\ disk[draft.path].content = draft.base]_vars

\* Both devices hold the same records, and the folder holds what they say.
InSync ==
  \A p \in Paths :
    /\ InfoAt(index, p) = peer[p]
    /\ IF IsLive(peer[p]) THEN disk[p] # NoFile /\ disk[p].content = peer[p].content
                          ELSE disk[p] = NoFile

\* Whatever was cut off is finished: once users and crashes stop, the receives of
\* startReplicaSync's timer bring both devices to agree and stay so.
EventuallyInSync == <>[]InSync

=============================================================================
