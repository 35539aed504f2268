--------------------------- MODULE DocumentStore ---------------------------
(***************************************************************************)
(* The document store of one folder: the drafts that hold an application's *)
(* writes until they are published (documentDraft.ts), the queue of        *)
(* operations on them (documentFilesystem.ts), the vault's lock that closes *)
(* the folder and the unlock that recovers its drafts, the controller that *)
(* lets a peer's session change the folder meanwhile (replicaControl.ts),  *)
(* and the release of the local copy (folderRegistry.ts, replicaPurge.ts). *)
(*                                                                         *)
(* One document, of at most two blocks.  A block is a token: Hole was      *)
(* never written, Fetched(i) is block i of the peer's copy that downloads  *)
(* fetch, any other is numbered by the clock when it is written.  Versions *)
(* are numbered by the same clock, so that two versions are equal exactly  *)
(* when their vectors would be.  The transaction of replica.edit, atomic   *)
(* under the storage lock, is the subject of FolderReplica.                *)
(***************************************************************************)
EXTENDS Integers, Sequences, FiniteSets

CONSTANTS MaxDrafts,     \* bound: the drafts opened
          None,          \* no head, no handle
          MaxClock,      \* bound: writes, publications and updates of peers
          MaxCrashes,    \* bound: stops of the process
          MaxLocks,      \* bound: the times the user locks the vault
          AbortsEdits    \* whether a handle that is not a download is aborted

ASSUME StoreConstants ==
  /\ {MaxDrafts, MaxClock, MaxCrashes, MaxLocks} \subseteq Nat
  /\ AbortsEdits \in BOOLEAN

VARIABLES file,      \* the document's record in the replica index
          copies,    \* the conflict copy each draft may publish
          disk,      \* each draft's directory: made, base, chunks, head
          held,      \* the head each open handle holds in memory
          op,        \* the operation at the head of the queue
          vault,     \* "locked", "opening", "open", "closing", "releasing"
          todo,      \* the drafts the opening still has to recover
          running,   \* whether the controller admits work
          receiving, \* a receive of a peer's update was admitted
          storage,   \* whether the folder's byte storage is open
          release,   \* "none", "pending" (committed to the vault), "done"
          owed,      \* the acknowledged write of each block not yet published
          aborted,   \* the edits whose user gave them up
          rivals,    \* the open drafts whose document another one changed
          opened, clock, crashes, locks

vars == <<file, copies, disk, held, op, vault, todo, running, receiving, storage,
          release, owed, aborted, rivals, opened, clock, crashes, locks>>
folderVars == <<file, copies>>

vaultVars  == <<vault, todo, running, storage, release, locks>>
ghostVars  == <<owed, aborted, rivals>>

Drafts == 1..MaxDrafts
Blocks == 1..2
Hole == 0
Fetched(i) == 1000 + i
Nothing == [i \in Blocks |-> Hole]
Remote == [i \in Blocks |-> Fetched(i)]

\* A draft's head: dirty or clean, the version and size of its base, its own
\* size, and, of a download, the blocks that have come.
Heads == [dirty : BOOLEAN, ver : Nat, base : 0..2, size : 0..2, dl : BOOLEAN,
          ranges : SUBSET Blocks]

ASSUME NoneAssumption == None \notin Heads

NoFile  == [ver |-> 0, live |-> FALSE, content |-> <<>>]
NoDraft == [made |-> FALSE, base |-> <<>>, chunks |-> <<>>, head |-> None]
Idle    == [at |-> "idle"]

Init ==
  /\ file = [ver |-> 1, live |-> TRUE, content |-> <<1, 1>>]
  /\ copies = [d \in Drafts |-> NoFile]
  /\ disk = [d \in Drafts |-> NoDraft]
  /\ held = [d \in Drafts |-> None]
  /\ op = Idle
  /\ vault = "open" /\ todo = {}
  /\ running = TRUE /\ receiving = FALSE /\ storage = TRUE
  /\ release = "none"
  /\ owed = [d \in Drafts |-> Nothing]
  /\ aborted = {} /\ rivals = {}
  /\ opened = 0 /\ clock = 1 /\ crashes = 0 /\ locks = 0

-----------------------------------------------------------------------------
(* What a draft's files mean.                                              *)

\* useDraft: a draft whose base is missing or of another size is refused.
Usable(k) == k.head # None /\ (k.head.base > 0 => Len(k.base) = k.head.base)

\* readRange: the changed blocks over the base.
Content(k, h) ==
  [i \in 1..h.size |-> IF i \in DOMAIN k.chunks THEN k.chunks[i]
                       ELSE IF i <= h.base THEN k.base[i] ELSE Hole]

\* matches: whether a live record holds exactly the draft's content.
Matches(f, d) == f.live /\ f.content = Content(disk[d], disk[d].head)

Written(content) ==
  [i \in Blocks |-> IF i \in DOMAIN content THEN content[i] ELSE Hole]

Tick == clock' = clock + 1
Record(content) == [ver |-> clock', live |-> TRUE, content |-> content]

Goto(at) == op' = [op EXCEPT !.at = at]
SaveHead(d, h) == disk' = [disk EXCEPT ![d].head = h]
Ready == vault = "open" /\ op = Idle

-----------------------------------------------------------------------------
(* Opening a draft: the index is listed, the directory made, the base      *)
(* copied and the head written; the peer's session runs in between.        *)

\* Directories have random names, never used twice: drafts are numbered.
Open(d, mode) ==
  /\ Ready /\ running /\ opened < MaxDrafts /\ d = opened + 1
  /\ mode # "download" => file.live
  /\ mode = "download" =>
       \A e \in Drafts : disk[e].made => disk[e].head # None /\ ~disk[e].head.dl
  /\ LET size == IF mode = "edit" THEN Len(file.content) ELSE 0
     IN op' = [at |-> IF size > 0 THEN "copy" ELSE "first", d |-> d,
               head |-> [dirty |-> mode # "edit", ver |-> file.ver, base |-> size,
                         size |-> size, dl |-> mode = "download", ranges |-> {}]]
  /\ disk' = [disk EXCEPT ![d].made = TRUE]
  /\ opened' = d
  /\ UNCHANGED <<folderVars, held, receiving, vaultVars, ghostVars, clock, crashes>>

\* The copy takes what the document's file holds now; without one it throws.
CopyBase ==
  /\ op.at = "copy"
  /\ IF file.live
     THEN disk' = [disk EXCEPT ![op.d].base = file.content] /\ Goto("first")
     ELSE op' = Idle /\ UNCHANGED disk
  /\ UNCHANGED <<folderVars, held, receiving, vaultVars, ghostVars, opened, clock, crashes>>

\* Wrong on purpose: the head takes the version the document has by now.
FirstHeadOfLatest ==
  /\ op.at = "first"
  /\ SaveHead(op.d, [op.head EXCEPT !.ver = file.ver])
  /\ held' = [held EXCEPT ![op.d] =
                IF Usable([disk[op.d] EXCEPT !.head = op.head]) THEN disk'[op.d].head ELSE None]
  /\ op' = Idle
  /\ UNCHANGED <<folderVars, receiving, vaultVars, ghostVars, opened, clock, crashes>>

FirstHead ==
  /\ op.at = "first"
  /\ SaveHead(op.d, op.head)
  /\ held' = [held EXCEPT ![op.d] =
                IF Usable([disk[op.d] EXCEPT !.head = op.head]) THEN op.head ELSE None]
  /\ op' = Idle
  /\ UNCHANGED <<folderVars, receiving, vaultVars, ghostVars, opened, clock, crashes>>

\* A download takes up the draft an earlier one left.  Every draft without a
\* head makes the listing of drafts fail, and with it the download.
ResumeDownload(d) ==
  /\ Ready /\ running /\ held[d] = None
  /\ \A e \in Drafts : disk[e].made => disk[e].head # None
  /\ disk[d].made /\ disk[d].head.dl
  /\ held' = [held EXCEPT ![d] = disk[d].head]
  /\ UNCHANGED <<folderVars, disk, op, receiving, vaultVars, ghostVars, opened, clock, crashes>>

-----------------------------------------------------------------------------
(* Writing: the first write marks the head dirty, the block is written and *)
(* flushed, then the head is saved and the write acknowledged.             *)

BeginWrite(d, i) ==
  /\ Ready /\ held[d] # None
  /\ IF held[d].dl THEN i \notin held[d].ranges /\ UNCHANGED clock
     ELSE clock < MaxClock /\ Tick
  /\ i <= held[d].size + 1 \/ held[d].dl
  /\ op' = [at |-> IF held[d].dirty THEN "chunk" ELSE "mark", d |-> d, i |-> i,
            token |-> IF held[d].dl THEN Fetched(i) ELSE clock']
  /\ UNCHANGED <<folderVars, disk, held, receiving, vaultVars, ghostVars, opened, crashes>>

MarkDirty ==
  /\ op.at = "mark"
  /\ held' = [held EXCEPT ![op.d].dirty = TRUE]
  /\ SaveHead(op.d, held'[op.d])
  /\ Goto("chunk")
  /\ UNCHANGED <<folderVars, receiving, vaultVars, ghostVars, opened, clock, crashes>>

\* writeFiles and flushChanges; a stop in between (see Crash) may keep it.
Chunk(k) == [k EXCEPT !.chunks = [i \in DOMAIN @ \cup {op.i} |->
                                    IF i = op.i THEN op.token ELSE @[i]]]

WriteChunk ==
  /\ op.at = "chunk"
  /\ disk' = [disk EXCEPT ![op.d] = Chunk(@)]
  /\ Goto("head")
  /\ UNCHANGED <<folderVars, held, receiving, vaultVars, ghostVars, opened, clock, crashes>>

NextHead(h) == [h EXCEPT !.size = IF op.i > @ THEN op.i ELSE @,
                         !.ranges = IF h.dl THEN @ \cup {op.i} ELSE @]

Acknowledge ==
  /\ op.at = "head"
  /\ held' = [held EXCEPT ![op.d] = NextHead(@)]
  /\ SaveHead(op.d, held'[op.d])
  /\ owed' = [owed EXCEPT ![op.d][op.i] = op.token]
  /\ op' = Idle
  /\ UNCHANGED <<folderVars, receiving, vaultVars, aborted, rivals, opened, clock, crashes>>

-----------------------------------------------------------------------------
(* Publishing, by a flush, a release or the end of a download: the content *)
(* replaces the document only if its version is the one the draft is from; *)
(* then the clean head is saved.                                           *)

Paid(d, content) ==
  owed' = [owed EXCEPT ![d] = [i \in Blocks |-> IF Written(content)[i] >= @[i] THEN Hole ELSE @[i]]]

Publishes(d, h) ==
  /\ Tick
  /\ file' = Record(Content(disk[d], h))
  /\ Paid(d, file'.content)
  /\ rivals' = rivals \cup (1..opened \ {d})
  /\ UNCHANGED copies

\* Wrong on purpose: the clean head keeps the version it was opened with.
CleanedUnderOldVersion(d, h, ver, closes) ==
  op' = [at |-> "clean", d |-> d, closes |-> closes, head |-> [h EXCEPT !.dirty = FALSE]]

Cleaned(d, h, ver, closes) ==
  op' = [at |-> "clean", d |-> d, closes |-> closes,
         head |-> [h EXCEPT !.dirty = FALSE, !.ver = ver]]

\* What a failed flush leaves is recovered at the next unlock.
Flush(d, closes) ==
  /\ Ready /\ held[d] # None /\ ~held[d].dl /\ held[d].dirty
  /\ IF file.ver = held[d].ver
     THEN Publishes(d, held[d]) /\ Cleaned(d, held[d], clock', closes) /\ UNCHANGED held
     ELSE held' = [held EXCEPT ![d] = None] /\ UNCHANGED <<folderVars, op, owed, rivals, clock>>
  /\ UNCHANGED <<disk, receiving, vaultVars, aborted, opened, crashes>>

\* publicationReadRange: every block is verified against the peer's plan.
Whole(k, h) == h.ranges = Blocks /\ Content(k, h) = Remote

FinishDownload(d) ==
  /\ Ready /\ held[d] # None /\ held[d].dl /\ held[d].dirty
  /\ Whole(disk[d], held[d]) /\ file.ver = held[d].ver
  /\ Publishes(d, held[d]) /\ Cleaned(d, held[d], clock', TRUE)
  /\ UNCHANGED <<held, disk, receiving, vaultVars, aborted, opened, crashes>>

\* Wrong on purpose: the finished handle stays open.
SaveCleanKeepingHandle ==
  /\ op.at = "clean"
  /\ SaveHead(op.d, op.head)
  /\ held' = [held EXCEPT ![op.d] = op.head]
  /\ op' = IF op.closes THEN [at |-> "discard", d |-> op.d] ELSE Idle
  /\ UNCHANGED <<folderVars, receiving, vaultVars, ghostVars, opened, clock, crashes>>

SaveClean ==
  /\ op.at = "clean"
  /\ SaveHead(op.d, op.head)
  /\ held' = [held EXCEPT ![op.d] = IF op.closes THEN None ELSE op.head]
  /\ op' = IF op.closes THEN [at |-> "discard", d |-> op.d] ELSE Idle
  /\ UNCHANGED <<folderVars, receiving, vaultVars, ghostVars, opened, clock, crashes>>

-----------------------------------------------------------------------------
(* Giving a draft up, or closing a clean one, removes its files one by one *)
(* and then its directory.                                                 *)

Abort(d) ==
  /\ Ready /\ held[d] # None /\ (held[d].dl \/ AbortsEdits)
  /\ held' = [held EXCEPT ![d] = None]
  /\ owed' = [owed EXCEPT ![d] = Nothing]
  /\ aborted' = IF held[d].dl THEN aborted ELSE aborted \cup {d}
  /\ op' = [at |-> "discard", d |-> d]
  /\ UNCHANGED <<folderVars, disk, receiving, vaultVars, rivals, opened, clock, crashes>>

ReleaseClean(d) ==
  /\ Ready /\ held[d] # None /\ ~held[d].dirty
  /\ held' = [held EXCEPT ![d] = None]
  /\ op' = [at |-> "discard", d |-> d]
  /\ UNCHANGED <<folderVars, disk, receiving, vaultVars, ghostVars, opened, clock, crashes>>

SuspendDownload(d) ==
  /\ Ready /\ held[d] # None /\ held[d].dl
  /\ held' = [held EXCEPT ![d] = None]
  /\ UNCHANGED <<folderVars, disk, op, receiving, vaultVars, ghostVars, opened, clock, crashes>>

\* Nobody else looks into the directory: what a stop leaves is in Crash.
Discard ==
  /\ op.at = "discard"
  /\ disk' = [disk EXCEPT ![op.d] = NoDraft]
  /\ op' = Idle /\ rivals' = rivals \ {op.d}
  /\ UNCHANGED <<folderVars, held, receiving, vaultVars, owed, aborted, opened, clock, crashes>>

-----------------------------------------------------------------------------
(* The lock: handles are closed, dirty drafts retained; the controller     *)
(* admits no more work and is drained before the storage is closed.        *)

Lock ==
  /\ Ready /\ locks < MaxLocks
  /\ vault' = "closing" /\ locks' = locks + 1
  /\ UNCHANGED <<folderVars, disk, held, op, todo, running, receiving, storage, release,
                 ghostVars, opened, clock, crashes>>

\* Wrong on purpose: closing a handle discards its draft, dirty or not.
CloseHandleDiscarding(d) ==
  /\ vault = "closing" /\ op = Idle /\ held[d] # None
  /\ held' = [held EXCEPT ![d] = None]
  /\ op' = [at |-> "discard", d |-> d]
  /\ UNCHANGED <<folderVars, disk, receiving, vaultVars, ghostVars, opened, clock, crashes>>

CloseHandle(d) ==
  /\ vault = "closing" /\ op = Idle /\ held[d] # None
  /\ held' = [held EXCEPT ![d] = None]
  /\ op' = IF held[d].dirty THEN Idle ELSE [at |-> "discard", d |-> d]
  /\ UNCHANGED <<folderVars, disk, receiving, vaultVars, ghostVars, opened, clock, crashes>>

StopController ==
  /\ vault \in {"closing", "releasing"} /\ op = Idle /\ running
  /\ \A d \in Drafts : held[d] = None
  /\ running' = FALSE
  /\ UNCHANGED <<folderVars, disk, held, op, vault, todo, receiving, storage, release, locks,
                 ghostVars, opened, clock, crashes>>

\* Wrong on purpose: work that was admitted before is not waited for.
DrainedOfNewWork == ~running
Drained == ~running /\ ~receiving

CloseStorage ==
  /\ Drained /\ op = Idle
  /\ \/ vault = "closing" /\ vault' = "locked"
     \/ vault = "releasing" /\ storage /\ UNCHANGED vault
  /\ storage' = FALSE
  /\ UNCHANGED <<folderVars, disk, held, op, todo, running, receiving, release, locks,
                 ghostVars, opened, clock, crashes>>

-----------------------------------------------------------------------------
(* The unlock first ends a purge that was committed; otherwise it opens    *)
(* the folder, where each draft found is recovered before anything else    *)
(* may use it.                                                             *)

Unlock ==
  /\ vault = "locked"
  /\ vault' = IF release = "done" THEN "open" ELSE "opening"
  /\ storage' = (release = "none")
  /\ todo' = IF release = "none" THEN {d \in Drafts : disk[d].made} ELSE {}
  /\ UNCHANGED <<folderVars, disk, held, op, running, receiving, release, locks,
                 ghostVars, opened, clock, crashes>>

\* Wrong on purpose: a document changed meanwhile only makes the flush fail.
RecoverOwnVersion(d, h) ==
  \/ file.ver = h.ver /\ Publishes(d, h) /\ Cleaned(d, h, clock', TRUE)
  \/ file.ver # h.ver /\ UNCHANGED <<folderVars, op, owed, rivals, clock>>

\* flush(true) of the draft d with head h: onto its own version, or found
\* published already, or into its conflict copy.
RecoverDirty(d, h) ==
  \/ /\ file.ver = h.ver
     /\ Publishes(d, h) /\ Cleaned(d, h, clock', TRUE)
  \/ /\ file.ver # h.ver /\ Matches(file, d)
     /\ Paid(d, file.content)
     /\ Cleaned(d, h, file.ver, TRUE)
     /\ UNCHANGED <<folderVars, rivals, clock>>
  \/ /\ file.ver # h.ver /\ ~Matches(file, d) /\ Matches(copies[d], d)
     /\ Paid(d, copies[d].content)
     /\ Cleaned(d, h, h.ver, TRUE)
     /\ UNCHANGED <<folderVars, rivals, clock>>
  \/ /\ file.ver # h.ver /\ ~Matches(file, d) /\ copies[d].ver = 0
     /\ Tick
     /\ copies' = [copies EXCEPT ![d] = Record(Content(disk[d], h))]
     /\ Paid(d, copies'[d].content)
     /\ Cleaned(d, h, clock', TRUE)
     /\ UNCHANGED <<file, rivals>>

\* A draft that cannot be read is kept and reported; a download is kept.
Recoverable(k) == Usable(k) /\ ~k.head.dl

Recover(d) ==
  /\ vault = "opening" /\ op = Idle /\ d \in todo
  /\ todo' = todo \ {d}
  /\ \/ Recoverable(disk[d]) /\ disk[d].head.dirty /\ RecoverDirty(d, disk[d].head)
     \/ /\ Recoverable(disk[d]) /\ ~disk[d].head.dirty
        /\ op' = [at |-> "discard", d |-> d]
        /\ UNCHANGED <<folderVars, owed, rivals, clock>>
     \/ ~Recoverable(disk[d]) /\ UNCHANGED <<folderVars, op, owed, rivals, clock>>
  /\ UNCHANGED <<disk, held, vault, running, receiving, storage, release, locks,
                 aborted, opened, crashes>>

\* Wrong on purpose: a committed release does not keep the folder closed.
FinishOpeningAnyway ==
  /\ vault = "opening" /\ op = Idle /\ todo = {}
  /\ vault' = "open" /\ running' = TRUE
  /\ UNCHANGED <<folderVars, disk, held, op, todo, receiving, storage, release, locks,
                 ghostVars, opened, clock, crashes>>

FinishOpening ==
  /\ vault = "opening" /\ release = "none" /\ op = Idle /\ todo = {}
  /\ vault' = "open" /\ running' = TRUE
  /\ UNCHANGED <<folderVars, disk, held, op, todo, receiving, storage, release, locks,
                 ghostVars, opened, clock, crashes>>

-----------------------------------------------------------------------------
(* Releasing the local copy: with no handle open, the vault commits the    *)
(* record together with the browse-only registration; then the folder is   *)
(* closed and purged, what is visible first and private records last.      *)

ReleaseLocalCopy ==
  /\ Ready /\ running /\ release = "none"
  /\ \A d \in Drafts : held[d] = None
  /\ release' = "pending" /\ vault' = "releasing"
  /\ UNCHANGED <<folderVars, disk, held, op, todo, running, receiving, storage, locks,
                 ghostVars, opened, clock, crashes>>

\* Wrong on purpose: only the process that committed the release purges.
PurgingAtOnce == release = "pending" /\ ~storage /\ op = Idle /\ vault = "releasing"

Purging == release = "pending" /\ ~storage /\ op = Idle /\ vault \in {"releasing", "opening"}

PurgeVisible ==
  /\ Purging /\ file # NoFile
  /\ file' = NoFile /\ copies' = [d \in Drafts |-> NoFile]
  /\ UNCHANGED <<disk, held, op, receiving, vaultVars, ghostVars, opened, clock, crashes>>

PurgeDraft(d) ==
  /\ Purging /\ file = NoFile /\ disk[d].made
  /\ disk' = [disk EXCEPT ![d] = NoDraft]
  /\ UNCHANGED <<folderVars, held, op, receiving, vaultVars, ghostVars, opened, clock, crashes>>

CompleteRelease ==
  /\ Purging /\ file = NoFile /\ \A d \in Drafts : ~disk[d].made
  /\ release' = "done" /\ vault' = "open"
  /\ UNCHANGED <<folderVars, disk, held, op, todo, running, receiving, storage, locks,
                 ghostVars, opened, clock, crashes>>

-----------------------------------------------------------------------------
(* The peer's session, outside the queue, and stops of the process.        *)

StartReceive ==
  /\ running /\ ~receiving /\ clock < MaxClock
  /\ receiving' = TRUE
  /\ UNCHANGED <<folderVars, disk, held, op, vaultVars, ghostVars, opened, clock, crashes>>

EndReceive ==
  /\ receiving /\ receiving' = FALSE
  /\ Tick
  /\ \/ file' = Record(<<clock'>>) \/ file' = Record(<<clock', clock'>>)
     \/ file' = [ver |-> clock', live |-> FALSE, content |-> <<>>]
  /\ rivals' = 1..opened
  /\ UNCHANGED <<copies, disk, held, op, vaultVars, owed, aborted, opened, crashes>>

\* What is left when the removal of a draft's files, in any order, is cut.
Remnant(k, h, b, left) ==
  [k EXCEPT !.head = h, !.base = b, !.chunks = [i \in left |-> k.chunks[i]]]
Remnants(k) ==
  {Remnant(k, h, b, left) :
     h \in {None, k.head}, b \in {<<>>, k.base}, left \in SUBSET DOMAIN k.chunks}

Crash ==
  /\ crashes < MaxCrashes /\ crashes' = crashes + 1
  /\ \/ UNCHANGED disk
     \/ op.at = "chunk" /\ disk' = [disk EXCEPT ![op.d] = Chunk(@)]
     \/ op.at = "discard" /\ \E k \in Remnants(disk[op.d]) : disk' = [disk EXCEPT ![op.d] = k]
  /\ held' = [d \in Drafts |-> None] /\ op' = Idle
  /\ vault' = "locked" /\ todo' = {}
  /\ running' = FALSE /\ receiving' = FALSE /\ storage' = FALSE
  /\ UNCHANGED <<folderVars, release, locks, ghostVars, opened, clock>>

-----------------------------------------------------------------------------
Opening == CopyBase \/ FirstHead
Writing == MarkDirty \/ WriteChunk \/ Acknowledge
Closing == StopController \/ CloseStorage \/ \E d \in Drafts : CloseHandle(d)
Unlocking == Unlock \/ FinishOpening \/ \E d \in Drafts : Recover(d)
Releasing == PurgeVisible \/ CompleteRelease \/ \E d \in Drafts : PurgeDraft(d)

\* What goes on by itself once it was asked for.
SystemStep == Opening \/ Writing \/ SaveClean \/ Discard \/ Closing \/ Unlocking \/ Releasing
              \/ EndReceive

UserStep ==
  \/ \E d \in Drafts :
       \/ \E mode \in {"edit", "truncate", "download"} : Open(d, mode)
       \/ ResumeDownload(d) \/ FinishDownload(d) \/ SuspendDownload(d)
       \/ \E i \in Blocks : BeginWrite(d, i)
       \/ \E closes \in BOOLEAN : Flush(d, closes)
       \/ Abort(d) \/ ReleaseClean(d)
  \/ Lock \/ ReleaseLocalCopy

Next == SystemStep \/ UserStep \/ StartReceive \/ Crash

\* Operations under way go on, admitted receives end, and a locked vault is
\* unlocked again (with the remembered secret, or by the user).
Fairness == WF_vars(SystemStep)

Spec == Init /\ [][Next]_vars /\ Fairness

-----------------------------------------------------------------------------
IsContent(c) == \E n \in 0..2 : c \in [1..n -> Nat]
IsRecord(f) == f.ver \in Nat /\ f.live \in BOOLEAN /\ IsContent(f.content)

\* Every variable stays in its range.
TypeOK ==
  /\ IsRecord(file) /\ \A d \in Drafts : IsRecord(copies[d])
  /\ \A d \in Drafts :
       /\ IsContent(disk[d].base) /\ disk[d].made \in BOOLEAN
       /\ DOMAIN disk[d].chunks \subseteq Blocks
       /\ \A h \in {disk[d].head, held[d]} \ {None} : h \in Heads
       /\ owed[d] \in [Blocks -> Nat]
       /\ held[d] # None \/ disk[d] # NoDraft => disk[d].made
  /\ vault \in {"locked", "opening", "open", "closing", "releasing"}
  /\ release \in {"none", "pending", "done"}
  /\ {running, receiving, storage} \subseteq BOOLEAN

\* A write that was acknowledged is published, or waits in a draft that the
\* next unlock recovers, unless its user gave it up or released the copy.
AcknowledgedWritesSurvive ==
  release = "none" =>
    \A d \in Drafts : \A i \in Blocks : owed[d][i] # Hole =>
      /\ Usable(disk[d]) /\ disk[d].head.dirty
      /\ Written(Content(disk[d], disk[d].head))[i] >= owed[d][i]

\* What a draft publishes has every block that was acknowledged, around them
\* only blocks of the very version it replaces, and nothing that was aborted.
Publication(d, old, new) ==
  new # old =>
    /\ d \notin aborted
    /\ \A i \in Blocks :
         /\ Written(new.content)[i] >= owed[d][i]
         /\ old.ver # 0 /\ i \notin DOMAIN disk[d].chunks =>
              Written(new.content)[i] \in {Hole, Written(old.content)[i]}
PublishedDraftsAreWhole ==
  [][op.at # "clean" /\ op'.at = "clean" =>
       Publication(op'.d, file, file') /\ Publication(op'.d, copies[op'.d], copies'[op'.d])]_vars

\* A conflict copy is made only of a draft whose document somebody else
\* changed after the draft was opened.
ConflictNeedsRival ==
  [][\A d \in Drafts : copies'[d].ver > copies[d].ver => d \in rivals]_vars

\* The storage is closed only under nobody: neither a receive of the peer's
\* session nor an operation on a draft finds it closed.
NoWorkOnClosedStorage == ~storage => ~receiving /\ op = Idle

\* A folder whose copy was released is not opened again: neither the peer
\* nor a handle gets at what is being purged.
ReleasedStaysClosed ==
  release # "none" /\ vault # "releasing" => ~running /\ \A d \in Drafts : held[d] = None

\* A draft that a lock, a failure or a stop has left behind is published or
\* set aside as a conflict copy in the end.
Retained(d) == Recoverable(disk[d]) /\ disk[d].head.dirty /\ held[d] = None /\ op = Idle
RetainedDraftsArePublished ==
  \A d \in Drafts : (vault = "locked" /\ Retained(d)) ~> (~Retained(d) \/ release # "none")

\* A release that was committed is carried through, over stops and locks.
ReleaseCompletes == (release = "pending") ~> (release = "done")
=============================================================================
