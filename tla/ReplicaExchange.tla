--------------------------- MODULE ReplicaExchange ---------------------------
(***************************************************************************)
(* Two devices share a folder replica over one BEP session (BepSession in  *)
(* client.ts).  Each end runs three tasks that interleave at every await:  *)
(*   config - the answer to the peer's cluster config sends the index;     *)
(*   apply  - an arrived index is merged, then ours is sent if it changed; *)
(*   timer  - every few seconds merges what the peer last published, then  *)
(*            sends our index if its sequence has moved.                   *)
(* Scans and receives hold the folder lock; the requests of the peer are   *)
(* served without it.  The durable indexes are those of ReplicaMesh: a     *)
(* scan records a user's change there, a receive merges a record.          *)
(*                                                                         *)
(* A receive installs a record in one step; FolderReplica shows its parts. *)
(* Replicas are never paused here, and every index frame is a full INDEX   *)
(* (the code sends no other for a plain replica).                          *)
(***************************************************************************)
EXTENDS ReplicaMerge, FiniteSets, Sequences

CONSTANTS
  Names, Copies, MaxDeletes,   \* as in ReplicaMesh
  Times,       \* modification times of files
  Authors,     \* Authors[d][p]: the contents the users of d may write at p
  AtStart,     \* AtStart[d]: the content of d's files before its first scan
  NoFile,      \* no file at a path
  NoFrame,     \* no index frame waits
  Encrypted,   \* the folder is encrypted for the peer: scans are encrypted first
  MaxDrops     \* bound: losses of the connection

ClocksAgree == FALSE

Editors == Devices

VARIABLES
  entries, published, birth, superseded, deletes,  \* as in ReplicaMesh
  disk,      \* disk[d][p]: content and time of the user's file
  used,      \* contents users have written
  removals,  \* deletions by users so far
  sequence,  \* sequence[d]: sequence number of d's durable index
  step,      \* step[d][t]: where task t of d's session is
  batch,     \* batch[d][t]: the records task t has still to merge
  changed,   \* the receive of the apply task has changed the index
  snapshot,  \* snapshot[d][t]: the scan task t is about to publish
  wire,      \* wire[d]: index frames d has written, not yet delivered
  unmarked,  \* unmarked[d]: tasks whose frame is written, in order
  pending,   \* pendingIndexByFolder: the frame that waits for the apply task
  files,     \* state.files: the records the peer last published
  sent,      \* sentReplicaSequences: the sequence last published
  drops

Mesh == INSTANCE ReplicaMesh WITH Times <- [c \in Contents |-> Times]

mesh    == <<entries, published, birth, superseded, deletes>>
user    == <<disk, used, removals>>
session == <<step, batch, changed, snapshot, wire, unmarked, pending, files, sent>>
vars    == <<mesh, user, sequence, session, drops>>

ASSUME ExchangeAssumption ==
  /\ \E d, e \in Devices : d # e /\ Devices = {d, e}
  /\ Copies \subseteq Names \X Contents
  /\ Names \cap (Mesh!Edited \X Contents) = {}
  /\ NoInfo \notin [path : Mesh!Edited, device : Devices, counter : Nat]
  /\ Times \subseteq Nat /\ MaxDeletes \in Nat
  /\ Authors \in [Devices -> [Mesh!Edited -> SUBSET Contents]]
  /\ AtStart \in [Devices -> [Names -> Contents \cup {NoFile}]]
  /\ Directories = {}
  /\ Encrypted \in BOOLEAN /\ MaxDrops \in Nat

Remote(d) == CHOOSE e \in Devices : e # d

Tasks == {"config", "apply", "timer"}

File == [content : Contents, mtime : Times]

Unsent == -1

Init ==
  /\ Mesh!Init
  /\ \E time \in Times :
       disk = [d \in Devices |-> [p \in Mesh!Edited |->
         IF p \notin Names \/ AtStart[d][p] = NoFile THEN NoFile
         ELSE [content |-> AtStart[d][p], mtime |-> time]]]
  /\ used = {AtStart[d][p] : d \in Devices, p \in Names} \ {NoFile}
  /\ removals = 0 /\ drops = 0
  /\ sequence = [d \in Devices |-> 0]
  /\ step = [d \in Devices |-> [t \in Tasks |-> IF t = "config" THEN "send" ELSE "idle"]]
  /\ batch = [d \in Devices |-> [t \in Tasks |-> {}]]
  /\ changed = [d \in Devices |-> FALSE]
  /\ snapshot = [d \in Devices |-> [t \in Tasks |-> NoFrame]]
  /\ wire = [d \in Devices |-> <<>>]
  /\ unmarked = [d \in Devices |-> <<>>]
  /\ pending = [d \in Devices |-> NoFrame]
  /\ files = [d \in Devices |-> {}]
  /\ sent = [d \in Devices |-> Unsent]

-----------------------------------------------------------------------------
(* Users and scans *)

UserWrites(d, path, content, time) ==
  /\ content \notin used
  /\ used' = used \cup {content}
  /\ disk' = [disk EXCEPT ![d][path] = [content |-> content, mtime |-> time]]
  /\ UNCHANGED <<mesh, removals, sequence, session, drops>>

UserDeletes(d, path) ==
  /\ disk[d][path] # NoFile /\ removals < MaxDeletes
  /\ removals' = removals + 1
  /\ disk' = [disk EXCEPT ![d][path] = NoFile]
  /\ UNCHANGED <<mesh, used, sequence, session, drops>>

\* The file is the one the index knows.
Indexed(d, path) ==
  path \in Mesh!Edited =>
    IF disk[d][path] = NoFile THEN ~Mesh!IsLive(entries[d][path])
    ELSE Mesh!IsLive(entries[d][path]) /\ entries[d][path].content = disk[d][path].content

LockIsFree(d) == \A t \in Tasks : step[d][t] # "receiving"

\* A scan comes first in a receive and in a send: it records each change.
Scan(d, path) ==
  /\ LockIsFree(d) /\ \E t \in Tasks : step[d][t] \in {"receive", "send"}
  /\ ~Indexed(d, path)
  /\ IF disk[d][path] = NoFile THEN Mesh!Delete(d, path)
     ELSE Mesh!Write(d, path, disk[d][path].content, disk[d][path].mtime)
  /\ sequence' = [sequence EXCEPT ![d] = @ + 1]
  /\ UNCHANGED <<user, session, drops>>

Scanned(d) == LockIsFree(d) /\ \A p \in Mesh!Edited : Indexed(d, p)

\* Wrong on purpose: paths without a record are published too.
RecordsOfAll(d) == {[path |-> p, info |-> entries[d][p]] : p \in Mesh!Paths}

\* Wrong on purpose: what is published is newer than what is saved.
RecordsAhead(d) ==
  {[path |-> p, info |-> [entries[d][p] EXCEPT !.version = advanceVersionVector(@, d)]] :
     p \in {q \in Mesh!Paths : entries[d][q] # NoInfo}}

Records(d) == {[path |-> p, info |-> entries[d][p]] : p \in {q \in Mesh!Paths : entries[d][q] # NoInfo}}

-----------------------------------------------------------------------------
(* The tasks of a session *)

\* The apply task takes an index: state.files first, then the replica.
HandleIndex(d, frame) ==
  /\ step' = [step EXCEPT ![d]["apply"] = "receive"]
  /\ batch' = [batch EXCEPT ![d]["apply"] = frame]
  /\ changed' = [changed EXCEPT ![d] = FALSE]
  /\ files' = [files EXCEPT ![d] =
       frame \cup {r \in @ : \A new \in frame : new.path # r.path}]

\* Wrong on purpose: an index that waits is forgotten.
IndexForgotten(d) ==
  /\ step' = [step EXCEPT ![d]["apply"] = "idle"]
  /\ batch' = [batch EXCEPT ![d]["apply"] = {}]
  /\ changed' = [changed EXCEPT ![d] = FALSE]
  /\ pending' = [pending EXCEPT ![d] = NoFrame]
  /\ UNCHANGED files

\* The apply task has finished with one index and takes the next, if any.
NextIndex(d) ==
  IF pending[d] = NoFrame
  THEN /\ step' = [step EXCEPT ![d]["apply"] = "idle"]
       /\ batch' = [batch EXCEPT ![d]["apply"] = {}]
       /\ changed' = [changed EXCEPT ![d] = FALSE]
       /\ UNCHANGED <<files, pending>>
  ELSE HandleIndex(d, pending[d]) /\ pending' = [pending EXCEPT ![d] = NoFrame]

\* An index that arrives while one is applied replaces the one that waits.
Deliver(d) ==
  LET frames == wire[Remote(d)]
  IN  /\ frames # <<>>
      /\ wire' = [wire EXCEPT ![Remote(d)] = Tail(frames)]
      /\ IF step[d]["apply"] = "idle"
         THEN HandleIndex(d, Head(frames)) /\ UNCHANGED pending
         ELSE /\ pending' = [pending EXCEPT ![d] = Head(frames)]
              /\ UNCHANGED <<step, batch, changed, files>>
      /\ UNCHANGED <<mesh, user, sequence, snapshot, unmarked, sent, drops>>

\* The timer runs once the session is ready.  It merges nothing before an index
\* has arrived, nor while one is applied, but sends all the same.
TimerFires(d) ==
  /\ step[d]["timer"] = "idle" /\ step[d]["config"] = "idle"
  /\ IF files[d] # {} /\ step[d]["apply"] = "idle"
     THEN /\ step' = [step EXCEPT ![d]["timer"] = "receive"]
          /\ batch' = [batch EXCEPT ![d]["timer"] = files[d]]
     ELSE step' = [step EXCEPT ![d]["timer"] = "send"] /\ UNCHANGED batch
  /\ UNCHANGED <<mesh, user, sequence, changed, snapshot, wire, unmarked, pending, files, sent, drops>>

Holds(d, path, content) ==
  /\ Mesh!IsLive(entries[d][path]) /\ entries[d][path].content = content
  /\ Indexed(d, path)

\* Wrong on purpose: conflict copies are not searched.
ServesPath(d, path, content) == Holds(d, path, content)

CopiesOf(path) == {ConflictPath(path, c) : c \in Contents}

\* The files whose names begin with that of a path: its conflict copies, and theirs.
NamedAfter == [path \in Mesh!Paths |->
  Mesh!Paths \cap ({path} \cup CopiesOf(path) \cup UNION {CopiesOf(p) : p \in CopiesOf(path)})]

\* readReplicaBlock: the file of that name or a conflict copy of it, indexed and
\* still as indexed, has the block.
Serves(d, path, content) == \E q \in NamedAfter[path] : Holds(d, q, content)

\* advertisedReplicaFiles: the newest index of d on its way to the peer, or that the
\* peer holds.
LastSaid(d) ==
  IF wire[d] # <<>> THEN wire[d][Len(wire[d])]
  ELSE IF pending[Remote(d)] # NoFrame THEN pending[Remote(d)] ELSE files[Remote(d)]

\* An index has this content at this path.
Publishes(frame, path, content) ==
  \E r \in frame : r.path = path /\ r.info.content = content

\* An encrypted block is asked for as state.files has it now, and is answered only
\* if it is a block of the file the peer has advertised last.
Fetches(d, path, content) ==
  /\ Serves(Remote(d), path, content)
  /\ Encrypted => /\ Publishes(files[d], path, content)
                  /\ Publishes(LastSaid(Remote(d)), path, content)

Refuses(d, r) ==
  \/ MergeRefused(entries[d][r.path], r.info)
  \/ /\ Mesh!NeedsConflictCopy(d, r.path, r.info)
     /\ LET copy == Mesh!Plan(d, r.path, r.info).conflict
        IN  MergeRefused(entries[d][ConflictPath(r.path, copy.content)], copy)

Unless(have, content) == IF have THEN {} ELSE {content}

\* The content the next install of the record needs from the peer, if any:
\* blocks the file it replaces has already are not requested.
Wanted(d, r) ==
  LET plan == Mesh!Plan(d, r.path, r.info)
      copy == plan.conflict
      win  == plan.winner.content
  IN  IF plan.action = "keep" THEN {}
      ELSE IF Mesh!NeedsConflictCopy(d, r.path, r.info)
      THEN Unless(plan.source = "remote"
                    \/ Holds(d, ConflictPath(r.path, copy.content), copy.content), copy.content)
      ELSE Unless(plan.source = "local" \/ win = Tombstone \/ Holds(d, r.path, win), win)

\* The winner replaces the local file.
TouchesLocal(d, r) ==
  /\ Mesh!Plan(d, r.path, r.info).action # "keep"
  /\ Mesh!Plan(d, r.path, r.info).source = "remote"

CanInstall(d, r) ==
  /\ ~Refuses(d, r)
  /\ \A c \in Wanted(d, r) : Fetches(d, r.path, c)
  /\ IF Mesh!NeedsConflictCopy(d, r.path, r.info)
     THEN Indexed(d, ConflictPath(r.path, Mesh!Plan(d, r.path, r.info).conflict.content))
     ELSE TouchesLocal(d, r) => Indexed(d, r.path)

\* Records that need nothing, our own first of all, are passed over.
IsRelevant(d, r) ==
  /\ r.info # entries[d][r.path]
  /\ Refuses(d, r) \/ Mesh!Plan(d, r.path, r.info).action # "keep"

NothingIsRelevant(d, t) == \A r \in batch[d][t] : ~IsRelevant(d, r)

Depth(path) == IF path \in Names THEN 0 ELSE IF path \in Names \X Contents THEN 1 ELSE 2

\* The record a receive comes to next, in the order of ReceiveOrder.
IsNext(d, t, r) ==
  /\ step[d][t] = "receiving" /\ IsRelevant(d, r)
  /\ \A s \in batch[d][t] :
       ReceiveOrder(s.info, Depth(s.path)) < ReceiveOrder(r.info, Depth(r.path))
         => ~IsRelevant(d, s)

\* The receive is complete: the apply task sends only what it changed.
Complete(d, t) ==
  IF t = "timer" \/ changed[d]
  THEN /\ step' = [step EXCEPT ![d][t] = "send"]
       /\ batch' = [batch EXCEPT ![d][t] = {}]
       /\ UNCHANGED <<changed, files, pending>>
  ELSE NextIndex(d)

\* A receive takes the lock, or is over at once when no record is relevant.
BeginReceive(d, t) ==
  /\ step[d][t] = "receive" /\ Scanned(d)
  /\ IF NothingIsRelevant(d, t) THEN Complete(d, t)
     ELSE step' = [step EXCEPT ![d][t] = "receiving"] /\ UNCHANGED <<batch, changed, pending, files>>
  /\ UNCHANGED <<mesh, user, sequence, snapshot, wire, unmarked, sent, drops>>

Installed(d, t) ==
  /\ sequence' = [sequence EXCEPT ![d] = @ + 1]
  /\ changed' = [changed EXCEPT ![d] = @ \/ t = "apply"]
  /\ UNCHANGED <<used, removals, step, snapshot, wire, unmarked, pending, files, sent, drops>>

\* The user's file at a path users change is replaced by that of the record.
OnDisk(d, path, info) ==
  disk' = IF path \notin Mesh!Edited THEN disk
          ELSE [disk EXCEPT ![d][path] =
                  IF IsDeleted(info) THEN NoFile ELSE [content |-> info.content, mtime |-> info.mtime]]

InstallCopy(d, t, r) ==
  /\ IsNext(d, t, r) /\ CanInstall(d, r)
  /\ Mesh!InstallConflictCopy(d, r.path, r.info)
  /\ LET copy == Mesh!Plan(d, r.path, r.info).conflict
     IN  OnDisk(d, ConflictPath(r.path, copy.content), copy)
  /\ Installed(d, t)
  /\ UNCHANGED batch

InstallWinner(d, t, r) ==
  /\ IsNext(d, t, r) /\ CanInstall(d, r)
  /\ Mesh!ReceiveWinner(d, r.path, r.info)
  /\ IF TouchesLocal(d, r) THEN OnDisk(d, r.path, r.info) ELSE UNCHANGED disk
  /\ batch' = [batch EXCEPT ![d][t] = @ \ {r}]
  /\ Installed(d, t)

FinishReceive(d, t) ==
  /\ step[d][t] = "receiving" /\ NothingIsRelevant(d, t)
  /\ Complete(d, t)
  /\ UNCHANGED <<mesh, user, sequence, snapshot, wire, unmarked, sent, drops>>

\* The receive throws; what it has installed stays, and nothing is sent.
ReceiveFails(d, t, r) ==
  /\ IsNext(d, t, r) /\ ~CanInstall(d, r)
  /\ IF t = "timer"
     THEN /\ step' = [step EXCEPT ![d][t] = "idle"] /\ batch' = [batch EXCEPT ![d][t] = {}]
          /\ UNCHANGED <<changed, files, pending>>
     ELSE NextIndex(d)
  /\ UNCHANGED <<mesh, user, sequence, snapshot, wire, unmarked, sent, drops>>

-----------------------------------------------------------------------------
(* sendSharedFolderIndexes *)

\* changedOnly
IsOldNews(d, t, scan) == t = "timer" /\ sent[d] = scan.sequence

Write(d, t, scan) ==
  IF IsOldNews(d, t, scan)
  THEN /\ step' = [step EXCEPT ![d][t] = "idle"]
       /\ snapshot' = [snapshot EXCEPT ![d][t] = NoFrame]
       /\ UNCHANGED <<wire, unmarked>>
  ELSE /\ step' = [step EXCEPT ![d][t] = "writing"]
       /\ snapshot' = [snapshot EXCEPT ![d][t] = scan]
       /\ wire' = [wire EXCEPT ![d] = Append(@, scan.records)]
       /\ unmarked' = [unmarked EXCEPT ![d] = Append(@, t)]

\* The records of the scan are compared and written at once, unless they have
\* to be encrypted: then another task's scan and send may come in between.
ScanForSend(d, t) ==
  /\ step[d][t] = "send" /\ Scanned(d)
  /\ LET scan == [sequence |-> sequence[d], records |-> Records(d)]
     IN  IF Encrypted
         THEN /\ step' = [step EXCEPT ![d][t] = "encrypting"]
              /\ snapshot' = [snapshot EXCEPT ![d][t] = scan]
              /\ UNCHANGED <<wire, unmarked>>
         ELSE Write(d, t, scan)
  /\ UNCHANGED <<mesh, user, sequence, batch, changed, pending, files, sent, drops>>

WriteEncrypted(d, t) ==
  /\ step[d][t] = "encrypting"
  /\ Write(d, t, snapshot[d][t])
  /\ UNCHANGED <<mesh, user, sequence, batch, changed, pending, files, sent, drops>>

\* Wrong on purpose: the sequence of the index by now.
CurrentSequence(d, t) == sequence[d]

SentSequence(d, t) == snapshot[d][t].sequence

\* Writes complete in the order they were queued.
MarkSent(d) ==
  LET t == Head(unmarked[d])
  IN  /\ unmarked[d] # <<>>
      /\ sent' = [sent EXCEPT ![d] = SentSequence(d, t)]
      /\ unmarked' = [unmarked EXCEPT ![d] = Tail(@)]
      /\ snapshot' = [snapshot EXCEPT ![d][t] = NoFrame]
      /\ IF t = "apply" THEN NextIndex(d)
         ELSE step' = [step EXCEPT ![d][t] = "idle"] /\ UNCHANGED <<batch, changed, files, pending>>
      /\ UNCHANGED <<mesh, user, sequence, wire, drops>>

-----------------------------------------------------------------------------

\* The connection is lost and a new session starts at both ends, from nothing.
DropSession ==
  /\ drops < MaxDrops /\ drops' = drops + 1
  /\ step' = [d \in Devices |-> [t \in Tasks |-> IF t = "config" THEN "send" ELSE "idle"]]
  /\ batch' = [d \in Devices |-> [t \in Tasks |-> {}]]
  /\ changed' = [d \in Devices |-> FALSE]
  /\ snapshot' = [d \in Devices |-> [t \in Tasks |-> NoFrame]]
  /\ wire' = [d \in Devices |-> <<>>]
  /\ unmarked' = [d \in Devices |-> <<>>]
  /\ pending' = [d \in Devices |-> NoFrame]
  /\ files' = [d \in Devices |-> {}]
  /\ sent' = [d \in Devices |-> Unsent]
  /\ UNCHANGED <<mesh, user, sequence>>

Receiving(d, t) ==
  \/ \E r \in batch[d][t] :
       InstallCopy(d, t, r) \/ InstallWinner(d, t, r) \/ ReceiveFails(d, t, r)
  \/ FinishReceive(d, t)

Sending(d, t) == ScanForSend(d, t) \/ WriteEncrypted(d, t)

\* A conflict copy that has been there may be changed, deleted and restored.
Users(d) ==
  \E p \in Names \cup {q \in Copies : entries[d][q] # NoInfo} :
    \/ \E c \in Authors[d][p], time \in Times : UserWrites(d, p, c, time)
    \/ UserDeletes(d, p)

\* One step of an asynchronous task of d's session.
Task(d, t) ==
  \/ t = "timer" /\ TimerFires(d)
  \/ BeginReceive(d, t) \/ Receiving(d, t) \/ Sending(d, t)

\* The connection carries frames, the folder is read, writes complete.
Progress(d) == Deliver(d) \/ MarkSent(d) \/ \E p \in Mesh!Edited : Scan(d, p)

Next ==
  \/ \E d \in Devices : Users(d) \/ Progress(d) \/ \E t \in Tasks : Task(d, t)
  \/ DropSession

Spec == Init /\ [][Next]_vars

\* The timer keeps firing, frames arrive, and no task is left at an await that
\* is over.
FairSpec ==
  /\ Spec
  /\ \A d \in Devices :
       WF_vars(Progress(d)) /\ WF_vars(Task(d, "timer"))
       /\ WF_vars(Task(d, "config") \/ Task(d, "apply"))

-----------------------------------------------------------------------------

Frames == SUBSET [path : Mesh!Paths, info : FileInfo]

ASSUME NoFrameAssumption == NoFrame \notin Frames

\* Type invariant: every frame holds records only, never a path without one, and
\* each task is at a place the code has.
TypeOK ==
  /\ Mesh!TypeOK
  /\ disk \in [Devices -> [Mesh!Edited -> File \cup {NoFile}]]
  /\ sequence \in [Devices -> Nat] /\ sent \in [Devices -> Nat \cup {Unsent}]
  /\ step \in [Devices -> [Tasks ->
       {"idle", "receive", "receiving", "send", "encrypting", "writing"}]]
  /\ \A d \in Devices :
       /\ \A t \in Tasks : batch[d][t] \in Frames
       /\ \A i \in DOMAIN wire[d] : wire[d][i] \in Frames
       /\ pending[d] \in Frames \cup {NoFrame} /\ files[d] \in Frames

\* Whatever the tasks, the session and the peer do, the two durable indexes
\* change only as ReplicaMesh allows: by a user's edit, or by merging a record
\* that some device's index has held.  state.files and the frames queued in
\* pendingIndexByFolder may be old, never invented or newer than what is saved.
ImplementsMesh == Mesh!Init /\ [][Mesh!Next]_mesh

\* When changedOnly of sendSharedFolderIndexes would find nothing new to send, the
\* newest index on its way or at the peer is the current one, even if the tasks'
\* scans and sends have overtaken each other.
SentIsCurrent ==
  \A d \in Devices :
    sent[d] = sequence[d] /\ (\A t \in Tasks : step[d][t] \notin {"encrypting", "writing"}) =>
      Records(d) \subseteq LastSaid(d)

\* While both ends pull from each other, content a receive wants at a name of the
\* user's own is served by readReplicaBlock, when no user has replaced or deleted
\* that content anywhere and the peer's files are as indexed: a merge that moves it
\* to a conflict copy meanwhile does not take it from a running download.
WantedIsServed ==
  \A d \in Devices, t \in Tasks :
    step[d][t] = "receiving" =>
      \A r \in batch[d][t] :
        r.path \in Names /\ ~MergeRefused(entries[d][r.path], r.info) =>
          \A c \in Wanted(d, r) \ superseded :
            (\A p \in Mesh!Edited : Indexed(Remote(d), p)) => Serves(Remote(d), r.path, c)

InSync ==
  /\ \A d \in Devices, p \in Mesh!Paths : entries[d][p] = entries[Remote(d)][p]
  /\ \A d \in Devices, p \in Mesh!Edited : Indexed(d, p)

\* Once users and connection losses stop, both devices hold the same folder: the
\* timer of startReplicaSync republishes what changed and pulls what is missing.
EventuallyInSync == <>[]InSync

=============================================================================
