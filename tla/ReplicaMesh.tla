----------------------------- MODULE ReplicaMesh -----------------------------
(***************************************************************************)
(* What the folder replicas of several devices promise together: each      *)
(* device's durable index, changed only by a local edit or by merging a    *)
(* record some device has published.  Records are applied late, twice, in  *)
(* any order, from any device.  A merge that needs a conflict copy saves   *)
(* the copy first and the winner in a second durable step, and the device  *)
(* may stop between the two.                                               *)
(***************************************************************************)
EXTENDS ReplicaMerge, FiniteSets

CONSTANTS
  Editors,        \* devices whose users edit; the others only relay
  Names,          \* names the users give to files
  Copies,         \* the conflict copies of those that users change as well
  Times,          \* Times[c]: modification times an edit that saves c may carry
  MaxDeletes,     \* bound: deletions by users
  ClocksAgree     \* modification times are distinct and follow causality

\* A user resolves a conflict by editing or deleting the copy; copies of copies
\* are left alone.
Edited == Names \cup Copies

\* The files users change, and their conflict copies.
Paths == Edited \cup {ConflictPath(p, c) : p \in Edited, c \in Contents}

ASSUME MeshAssumption ==
  /\ Editors \subseteq Devices
  /\ Times \in [Contents -> SUBSET Nat]
  /\ MaxDeletes \in Nat
  /\ ClocksAgree \in BOOLEAN
  /\ Copies \subseteq Names \X Contents
  /\ Names \cap (Edited \X Contents) = {}
  /\ NoInfo \notin [path : Edited, device : Devices, counter : Nat]

VARIABLES
  entries,      \* entries[d][p]: the record of path p in d's durable index
  published,    \* every <<path, record>> any device's index has ever held
  birth,        \* birth[c]: path, device and counter of the edit that saved c
  superseded,   \* contents a user has replaced or deleted
  deletes       \* deletions by users so far

vars == <<entries, published, birth, superseded, deletes>>

-----------------------------------------------------------------------------

Init ==
  /\ entries = [d \in Devices |-> [p \in Paths |-> NoInfo]]
  /\ published = {}
  /\ birth = [c \in Contents |-> NoInfo]
  /\ superseded = {}
  /\ deletes = 0

Store(d, path, info) ==
  /\ entries' = [entries EXCEPT ![d][path] = info]
  /\ published' = published \cup {<<path, info>>}

PreviousVersion(info) == IF info = NoInfo THEN NoCounters ELSE info.version

IsLive(info) == info # NoInfo /\ ~IsDeleted(info)

Replaced(info) == IF IsLive(info) THEN {info.content} ELSE {}

\* With ClocksAgree an edit is later than what it replaces and than no other
\* edit exactly; without, files keep any time (restored backups, coarse or
\* wrong clocks).
PlausibleTime(d, path, time) ==
  ClocksAgree =>
    /\ \A r \in published : r[2].mtime # time
    /\ entries[d][path] # NoInfo => entries[d][path].mtime < time

\* The user of d saves new content; a scan or an edit gives it the next version.
Write(d, path, content, time) ==
  /\ birth[content] = NoInfo
  /\ PlausibleTime(d, path, time)
  /\ CanAdvance(PreviousVersion(entries[d][path]), d)
  /\ Store(d, path, [version |-> advanceVersionVector(PreviousVersion(entries[d][path]), d),
                     content |-> content, mtime |-> time])
  /\ superseded' = superseded \cup Replaced(entries[d][path])
  /\ birth' = [birth EXCEPT ![content] =
       [path |-> path, device |-> d, counter |-> PreviousVersion(entries[d][path])[d] + 1]]
  /\ UNCHANGED deletes

\* Wrong on purpose: a deleted file is forgotten, no tombstone takes its place.
DeleteForgets(d, path) ==
  /\ deletes < MaxDeletes
  /\ IsLive(entries[d][path])
  /\ Store(d, path, NoInfo)
  /\ superseded' = superseded \cup Replaced(entries[d][path])
  /\ deletes' = deletes + 1
  /\ UNCHANGED birth

\* The tombstone of a scan keeps the old modification time.
Delete(d, path) ==
  /\ deletes < MaxDeletes
  /\ IsLive(entries[d][path])
  /\ CanAdvance(entries[d][path].version, d)
  /\ Store(d, path, [entries[d][path] EXCEPT !.content = Tombstone,
                                             !.version = advanceVersionVector(@, d)])
  /\ superseded' = superseded \cup Replaced(entries[d][path])
  /\ deletes' = deletes + 1
  /\ UNCHANGED birth

Plan(d, path, remote) == planReplicaMerge(entries[d][path], remote)

\* The copy is installed unless the copy already there makes it obsolete.  It
\* is installed as it is: its version is not merged with the one it replaces.
NeedsConflictCopy(d, path, remote) ==
  LET copy == Plan(d, path, remote).conflict
  IN  /\ copy # NoInfo
      /\ LET existing == entries[d][ConflictPath(path, copy.content)]
         IN  existing = NoInfo \/ planReplicaMerge(existing, copy).action # "keep"

InstallConflictCopy(d, path, remote) ==
  /\ ~MergeRefused(entries[d][path], remote)
  /\ NeedsConflictCopy(d, path, remote)
  /\ LET copy == Plan(d, path, remote).conflict
     IN  /\ ~MergeRefused(entries[d][ConflictPath(path, copy.content)], copy)
         /\ Store(d, ConflictPath(path, copy.content), copy)
  /\ UNCHANGED <<birth, superseded, deletes>>

ReceiveWinner(d, path, remote) ==
  /\ ~MergeRefused(entries[d][path], remote)
  /\ Plan(d, path, remote).action # "keep"
  /\ ~NeedsConflictCopy(d, path, remote)
  /\ Store(d, path, Plan(d, path, remote).winner)
  /\ UNCHANGED <<birth, superseded, deletes>>

Merge(d) ==
  \E r \in published :
    \/ InstallConflictCopy(d, r[1], r[2])
    \/ ReceiveWinner(d, r[1], r[2])

\* Nobody gives a file the name of a conflict copy, which holds a hash: only a
\* copy the device has had is changed, deleted or restored.
UserEdit(d) ==
  /\ d \in Editors
  /\ \E path \in Names \cup {q \in Copies : entries[d][q] # NoInfo} :
       \/ \E content \in Contents : \E time \in Times[content] : Write(d, path, content, time)
       \/ Delete(d, path)

Next == \E d \in Devices : UserEdit(d) \/ Merge(d)

\* A device's periodic receive goes on merging what its peers publish.
Spec == Init /\ [][Next]_vars /\ \A d \in Devices : WF_vars(Merge(d))

-----------------------------------------------------------------------------

\* Type invariant: what an index publishes are file records with whole version
\* vectors, tombstones included (scanReplicaIndex, receiveReplicaFiles).
TypeOK ==
  /\ entries \in [Devices -> [Paths -> FileInfo \cup {NoInfo}]]
  /\ published \subseteq Paths \X FileInfo
  /\ birth \in [Contents -> [path : Edited, device : Devices, counter : Nat] \cup {NoInfo}]
  /\ superseded \subseteq Contents
  /\ deletes \in 0..MaxDeletes

\* A version names one content: wherever two records of a path carry the same
\* vector, they carry the same content.  planReplicaMerge relies on it: it throws
\* "Different contents have the same version." and that path syncs no more.
OneContentPerVersion ==
  \A r, s \in published :
    r[1] = s[1] /\ r[2].version = s[2].version => r[2].content = s[2].content

\* Content that a user saved under a name of the user's own, and that no user
\* replaced or deleted, there or in a conflict copy of it, is live on some device,
\* at its path or as a conflict copy: what the conflict branch of planReplicaMerge
\* and the copy-first order of receiveReplicaFiles are for.
NoSavedContentLost ==
  \A c \in Contents \ superseded :
    birth[c] # NoInfo /\ birth[c].path \in Names =>
      \E d \in Devices, p \in Paths : IsLive(entries[d][p]) /\ entries[d][p].content = c

\* What a user made of a conflict copy is no less the user's: where it meets
\* another version of the copy, a copy of the loser is kept
\* (SYSTEM_DEFINITION.csv:65).
NoEditedCopyLost ==
  \A c \in Contents \ superseded :
    birth[c] # NoInfo =>
      \E d \in Devices, p \in Paths : IsLive(entries[d][p]) /\ entries[d][p].content = c

\* A device never goes back from a version of a path it has held, whatever order
\* receiveReplicaFiles gets the records in.  The one exception are conflict copies:
\* a merge may install the content a copy is named for again, as it is, even where
\* the device has a later version or a tombstone of that copy.
HistoryNeverForgotten ==
  [][\A d \in Devices, p \in Paths :
       entries[d][p] # NoInfo =>
         \/ DominatedBy(entries[d][p].version, entries'[d][p].version)
         \/ p \notin Names /\ entries'[d][p].content = p[2]]_vars

Converged ==
  \A d, e \in Devices, p \in Paths : entries[d][p] = entries[e][p]

\* Once the users stop, every device comes to hold the same records: the winner
\* planReplicaMerge picks does not depend on which side is local.
EventuallyConverged == <>[]Converged

=============================================================================
