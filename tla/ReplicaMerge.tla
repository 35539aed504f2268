---------------------------- MODULE ReplicaMerge ----------------------------
(***************************************************************************)
(* The causal merge of one path of a folder replica (planReplicaMerge).    *)
(*                                                                         *)
(* A file record keeps what the merge tells apart: the version vector, the *)
(* content (a tombstone for a deleted file) and the modification time.     *)
(* Equal contents stand for equal replicaContentSignature.                 *)
(*                                                                         *)
(* A conflict copy is named after the path it was made of and the content  *)
(* that lost there: the code appends a hash of the content to the name.    *)
(***************************************************************************)
EXTENDS VersionVectors

CONSTANTS
  Contents,     \* signatures of live files
  Directories,  \* those of them that are directories
  Tombstone,    \* the signature of every deleted file
  NoInfo        \* the index has no record of the path

ASSUME ContentsAssumption ==
  /\ Tombstone \notin Contents
  /\ Directories \subseteq Contents

FileInfo == [version : Vector, content : Contents \cup {Tombstone}, mtime : Nat]

ASSUME NoInfoAssumption == NoInfo \notin FileInfo

IsDeleted(info) == info.content = Tombstone

ConflictPath(path, content) == <<path, content>>

\* Wrong on purpose: each device prefers its own record.
PreferOwn(local, remote) == 1

\* Positive when the local record wins over the remote one: live over deleted,
\* then the later modification time, then the version counters.
Rank(local, remote) ==
  IF IsDeleted(local) # IsDeleted(remote)
  THEN IF IsDeleted(remote) THEN 1 ELSE -1
  ELSE IF local.mtime # remote.mtime
  THEN IF local.mtime > remote.mtime THEN 1 ELSE -1
  ELSE compareConcurrentVersionCounters(local.version, remote.version)

Keep(local) == [action |-> "keep", winner |-> local, source |-> "local", conflict |-> NoInfo]
Receive(remote) == [action |-> "receive", winner |-> remote, source |-> "remote", conflict |-> NoInfo]

\* Wrong on purpose: concurrent records are left as they are.
KeepConcurrent(local, remote) == Keep(local)

\* Wrong on purpose: the loser is dropped.
MergeWithoutCopy(local, remote) ==
  LET winner == IF Rank(local, remote) >= 0 THEN local ELSE remote
  IN  [action   |-> "merge",
       winner   |-> [winner EXCEPT !.version = mergeVersionVectors(local.version, remote.version)],
       source   |-> IF Rank(local, remote) >= 0 THEN "local" ELSE "remote",
       conflict |-> NoInfo]

\* Wrong on purpose: the winner keeps its own version.
MergeWithoutVersion(local, remote) ==
  [MergeWithoutCopy(local, remote) EXCEPT
     !.winner = IF Rank(local, remote) >= 0 THEN local ELSE remote]

\* Two concurrent records: the winner carries the merged version, and a live
\* loser with different content becomes a conflict copy with that version.
MergeConcurrent(local, remote) ==
  LET source == IF Rank(local, remote) >= 0 THEN "local" ELSE "remote"
      chosen == IF source = "local" THEN local ELSE remote
      loser  == IF source = "local" THEN remote ELSE local
      merged == mergeVersionVectors(local.version, remote.version)
  IN  [action   |-> "merge",
       winner   |-> [chosen EXCEPT !.version = merged],
       source   |-> source,
       conflict |-> IF local.content = remote.content \/ IsDeleted(loser)
                    THEN NoInfo ELSE [loser EXCEPT !.version = merged]]

planReplicaMerge(local, remote) ==
  IF local = NoInfo THEN Receive(remote)
  ELSE CASE compareVersionVectors(local.version, remote.version) \in {"after", "equal"} -> Keep(local)
         [] compareVersionVectors(local.version, remote.version) = "before" -> Receive(remote)
         [] OTHER -> MergeConcurrent(local, remote)

\* The order in which a receive goes through the records: parents before
\* children, then deletions, children before parents.  A conflict copy's name is
\* longer than the name it was made of: depth is how many names it goes back, at
\* most two.
ReceiveOrder(info, depth) == IF IsDeleted(info) THEN 5 - depth ELSE depth

\* planReplicaMerge and the caller throw instead of planning.
MergeRefused(local, remote) ==
  \/ remote.version = NoCounters
  \/ /\ local # NoInfo
     /\ local.version = remote.version
     /\ local.content # remote.content
  \/ /\ local # NoInfo
     /\ planReplicaMerge(local, remote).conflict # NoInfo
     /\ planReplicaMerge(local, remote).conflict.content \in Directories

=============================================================================
