-------------------------- MODULE ReplicaMeshProofs --------------------------
(***************************************************************************)
(* The mesh keeps every saved content and never forgets history, for any   *)
(* devices, names, contents and times.                                     *)
(***************************************************************************)
EXTENDS ReplicaMesh, ReplicaMergeProofs

(* A record in an index has been published: peers may have received it.    *)
EntriesPublished ==
  \A d \in Devices, p \in Paths : entries[d][p] # NoInfo => <<p, entries[d][p]>> \in published

(* A conflict copy is live and holds the content it is named after, unless *)
(* a user changed it and so gave that content up.                          *)
CopyContent ==
  \A r \in published, p \in Edited, c \in Contents :
    r[1] = ConflictPath(p, c) =>
      r[2].content = c \/ (r[1] \in Copies /\ c \in superseded)

(* No record knows more of a device's edits than the device itself.        *)
OwnCounters ==
  \A r \in published, d \in Devices :
    r[1] \in Names => r[2].version[d] <= PreviousVersion(entries[d][r[1]])[d]

(* A content was saved under a name of the user's own.                     *)
BornAtName(c) == birth[c] # NoInfo /\ birth[c].path \in Names

(* The device that saved a content keeps knowing of that edit.             *)
Births ==
  \A c \in Contents :
    BornAtName(c) =>
      /\ birth[c].counter >= 1
      /\ birth[c].counter <=
           PreviousVersion(entries[birth[c].device][birth[c].path])[birth[c].device]

CopyExists(c) ==
  \E d \in Devices : entries[d][ConflictPath(birth[c].path, c)] # NoInfo

(* A record whose version knows of the edit that saved a content holds     *)
(* that content, unless a user gave it up or a device keeps a copy of it.  *)
EditAccountedFor(r, c) ==
  r[1] = birth[c].path /\ r[2].version[birth[c].device] >= birth[c].counter =>
    r[2].content = c \/ c \in superseded \/ CopyExists(c)

KnownContent ==
  \A r \in published, c \in Contents : BornAtName(c) => EditAccountedFor(r, c)

IInv == TypeOK /\ EntriesPublished /\ CopyContent /\ OwnCounters /\ Births /\ KnownContent

-----------------------------------------------------------------------------
(* Paths *)

(* Conflict copies have names of their own, one for each path and content; *)
(* a copy of a copy is none that users change.                             *)
LEMMA CopyPaths ==
  ASSUME NEW p \in Edited, NEW c \in Contents
  PROVE  /\ ConflictPath(p, c) \in Paths \ Names
         /\ p \in Copies => ConflictPath(p, c) \notin Copies
         /\ \A q \in Edited, e \in Contents :
              ConflictPath(p, c) = ConflictPath(q, e) => p = q /\ c = e
<1>1. ConflictPath(p, c) \notin Names  BY MeshAssumption DEF ConflictPath
<1>2. ConflictPath(p, c) \in Paths  BY DEF Paths
<1>3. ASSUME p \in Copies, ConflictPath(p, c) \in Copies  PROVE FALSE
  <2>1. p \in Names  BY <1>3, MeshAssumption DEF ConflictPath
  <2>2. p \in Edited \X Contents  BY <1>3, MeshAssumption DEF Edited
  <2> QED  BY <2>1, <2>2, MeshAssumption
<1> QED  BY <1>1, <1>2, <1>3 DEF ConflictPath

(* The copies that users change are conflict copies of names.              *)
LEMMA CopiesOfNames ==
  ASSUME NEW path \in Copies
  PROVE  /\ path \in Edited /\ path \in Paths \ Names
         /\ \E p \in Names, c \in Contents : path = ConflictPath(p, c)
<1>1. PICK p \in Names, c \in Contents : path = ConflictPath(p, c)
  BY MeshAssumption DEF ConflictPath
<1>2. p \in Edited /\ path \in Edited  BY DEF Edited
<1> QED  BY <1>1, <1>2, CopyPaths

(* A path is a user's name or the name of a conflict copy.                 *)
LEMMA PathKinds ==
  ASSUME NEW path \in Paths
  PROVE  \/ path \in Names
         \/ \E p \in Edited, c \in Contents : path = ConflictPath(p, c)
<1>1. CASE path \in Edited \ Names
  BY <1>1, CopiesOfNames DEF Edited
<1> QED  BY <1>1 DEF Paths

-----------------------------------------------------------------------------
(* Plans *)

(* The version an edit advances is a whole vector.                         *)
LEMMA PreviousVersionTyped ==
  ASSUME NEW info \in FileInfo \cup {NoInfo}
  PROVE  PreviousVersion(info) \in Vector
  BY DEF PreviousVersion, NoCounters, Vector, FileInfo

(* What planReplicaMerge returns is a record at least as new as the local  *)
(* one; its copy is the losing side.                                       *)
LEMMA PlanResult ==
  ASSUME NEW local \in FileInfo \cup {NoInfo}, NEW remote \in FileInfo
  PROVE  LET plan == planReplicaMerge(local, remote)
         IN  /\ plan.winner \in FileInfo
             /\ DominatedBy(PreviousVersion(local), plan.winner.version)
             /\ plan.conflict = NoInfo \/ plan.conflict \in FileInfo
             /\ plan.conflict # NoInfo =>
                  /\ local \in FileInfo
                  /\ ~IsDeleted(plan.conflict)
                  /\ {plan.conflict.content, plan.winner.content} = {local.content, remote.content}
             /\ local = NoInfo => plan.winner = remote
             /\ local # NoInfo /\ local.content = remote.content =>
                  plan.winner.content = remote.content /\ plan.conflict = NoInfo
<1>1. CASE local = NoInfo
  <2>1. planReplicaMerge(local, remote) = Receive(remote)  BY <1>1 DEF planReplicaMerge
  <2>2. \A v \in Vector : DominatedBy(NoCounters, v)  BY DEF DominatedBy, NoCounters, Vector
  <2>3. remote.version \in Vector  BY DEF FileInfo
  <2> QED  BY <1>1, <2>1, <2>2, <2>3, NoInfoAssumption DEF Receive, PreviousVersion
<1>2. CASE local # NoInfo
  <2>1. local \in FileInfo /\ PreviousVersion(local) = local.version
    BY <1>2 DEF PreviousVersion
  <2>2. local.version \in Vector /\ remote.version \in Vector  BY <2>1 DEF FileInfo
  <2>3. DominatedBy(local.version, local.version)  BY <2>2 DEF DominatedBy, Vector
  <2>4. CASE planReplicaMerge(local, remote) = Keep(local)
    BY <1>2, <2>1, <2>3, <2>4 DEF Keep
  <2>5. CASE /\ planReplicaMerge(local, remote) = Receive(remote)
             /\ DominatedBy(local.version, remote.version)
    BY <1>2, <2>1, <2>5 DEF Receive
  <2>6. CASE planReplicaMerge(local, remote) = MergeConcurrent(local, remote)
    <3>1. DominatedBy(local.version, mergeVersionVectors(local.version, remote.version))
      BY <2>2, MergedVector
    <3>2. local.content = remote.content => MergeConcurrent(local, remote).conflict = NoInfo
      BY DEF MergeConcurrent
    <3> QED  BY <1>2, <2>1, <2>6, <3>1, <3>2, ConcurrentPlanTyped
  <2> QED  BY <2>1, <2>4, <2>5, <2>6, PlanKinds
<1> QED  BY <1>1, <1>2

(* What the winner's version knows, a side knew; its content is kept by    *)
(* the winner or the conflict copy, unless that side is a tombstone.       *)
LEMMA WinnerKnows ==
  ASSUME NEW local \in FileInfo \cup {NoInfo}, NEW remote \in FileInfo,
         NEW d \in Devices, NEW k \in Nat,
         planReplicaMerge(local, remote).winner.version[d] >= k
  PROVE  \E side \in {local, remote} :
           /\ side # NoInfo
           /\ side.version[d] >= k
           /\ \/ side.content = planReplicaMerge(local, remote).winner.content
              \/ IsDeleted(side)
              \/ /\ planReplicaMerge(local, remote).conflict # NoInfo
                 /\ side.content = planReplicaMerge(local, remote).conflict.content
<1> DEFINE plan == planReplicaMerge(local, remote)
<1>0. remote # NoInfo  BY NoInfoAssumption
<1>1. CASE local = NoInfo
  <2>1. plan = Receive(remote)  BY <1>1 DEF planReplicaMerge
  <2> QED  BY <1>0, <2>1 DEF Receive
<1>2. CASE local # NoInfo
  <2>1. local \in FileInfo  BY <1>2
  <2>2. local.version \in Vector /\ remote.version \in Vector  BY <2>1 DEF FileInfo
  <2>3. CASE plan = Keep(local)  BY <1>2, <2>3 DEF Keep
  <2>4. CASE plan = Receive(remote)  BY <1>0, <2>4 DEF Receive
  <2>5. CASE plan = MergeConcurrent(local, remote)
    <3>1. mergeVersionVectors(local.version, remote.version)[d] >= k
      BY <2>1, <2>5, ConcurrentPlanTyped
    <3>2. local.version[d] >= k \/ remote.version[d] >= k  BY <2>2, <3>1, MergedCounter
    <3>3. /\ plan.winner.content \in {local.content, remote.content}
          /\ plan.conflict # NoInfo =>
               {plan.conflict.content, plan.winner.content} = {local.content, remote.content}
      BY <2>1, <2>5, ConcurrentPlanTyped
    <3>4. CASE plan.conflict # NoInfo  BY <1>0, <1>2, <3>2, <3>3, <3>4
    <3>5. CASE plan.conflict = NoInfo
      <4>1. \/ local.content = remote.content
            \/ Rank(local, remote) >= 0 /\ IsDeleted(remote)
            \/ ~(Rank(local, remote) >= 0) /\ IsDeleted(local)
        <5>1. /\ [local EXCEPT !.version = mergeVersionVectors(local.version, remote.version)] \in FileInfo
              /\ [remote EXCEPT !.version = mergeVersionVectors(local.version, remote.version)] \in FileInfo
          BY <2>1, <2>2, MergedVector DEF FileInfo
        <5> QED  BY <2>5, <3>5, <5>1, NoInfoAssumption DEF MergeConcurrent
      <4>2. /\ Rank(local, remote) >= 0 => plan.winner.content = local.content
            /\ ~(Rank(local, remote) >= 0) => plan.winner.content = remote.content
        BY <2>1, <2>5 DEF MergeConcurrent, FileInfo
      <4> QED  BY <1>0, <1>2, <3>2, <3>3, <4>1, <4>2
    <3> QED  BY <3>4, <3>5
  <2> QED  BY <2>1, <2>3, <2>4, <2>5, PlanKinds
<1> QED  BY <1>1, <1>2

-----------------------------------------------------------------------------
(* Storing a record *)

(* Storing a record changes one entry and publishes it.                    *)
LEMMA StoredTyped ==
  ASSUME TypeOK, EntriesPublished,
         NEW d \in Devices, NEW path \in Paths, NEW info \in FileInfo, Store(d, path, info)
  PROVE  /\ entries' \in [Devices -> [Paths -> FileInfo \cup {NoInfo}]]
         /\ entries'[d][path] = info
         /\ \A e \in Devices, q \in Paths :
              e # d \/ q # path => entries'[e][q] = entries[e][q]
         /\ published' = published \cup {<<path, info>>}
         /\ published' \subseteq Paths \X FileInfo
         /\ EntriesPublished'
<1>1. /\ entries' \in [Devices -> [Paths -> FileInfo \cup {NoInfo}]]
      /\ entries'[d][path] = info
      /\ \A e \in Devices, q \in Paths :
           e # d \/ q # path => entries'[e][q] = entries[e][q]
  BY DEF TypeOK, Store
<1>2. published' = published \cup {<<path, info>>}  BY DEF Store
<1>3. published' \subseteq Paths \X FileInfo  BY <1>2 DEF TypeOK
<1>4. EntriesPublished'  BY <1>1, <1>2 DEF EntriesPublished
<1> QED  BY <1>1, <1>2, <1>3, <1>4

(* What is stored at a conflict copy leaves the users' names alone.        *)
LEMMA StoredCopy ==
  ASSUME IInv, NEW d \in Devices, NEW path \in Paths \ Names, NEW info \in FileInfo,
         Store(d, path, info),
         superseded \subseteq superseded',
         \A p \in Edited, c \in Contents :
           path = ConflictPath(p, c) =>
             info.content = c \/ (path \in Copies /\ c \in superseded'),
         \A c \in Contents :
           birth'[c] # NoInfo /\ birth'[c].path \in Names => birth'[c] = birth[c],
         birth' \in [Contents -> [path : Edited, device : Devices, counter : Nat] \cup {NoInfo}],
         superseded' \subseteq Contents, deletes' \in 0..MaxDeletes
  PROVE  IInv'
<1>2. /\ entries' \in [Devices -> [Paths -> FileInfo \cup {NoInfo}]]
      /\ entries'[d][path] = info
      /\ \A e \in Devices, q \in Paths :
           e # d \/ q # path => entries'[e][q] = entries[e][q]
      /\ published' = published \cup {<<path, info>>}
      /\ published' \subseteq Paths \X FileInfo
      /\ EntriesPublished'
  BY StoredTyped DEF IInv
<1>3. Names \subseteq Paths /\ Names \subseteq Edited  BY DEF Paths, Edited
<1>4. \A e \in Devices, q \in Names : entries'[e][q] = entries[e][q]
  BY <1>2, <1>3
<1>5. TypeOK'  BY <1>2 DEF IInv, TypeOK
<1>6. CopyContent'
  <2> SUFFICES ASSUME NEW r \in published', NEW q \in Edited, NEW e \in Contents,
                      r[1] = ConflictPath(q, e)
               PROVE  r[2].content = e \/ (r[1] \in Copies /\ e \in superseded')
    BY DEF CopyContent
  <2>1. CASE r \in published  BY <2>1 DEF IInv, CopyContent
  <2>2. CASE r = <<path, info>>  BY <2>2
  <2> QED  BY <1>2, <2>1, <2>2
<1>7. OwnCounters'
  <2> SUFFICES ASSUME NEW r \in published', NEW e \in Devices, r[1] \in Names
               PROVE  r[2].version[e] <= PreviousVersion(entries'[e][r[1]])[e]
    BY DEF OwnCounters, PreviousVersion
  <2>1. r \in published  BY <1>2
  <2> QED  BY <1>4, <2>1 DEF IInv, OwnCounters
<1>8. Births'
  <2> SUFFICES ASSUME NEW e \in Contents, birth'[e] # NoInfo, birth'[e].path \in Names
               PROVE  /\ birth'[e].counter >= 1
                      /\ birth'[e].counter <=
                           PreviousVersion(entries'[birth'[e].device][birth'[e].path])[birth'[e].device]
    BY DEF Births, BornAtName, PreviousVersion
  <2>1. birth'[e] = birth[e] /\ birth[e].device \in Devices  BY DEF IInv, TypeOK
  <2> QED  BY <1>4, <2>1 DEF IInv, Births, BornAtName
<1>9. KnownContent'
  <2> SUFFICES ASSUME NEW r \in published', NEW e \in Contents,
                      birth'[e] # NoInfo, birth'[e].path \in Names,
                      r[1] = birth'[e].path, r[2].version[birth'[e].device] >= birth'[e].counter
               PROVE  \/ r[2].content = e \/ e \in superseded'
                      \/ \E f \in Devices : entries'[f][ConflictPath(birth'[e].path, e)] # NoInfo
    BY DEF KnownContent, BornAtName, EditAccountedFor, CopyExists
  <2>1. birth'[e] = birth[e]  OBVIOUS
  <2>2. r \in published  BY <1>2
  <2>3. r[2].content = e \/ e \in superseded \/ CopyExists(e)
    BY <2>1, <2>2 DEF IInv, KnownContent, BornAtName, EditAccountedFor
  <2>4. ConflictPath(birth[e].path, e) \in Paths  BY <1>3, <2>1, CopyPaths
  <2>5. \A f \in Devices, q \in Paths : entries[f][q] # NoInfo => entries'[f][q] # NoInfo
    BY <1>2, NoInfoAssumption
  <2> QED  BY <2>1, <2>3, <2>4, <2>5 DEF CopyExists
<1> QED  BY <1>2, <1>5, <1>6, <1>7, <1>8, <1>9 DEF IInv

(* The record a device stores at a user's name is one more version of what *)
(* it had, and knows no more of any other device than that device.         *)
LEMMA StoredBase ==
  ASSUME IInv, NEW d \in Devices, NEW path \in Names, NEW info \in FileInfo,
         Store(d, path, info),
         DominatedBy(PreviousVersion(entries[d][path]), info.version),
         \A e \in Devices \ {d} : info.version[e] <= PreviousVersion(entries[e][path])[e],
         superseded \subseteq superseded'
  PROVE  /\ EntriesPublished' /\ CopyContent' /\ OwnCounters'
         /\ \A e \in Devices, q \in Paths :
              DominatedBy(PreviousVersion(entries[e][q]), PreviousVersion(entries'[e][q]))
         /\ \A c \in Contents : CopyExists(c) /\ BornAtName(c) /\ birth'[c] = birth[c] => CopyExists(c)'
<1>0. path \in Paths  BY DEF Paths, Edited
<1>1. /\ entries' \in [Devices -> [Paths -> FileInfo \cup {NoInfo}]]
      /\ entries'[d][path] = info
      /\ \A e \in Devices, q \in Paths :
           e # d \/ q # path => entries'[e][q] = entries[e][q]
      /\ published' = published \cup {<<path, info>>}
      /\ EntriesPublished'
  BY <1>0, StoredTyped DEF IInv
<1>2. \A e \in Devices, q \in Paths :
        DominatedBy(PreviousVersion(entries[e][q]), PreviousVersion(entries'[e][q]))
  <2> TAKE e \in Devices, q \in Paths
  <2>1. PreviousVersion(entries[e][q]) \in Vector
    BY PreviousVersionTyped DEF IInv, TypeOK
  <2>2. CASE e = d /\ q = path  BY <1>1, <2>2, NoInfoAssumption DEF PreviousVersion
  <2>3. CASE e # d \/ q # path  BY <1>1, <2>1, <2>3 DEF DominatedBy, Vector
  <2> QED  BY <2>2, <2>3
<1>3. CopyContent'
  <2>1. \A q \in Edited, c \in Contents : ConflictPath(q, c) # path  BY CopyPaths
  <2> QED  BY <1>1, <2>1 DEF IInv, CopyContent
<1>4. OwnCounters'
  <2> SUFFICES ASSUME NEW r \in published', NEW e \in Devices, r[1] \in Names
               PROVE  r[2].version[e] <= PreviousVersion(entries'[e][r[1]])[e]
    BY DEF OwnCounters, PreviousVersion
  <2>1. r[1] \in Paths  BY DEF Paths, Edited
  <2>2. /\ PreviousVersion(entries[e][r[1]]) \in Vector
        /\ PreviousVersion(entries'[e][r[1]]) \in Vector
    BY <1>1, <2>1, PreviousVersionTyped DEF IInv, TypeOK
  <2>3. PreviousVersion(entries[e][r[1]])[e] <= PreviousVersion(entries'[e][r[1]])[e]
    BY <1>2, <2>1 DEF DominatedBy
  <2>4. CASE r \in published
    <3>1. r[2] \in FileInfo  BY <2>4 DEF IInv, TypeOK
    <3>2. r[2].version[e] \in Nat  BY <3>1 DEF FileInfo, Vector
    <3>3. r[2].version[e] <= PreviousVersion(entries[e][r[1]])[e]
      BY <2>4 DEF IInv, OwnCounters
    <3>4. /\ PreviousVersion(entries[e][r[1]])[e] \in Nat
          /\ PreviousVersion(entries'[e][r[1]])[e] \in Nat
      BY <2>2 DEF Vector
    <3> QED  BY <2>3, <3>2, <3>3, <3>4
  <2>5. CASE r = <<path, info>> /\ e # d  BY <1>1, <2>1, <2>5
  <2>6. CASE r = <<path, info>> /\ e = d
    <3>1. entries'[e][r[1]] = info  BY <1>1, <2>6
    <3>2. info.version[e] \in Nat  BY DEF FileInfo, Vector
    <3> QED  BY <2>6, <3>1, <3>2, NoInfoAssumption DEF PreviousVersion
  <2> QED  BY <1>1, <2>4, <2>5, <2>6
<1>5. ASSUME NEW c \in Contents, CopyExists(c), BornAtName(c), birth'[c] = birth[c]
      PROVE  CopyExists(c)'
  <2>1. birth[c].path \in Names /\ birth[c].path \in Edited  BY <1>5 DEF BornAtName, Edited
  <2>2. ConflictPath(birth[c].path, c) \in Paths \ Names  BY <2>1, CopyPaths
  <2>3. \A f \in Devices : entries'[f][ConflictPath(birth[c].path, c)]
                             = entries[f][ConflictPath(birth[c].path, c)]
    BY <1>1, <2>2
  <2> QED  BY <1>5, <2>3 DEF CopyExists
<1> QED  BY <1>1, <1>2, <1>3, <1>4, <1>5

-----------------------------------------------------------------------------
(* The actions *)

(* A user's edit advances the editing device's counter only.               *)
LEMMA EditedVersion ==
  ASSUME IInv, NEW d \in Devices, NEW path \in Names, NEW info \in FileInfo,
         info.version = advanceVersionVector(PreviousVersion(entries[d][path]), d)
  PROVE  /\ PreviousVersion(entries[d][path]) \in Vector
         /\ DominatedBy(PreviousVersion(entries[d][path]), info.version)
         /\ info.version[d] = PreviousVersion(entries[d][path])[d] + 1
         /\ \A e \in Devices \ {d} :
              /\ info.version[e] = PreviousVersion(entries[d][path])[e]
              /\ info.version[e] <= PreviousVersion(entries[e][path])[e]
<1>1. path \in Paths  BY DEF Paths, Edited
<1>2. entries[d][path] \in FileInfo \cup {NoInfo}  BY <1>1 DEF IInv, TypeOK
<1>3. PreviousVersion(entries[d][path]) \in Vector  BY <1>2, PreviousVersionTyped
<1>4. ASSUME NEW e \in Devices
      PROVE  PreviousVersion(entries[d][path])[e] <= PreviousVersion(entries[e][path])[e]
  <2>1. CASE entries[d][path] = NoInfo
    <3>1. PreviousVersion(entries[d][path])[e] = 0  BY <2>1 DEF PreviousVersion, NoCounters
    <3>2. PreviousVersion(entries[e][path]) \in Vector
      BY <1>1, PreviousVersionTyped DEF IInv, TypeOK
    <3> QED  BY <3>1, <3>2 DEF Vector
  <2>2. CASE entries[d][path] # NoInfo
    <3>1. <<path, entries[d][path]>> \in published
      BY <1>1, <2>2 DEF IInv, EntriesPublished
    <3>2. entries[d][path].version[e] <= PreviousVersion(entries[e][path])[e]
      BY <3>1 DEF IInv, OwnCounters
    <3> QED  BY <2>2, <3>2 DEF PreviousVersion
  <2> QED  BY <2>1, <2>2
<1> QED  BY <1>3, <1>4, AdvancedVector

(* What the edited version knows of was known before, and held or given up *)
(* or copied.                                                              *)
LEMMA EditAccounts ==
  ASSUME IInv, NEW d \in Devices, NEW path \in Names, NEW info \in FileInfo,
         info.version = advanceVersionVector(PreviousVersion(entries[d][path]), d),
         NEW c \in Contents, BornAtName(c), birth[c].path = path,
         info.version[birth[c].device] >= birth[c].counter
  PROVE  c \in superseded \cup Replaced(entries[d][path]) \/ CopyExists(c)
<1> DEFINE e == birth[c].device
           k == birth[c].counter
           old == PreviousVersion(entries[d][path])
<1>1. e \in Devices /\ k \in Nat /\ k >= 1  BY DEF IInv, TypeOK, Births, BornAtName
<1>2. path \in Paths  BY DEF Paths, Edited
<1>3. k <= PreviousVersion(entries[e][path])[e]  BY DEF IInv, Births
<1>4. old \in Vector  BY EditedVersion
<1>5. old[e] >= k
  <2>1. CASE e = d  BY <1>3, <2>1
  <2>2. CASE e # d
    <3>1. info.version[e] = old[e]  BY <1>1, <2>2, EditedVersion
    <3> QED  BY <3>1
  <2> QED  BY <2>1, <2>2
<1>6. entries[d][path] # NoInfo
  BY <1>1, <1>5 DEF PreviousVersion, NoCounters
<1>7. /\ <<path, entries[d][path]>> \in published
      /\ entries[d][path].version[e] >= k
  BY <1>2, <1>5, <1>6 DEF IInv, EntriesPublished, PreviousVersion
<1>8. entries[d][path].content = c \/ c \in superseded \/ CopyExists(c)
  BY <1>7 DEF IInv, KnownContent, EditAccountedFor
<1>9. entries[d][path].content = c => c \in Replaced(entries[d][path])
  BY <1>6, ContentsAssumption DEF Replaced, IsLive, IsDeleted
<1> QED  BY <1>8, <1>9

(* What a user replaces or deletes is live content.                        *)
LEMMA ReplacedTyped ==
  ASSUME IInv, NEW d \in Devices, NEW path \in Paths
  PROVE  Replaced(entries[d][path]) \subseteq Contents
  BY DEF IInv, TypeOK, Replaced, IsLive, IsDeleted, FileInfo

(* A user who saves content under a name keeps the invariant.              *)
LEMMA WriteStep ==
  ASSUME IInv, NEW d \in Devices, NEW path \in Names, NEW content \in Contents,
         NEW time \in Times[content], Write(d, path, content, time)
  PROVE  IInv'
<1> DEFINE old == PreviousVersion(entries[d][path])
           info == [version |-> advanceVersionVector(old, d), content |-> content, mtime |-> time]
<1>0. path \in Paths  BY DEF Paths, Edited
<1>1. /\ birth[content] = NoInfo
      /\ Store(d, path, info)
      /\ superseded' = superseded \cup Replaced(entries[d][path])
      /\ birth' = [birth EXCEPT ![content] = [path |-> path, device |-> d, counter |-> old[d] + 1]]
      /\ deletes' = deletes
  BY DEF Write
<1>2. old \in Vector  BY <1>0, PreviousVersionTyped DEF IInv, TypeOK
<1>3. info \in FileInfo
  BY <1>2, AdvancedVector, MeshAssumption DEF FileInfo
<1> HIDE DEF info
<1>4. info.version = advanceVersionVector(old, d) /\ info.content = content  BY DEF info
<1>5. /\ EntriesPublished' /\ CopyContent' /\ OwnCounters'
      /\ \A e \in Devices, q \in Paths :
           DominatedBy(PreviousVersion(entries[e][q]), PreviousVersion(entries'[e][q]))
      /\ \A c \in Contents : CopyExists(c) /\ BornAtName(c) /\ birth'[c] = birth[c] => CopyExists(c)'
  BY <1>1, <1>3, <1>4, EditedVersion, StoredBase
<1>6. /\ entries' \in [Devices -> [Paths -> FileInfo \cup {NoInfo}]]
      /\ entries'[d][path] = info
      /\ published' = published \cup {<<path, info>>}
      /\ published' \subseteq Paths \X FileInfo
  BY <1>0, <1>1, <1>3, StoredTyped DEF IInv
<1>7. /\ birth' \in [Contents -> [path : Edited, device : Devices, counter : Nat] \cup {NoInfo}]
      /\ birth'[content] = [path |-> path, device |-> d, counter |-> old[d] + 1]
      /\ \A c \in Contents \ {content} : birth'[c] = birth[c]
  <2>1. old[d] + 1 \in Nat  BY <1>2 DEF Vector
  <2> QED  BY <1>1, <2>1 DEF IInv, TypeOK, Edited
<1>8. TypeOK'
  <2>1. Replaced(entries[d][path]) \subseteq Contents  BY <1>0, ReplacedTyped
  <2> QED  BY <1>1, <1>6, <1>7, <2>1 DEF IInv, TypeOK
<1>9. Births'
  <2> SUFFICES ASSUME NEW c \in Contents, birth'[c] # NoInfo, birth'[c].path \in Names
               PROVE  /\ birth'[c].counter >= 1
                      /\ birth'[c].counter <=
                           PreviousVersion(entries'[birth'[c].device][birth'[c].path])[birth'[c].device]
    BY DEF Births, BornAtName, PreviousVersion
  <2>1. CASE c = content
    <3>1. PreviousVersion(entries'[d][path])[d] = old[d] + 1
      BY <1>2, <1>3, <1>4, <1>6, AdvancedVector, NoInfoAssumption DEF PreviousVersion
    <3>2. old[d] \in Nat  BY <1>2 DEF Vector
    <3> QED  BY <1>7, <2>1, <3>1, <3>2
  <2>2. CASE c # content
    <3> DEFINE e == birth[c].device
               q == birth[c].path
    <3>1. birth'[c] = birth[c]  BY <1>7, <2>2
    <3>2. e \in Devices /\ q \in Paths /\ birth[c].counter \in Nat
      BY <3>1 DEF IInv, TypeOK, Paths
    <3>3. /\ birth[c].counter >= 1
          /\ birth[c].counter <= PreviousVersion(entries[e][q])[e]
      BY <3>1 DEF IInv, Births, BornAtName
    <3>4. PreviousVersion(entries[e][q])[e] <= PreviousVersion(entries'[e][q])[e]
      BY <1>5, <3>2 DEF DominatedBy
    <3>5. /\ PreviousVersion(entries[e][q])[e] \in Nat
          /\ PreviousVersion(entries'[e][q])[e] \in Nat
      BY <1>6, <3>2, PreviousVersionTyped DEF IInv, TypeOK, Vector
    <3> QED  BY <3>1, <3>2, <3>3, <3>4, <3>5
  <2> QED  BY <2>1, <2>2
<1>10. KnownContent'
  <2> SUFFICES ASSUME NEW r \in published', NEW c \in Contents,
                      birth'[c] # NoInfo, birth'[c].path \in Names,
                      r[1] = birth'[c].path, r[2].version[birth'[c].device] >= birth'[c].counter
               PROVE  r[2].content = c \/ c \in superseded' \/ CopyExists(c)'
    BY DEF KnownContent, BornAtName, EditAccountedFor
  <2>1. CASE c = content
    <3>1. CASE r = <<path, info>>  BY <1>4, <2>1, <3>1
    <3>2. CASE r \in published
      <4>1. r[1] = path /\ r[2].version[d] >= old[d] + 1  BY <1>7, <2>1
      <4>2. r[2].version[d] <= old[d]  BY <3>2, <4>1 DEF IInv, OwnCounters
      <4>3. r[2] \in FileInfo  BY <3>2 DEF IInv, TypeOK
      <4>4. r[2].version[d] \in Nat /\ old[d] \in Nat  BY <1>2, <4>3 DEF FileInfo, Vector
      <4> QED  BY <4>1, <4>2, <4>4
    <3> QED  BY <1>6, <3>1, <3>2
  <2>2. CASE c # content
    <3>1. birth'[c] = birth[c] /\ BornAtName(c)  BY <1>7, <2>2 DEF BornAtName
    <3>2. CASE r \in published
      <4>1. r[2].content = c \/ c \in superseded \/ CopyExists(c)
        BY <3>1, <3>2 DEF IInv, KnownContent, EditAccountedFor
      <4> QED  BY <1>1, <1>5, <3>1, <4>1
    <3>3. CASE r = <<path, info>>
      <4>1. c \in superseded \cup Replaced(entries[d][path]) \/ CopyExists(c)
        BY <1>3, <1>4, <3>1, <3>3, EditAccounts
      <4> QED  BY <1>1, <1>5, <3>1, <4>1
    <3> QED  BY <1>6, <3>2, <3>3
  <2> QED  BY <2>1, <2>2
<1> QED  BY <1>5, <1>8, <1>9, <1>10 DEF IInv

(* Versions only grow, so a device never forgets its own edits.            *)
LEMMA BirthsKept ==
  ASSUME IInv, birth' = birth,
         entries' \in [Devices -> [Paths -> FileInfo \cup {NoInfo}]],
         \A e \in Devices, q \in Paths :
           DominatedBy(PreviousVersion(entries[e][q]), PreviousVersion(entries'[e][q]))
  PROVE  Births'
<1> SUFFICES ASSUME NEW c \in Contents, BornAtName(c)
             PROVE  /\ birth[c].counter >= 1
                    /\ birth[c].counter <=
                         PreviousVersion(entries'[birth[c].device][birth[c].path])[birth[c].device]
  BY DEF Births, BornAtName, PreviousVersion
<1> DEFINE e == birth[c].device
           q == birth[c].path
<1>1. e \in Devices /\ q \in Paths /\ birth[c].counter \in Nat
  BY DEF IInv, TypeOK, Paths, BornAtName
<1>2. birth[c].counter >= 1 /\ birth[c].counter <= PreviousVersion(entries[e][q])[e]
  BY DEF IInv, Births
<1>3. PreviousVersion(entries[e][q])[e] <= PreviousVersion(entries'[e][q])[e]
  BY <1>1 DEF DominatedBy
<1>4. /\ PreviousVersion(entries[e][q])[e] \in Nat
      /\ PreviousVersion(entries'[e][q])[e] \in Nat
  BY <1>1, PreviousVersionTyped DEF IInv, TypeOK, Vector
<1> QED  BY <1>1, <1>2, <1>3, <1>4

(* A user who deletes a file of his own name keeps the invariant.          *)
LEMMA DeleteStep ==
  ASSUME IInv, NEW d \in Devices, NEW path \in Names, Delete(d, path)
  PROVE  IInv'
<1> DEFINE old == PreviousVersion(entries[d][path])
           info == [entries[d][path] EXCEPT !.content = Tombstone,
                                            !.version = advanceVersionVector(@, d)]
<1>0. path \in Paths  BY DEF Paths, Edited
<1>1. /\ Store(d, path, info)
      /\ superseded' = superseded \cup Replaced(entries[d][path])
      /\ deletes < MaxDeletes /\ deletes' = deletes + 1 /\ birth' = birth
      /\ entries[d][path] # NoInfo
  BY DEF Delete, IsLive
<1>2. entries[d][path] \in FileInfo /\ old = entries[d][path].version
  BY <1>0, <1>1 DEF IInv, TypeOK, PreviousVersion
<1>3. info \in FileInfo /\ info.version = advanceVersionVector(old, d)
  <2>1. old \in Vector  BY <1>2 DEF FileInfo
  <2>2. advanceVersionVector(old, d) \in Vector  BY <2>1, AdvancedVector
  <2> QED  BY <1>2, <2>2 DEF FileInfo
<1> HIDE DEF info
<1>4. /\ EntriesPublished' /\ CopyContent' /\ OwnCounters'
      /\ \A e \in Devices, q \in Paths :
           DominatedBy(PreviousVersion(entries[e][q]), PreviousVersion(entries'[e][q]))
      /\ \A c \in Contents : CopyExists(c) /\ BornAtName(c) /\ birth'[c] = birth[c] => CopyExists(c)'
  BY <1>1, <1>3, EditedVersion, StoredBase
<1>5. /\ entries' \in [Devices -> [Paths -> FileInfo \cup {NoInfo}]]
      /\ published' = published \cup {<<path, info>>}
      /\ published' \subseteq Paths \X FileInfo
  BY <1>0, <1>1, <1>3, StoredTyped DEF IInv
<1>6. TypeOK'
  <2>1. Replaced(entries[d][path]) \subseteq Contents  BY <1>0, ReplacedTyped
  <2>2. deletes' \in 0..MaxDeletes  BY <1>1, MeshAssumption DEF IInv, TypeOK
  <2> QED  BY <1>1, <1>5, <2>1, <2>2 DEF IInv, TypeOK
<1>7. Births'  BY <1>1, <1>4, <1>5, BirthsKept
<1>8. KnownContent'
  <2> SUFFICES ASSUME NEW r \in published', NEW c \in Contents, BornAtName(c),
                      r[1] = birth[c].path, r[2].version[birth[c].device] >= birth[c].counter
               PROVE  r[2].content = c \/ c \in superseded' \/ CopyExists(c)'
    BY <1>1 DEF KnownContent, BornAtName, EditAccountedFor
  <2>1. CASE r \in published
    <3>1. r[2].content = c \/ c \in superseded \/ CopyExists(c)
      BY <2>1 DEF IInv, KnownContent, EditAccountedFor
    <3> QED  BY <1>1, <1>4, <3>1
  <2>2. CASE r = <<path, info>>
    <3>1. c \in superseded \cup Replaced(entries[d][path]) \/ CopyExists(c)
      BY <1>3, <2>2, EditAccounts
    <3> QED  BY <1>1, <1>4, <3>1
  <2> QED  BY <1>5, <2>1, <2>2
<1> QED  BY <1>4, <1>6, <1>7, <1>8 DEF IInv

(* A user who changes or deletes a conflict copy gives up the content it   *)
(* was named for.                                                          *)
LEMMA CopyEditGivesUp ==
  ASSUME IInv, NEW d \in Devices, NEW path \in Copies, entries[d][path] # NoInfo,
         NEW p \in Edited, NEW c \in Contents, path = ConflictPath(p, c)
  PROVE  c \in superseded \cup Replaced(entries[d][path])
<1>1. path \in Paths  BY CopiesOfNames
<1>2. entries[d][path].content = c \/ c \in superseded
  BY <1>1 DEF IInv, EntriesPublished, CopyContent
<1> QED  BY <1>2, ContentsAssumption DEF Replaced, IsLive, IsDeleted

(* A user who saves content in a conflict copy keeps the invariant.        *)
LEMMA WriteCopyStep ==
  ASSUME IInv, NEW d \in Devices, NEW path \in Copies, entries[d][path] # NoInfo,
         NEW content \in Contents, NEW time \in Times[content], Write(d, path, content, time)
  PROVE  IInv'
<1> DEFINE old == PreviousVersion(entries[d][path])
           info == [version |-> advanceVersionVector(old, d), content |-> content, mtime |-> time]
<1>0. path \in Paths \ Names /\ path \in Edited  BY CopiesOfNames
<1>1. /\ Store(d, path, info)
      /\ superseded' = superseded \cup Replaced(entries[d][path])
      /\ birth' = [birth EXCEPT ![content] = [path |-> path, device |-> d, counter |-> old[d] + 1]]
      /\ deletes' = deletes
  BY DEF Write
<1>2. old \in Vector  BY <1>0, PreviousVersionTyped DEF IInv, TypeOK
<1>3. info \in FileInfo
  BY <1>2, AdvancedVector, MeshAssumption DEF FileInfo
<1> HIDE DEF info
<1>4. /\ birth' \in [Contents -> [path : Edited, device : Devices, counter : Nat] \cup {NoInfo}]
      /\ birth'[content].path = path
      /\ \A c \in Contents \ {content} : birth'[c] = birth[c]
  <2>1. old[d] + 1 \in Nat  BY <1>2 DEF Vector
  <2> QED  BY <1>0, <1>1, <2>1 DEF IInv, TypeOK
<1>5. superseded' \subseteq Contents /\ deletes' \in 0..MaxDeletes
  <2>1. Replaced(entries[d][path]) \subseteq Contents  BY <1>0, ReplacedTyped
  <2> QED  BY <1>1, <2>1 DEF IInv, TypeOK
<1>6. \A p \in Edited, c \in Contents : path = ConflictPath(p, c) => c \in superseded'
  BY <1>1, CopyEditGivesUp
<1> QED  BY <1>0, <1>1, <1>3, <1>4, <1>5, <1>6, StoredCopy

(* A user who deletes a conflict copy keeps the invariant.                 *)
LEMMA DeleteCopyStep ==
  ASSUME IInv, NEW d \in Devices, NEW path \in Copies, Delete(d, path)
  PROVE  IInv'
<1> DEFINE info == [entries[d][path] EXCEPT !.content = Tombstone,
                                            !.version = advanceVersionVector(@, d)]
<1>0. path \in Paths \ Names  BY CopiesOfNames
<1>1. /\ Store(d, path, info)
      /\ superseded' = superseded \cup Replaced(entries[d][path])
      /\ deletes < MaxDeletes /\ deletes' = deletes + 1 /\ birth' = birth
      /\ entries[d][path] # NoInfo
  BY DEF Delete, IsLive
<1>2. entries[d][path] \in FileInfo  BY <1>0, <1>1 DEF IInv, TypeOK
<1>3. info \in FileInfo
  <2>1. advanceVersionVector(entries[d][path].version, d) \in Vector
    BY <1>2, AdvancedVector DEF FileInfo
  <2> QED  BY <1>2, <2>1 DEF FileInfo
<1> HIDE DEF info
<1>4. superseded' \subseteq Contents /\ deletes' \in 0..MaxDeletes
  <2>1. Replaced(entries[d][path]) \subseteq Contents  BY <1>0, ReplacedTyped
  <2> QED  BY <1>1, <2>1, MeshAssumption DEF IInv, TypeOK
<1>5. \A p \in Edited, c \in Contents : path = ConflictPath(p, c) => c \in superseded'
  BY <1>1, CopyEditGivesUp
<1>6. birth' \in [Contents -> [path : Edited, device : Devices, counter : Nat] \cup {NoInfo}]
  BY <1>1 DEF IInv, TypeOK
<1> QED  BY <1>0, <1>1, <1>3, <1>4, <1>5, <1>6, StoredCopy

(* A record at a conflict copy that no user changes needs no further copy: *)
(* whoever merges it holds the same content there.                         *)
LEMMA CopiesNeedNoCopy ==
  ASSUME IInv, NEW d \in Devices, NEW path \in Paths \ Edited,
         NEW remote \in FileInfo, <<path, remote>> \in published
  PROVE  Plan(d, path, remote).conflict = NoInfo
<1>1. PICK p \in Edited, c \in Contents : path = ConflictPath(p, c)
  BY PathKinds DEF Edited
<1>2. remote.content = c  BY <1>1 DEF IInv, CopyContent, Edited
<1>3. entries[d][path] \in FileInfo \cup {NoInfo}  BY DEF IInv, TypeOK
<1>4. entries[d][path] # NoInfo => entries[d][path].content = c
  BY <1>1 DEF IInv, EntriesPublished, CopyContent, Edited
<1>5. entries[d][path] = NoInfo => Plan(d, path, remote).conflict = NoInfo
  BY DEF Plan, planReplicaMerge, Receive
<1> QED  BY <1>2, <1>3, <1>4, <1>5, PlanResult DEF Plan

(* What a merge at a conflict copy stores is content of the copy, or that  *)
(* content is given up.                                                    *)
LEMMA CopyWinner ==
  ASSUME IInv, NEW d \in Devices, NEW path \in Paths \ Names,
         NEW remote \in FileInfo, <<path, remote>> \in published,
         NEW p \in Edited, NEW c \in Contents, path = ConflictPath(p, c)
  PROVE  LET winner == Plan(d, path, remote).winner
         IN  winner.content = c \/ (path \in Copies /\ c \in superseded)
<1> DEFINE local == entries[d][path]
           winner == Plan(d, path, remote).winner
<1>1. local \in FileInfo \cup {NoInfo}  BY DEF IInv, TypeOK
<1>2. remote.content = c \/ (path \in Copies /\ c \in superseded)
  BY DEF IInv, CopyContent
<1>3. local # NoInfo => local.content = c \/ (path \in Copies /\ c \in superseded)
  BY DEF IInv, EntriesPublished, CopyContent
<1>4. CASE local = NoInfo  BY <1>1, <1>2, <1>4, PlanResult DEF Plan
<1>5. CASE local # NoInfo
  <2>1. local.content = remote.content => winner.content = remote.content
    BY <1>1, <1>5, PlanResult DEF Plan
  <2> QED  BY <1>2, <1>3, <1>5, <2>1
<1> QED  BY <1>4, <1>5

(* A copy a merge needs is live, of a path that users change.              *)
LEMMA InstalledCopy ==
  ASSUME IInv, NEW d \in Devices, NEW r \in published, InstallConflictCopy(d, r[1], r[2])
  PROVE  LET copy == Plan(d, r[1], r[2]).conflict
         IN  /\ r[1] \in Edited
             /\ copy \in FileInfo /\ copy.content \in Contents
             /\ ConflictPath(r[1], copy.content) \in Paths \ Names
             /\ Store(d, ConflictPath(r[1], copy.content), copy)
             /\ UNCHANGED <<birth, superseded, deletes>>
             /\ entries[d][r[1]] \in FileInfo
<1> DEFINE path == r[1]
           remote == r[2]
           copy == Plan(d, path, remote).conflict
<1>1. path \in Paths /\ remote \in FileInfo /\ r = <<path, remote>>  BY DEF IInv, TypeOK
<1>2. copy # NoInfo  BY DEF InstallConflictCopy, NeedsConflictCopy
<1>3. path \in Edited  BY <1>1, <1>2, CopiesNeedNoCopy
<1>4. entries[d][path] \in FileInfo \cup {NoInfo}  BY <1>1 DEF IInv, TypeOK
<1>5. copy \in FileInfo /\ ~IsDeleted(copy) /\ entries[d][path] \in FileInfo
  BY <1>1, <1>2, <1>4, PlanResult DEF Plan
<1>6. copy.content \in Contents  BY <1>5 DEF FileInfo, IsDeleted
<1>7. /\ Store(d, ConflictPath(path, copy.content), copy)
      /\ UNCHANGED <<birth, superseded, deletes>>
  BY DEF InstallConflictCopy
<1>8. ConflictPath(path, copy.content) \in Paths \ Names  BY <1>3, <1>6, CopyPaths
<1> QED  BY <1>3, <1>5, <1>6, <1>7, <1>8

(* Installing the conflict copy of a merge keeps the invariant.            *)
LEMMA InstallStep ==
  ASSUME IInv, NEW d \in Devices, NEW r \in published, InstallConflictCopy(d, r[1], r[2])
  PROVE  IInv'
<1> DEFINE copy == Plan(d, r[1], r[2]).conflict
<1>1. /\ r[1] \in Edited
      /\ copy \in FileInfo /\ copy.content \in Contents
      /\ ConflictPath(r[1], copy.content) \in Paths \ Names
      /\ Store(d, ConflictPath(r[1], copy.content), copy)
      /\ UNCHANGED <<birth, superseded, deletes>>
  BY InstalledCopy
<1> HIDE DEF copy
<1>2. \A p \in Edited, c \in Contents :
        ConflictPath(r[1], copy.content) = ConflictPath(p, c) => copy.content = c
  BY <1>1, CopyPaths
<1>3. /\ birth' \in [Contents -> [path : Edited, device : Devices, counter : Nat] \cup {NoInfo}]
      /\ superseded' \subseteq Contents /\ deletes' \in 0..MaxDeletes
  BY <1>1 DEF IInv, TypeOK
<1> QED  BY <1>1, <1>2, <1>3, StoredCopy

(* Storing the winner of a merge, its copy being there, keeps the          *)
(* invariant.                                                              *)
LEMMA ReceiveStep ==
  ASSUME IInv, NEW d \in Devices, NEW r \in published, ReceiveWinner(d, r[1], r[2])
  PROVE  IInv'
<1> DEFINE path == r[1]
           remote == r[2]
           local == entries[d][path]
           plan == Plan(d, path, remote)
           info == plan.winner
<1>1. path \in Paths /\ remote \in FileInfo /\ r = <<path, remote>>  BY DEF IInv, TypeOK
<1>2. Store(d, path, info) /\ UNCHANGED <<birth, superseded, deletes>>
  BY DEF ReceiveWinner
<1>3. local \in FileInfo \cup {NoInfo}  BY <1>1 DEF IInv, TypeOK
<1>4. /\ info \in FileInfo
      /\ DominatedBy(PreviousVersion(local), info.version)
      /\ plan.conflict = NoInfo \/ plan.conflict \in FileInfo
      /\ plan.conflict # NoInfo => ~IsDeleted(plan.conflict)
  BY <1>1, <1>3, PlanResult DEF Plan
<1>5. CASE path \notin Names
  <2>1. \A p \in Edited, c \in Contents :
          path = ConflictPath(p, c) => info.content = c \/ (path \in Copies /\ c \in superseded')
    BY <1>1, <1>2, <1>5, CopyWinner
  <2>2. /\ birth' \in [Contents -> [path : Edited, device : Devices, counter : Nat] \cup {NoInfo}]
        /\ superseded' \subseteq Contents /\ deletes' \in 0..MaxDeletes
    BY <1>2 DEF IInv, TypeOK
  <2> HIDE DEF info
  <2> QED  BY <1>1, <1>2, <1>4, <1>5, <2>1, <2>2, StoredCopy
<1>6. CASE path \in Names
  <2>1. ASSUME NEW e \in Devices  PROVE info.version[e] <= PreviousVersion(entries[e][path])[e]
    <3>1. info.version[e] \in Nat  BY <1>4 DEF FileInfo, Vector
    <3>2. PICK side \in {local, remote} : side # NoInfo /\ side.version[e] >= info.version[e]
      BY <1>1, <1>3, <3>1, WinnerKnows DEF Plan
    <3>3. <<path, side>> \in published /\ side \in FileInfo
      BY <1>1, <1>3, <3>2 DEF IInv, EntriesPublished
    <3>4. side.version[e] <= PreviousVersion(entries[e][path])[e]
      BY <1>6, <3>3 DEF IInv, OwnCounters
    <3>5. side.version[e] \in Nat  BY <3>3 DEF FileInfo, Vector
    <3>6. PreviousVersion(entries[e][path])[e] \in Nat
      BY <1>1, PreviousVersionTyped DEF IInv, TypeOK, Vector
    <3> QED  BY <3>1, <3>2, <3>4, <3>5, <3>6
  <2>2. /\ EntriesPublished' /\ CopyContent' /\ OwnCounters'
        /\ \A e \in Devices, q \in Paths :
             DominatedBy(PreviousVersion(entries[e][q]), PreviousVersion(entries'[e][q]))
        /\ \A c \in Contents : CopyExists(c) /\ BornAtName(c) /\ birth'[c] = birth[c] => CopyExists(c)'
    BY <1>2, <1>4, <1>6, <2>1, StoredBase
  <2>3. /\ entries' \in [Devices -> [Paths -> FileInfo \cup {NoInfo}]]
        /\ published' = published \cup {<<path, info>>}
        /\ published' \subseteq Paths \X FileInfo
    BY <1>1, <1>2, <1>4, StoredTyped DEF IInv
  <2>4. TypeOK'  BY <1>2, <2>3 DEF IInv, TypeOK
  <2>5. Births'  BY <1>2, <2>2, <2>3, BirthsKept
  <2>6. KnownContent'
    <3> SUFFICES ASSUME NEW s \in published', NEW c \in Contents, BornAtName(c),
                        s[1] = birth[c].path, s[2].version[birth[c].device] >= birth[c].counter
                 PROVE  s[2].content = c \/ c \in superseded \/ CopyExists(c)'
      BY <1>2 DEF KnownContent, BornAtName, EditAccountedFor
    <3>1. CASE s \in published
      <4>1. s[2].content = c \/ c \in superseded \/ CopyExists(c)
        BY <3>1 DEF IInv, KnownContent, EditAccountedFor
      <4> QED  BY <1>2, <2>2, <4>1
    <3>2. CASE s = <<path, info>>
      <4>1. /\ birth[c].device \in Devices /\ birth[c].counter \in Nat
            /\ info.version[birth[c].device] >= birth[c].counter
            /\ path = birth[c].path
        BY <3>2 DEF IInv, TypeOK, BornAtName
      <4>2. PICK side \in {local, remote} :
              /\ side # NoInfo
              /\ side.version[birth[c].device] >= birth[c].counter
              /\ \/ side.content = info.content
                 \/ IsDeleted(side)
                 \/ plan.conflict # NoInfo /\ side.content = plan.conflict.content
        BY <1>1, <1>3, <4>1, WinnerKnows DEF Plan
      <4>3. <<path, side>> \in published  BY <1>1, <4>2 DEF IInv, EntriesPublished
      <4>4. side.content = c \/ c \in superseded \/ CopyExists(c)
        BY <4>1, <4>2, <4>3 DEF IInv, KnownContent, EditAccountedFor
      <4>5. CASE c \in superseded \/ CopyExists(c)  BY <1>2, <2>2, <4>5
      <4>6. CASE side.content = c /\ side.content = info.content  BY <3>2, <4>6
      <4>7. ~(side.content = c /\ IsDeleted(side))  BY ContentsAssumption DEF IsDeleted
      <4>8. CASE plan.conflict # NoInfo /\ plan.conflict.content = c
        <5>1. ~NeedsConflictCopy(d, path, remote)  BY DEF ReceiveWinner
        <5>2. entries[d][ConflictPath(path, c)] # NoInfo
          BY <4>8, <5>1 DEF NeedsConflictCopy, Plan
        <5>3. CopyExists(c)  BY <4>1, <5>2 DEF CopyExists
        <5> QED  BY <1>2, <2>2, <5>3
      <4> QED  BY <4>2, <4>4, <4>5, <4>6, <4>7, <4>8
    <3> QED  BY <2>3, <3>1, <3>2
  <2> QED  BY <2>2, <2>4, <2>5, <2>6 DEF IInv
<1> QED  BY <1>5, <1>6

-----------------------------------------------------------------------------
(* The theorems *)

(* The empty replicas satisfy the invariant.                               *)
LEMMA InitInv == Init => IInv
<1> SUFFICES ASSUME Init  PROVE IInv
  OBVIOUS
<1>1. TypeOK  BY MeshAssumption DEF Init, TypeOK
<1> QED  BY <1>1
         DEF Init, IInv, EntriesPublished, CopyContent, OwnCounters, Births, KnownContent, BornAtName

(* Every step of every device keeps the invariant.                         *)
LEMMA NextInv == IInv /\ [Next]_vars => IInv'
<1> SUFFICES ASSUME IInv, [Next]_vars  PROVE IInv'
  OBVIOUS
<1>1. CASE Next
  <2>1. PICK d \in Devices : UserEdit(d) \/ Merge(d)  BY <1>1 DEF Next
  <2>2. CASE UserEdit(d)
    BY <2>2, WriteStep, DeleteStep, WriteCopyStep, DeleteCopyStep DEF UserEdit
  <2>3. CASE Merge(d)  BY <2>3, InstallStep, ReceiveStep DEF Merge
  <2> QED  BY <2>1, <2>2, <2>3
<1>2. CASE UNCHANGED vars
  BY <1>2 DEF vars, IInv, TypeOK, EntriesPublished, CopyContent, OwnCounters, Births,
              KnownContent, BornAtName, EditAccountedFor, CopyExists, PreviousVersion
<1> QED  BY <1>1, <1>2

(* The invariant holds in every reachable state.                           *)
LEMMA InvariantHolds == Spec => []IInv
  BY InitInv, NextInv, PTL DEF Spec

(* The durable index of every replica stays well formed.                   *)
THEOREM TypeCorrect == Spec => []TypeOK
<1>1. IInv => TypeOK  BY DEF IInv
<1> QED  BY <1>1, InvariantHolds, PTL

(* The invariant keeps a live copy of every content nobody gave up: the    *)
(* device that saved it still has it, or some device a conflict copy.      *)
LEMMA InvKeepsContent ==
  ASSUME IInv
  PROVE  NoSavedContentLost
<1> SUFFICES ASSUME NEW c \in Contents \ superseded, BornAtName(c)
             PROVE  \E d \in Devices, p \in Paths :
                      IsLive(entries[d][p]) /\ entries[d][p].content = c
  BY DEF NoSavedContentLost, BornAtName
<1> DEFINE d == birth[c].device
           p == birth[c].path
<1>1. d \in Devices /\ p \in Names /\ p \in Paths /\ p \in Edited /\ birth[c].counter \in Nat
  BY DEF IInv, TypeOK, Paths, Edited, BornAtName
<1>2. birth[c].counter >= 1 /\ birth[c].counter <= PreviousVersion(entries[d][p])[d]
  BY DEF IInv, Births
<1>3. entries[d][p] # NoInfo
  BY <1>1, <1>2 DEF PreviousVersion, NoCounters
<1>4. /\ <<p, entries[d][p]>> \in published
      /\ entries[d][p].version[d] >= birth[c].counter
  <2>1. entries[d][p] \in FileInfo  BY <1>1, <1>3 DEF IInv, TypeOK
  <2>2. entries[d][p].version[d] \in Nat  BY <1>1, <2>1 DEF FileInfo, Vector
  <2> QED  BY <1>1, <1>2, <1>3, <2>2 DEF IInv, EntriesPublished, PreviousVersion
<1>5. entries[d][p].content = c \/ CopyExists(c)
  BY <1>4 DEF IInv, KnownContent, EditAccountedFor
<1>6. CASE entries[d][p].content = c
  BY <1>1, <1>3, <1>6, ContentsAssumption DEF IsLive, IsDeleted
<1>7. CASE CopyExists(c)
  <2>1. ConflictPath(p, c) \in Paths  BY <1>1, CopyPaths
  <2>2. PICK e \in Devices : entries[e][ConflictPath(p, c)] # NoInfo
    BY <1>7 DEF CopyExists
  <2>3. entries[e][ConflictPath(p, c)].content = c
    BY <1>1, <2>1, <2>2 DEF IInv, EntriesPublished, CopyContent
  <2> QED  BY <2>1, <2>2, <2>3, ContentsAssumption DEF IsLive, IsDeleted
<1> QED  BY <1>5, <1>6, <1>7

(* No order of merges, repeats or crashes makes the replicas lose content  *)
(* that a user saved and nobody gave up (planReplicaMerge and the conflict *)
(* copies of receiveReplicaFiles).                                         *)
THEOREM SavedContentSurvives == Spec => []NoSavedContentLost
<1> QED  BY InvKeepsContent, InvariantHolds, PTL

(* A step leaves each path at a version that dominates the one it had, or  *)
(* installs the content a conflict copy is named for.                      *)
Grows ==
  \A d \in Devices, p \in Paths :
    entries[d][p] # NoInfo =>
      \/ DominatedBy(entries[d][p].version, entries'[d][p].version)
      \/ p \notin Names /\ entries'[d][p].content = p[2]

LEMMA NextGrows ==
  ASSUME IInv, IInv', [Next]_vars
  PROVE  [Grows]_vars
<1> SUFFICES ASSUME Next, NEW d \in Devices, NEW p \in Paths, entries[d][p] # NoInfo
             PROVE  \/ DominatedBy(entries[d][p].version, entries'[d][p].version)
                    \/ p \notin Names /\ entries'[d][p].content = p[2]
  BY DEF Grows
<1>1. entries[d][p] \in FileInfo  BY DEF IInv, TypeOK
<1>2. entries[d][p].version \in Vector  BY <1>1 DEF FileInfo
<1>3. entries'[d][p] = entries[d][p] => DominatedBy(entries[d][p].version, entries'[d][p].version)
  BY <1>2 DEF DominatedBy, Vector
<1>4. PICK e \in Devices, path \in Paths, info \in FileInfo :
        /\ Store(e, path, info)
        /\ \/ DominatedBy(PreviousVersion(entries[e][path]), info.version)
           \/ path \notin Names /\ info.content = path[2]
  <2>1. PICK e \in Devices : UserEdit(e) \/ Merge(e)  BY DEF Next
  <2>2. CASE UserEdit(e)
    <3>1. PICK path \in Edited :
            \/ \E content \in Contents : \E time \in Times[content] : Write(e, path, content, time)
            \/ Delete(e, path)
      BY <2>2 DEF UserEdit, Edited
    <3>2. path \in Paths  BY DEF Paths
    <3>3. PreviousVersion(entries[e][path]) \in Vector
      BY <3>2, PreviousVersionTyped DEF IInv, TypeOK
    <3>4. /\ advanceVersionVector(PreviousVersion(entries[e][path]), e) \in Vector
          /\ DominatedBy(PreviousVersion(entries[e][path]),
                         advanceVersionVector(PreviousVersion(entries[e][path]), e))
      BY <3>3, AdvancedVector
    <3>5. ASSUME NEW content \in Contents, NEW time \in Times[content], Write(e, path, content, time)
          PROVE  \E info \in FileInfo :
                   /\ Store(e, path, info)
                   /\ DominatedBy(PreviousVersion(entries[e][path]), info.version)
      <4> DEFINE info == [version |-> advanceVersionVector(PreviousVersion(entries[e][path]), e),
                          content |-> content, mtime |-> time]
      <4>1. info \in FileInfo  BY <3>4, MeshAssumption DEF FileInfo
      <4>2. Store(e, path, info)  BY <3>5 DEF Write
      <4> QED  BY <3>4, <4>1, <4>2
    <3>6. ASSUME Delete(e, path)
          PROVE  \E info \in FileInfo :
                   /\ Store(e, path, info)
                   /\ DominatedBy(PreviousVersion(entries[e][path]), info.version)
      <4> DEFINE info == [entries[e][path] EXCEPT !.content = Tombstone,
                                                  !.version = advanceVersionVector(@, e)]
      <4>1. entries[e][path] # NoInfo /\ Store(e, path, info)  BY <3>6 DEF Delete, IsLive
      <4>2. /\ entries[e][path] \in FileInfo
            /\ PreviousVersion(entries[e][path]) = entries[e][path].version
        BY <3>2, <4>1 DEF IInv, TypeOK, PreviousVersion
      <4>3. /\ info \in FileInfo
            /\ info.version = advanceVersionVector(entries[e][path].version, e)
        BY <3>4, <4>2 DEF FileInfo
      <4> QED  BY <3>4, <4>1, <4>2, <4>3
    <3> QED  BY <3>1, <3>2, <3>5, <3>6
  <2>3. CASE Merge(e)
    <3>1. PICK r \in published :
            InstallConflictCopy(e, r[1], r[2]) \/ ReceiveWinner(e, r[1], r[2])
      BY <2>3 DEF Merge
    <3>2. /\ r[1] \in Paths /\ r[2] \in FileInfo /\ r = <<r[1], r[2]>>
          /\ entries[e][r[1]] \in FileInfo \cup {NoInfo}
      BY DEF IInv, TypeOK
    <3>3. CASE InstallConflictCopy(e, r[1], r[2])
      <4> DEFINE copy == Plan(e, r[1], r[2]).conflict
      <4>1. /\ copy \in FileInfo
            /\ ConflictPath(r[1], copy.content) \in Paths \ Names
            /\ Store(e, ConflictPath(r[1], copy.content), copy)
        BY <3>3, InstalledCopy
      <4>2. ConflictPath(r[1], copy.content)[2] = copy.content  BY DEF ConflictPath
      <4> HIDE DEF copy
      <4> QED  BY <4>1, <4>2
    <3>4. CASE ReceiveWinner(e, r[1], r[2])
      <4>1. Store(e, r[1], Plan(e, r[1], r[2]).winner)  BY <3>4 DEF ReceiveWinner
      <4> QED  BY <3>2, <4>1, PlanResult DEF Plan
    <3> QED  BY <3>1, <3>3, <3>4
  <2> QED  BY <2>1, <2>2, <2>3
<1>5. /\ entries'[e][path] = info
      /\ d # e \/ p # path => entries'[d][p] = entries[d][p]
  BY <1>4, StoredTyped DEF IInv
<1>6. CASE d # e \/ p # path  BY <1>3, <1>5, <1>6
<1>7. CASE d = e /\ p = path  BY <1>4, <1>5, <1>7 DEF PreviousVersion
<1> QED  BY <1>6, <1>7

(* Every step of every device leaves each path at a version that dominates *)
(* the one it had, or installs the content a conflict copy is named for:   *)
(* at the users' names nothing is ever forgotten (receiveReplicaFiles).    *)
THEOREM HistoryKept == Spec => HistoryNeverForgotten
<1>1. IInv /\ IInv' /\ [Next]_vars => [Grows]_vars
  BY NextGrows
<1>2. Spec => [][Grows]_vars
  BY <1>1, InvariantHolds, PTL DEF Spec
<1> QED  BY <1>2 DEF Grows, HistoryNeverForgotten

-----------------------------------------------------------------------------
(* One content per version, when nobody deletes or changes a conflict copy *)
(* and clocks agree.                                                       *)

(* A version of a path knows of the edit that saved a content.             *)
Knows(v, p, c) == birth[c] # NoInfo /\ birth[c].path = p /\ v[birth[c].device] >= birth[c].counter

(* Every record holds content a user saved.                                *)
NothingDeleted == \A r \in published : r[2].content \in Contents /\ birth[r[2].content] # NoInfo

(* A modification time tells the content, and the content the time.        *)
TimesTell ==
  \A r, s \in published : r[2].mtime = s[2].mtime <=> r[2].content = s[2].content

(* A record's version knows of its content, and of none that is newer.     *)
IsNewest(p, info) ==
  /\ Knows(info.version, p, info.content)
  /\ \A s \in published : Knows(info.version, p, s[2].content) => s[2].mtime <= info.mtime

NewestWins == \A r \in published : r[1] \in Names => IsNewest(r[1], r[2])

Chronological == NothingDeleted /\ TimesTell /\ NewestWins

(* A record that carries the content and the time of a published one       *)
(* changes nothing, but at a user's name it has to be the newest.          *)
LEMMA StoredAgain ==
  ASSUME IInv, Chronological, NEW d \in Devices, NEW path \in Paths, NEW info \in FileInfo,
         Store(d, path, info), UNCHANGED birth,
         NEW r \in published, info.content = r[2].content, info.mtime = r[2].mtime,
         path \in Names => IsNewest(path, info)
  PROVE  Chronological'
<1>1. published' = published \cup {<<path, info>>}  BY DEF Store
<1>2. \A s \in published' : \E q \in published :
        s[2].content = q[2].content /\ s[2].mtime = q[2].mtime
  BY <1>1
<1>3. NothingDeleted'  BY <1>2 DEF Chronological, NothingDeleted
<1>4. TimesTell'  BY <1>2 DEF Chronological, TimesTell
<1>5. NewestWins'
  <2> SUFFICES ASSUME NEW s \in published', s[1] \in Names  PROVE IsNewest(s[1], s[2])'
    BY DEF NewestWins
  <2>1. IsNewest(s[1], s[2])  BY <1>1 DEF Chronological, NewestWins
  <2>2. \A v, p, c : Knows(v, p, c)' = Knows(v, p, c)  BY DEF Knows
  <2> QED  BY <1>2, <2>1, <2>2 DEF IsNewest
<1> QED  BY <1>3, <1>4, <1>5 DEF Chronological

(* A new edit is the newest its version knows of, and no other record      *)
(* knows of it.                                                            *)
LEMMA WriteIsNewest ==
  ASSUME IInv, Chronological, ClocksAgree, Copies = {},
         NEW d \in Devices, NEW path \in Names, NEW content \in Contents,
         NEW time \in Times[content], Write(d, path, content, time)
  PROVE  Chronological'
<1> DEFINE old == PreviousVersion(entries[d][path])
<1>0. path \in Paths  BY DEF Paths, Edited
<1>2. old \in Vector  BY <1>0, PreviousVersionTyped DEF IInv, TypeOK
<1>3. PICK info \in FileInfo :
        info = [version |-> advanceVersionVector(old, d), content |-> content, mtime |-> time]
  BY <1>2, AdvancedVector, MeshAssumption DEF FileInfo
<1>1. /\ birth[content] = NoInfo
      /\ \A r \in published : r[2].mtime # time
      /\ entries[d][path] # NoInfo => entries[d][path].mtime < time
      /\ published' = published \cup {<<path, info>>}
      /\ birth' = [birth EXCEPT ![content] = [path |-> path, device |-> d, counter |-> old[d] + 1]]
  BY <1>3 DEF Write, PlausibleTime, Store
<1>4. info.content = content /\ info.mtime = time /\ info.version = advanceVersionVector(old, d)
  BY <1>3
<1>5. /\ info.version[d] = old[d] + 1
      /\ \A e \in Devices \ {d} : info.version[e] = old[e]
  BY <1>3, <1>4, EditedVersion
<1>6. /\ birth'[content] # NoInfo /\ birth'[content].path = path
      /\ birth'[content].device = d /\ birth'[content].counter = old[d] + 1
      /\ \A c \in Contents \ {content} : birth'[c] = birth[c]
  <2>1. birth'[content] = [path |-> path, device |-> d, counter |-> old[d] + 1]
    BY <1>1 DEF IInv, TypeOK
  <2>2. old[d] + 1 \in Nat  BY <1>2 DEF Vector
  <2>3. birth'[content] # NoInfo  BY <2>1, <2>2, MeshAssumption DEF Edited
  <2> QED  BY <1>1, <2>1, <2>3 DEF IInv, TypeOK
<1>7. \A r \in published : r[2].content # content
  BY <1>1 DEF Chronological, NothingDeleted
<1>8. NothingDeleted'
  BY <1>1, <1>4, <1>6 DEF Chronological, NothingDeleted
<1>9. TimesTell'
  BY <1>1, <1>4, <1>7 DEF Chronological, TimesTell
<1>10. NewestWins'
  <2> SUFFICES ASSUME NEW r \in published', r[1] \in Names  PROVE IsNewest(r[1], r[2])'
    BY DEF NewestWins
  <2>1. /\ old \in Vector /\ old[d] \in Nat /\ time \in Nat
    BY <1>2, MeshAssumption DEF Vector
  <2>2. ASSUME r \in published
        PROVE  IsNewest(r[1], r[2])'
    <3>1. IsNewest(r[1], r[2])  BY <2>2 DEF Chronological, NewestWins
    <3>2. r[2].content \in Contents \ {content}
      BY <1>7, <2>2 DEF Chronological, NothingDeleted
    <3>3. ~Knows(r[2].version, r[1], content)'
      <4>1. r[1] = path => r[2].version[d] <= old[d]  BY <2>2 DEF IInv, OwnCounters
      <4>2. r[2].version[d] \in Nat  BY <2>2 DEF IInv, TypeOK, FileInfo, Vector
      <4> QED  BY <1>6, <2>1, <4>1, <4>2 DEF Knows
    <3>4. \A c \in Contents \ {content} :
            Knows(r[2].version, r[1], c)' <=> Knows(r[2].version, r[1], c)
      BY <1>6 DEF Knows
    <3>5. \A s \in published : s[2].content \in Contents
      BY DEF Chronological, NothingDeleted
    <3> QED  BY <1>1, <1>4, <3>1, <3>2, <3>3, <3>4, <3>5 DEF IsNewest
  <2>3. ASSUME r = <<path, info>>
        PROVE  IsNewest(r[1], r[2])'
    <3>1. r[1] = path /\ r[2] = info  BY <2>3
    <3>2. Knows(info.version, path, content)'
      BY <1>5, <1>6, <2>1 DEF Knows
    <3>3. ASSUME NEW s \in published, Knows(info.version, path, s[2].content)'
          PROVE  s[2].mtime <= time
      <4> DEFINE c == s[2].content
                 e == birth[c].device
      <4>1. c \in Contents \ {content}  BY <1>7 DEF Chronological, NothingDeleted
      <4>2. /\ birth[c] # NoInfo /\ birth[c].path = path
            /\ info.version[e] >= birth[c].counter
        BY <1>6, <3>3, <4>1 DEF Knows
      <4>3. /\ e \in Devices /\ birth[c].counter \in Nat /\ birth[c].counter >= 1
            /\ birth[c].counter <= PreviousVersion(entries[e][path])[e]
        BY <4>1, <4>2 DEF IInv, TypeOK, Births, BornAtName
      <4> HIDE DEF c, e
      <4>4. old[e] >= birth[c].counter
        BY <1>5, <4>2, <4>3
      <4>5. entries[d][path] # NoInfo /\ old = entries[d][path].version
        BY <4>3, <4>4 DEF PreviousVersion, NoCounters
      <4>6. <<path, entries[d][path]>> \in published
        BY <1>0, <4>5 DEF IInv, EntriesPublished
      <4>7. IsNewest(path, entries[d][path])  BY <4>6 DEF Chronological, NewestWins
      <4>8. Knows(entries[d][path].version, path, s[2].content)
        BY <4>2, <4>4, <4>5 DEF Knows, c, e
      <4>9. s[2].mtime <= entries[d][path].mtime  BY <4>7, <4>8 DEF IsNewest
      <4>10. s[2].mtime \in Nat /\ entries[d][path].mtime \in Nat
        BY <4>6 DEF IInv, TypeOK, FileInfo
      <4> QED  BY <1>1, <2>1, <4>5, <4>9, <4>10
    <3> QED  BY <1>1, <1>4, <2>1, <3>1, <3>2, <3>3 DEF IsNewest
  <2> QED  BY <1>1, <2>2, <2>3
<1> QED  BY <1>8, <1>9, <1>10 DEF Chronological

(* A merge keeps the newer of two records that hold content, and its       *)
(* version knows of what either knew of.                                   *)
LEMMA MergeIsNewest ==
  ASSUME IInv, Chronological, NEW path \in Names,
         NEW local \in FileInfo, <<path, local>> \in published,
         NEW remote \in FileInfo, <<path, remote>> \in published
  PROVE  IsNewest(path, planReplicaMerge(local, remote).winner)
<1> DEFINE plan == planReplicaMerge(local, remote)
           merged == mergeVersionVectors(local.version, remote.version)
<1>1. IsNewest(path, local) /\ IsNewest(path, remote)
  BY DEF Chronological, NewestWins
<1>2. /\ local.version \in Vector /\ remote.version \in Vector
      /\ local.mtime \in Nat /\ remote.mtime \in Nat
      /\ local.content \in Contents /\ remote.content \in Contents
      /\ local.mtime = remote.mtime => local.content = remote.content
  BY DEF FileInfo, Chronological, NothingDeleted, TimesTell
<1>3. CASE plan = Keep(local)  BY <1>1, <1>3 DEF Keep
<1>4. CASE plan = Receive(remote)  BY <1>1, <1>4 DEF Receive
<1>5. CASE plan = MergeConcurrent(local, remote)
  <2>1. ~IsDeleted(local) /\ ~IsDeleted(remote)  BY <1>2, ContentsAssumption DEF IsDeleted
  <2>2. PICK chosen \in {local, remote} :
          /\ plan.winner = [chosen EXCEPT !.version = merged]
          /\ local.mtime <= chosen.mtime /\ remote.mtime <= chosen.mtime
    <3>1. local.mtime # remote.mtime => (Rank(local, remote) >= 0 <=> local.mtime > remote.mtime)
      BY <1>2, <2>1 DEF Rank, IsDeleted
    <3>2. plan.winner = [(IF Rank(local, remote) >= 0 THEN local ELSE remote)
                          EXCEPT !.version = merged]
      BY <1>5 DEF MergeConcurrent
    <3> QED  BY <1>2, <3>1, <3>2
  <2>3. merged \in Vector  BY <1>2, MergedVector
  <2>4. /\ plan.winner.version = merged
        /\ plan.winner.content = chosen.content /\ plan.winner.mtime = chosen.mtime
    BY <2>2, <2>3 DEF FileInfo
  <2>5. ASSUME NEW c \in Contents, birth[c] # NoInfo
        PROVE  Knows(merged, path, c) <=>
                 Knows(local.version, path, c) \/ Knows(remote.version, path, c)
    <3>1. birth[c].device \in Devices /\ birth[c].counter \in Nat  BY <2>5 DEF IInv, TypeOK
    <3>2. merged[birth[c].device] >= birth[c].counter <=>
            \/ local.version[birth[c].device] >= birth[c].counter
            \/ remote.version[birth[c].device] >= birth[c].counter
      BY <1>2, <3>1 DEF mergeVersionVectors, Vector
    <3> HIDE DEF merged
    <3> QED  BY <3>2 DEF Knows
  <2> HIDE DEF merged
  <2>6. Knows(merged, path, chosen.content)
    BY <1>1, <1>2, <2>2, <2>5 DEF IsNewest, Knows
  <2>7. ASSUME NEW s \in published, Knows(merged, path, s[2].content)
        PROVE  s[2].mtime <= chosen.mtime
    <3>1. s[2].content \in Contents /\ birth[s[2].content] # NoInfo
      BY DEF Chronological, NothingDeleted
    <3>2. Knows(local.version, path, s[2].content) \/ Knows(remote.version, path, s[2].content)
      BY <2>5, <2>7, <3>1
    <3>3. s[2].mtime <= local.mtime \/ s[2].mtime <= remote.mtime
      BY <1>1, <3>2 DEF IsNewest
    <3>4. s[2].mtime \in Nat  BY DEF IInv, TypeOK, FileInfo
    <3> QED  BY <1>2, <2>2, <3>3, <3>4
  <2> QED  BY <2>4, <2>6, <2>7 DEF IsNewest
<1> QED  BY <1>3, <1>4, <1>5, PlanKinds

(* What a merge of two records stores has the content and the time of one  *)
(* of them.                                                                *)
LEMMA SidesOfMerge ==
  ASSUME NEW local \in FileInfo, NEW remote \in FileInfo
  PROVE  LET plan == planReplicaMerge(local, remote)
         IN  \A info \in {plan.winner, plan.conflict} : info # NoInfo =>
               \E side \in {local, remote} :
                 info.content = side.content /\ info.mtime = side.mtime
<1> DEFINE plan == planReplicaMerge(local, remote)
           merged == mergeVersionVectors(local.version, remote.version)
<1>1. CASE plan = Keep(local)  BY <1>1 DEF Keep
<1>2. CASE plan = Receive(remote)  BY <1>2 DEF Receive
<1>3. CASE plan = MergeConcurrent(local, remote)
  <2>1. merged \in Vector  BY MergedVector DEF FileInfo
  <2> HIDE DEF merged
  <2>2. \A side \in {local, remote} :
          /\ [side EXCEPT !.version = merged].content = side.content
          /\ [side EXCEPT !.version = merged].mtime = side.mtime
    BY <2>1 DEF FileInfo
  <2>3. {plan.winner, plan.conflict} \subseteq
          {NoInfo} \cup {[side EXCEPT !.version = merged] : side \in {local, remote}}
    BY <1>3 DEF MergeConcurrent, merged
  <2> QED  BY <2>2, <2>3
<1> QED  BY <1>1, <1>2, <1>3, PlanKinds

(* Each step keeps the newest content of a path in front.                  *)
LEMMA NextChronological ==
  ASSUME IInv, Chronological, ClocksAgree, MaxDeletes = 0, Copies = {}, [Next]_vars
  PROVE  Chronological'
<1>1. CASE UNCHANGED vars
  <2>1. UNCHANGED <<published, birth>>  BY <1>1 DEF vars
  <2>2. \A v, p, c : Knows(v, p, c)' = Knows(v, p, c)  BY <2>1 DEF Knows
  <2> QED  BY <2>1, <2>2 DEF Chronological, NothingDeleted, TimesTell, NewestWins, IsNewest
<1>2. ASSUME NEW d \in Devices, UserEdit(d)  PROVE Chronological'
  <2>1. \A path \in Names : ~Delete(d, path)
    <3>1. deletes = 0  BY DEF IInv, TypeOK
    <3> QED  BY <3>1 DEF Delete
  <2> QED  BY <1>2, <2>1, WriteIsNewest DEF UserEdit
<1>3. ASSUME NEW d \in Devices, NEW r \in published, InstallConflictCopy(d, r[1], r[2])
      PROVE  Chronological'
  <2> DEFINE path == r[1]
             local == entries[d][path]
             copy == Plan(d, path, r[2]).conflict
  <2>1. path \in Paths /\ r[2] \in FileInfo /\ r = <<path, r[2]>>  BY DEF IInv, TypeOK
  <2>2. /\ copy \in FileInfo /\ local \in FileInfo
        /\ ConflictPath(path, copy.content) \in Paths \ Names
        /\ Store(d, ConflictPath(path, copy.content), copy) /\ UNCHANGED birth
    BY <1>3, InstalledCopy
  <2>3. <<path, local>> \in published  BY <2>1, <2>2, NoInfoAssumption DEF IInv, EntriesPublished
  <2>4. \E s \in published : copy.content = s[2].content /\ copy.mtime = s[2].mtime
    BY <2>1, <2>2, <2>3, NoInfoAssumption, SidesOfMerge DEF Plan
  <2> HIDE DEF path, copy
  <2> QED  BY <2>2, <2>4, StoredAgain
<1>4. ASSUME NEW d \in Devices, NEW r \in published, ReceiveWinner(d, r[1], r[2])
      PROVE  Chronological'
  <2> DEFINE path == r[1]
             local == entries[d][path]
             info == Plan(d, path, r[2]).winner
  <2>1. path \in Paths /\ r[2] \in FileInfo /\ r = <<path, r[2]>>  BY DEF IInv, TypeOK
  <2>2. Store(d, path, info) /\ UNCHANGED birth  BY <1>4 DEF ReceiveWinner
  <2>3. local \in FileInfo \cup {NoInfo}  BY <2>1 DEF IInv, TypeOK
  <2>4. info \in FileInfo  BY <2>1, <2>3, PlanResult DEF Plan
  <2>5. CASE local = NoInfo
    <3>1. info = r[2]  BY <2>1, <2>5, PlanResult DEF Plan
    <3>2. path \in Names => IsNewest(path, info)  BY <3>1 DEF Chronological, NewestWins
    <3> QED  BY <2>1, <2>2, <2>4, <3>1, <3>2, StoredAgain
  <2>6. CASE local # NoInfo
    <3>1. local \in FileInfo /\ <<path, local>> \in published
      BY <2>1, <2>3, <2>6 DEF IInv, EntriesPublished
    <3>2. path \in Names => IsNewest(path, info)
      BY <2>1, <3>1, MergeIsNewest DEF Plan
    <3>3. \E s \in published : info.content = s[2].content /\ info.mtime = s[2].mtime
      BY <2>1, <2>4, <3>1, NoInfoAssumption, SidesOfMerge DEF Plan
    <3> HIDE DEF path, info
    <3> QED  BY <2>1, <2>2, <2>4, <3>2, <3>3, StoredAgain
  <2> QED  BY <2>5, <2>6
<1> QED  BY <1>1, <1>2, <1>3, <1>4 DEF Next, Merge

(* Records in chronological order have one content per version.            *)
LEMMA ChronologyNames ==
  ASSUME IInv, Chronological, Copies = {}
  PROVE  OneContentPerVersion
<1> SUFFICES ASSUME NEW r \in published, NEW s \in published,
                    r[1] = s[1], r[2].version = s[2].version
             PROVE  r[2].content = s[2].content
  BY DEF OneContentPerVersion
<1>1. r[1] \in Paths /\ r[2].mtime \in Nat /\ s[2].mtime \in Nat
  BY DEF IInv, TypeOK, FileInfo
<1>2. CASE r[1] \in Names
  <2>1. IsNewest(r[1], r[2]) /\ IsNewest(r[1], s[2])  BY <1>2 DEF Chronological, NewestWins
  <2>2. r[2].mtime = s[2].mtime  BY <1>1, <2>1 DEF IsNewest
  <2> QED  BY <2>2 DEF Chronological, TimesTell
<1>3. CASE r[1] \notin Names  BY <1>1, <1>3, PathKinds DEF IInv, CopyContent
<1> QED  BY <1>2, <1>3

LEMMA ChronologyHolds ==
  ASSUME ClocksAgree, MaxDeletes = 0, Copies = {}
  PROVE  Spec => []Chronological
<1>1. Init => Chronological
  BY DEF Init, Chronological, NothingDeleted, TimesTell, NewestWins
<1>2. IInv /\ Chronological /\ [Next]_vars => Chronological'  BY NextChronological
<1> QED  BY <1>1, <1>2, InvariantHolds, PTL DEF Spec

\* A version names one content: while users only write, never a conflict copy, each
\* at a time of its own and later than what he replaces, planReplicaMerge never has
\* to throw "Different contents have the same version.".
THEOREM VersionsNameContents ==
  ClocksAgree /\ MaxDeletes = 0 /\ Copies = {} => (Spec => []OneContentPerVersion)
<1> SUFFICES ASSUME ClocksAgree, MaxDeletes = 0, Copies = {}  PROVE Spec => []OneContentPerVersion
  OBVIOUS
<1>1. Spec => []Chronological  BY ChronologyHolds
<1>2. IInv /\ Chronological => OneContentPerVersion  BY ChronologyNames
<1> QED  BY <1>1, <1>2, InvariantHolds, PTL

-----------------------------------------------------------------------------
(* Agreement.                                                              *)

(* No record that is published anywhere tells any device anything new.     *)
NothingToMerge ==
  \A d \in Devices, r \in published : Plan(d, r[1], r[2]).action = "keep"

(* All devices have the same contents at the same versions.                *)
Agreed ==
  \A d, e \in Devices, p \in Paths :
    entries[d][p] # NoInfo =>
      /\ entries[e][p] # NoInfo
      /\ entries[d][p].version = entries[e][p].version
      /\ entries[d][p].content = entries[e][p].content

(* Records that are no news to each other have the same version.           *)
LEMMA NoNews ==
  ASSUME IInv, NothingToMerge, OneContentPerVersion
  PROVE  Agreed
<1> SUFFICES ASSUME NEW d \in Devices, NEW e \in Devices, NEW p \in Paths,
                    entries[d][p] # NoInfo
             PROVE  /\ entries[e][p] # NoInfo
                    /\ entries[d][p].version = entries[e][p].version
                    /\ entries[d][p].content = entries[e][p].content
  BY DEF Agreed
<1>1. ASSUME NEW f \in Devices, NEW g \in Devices, entries[f][p] # NoInfo
      PROVE  /\ entries[g][p] \in FileInfo
             /\ DominatedBy(entries[f][p].version, entries[g][p].version)
  <2>1. <<p, entries[f][p]>> \in published /\ entries[f][p] \in FileInfo
    BY <1>1 DEF IInv, EntriesPublished, TypeOK
  <2>2. planReplicaMerge(entries[g][p], entries[f][p]).action = "keep"
    BY <2>1 DEF NothingToMerge, Plan
  <2>3. entries[g][p] # NoInfo  BY <2>2 DEF planReplicaMerge, Receive
  <2>4. entries[g][p] \in FileInfo  BY <2>3 DEF IInv, TypeOK
  <2> QED  BY <2>1, <2>2, <2>4, PlanKinds, ConcurrentPlanTyped DEF Receive
<1>2. /\ entries[d][p] \in FileInfo /\ entries[e][p] \in FileInfo
      /\ DominatedBy(entries[d][p].version, entries[e][p].version)
      /\ DominatedBy(entries[e][p].version, entries[d][p].version)
  BY <1>1, NoInfoAssumption
<1>3. entries[d][p].version = entries[e][p].version
  BY <1>2, MutualDominance DEF FileInfo
<1>4. <<p, entries[d][p]>> \in published /\ <<p, entries[e][p]>> \in published
  BY <1>2, NoInfoAssumption DEF IInv, EntriesPublished
<1>5. entries[d][p].content = entries[e][p].content
  BY <1>3, <1>4 DEF OneContentPerVersion
<1> QED  BY <1>2, <1>3, <1>5, NoInfoAssumption

\* Once no published record is news to any device, all of them have the same
\* contents at the same versions, whatever was written, deleted, repeated or left
\* half merged before: only a version that names two contents can keep receives
\* that have run dry from agreeing (planReplicaMerge).
THEOREM DriedUpMeansAgreed == Spec => [](NothingToMerge /\ OneContentPerVersion => Agreed)
<1>1. IInv => (NothingToMerge /\ OneContentPerVersion => Agreed)  BY NoNews
<1> QED  BY <1>1, InvariantHolds, PTL

\* While users only write, never a conflict copy, each at a time of its own and
\* later than what he replaces, devices that have nothing left to merge hold the same records: what
\* EventuallyConverged leaves to fairness is that merges come to an end.
THEOREM DriedUpMeansConverged ==
  ClocksAgree /\ MaxDeletes = 0 /\ Copies = {} => (Spec => [](NothingToMerge => Converged))
<1> SUFFICES ASSUME ClocksAgree, MaxDeletes = 0, Copies = {}
             PROVE  Spec => [](NothingToMerge => Converged)
  OBVIOUS
<1>1. Spec => []Chronological  BY ChronologyHolds
<1>2. IInv /\ Chronological => (NothingToMerge => Converged)
  <2> SUFFICES ASSUME IInv, Chronological, NothingToMerge,
                      NEW d \in Devices, NEW e \in Devices, NEW p \in Paths
               PROVE  entries[d][p] = entries[e][p]
    BY DEF Converged
  <2>1. Agreed  BY ChronologyNames, NoNews
  <2>2. CASE entries[d][p] = NoInfo
    <3>1. entries[e][p] # NoInfo => entries[d][p] # NoInfo  BY <2>1 DEF Agreed
    <3> QED  BY <2>2, <3>1
  <2>3. CASE entries[d][p] # NoInfo
    <3>1. /\ entries[e][p] # NoInfo
          /\ entries[d][p].version = entries[e][p].version
          /\ entries[d][p].content = entries[e][p].content
      BY <2>1, <2>3 DEF Agreed
    <3>2. /\ <<p, entries[d][p]>> \in published /\ <<p, entries[e][p]>> \in published
          /\ entries[d][p] \in FileInfo /\ entries[e][p] \in FileInfo
      BY <2>3, <3>1 DEF IInv, EntriesPublished, TypeOK
    <3>3. entries[d][p].mtime = entries[e][p].mtime
      BY <3>1, <3>2 DEF Chronological, TimesTell
    <3> QED  BY <3>1, <3>2, <3>3 DEF FileInfo
  <2> QED  BY <2>2, <2>3
<1> QED  BY <1>1, <1>2, InvariantHolds, PTL
=============================================================================
