------------------------ MODULE ReplicaExchangeProofs ------------------------
(***************************************************************************)
(* What holds of two devices that share a folder, for every set of names,  *)
(* contents and times and any number of edits and lost connections: the    *)
(* tasks of their sessions change the durable indexes only as the mesh     *)
(* allows, what was sent last is what changedOnly takes it to be, and each *)
(* stands by what it has said.                                             *)
(***************************************************************************)
EXTENDS ReplicaExchange, ReplicaMergeProofs, SequenceTheorems

-----------------------------------------------------------------------------
(* Records and plans                                                       *)

Paths == Mesh!Paths
Edited == Mesh!Edited

\* A conflict copy that users leave alone is live and holds the content its path is
\* named after.
InfosAt(p) == {i \in FileInfo : i.mtime \in Times /\ (p \notin Edited => i.content = p[2])}

(* The mesh plans its merges as the session does.                          *)
LEMMA SameMerge ==
  /\ Mesh!FileInfo = FileInfo
  /\ \A local, remote : Mesh!planReplicaMerge(local, remote) = planReplicaMerge(local, remote)
  /\ \A info : Mesh!IsDeleted(info) = IsDeleted(info)
  /\ \A p, c : Mesh!ConflictPath(p, c) = ConflictPath(p, c)
<1>1. Mesh!FileInfo = FileInfo  BY DEF Mesh!FileInfo, FileInfo, Mesh!Vector, Vector
<1>2. ASSUME NEW local, NEW remote
      PROVE  Mesh!planReplicaMerge(local, remote) = planReplicaMerge(local, remote)
  <2>1. Mesh!compareVersionVectors(local.version, remote.version)
          = compareVersionVectors(local.version, remote.version)
    BY DEF Mesh!compareVersionVectors, compareVersionVectors, Mesh!DominatedBy, DominatedBy
  <2>2. Mesh!Rank(local, remote) = Rank(local, remote)
    BY DEF Mesh!Rank, Rank, Mesh!IsDeleted, IsDeleted, Mesh!compareConcurrentVersionCounters,
       compareConcurrentVersionCounters, Mesh!Differing, Differing, Mesh!Least, Least
  <2>3. Mesh!mergeVersionVectors(local.version, remote.version)
          = mergeVersionVectors(local.version, remote.version)
    BY DEF Mesh!mergeVersionVectors, mergeVersionVectors
  <2>4. Mesh!MergeConcurrent(local, remote) = MergeConcurrent(local, remote)
    BY <2>2, <2>3 DEF Mesh!MergeConcurrent, MergeConcurrent, Mesh!IsDeleted, IsDeleted
  <2> QED
    BY <2>1, <2>4 DEF Mesh!planReplicaMerge, planReplicaMerge, Mesh!Keep, Keep, Mesh!Receive, Receive
<1> QED  BY <1>1, <1>2 DEF Mesh!IsDeleted, IsDeleted, Mesh!ConflictPath, ConflictPath

(* A path is one that users change or the path of a conflict copy of such,  *)
(* which gives its content.                                                *)
LEMMA PathKinds ==
  /\ Names \subseteq Edited /\ Copies \subseteq Edited /\ Edited \subseteq Paths
  /\ \A p \in Edited : p \in Names \/ p \in Copies
  /\ \A p \in Copies : p \notin Names /\ p[2] \in Contents
  /\ \A p \in Edited, c \in Contents :
       ConflictPath(p, c) \in Paths /\ ConflictPath(p, c) \notin Names /\ ConflictPath(p, c)[2] = c
  /\ \A p \in Paths \ Edited : p[2] \in Contents
<1>1. Names \subseteq Edited /\ Copies \subseteq Edited /\ Edited \subseteq Paths
  BY DEF Edited, Mesh!Edited, Paths, Mesh!Paths
<1>2. \A p \in Edited : p \in Names \/ p \in Copies  BY DEF Edited, Mesh!Edited
<1>3. \A p \in Copies : p \in Edited \X Contents
  BY ExchangeAssumption, <1>1
<1>4. \A p \in Copies : p \notin Names /\ p[2] \in Contents
  BY ExchangeAssumption, <1>3 DEF Edited
<1>5. ASSUME NEW p \in Edited, NEW c \in Contents
      PROVE  ConflictPath(p, c) \in Paths /\ ConflictPath(p, c) \notin Names /\ ConflictPath(p, c)[2] = c
  BY ExchangeAssumption DEF Edited, Paths, Mesh!Paths, Mesh!ConflictPath, ConflictPath
<1>6. \A p \in Paths \ Edited : p[2] \in Contents
  BY DEF Edited, Paths, Mesh!Paths, Mesh!ConflictPath
<1> QED  BY <1>1, <1>2, <1>4, <1>5, <1>6

(* What a plan for a path returns are records for it; only a path that     *)
(* users change needs a conflict copy.                                     *)
LEMMA Plans ==
  ASSUME NEW p \in Paths, NEW local \in InfosAt(p) \cup {NoInfo}, NEW remote \in InfosAt(p)
  PROVE  LET plan == planReplicaMerge(local, remote)
         IN  /\ plan.winner \in InfosAt(p)
             /\ plan.conflict # NoInfo =>
                  /\ p \in Edited /\ plan.conflict.content \in Contents
                  /\ ConflictPath(p, plan.conflict.content) \in Paths
                  /\ plan.conflict \in InfosAt(ConflictPath(p, plan.conflict.content))
<1> DEFINE plan == planReplicaMerge(local, remote)
<1>0. remote \in FileInfo  BY DEF InfosAt
<1>1. CASE local = NoInfo
  <2>1. plan = Receive(remote)  BY <1>1 DEF planReplicaMerge
  <2> QED  BY <2>1 DEF Receive
<1>2. CASE local # NoInfo
  <2> DEFINE merged == mergeVersionVectors(local.version, remote.version)
  <2>1. local \in InfosAt(p) /\ local \in FileInfo  BY <1>2 DEF InfosAt
  <2>2. CASE plan = Keep(local)  BY <2>1, <2>2 DEF Keep
  <2>3. CASE plan = Receive(remote)  BY <2>3 DEF Receive
  <2>4. CASE plan = MergeConcurrent(local, remote)
    <3>1. merged \in Vector  BY <1>0, <2>1, MergedVector DEF FileInfo
    <3> HIDE DEF merged
    <3>2. ASSUME NEW i \in InfosAt(p)
          PROVE  /\ [i EXCEPT !.version = merged] \in InfosAt(p)
                 /\ [i EXCEPT !.version = merged].content = i.content
      BY <3>1 DEF InfosAt, FileInfo
    <3>3. plan.winner \in {[local EXCEPT !.version = merged], [remote EXCEPT !.version = merged]}
      BY <2>4 DEF MergeConcurrent, merged
    <3>4. ASSUME plan.conflict # NoInfo
          PROVE  /\ local.content # remote.content
                 /\ \E i \in {local, remote} :
                      plan.conflict = [i EXCEPT !.version = merged] /\ ~IsDeleted(i)
      BY <2>4, <3>4 DEF MergeConcurrent, merged
    <3>5. ASSUME plan.conflict # NoInfo
          PROVE  /\ plan.conflict \in InfosAt(p) /\ plan.conflict.content \in Contents /\ p \in Edited
      BY <3>2, <3>4, <3>5, <2>1 DEF InfosAt, FileInfo, IsDeleted
    <3>6. ASSUME plan.conflict # NoInfo
          PROVE  /\ ConflictPath(p, plan.conflict.content) \in Paths
                 /\ plan.conflict \in InfosAt(ConflictPath(p, plan.conflict.content))
      BY <3>5, <3>6, PathKinds DEF InfosAt
    <3> QED  BY <2>1, <3>2, <3>3, <3>5, <3>6
  <2> QED  BY <1>0, <2>1, <2>2, <2>3, <2>4, PlanKinds
<1> QED  BY <1>1, <1>2

-----------------------------------------------------------------------------
(* The durable indexes hold typed records, each of which is published.     *)

\* A conflict copy that users change holds what it is named after, until a user
\* has given that up.
CopyHolds(p, info, gone) == info.content = p[2] \/ p[2] \in gone

MeshShape ==
  /\ Mesh!TypeOK
  /\ \A r \in published : r[2] \in InfosAt(r[1])
  /\ \A d \in Devices, p \in Paths : entries[d][p] # NoInfo => <<p, entries[d][p]>> \in published
  /\ \A r \in published : r[1] \in Copies => CopyHolds(r[1], r[2], superseded)

LEMMA MeshInit == Init => MeshShape
  BY ExchangeAssumption DEF Init, Mesh!Init, MeshShape, Mesh!TypeOK, Paths

(* An entry is a record for its path.                                      *)
LEMMA EntryTyped ==
  ASSUME MeshShape, NEW d \in Devices, NEW p \in Paths
  PROVE  entries[d][p] \in InfosAt(p) \cup {NoInfo}
  BY DEF MeshShape

(* Storing a record for a path keeps the indexes typed.                    *)
LEMMA StoringKeepsMesh ==
  ASSUME MeshShape, NEW d \in Devices, NEW p \in Paths, NEW info \in InfosAt(p),
         Mesh!Store(d, p, info),
         birth' \in [Contents -> [path : Edited, device : Devices, counter : Nat] \cup {NoInfo}],
         superseded \subseteq superseded', superseded' \subseteq Contents, deletes' \in 0..MaxDeletes,
         p \in Copies => CopyHolds(p, info, superseded')
  PROVE  MeshShape' /\ published \subseteq published'
<1>1. info \in FileInfo  BY DEF InfosAt
<1>2. /\ entries' \in [Devices -> [Paths -> FileInfo \cup {NoInfo}]]
      /\ \A e \in Devices, q \in Paths : entries'[e][q] = IF e = d /\ q = p THEN info ELSE entries[e][q]
  BY <1>1, SameMerge DEF MeshShape, Mesh!TypeOK, Mesh!Store, Paths
<1>3. published' = published \cup {<<p, info>>}  BY DEF Mesh!Store
<1>4. Mesh!TypeOK'
  BY <1>1, <1>2, <1>3, SameMerge DEF MeshShape, Mesh!TypeOK, Paths, Edited
<1>5. \A r \in published' : r[2] \in InfosAt(r[1])  BY <1>3 DEF MeshShape
<1>6. \A e \in Devices, q \in Paths : entries'[e][q] # NoInfo => <<q, entries'[e][q]>> \in published'
  BY <1>2, <1>3 DEF MeshShape
<1>7. \A r \in published' : r[1] \in Copies => CopyHolds(r[1], r[2], superseded')
  BY <1>3 DEF MeshShape, CopyHolds
<1> QED  BY <1>3, <1>4, <1>5, <1>6, <1>7 DEF MeshShape

(* What a user replaces in a conflict copy is what it is named after, or    *)
(* that was given up before.                                               *)
LEMMA CopyGivenUp ==
  ASSUME MeshShape, NEW d \in Devices, NEW p \in Copies, entries[d][p] # NoInfo
  PROVE  p[2] \in superseded \cup Mesh!Replaced(entries[d][p])
<1>1. p \in Paths /\ p[2] \in Contents  BY PathKinds
<1>2. CopyHolds(p, entries[d][p], superseded)
  <2>1. <<p, entries[d][p]>> \in published  BY <1>1 DEF MeshShape
  <2> QED  BY <2>1 DEF MeshShape
<1> QED
  BY <1>1, <1>2, ContentsAssumption, SameMerge DEF CopyHolds, Mesh!Replaced, Mesh!IsLive, IsDeleted

(* What a scan records keeps the indexes typed.                            *)
LEMMA WriteKeepsMesh ==
  ASSUME MeshShape, NEW d \in Devices, NEW p \in Edited, NEW c \in Contents, NEW time \in Times,
         Mesh!Write(d, p, c, time), p \in Copies => entries[d][p] # NoInfo
  PROVE  MeshShape' /\ published \subseteq published'
<1> DEFINE old == Mesh!PreviousVersion(entries[d][p])
           info == [version |-> Mesh!advanceVersionVector(old, d), content |-> c, mtime |-> time]
<1>1. p \in Paths  BY PathKinds
<1>2. old \in Vector
  BY <1>1, EntryTyped DEF Mesh!PreviousVersion, Mesh!NoCounters, Vector, InfosAt, FileInfo
<1>3. Mesh!advanceVersionVector(old, d) \in Vector /\ old[d] + 1 \in Nat
  BY <1>2 DEF Mesh!advanceVersionVector, Vector
<1>4. info \in InfosAt(p)  BY <1>3, ExchangeAssumption DEF InfosAt, FileInfo
<1>5. /\ Mesh!Store(d, p, info)
      /\ superseded' = superseded \cup Mesh!Replaced(entries[d][p])
      /\ birth' = [birth EXCEPT ![c] = [path |-> p, device |-> d, counter |-> old[d] + 1]]
      /\ UNCHANGED deletes
  BY DEF Mesh!Write
<1>6. Mesh!Replaced(entries[d][p]) \subseteq Contents
  BY <1>1, EntryTyped, SameMerge DEF Mesh!Replaced, Mesh!IsLive, IsDeleted, InfosAt, FileInfo
<1>7. birth' \in [Contents -> [path : Edited, device : Devices, counter : Nat] \cup {NoInfo}]
  BY <1>3, <1>5 DEF MeshShape, Mesh!TypeOK, Edited
<1>8. p \in Copies => CopyHolds(p, info, superseded')  BY <1>5, CopyGivenUp DEF CopyHolds
<1> HIDE DEF info
<1> QED  BY <1>1, <1>4, <1>5, <1>6, <1>7, <1>8, StoringKeepsMesh DEF MeshShape, Mesh!TypeOK

LEMMA DeleteKeepsMesh ==
  ASSUME MeshShape, NEW d \in Devices, NEW p \in Edited, Mesh!Delete(d, p)
  PROVE  MeshShape' /\ published \subseteq published'
<1> DEFINE old == entries[d][p]
           info == [old EXCEPT !.content = Tombstone, !.version = Mesh!advanceVersionVector(@, d)]
<1>1. p \in Paths  BY PathKinds
<1>2. old \in InfosAt(p) /\ old.content # Tombstone
  BY <1>1, EntryTyped, SameMerge DEF Mesh!Delete, Mesh!IsLive, IsDeleted
<1>3. Mesh!advanceVersionVector(old.version, d) \in Vector
  BY <1>2 DEF Mesh!advanceVersionVector, Vector, InfosAt, FileInfo
<1>4. info \in InfosAt(p)  BY <1>2, <1>3 DEF InfosAt, FileInfo
<1>5. /\ Mesh!Store(d, p, info)
      /\ superseded' = superseded \cup Mesh!Replaced(old)
      /\ deletes < MaxDeletes /\ deletes' = deletes + 1 /\ birth' = birth
  BY DEF Mesh!Delete
<1>6. Mesh!Replaced(old) \subseteq Contents
  BY <1>2 DEF Mesh!Replaced, InfosAt, FileInfo
<1>7. deletes' \in 0..MaxDeletes  BY <1>5, ExchangeAssumption DEF MeshShape, Mesh!TypeOK
<1>8. p \in Copies => CopyHolds(p, info, superseded')
  <2>1. old # NoInfo  BY DEF Mesh!Delete, Mesh!IsLive
  <2> QED  BY <1>5, <2>1, CopyGivenUp DEF CopyHolds
<1> HIDE DEF info
<1> QED  BY <1>1, <1>4, <1>5, <1>6, <1>7, <1>8, StoringKeepsMesh DEF MeshShape, Mesh!TypeOK, Edited

(* The winner has the content of one of the two records.                   *)
LEMMA WinnerContent ==
  ASSUME NEW local, NEW remote \in FileInfo, local # NoInfo => local \in FileInfo
  PROVE  LET winner == planReplicaMerge(local, remote).winner
         IN  winner.content = remote.content \/ (local # NoInfo /\ winner.content = local.content)
<1> DEFINE plan == planReplicaMerge(local, remote)
<1>1. CASE local = NoInfo
  BY <1>1 DEF planReplicaMerge, Receive
<1>2. CASE local # NoInfo
  <2>1. CASE plan = Keep(local)  BY <1>2, <2>1 DEF Keep
  <2>2. CASE plan = Receive(remote)  BY <2>2 DEF Receive
  <2>3. CASE plan = MergeConcurrent(local, remote)
    <3> DEFINE merged == mergeVersionVectors(local.version, remote.version)
    <3>1. plan.winner \in {[local EXCEPT !.version = merged], [remote EXCEPT !.version = merged]}
      BY <2>3 DEF MergeConcurrent
    <3> HIDE DEF merged
    <3>2. \A i \in {local, remote} : [i EXCEPT !.version = merged].content = i.content
      BY <1>2 DEF FileInfo
    <3> HIDE DEF plan
    <3>3. plan.winner.content = local.content \/ plan.winner.content = remote.content
      BY <3>1, <3>2
    <3> QED  BY <1>2, <3>3 DEF plan
  <2> QED  BY <1>2, <2>1, <2>2, <2>3, PlanKinds
<1> QED  BY <1>1, <1>2

(* Merging a published record keeps the indexes typed.                     *)
LEMMA MergeKeepsMesh ==
  ASSUME MeshShape, NEW d \in Devices, NEW r \in published,
         \/ Mesh!InstallConflictCopy(d, r[1], r[2])
         \/ Mesh!ReceiveWinner(d, r[1], r[2])
  PROVE  MeshShape' /\ published \subseteq published'
<1> DEFINE p == r[1]
           plan == planReplicaMerge(entries[d][p], r[2])
<1>1. p \in Paths /\ r[2] \in InfosAt(p)  BY DEF MeshShape, Mesh!TypeOK, Paths
<1>2. Mesh!Plan(d, p, r[2]) = plan  BY SameMerge DEF Mesh!Plan
<1>3. entries[d][p] \in InfosAt(p) \cup {NoInfo}  BY <1>1, EntryTyped
<1>4. /\ plan.winner \in InfosAt(p)
      /\ plan.conflict # NoInfo =>
           /\ ConflictPath(p, plan.conflict.content) \in Paths
           /\ plan.conflict \in InfosAt(ConflictPath(p, plan.conflict.content))
  BY <1>1, <1>3, Plans
<1>4a. p \in Copies => CopyHolds(p, plan.winner, superseded)
  <2> SUFFICES ASSUME p \in Copies  PROVE CopyHolds(p, plan.winner, superseded)  OBVIOUS
  <2>1. CopyHolds(p, r[2], superseded)  BY DEF MeshShape
  <2>2. entries[d][p] # NoInfo => CopyHolds(p, entries[d][p], superseded)  BY <1>1 DEF MeshShape
  <2>3. entries[d][p] # NoInfo => entries[d][p] \in FileInfo  BY <1>3 DEF InfosAt
  <2>4. r[2] \in FileInfo  BY <1>1 DEF InfosAt
  <2>5. plan.winner.content = r[2].content
        \/ (entries[d][p] # NoInfo /\ plan.winner.content = entries[d][p].content)
    BY <2>3, <2>4, WinnerContent
  <2> QED  BY <2>1, <2>2, <2>5 DEF CopyHolds
<1> HIDE DEF p, plan
<1>5. \E q \in Paths : \E info \in InfosAt(q) :
        Mesh!Store(d, q, info) /\ (q \in Copies => CopyHolds(q, info, superseded))
  <2>1. CASE Mesh!InstallConflictCopy(d, p, r[2])
    <3>1. plan.conflict # NoInfo
      BY <1>2, <2>1 DEF Mesh!InstallConflictCopy, Mesh!NeedsConflictCopy
    <3>2. Mesh!Store(d, ConflictPath(p, plan.conflict.content), plan.conflict)
      BY <1>2, <2>1, SameMerge DEF Mesh!InstallConflictCopy
    <3>3. CopyHolds(ConflictPath(p, plan.conflict.content), plan.conflict, superseded)
      BY DEF CopyHolds, ConflictPath
    <3> QED  BY <1>4, <3>1, <3>2, <3>3
  <2>2. CASE Mesh!ReceiveWinner(d, p, r[2])
    BY <1>1, <1>2, <1>4, <1>4a, <2>2 DEF Mesh!ReceiveWinner
  <2> QED  BY <2>1, <2>2 DEF p
<1>6. UNCHANGED <<birth, superseded, deletes>>
  BY DEF Mesh!InstallConflictCopy, Mesh!ReceiveWinner
<1> PICK q \in Paths : \E info \in InfosAt(q) :
      Mesh!Store(d, q, info) /\ (q \in Copies => CopyHolds(q, info, superseded))
  BY <1>5
<1> PICK info \in InfosAt(q) :
      Mesh!Store(d, q, info) /\ (q \in Copies => CopyHolds(q, info, superseded))
  OBVIOUS
<1>7. /\ birth' \in [Contents -> [path : Edited, device : Devices, counter : Nat] \cup {NoInfo}]
      /\ superseded' \subseteq Contents /\ deletes' \in 0..MaxDeletes
  BY <1>6 DEF MeshShape, Mesh!TypeOK, Edited
<1> QED  BY <1>6, <1>7, StoringKeepsMesh

-----------------------------------------------------------------------------
(* Sessions hold published records only.                                   *)

Known == {[path |-> r[1], info |-> r[2]] : r \in published}
Scans == [sequence : Nat, records : SUBSET Known]
Places == {"idle", "receive", "receiving", "send", "encrypting", "writing"}

\* Only a conflict copy the device has had is on its disk.
CopiesHad == \A d \in Devices, q \in Copies : disk[d][q] # NoFile => entries[d][q] # NoInfo

SessionShape ==
  /\ disk \in [Devices -> [Edited -> File \cup {NoFile}]]
  /\ sequence \in [Devices -> Nat] /\ sent \in [Devices -> Nat \cup {Unsent}]
  /\ step \in [Devices -> [Tasks -> Places]]
  /\ batch \in [Devices -> [Tasks -> SUBSET Known]]
  /\ snapshot \in [Devices -> [Tasks -> Scans \cup {NoFrame}]]
  /\ wire \in [Devices -> Seq(SUBSET Known)]
  /\ unmarked \in [Devices -> Seq(Tasks)]
  /\ pending \in [Devices -> (SUBSET Known) \cup {NoFrame}]
  /\ files \in [Devices -> SUBSET Known]

\* The tasks whose frames are written wait once each for that to complete; the
\* task that answers the cluster config never receives.
Queue ==
  \A d \in Devices :
    /\ \A i \in DOMAIN unmarked[d] : step[d][unmarked[d][i]] = "writing"
    /\ \A i, j \in DOMAIN unmarked[d] : unmarked[d][i] = unmarked[d][j] => i = j
    /\ \A t \in Tasks : step[d][t] \in {"encrypting", "writing"} => snapshot[d][t] \in Scans
    /\ step[d]["config"] \notin {"receive", "receiving"}
    /\ step[d]["apply"] = "idle" => pending[d] = NoFrame

(* The other device.                                                       *)
LEMMA TheOther ==
  ASSUME NEW d \in Devices
  PROVE  /\ Remote(d) \in Devices /\ Remote(d) # d /\ Remote(Remote(d)) = d
         /\ \A e \in Devices : e = d \/ e = Remote(d)
<1>1. PICK a \in Devices, b \in Devices : a # b /\ Devices = {a, b}  BY ExchangeAssumption
<1>2. ASSUME NEW e \in Devices  PROVE Remote(e) \in Devices /\ Remote(e) # e
  BY <1>1 DEF Remote
<1> QED  BY <1>1, <1>2

(* What is published stays published.                                      *)
LEMMA KnownGrows ==
  ASSUME published \subseteq published'
  PROVE  /\ Known \subseteq Known'
         /\ Scans \subseteq Scans'
         /\ Seq(SUBSET Known) \subseteq Seq(SUBSET Known')
<1>1. Known \subseteq Known'  BY DEF Known
<1>2. Scans \subseteq Scans'  BY <1>1 DEF Scans
<1>3. ASSUME NEW s \in Seq(SUBSET Known)  PROVE s \in Seq(SUBSET Known')
  BY <1>1, <1>3
<1> QED  BY <1>1, <1>2, <1>3

(* What is known has the type of a record.                                 *)
LEMMA KnownTyped ==
  ASSUME MeshShape
  PROVE  /\ \A r \in Known : r.path \in Paths /\ r.info \in InfosAt(r.path) /\ <<r.path, r.info>> \in published
         /\ Known \subseteq [path : Paths, info : FileInfo]
         /\ \A d \in Devices : Records(d) \subseteq Known
<1>1. \A r \in published : r = <<r[1], r[2]>> /\ r[1] \in Paths /\ r[2] \in FileInfo
  BY SameMerge DEF MeshShape, Mesh!TypeOK, Paths
<1>2. \A r \in Known : \E q \in published : r = [path |-> q[1], info |-> q[2]]  BY DEF Known
<1>3. \A r \in Known : r.path \in Paths /\ r.info \in InfosAt(r.path) /\ <<r.path, r.info>> \in published
  BY <1>1, <1>2 DEF MeshShape
<1>4. Known \subseteq [path : Paths, info : FileInfo]  BY <1>1, <1>2
<1>5. ASSUME NEW d \in Devices, NEW p \in Paths, entries[d][p] # NoInfo
      PROVE  [path |-> p, info |-> entries[d][p]] \in Known
  <2>1. <<p, entries[d][p]>> \in published  BY <1>5 DEF MeshShape
  <2> QED  BY <2>1 DEF Known
<1>6. \A d \in Devices : Records(d) \subseteq Known  BY <1>5 DEF Records, Paths
<1> QED  BY <1>3, <1>4, <1>6

-----------------------------------------------------------------------------
(* The steps of a session that leave the durable indexes alone.            *)

LEMMA SameKnown ==
  ASSUME UNCHANGED mesh
  PROVE  Known' = Known /\ Scans' = Scans /\ (MeshShape => MeshShape')
<1>1. UNCHANGED <<entries, published, birth, superseded, deletes>>  BY DEF mesh
<1>2. Known' = Known  BY <1>1 DEF Known
<1>3. Scans' = Scans  BY <1>2 DEF Scans
<1>4. Mesh!TypeOK => Mesh!TypeOK'  BY <1>1 DEF Mesh!TypeOK
<1> QED  BY <1>1, <1>2, <1>3, <1>4 DEF MeshShape

(* One place and one batch of a task.                                      *)
LEMMA OneStep ==
  ASSUME SessionShape, NEW d \in Devices, NEW t \in Tasks, NEW place \in Places,
         step' = [step EXCEPT ![d][t] = place]
  PROVE  /\ step' \in [Devices -> [Tasks -> Places]] /\ step'[d][t] = place
         /\ \A e \in Devices, s \in Tasks : e # d \/ s # t => step'[e][s] = step[e][s]
<1>1. step \in [Devices -> [Tasks -> Places]]  BY DEF SessionShape
<1> QED  BY <1>1

LEMMA OneBatch ==
  ASSUME SessionShape, NEW d \in Devices, NEW t \in Tasks, NEW frame \in SUBSET Known,
         batch' = [batch EXCEPT ![d][t] = frame]
  PROVE  batch' \in [Devices -> [Tasks -> SUBSET Known]]
<1>1. batch \in [Devices -> [Tasks -> SUBSET Known]]  BY DEF SessionShape
<1> QED  BY <1>1

(* Only the apply task moves when it takes the next index.                 *)
LEMMA NextIndexTyped ==
  ASSUME SessionShape, NEW d \in Devices, NextIndex(d)
  PROVE  /\ step' \in [Devices -> [Tasks -> Places]]
         /\ \A e \in Devices, t \in Tasks : e # d \/ t # "apply" => step'[e][t] = step[e][t]
         /\ step'[d]["apply"] \in {"idle", "receive"}
         /\ batch' \in [Devices -> [Tasks -> SUBSET Known]]
         /\ pending' \in [Devices -> (SUBSET Known) \cup {NoFrame}]
         /\ pending'[d] = NoFrame /\ \A e \in Devices : e # d => pending'[e] = pending[e]
         /\ files' \in [Devices -> SUBSET Known]
<1>0. "apply" \in Tasks /\ {"idle", "receive"} \subseteq Places /\ {} \in SUBSET Known
  BY DEF Tasks, Places
<1>1. CASE pending[d] = NoFrame
  <2>1. /\ step' = [step EXCEPT ![d]["apply"] = "idle"] /\ batch' = [batch EXCEPT ![d]["apply"] = {}]
        /\ UNCHANGED <<files, pending>>
    BY <1>1 DEF NextIndex
  <2>2. batch' \in [Devices -> [Tasks -> SUBSET Known]]  BY <1>0, <2>1, OneBatch
  <2> QED  BY <1>0, <1>1, <2>1, <2>2, OneStep DEF SessionShape
<1>2. CASE pending[d] # NoFrame
  <2> DEFINE frame == pending[d]
             new == frame \cup {r \in files[d] : \A n \in frame : n.path # r.path}
  <2>1. frame \subseteq Known /\ new \subseteq Known  BY <1>2 DEF SessionShape
  <2>2. /\ step' = [step EXCEPT ![d]["apply"] = "receive"]
        /\ batch' = [batch EXCEPT ![d]["apply"] = frame]
        /\ files' = [files EXCEPT ![d] = new]
        /\ pending' = [pending EXCEPT ![d] = NoFrame]
    BY <1>2 DEF NextIndex, HandleIndex
  <2> HIDE DEF frame, new
  <2>3. batch' \in [Devices -> [Tasks -> SUBSET Known]]  BY <1>0, <2>1, <2>2, OneBatch
  <2>4. files' \in [Devices -> SUBSET Known]  BY <2>1, <2>2 DEF SessionShape
  <2>5. /\ pending' \in [Devices -> (SUBSET Known) \cup {NoFrame}] /\ pending'[d] = NoFrame
        /\ \A e \in Devices : e # d => pending'[e] = pending[e]
    BY <2>2 DEF SessionShape
  <2>6. /\ step' \in [Devices -> [Tasks -> Places]] /\ step'[d]["apply"] = "receive"
        /\ \A e \in Devices, t \in Tasks : e # d \/ t # "apply" => step'[e][t] = step[e][t]
    BY <1>0, <2>2, OneStep
  <2> QED  BY <2>3, <2>4, <2>5, <2>6
<1> QED  BY <1>1, <1>2

(* One task takes a step that neither queues a write nor completes one.    *)
LEMMA TaskMoves ==
  ASSUME SessionShape, Queue, NEW d \in Devices, NEW t \in Tasks, step[d][t] # "writing",
         \A e \in Devices, s \in Tasks : e # d \/ s # t => step'[e][s] = step[e][s],
         step'[d][t] \in {"idle", "receive", "receiving", "send"},
         t = "config" => step'[d][t] \in {"idle", "send"},
         UNCHANGED <<unmarked, snapshot>>, Scans' = Scans,
         \A e \in Devices : step'[e]["apply"] = "idle" => pending'[e] = NoFrame
  PROVE  Queue'
<1>1. SUFFICES ASSUME NEW e \in Devices
               PROVE  /\ \A i \in DOMAIN unmarked[e] : step'[e][unmarked[e][i]] = "writing"
                      /\ \A s \in Tasks : step'[e][s] \in {"encrypting", "writing"} => snapshot[e][s] \in Scans
                      /\ step'[e]["config"] \notin {"receive", "receiving"}
  BY DEF Queue
<1>2. ASSUME NEW i \in DOMAIN unmarked[e]
      PROVE  step'[e][unmarked[e][i]] = "writing"
  <2>1. unmarked[e][i] \in Tasks  BY DEF SessionShape
  <2>2. step[e][unmarked[e][i]] = "writing"  BY DEF Queue
  <2> QED  BY <2>1, <2>2
<1>3. ASSUME NEW s \in Tasks, step'[e][s] \in {"encrypting", "writing"}
      PROVE  snapshot[e][s] \in Scans
  BY <1>3 DEF Queue
<1>4. step'[e]["config"] \notin {"receive", "receiving"}
  BY DEF Queue, Tasks
<1> QED  BY <1>2, <1>3, <1>4

LEMMA UsersKeepSession ==
  ASSUME SessionShape, Queue, NEW d \in Devices, Users(d)
  PROVE  UNCHANGED mesh /\ SessionShape' /\ Queue'
<1>1. /\ UNCHANGED <<mesh, sequence, session>>
      /\ \/ \E p \in Edited : \E c \in Authors[d][p], time \in Times :
              disk' = [disk EXCEPT ![d][p] = [content |-> c, mtime |-> time]]
         \/ \E p \in Edited : disk' = [disk EXCEPT ![d][p] = NoFile]
  BY PathKinds DEF Users, UserWrites, UserDeletes
<1>2. Known' = Known /\ Scans' = Scans  BY <1>1, SameKnown
<1>3. \E p \in Edited, f \in File \cup {NoFile} : disk' = [disk EXCEPT ![d][p] = f]
  <2>1. \A p \in Edited : \A c \in Authors[d][p], time \in Times : [content |-> c, mtime |-> time] \in File
    BY ExchangeAssumption DEF File, Edited
  <2> QED  BY <1>1, <2>1
<1>4. disk' \in [Devices -> [Edited -> File \cup {NoFile}]]  BY <1>3 DEF SessionShape
<1> QED  BY <1>1, <1>2, <1>4 DEF session, SessionShape, Queue

LEMMA DeliverKeepsSession ==
  ASSUME SessionShape, Queue, NEW d \in Devices, Deliver(d)
  PROVE  UNCHANGED mesh /\ SessionShape' /\ Queue'
<1> DEFINE frame == Head(wire[Remote(d)])
           new == frame \cup {r \in files[d] : \A n \in frame : n.path # r.path}
<1>1. /\ wire[Remote(d)] # <<>> /\ wire' = [wire EXCEPT ![Remote(d)] = Tail(wire[Remote(d)])]
      /\ UNCHANGED <<mesh, disk, sequence, snapshot, unmarked, sent>>
      /\ \/ /\ step[d]["apply"] = "idle"
            /\ step' = [step EXCEPT ![d]["apply"] = "receive"]
            /\ batch' = [batch EXCEPT ![d]["apply"] = frame]
            /\ files' = [files EXCEPT ![d] = new] /\ UNCHANGED pending
         \/ /\ step[d]["apply"] # "idle"
            /\ pending' = [pending EXCEPT ![d] = frame] /\ UNCHANGED <<step, batch, files>>
  BY DEF Deliver, HandleIndex, user
<1>2. Known' = Known /\ Scans' = Scans  BY <1>1, SameKnown
<1>3. wire[Remote(d)] \in Seq(SUBSET Known)  BY TheOther DEF SessionShape
<1>4. frame \in SUBSET Known /\ Tail(wire[Remote(d)]) \in Seq(SUBSET Known)
  BY <1>1, <1>3, HeadTailProperties
<1>5. new \subseteq Known  BY <1>4 DEF SessionShape
<1> HIDE DEF frame, new
<1>6. wire' \in [Devices -> Seq(SUBSET Known)]  BY <1>1, <1>4 DEF SessionShape
<1>7. files' \in [Devices -> SUBSET Known] /\ pending' \in [Devices -> (SUBSET Known) \cup {NoFrame}]
  BY <1>1, <1>4, <1>5 DEF SessionShape
<1>8. "apply" \in Tasks /\ "receive" \in Places  BY DEF Tasks, Places
<1>9. step' \in [Devices -> [Tasks -> Places]]
  <2>1. CASE step' = [step EXCEPT ![d]["apply"] = "receive"]  BY <1>8, <2>1, OneStep
  <2> QED  BY <1>1, <2>1 DEF SessionShape
<1>9a. batch' \in [Devices -> [Tasks -> SUBSET Known]]
  <2>1. CASE batch' = [batch EXCEPT ![d]["apply"] = frame]  BY <1>4, <1>8, <2>1, OneBatch
  <2> QED  BY <1>1, <2>1 DEF SessionShape
<1>10. SessionShape'  BY <1>1, <1>2, <1>6, <1>7, <1>9, <1>9a DEF SessionShape
<1>11. CASE step[d]["apply"] = "idle"
  <2>1. /\ step'[d]["apply"] = "receive" /\ UNCHANGED pending
        /\ \A e \in Devices, s \in Tasks : e # d \/ s # "apply" => step'[e][s] = step[e][s]
    BY <1>1, <1>8, <1>11, OneStep
  <2>2. \A e \in Devices : step'[e]["apply"] = "idle" => pending'[e] = NoFrame
    BY <1>8, <2>1 DEF Queue
  <2> QED  BY <1>1, <1>2, <1>8, <1>10, <1>11, <2>1, <2>2, TaskMoves
<1>12. CASE step[d]["apply"] # "idle"
  <2>1. UNCHANGED <<step, unmarked, snapshot>> /\ \A e \in Devices : e # d => pending'[e] = pending[e]
    BY <1>1, <1>12 DEF SessionShape
  <2>2. Queue'  BY <1>2, <1>12, <2>1 DEF Queue
  <2> QED  BY <1>1, <1>10, <2>2
<1> QED  BY <1>11, <1>12

LEMMA TimerKeepsSession ==
  ASSUME SessionShape, Queue, NEW d \in Devices, TimerFires(d)
  PROVE  UNCHANGED mesh /\ SessionShape' /\ Queue'
<1>1. /\ step[d]["timer"] = "idle"
      /\ UNCHANGED <<mesh, disk, sequence, snapshot, wire, unmarked, pending, files, sent>>
      /\ \E place \in {"receive", "send"} : step' = [step EXCEPT ![d]["timer"] = place]
      /\ batch' = batch \/ batch' = [batch EXCEPT ![d]["timer"] = files[d]]
  BY DEF TimerFires, user
<1>2. Known' = Known /\ Scans' = Scans  BY <1>1, SameKnown
<1>3. "timer" \in Tasks /\ {"receive", "send"} \subseteq Places  BY DEF Tasks, Places
<1>4. files[d] \in SUBSET Known  BY DEF SessionShape
<1>5. batch' \in [Devices -> [Tasks -> SUBSET Known]]  BY <1>1, <1>3, <1>4, OneBatch DEF SessionShape
<1>6. /\ step' \in [Devices -> [Tasks -> Places]] /\ step'[d]["timer"] \in {"receive", "send"}
      /\ \A e \in Devices, s \in Tasks : e # d \/ s # "timer" => step'[e][s] = step[e][s]
  <2>1. PICK place \in {"receive", "send"} : step' = [step EXCEPT ![d]["timer"] = place]  BY <1>1
  <2>2. "timer" \in Tasks /\ place \in Places  BY <1>3
  <2>3. /\ step' \in [Devices -> [Tasks -> Places]] /\ step'[d]["timer"] = place
        /\ \A e \in Devices, s \in Tasks : e # d \/ s # "timer" => step'[e][s] = step[e][s]
    BY <2>1, <2>2, OneStep
  <2> QED  BY <2>3
<1>7. SessionShape'  BY <1>1, <1>2, <1>5, <1>6 DEF SessionShape
<1>8. \A e \in Devices : step'[e]["apply"] = "idle" => pending'[e] = NoFrame
  BY <1>1, <1>6 DEF Queue, Tasks
<1>9. Queue'  BY <1>1, <1>2, <1>3, <1>6, <1>8, TaskMoves
<1> QED  BY <1>1, <1>7, <1>9

(* A receive begins, finishes or fails.                                    *)
ReceiveMoves(d, t) ==
  BeginReceive(d, t) \/ FinishReceive(d, t) \/ \E r \in batch[d][t] : ReceiveFails(d, t, r)

LEMMA ReceiveStep ==
  ASSUME Queue, NEW d \in Devices, NEW t \in Tasks, ReceiveMoves(d, t)
  PROVE  /\ step[d][t] \in {"receive", "receiving"} /\ t \in {"apply", "timer"}
         /\ UNCHANGED <<mesh, disk, sequence, snapshot, wire, unmarked, sent>>
         /\ \/ t = "apply" /\ NextIndex(d)
            \/ /\ UNCHANGED <<files, pending>>
               /\ \/ step' = [step EXCEPT ![d][t] = "receiving"]
                  \/ step' = [step EXCEPT ![d][t] = "send"]
                  \/ t = "timer" /\ step' = [step EXCEPT ![d][t] = "idle"]
               /\ batch' = batch \/ batch' = [batch EXCEPT ![d][t] = {}]
<1>1. step[d][t] \in {"receive", "receiving"}
  BY DEF ReceiveMoves, BeginReceive, FinishReceive, ReceiveFails, IsNext
<1>2. t \in {"apply", "timer"}  BY <1>1 DEF Queue, Tasks
<1>3. UNCHANGED <<mesh, disk, sequence, snapshot, wire, unmarked, sent>>
  BY DEF ReceiveMoves, BeginReceive, FinishReceive, ReceiveFails, user
<1>4. CASE Complete(d, t)
  <2>1. CASE t = "timer" \/ changed[d]
    <3>1. /\ step' = [step EXCEPT ![d][t] = "send"] /\ batch' = [batch EXCEPT ![d][t] = {}]
          /\ UNCHANGED <<files, pending>>
      BY <1>4, <2>1 DEF Complete
    <3> QED  BY <1>1, <1>2, <1>3, <3>1
  <2>2. CASE ~(t = "timer" \/ changed[d])
    <3>1. NextIndex(d)  BY <1>4, <2>2 DEF Complete
    <3> QED  BY <1>1, <1>2, <1>3, <2>2, <3>1
  <2> QED  BY <2>1, <2>2
<1>5. CASE BeginReceive(d, t) /\ ~Complete(d, t)
  <2>1. /\ step' = [step EXCEPT ![d][t] = "receiving"] /\ UNCHANGED <<batch, pending, files>>
    BY <1>5 DEF BeginReceive
  <2> QED  BY <1>1, <1>2, <1>3, <2>1
<1>6. CASE \E r \in batch[d][t] : ReceiveFails(d, t, r) /\ t = "timer"
  <2>1. /\ step' = [step EXCEPT ![d][t] = "idle"] /\ batch' = [batch EXCEPT ![d][t] = {}]
        /\ UNCHANGED <<files, pending>>
    BY <1>6 DEF ReceiveFails
  <2> QED  BY <1>1, <1>2, <1>3, <1>6, <2>1
<1>7. CASE \E r \in batch[d][t] : ReceiveFails(d, t, r) /\ t # "timer"
  <2>1. NextIndex(d)  BY <1>7 DEF ReceiveFails
  <2> QED  BY <1>1, <1>2, <1>3, <1>7, <2>1
<1> QED  BY <1>1, <1>2, <1>3, <1>4, <1>5, <1>6, <1>7 DEF ReceiveMoves, FinishReceive

LEMMA ReceiveKeepsSession ==
  ASSUME SessionShape, Queue, NEW d \in Devices, NEW t \in Tasks, ReceiveMoves(d, t)
  PROVE  UNCHANGED mesh /\ SessionShape' /\ Queue'
<1>1. /\ step[d][t] \in {"receive", "receiving"} /\ t \in {"apply", "timer"}
      /\ UNCHANGED <<mesh, disk, sequence, snapshot, wire, unmarked, sent>>
  BY ReceiveStep
<1>2. Known' = Known /\ Scans' = Scans  BY <1>1, SameKnown
<1>3. CASE t = "apply" /\ NextIndex(d)
  <2>1. SessionShape'  BY <1>1, <1>2, <1>3, NextIndexTyped DEF SessionShape
  <2>2. /\ \A e \in Devices, s \in Tasks : e # d \/ s # "apply" => step'[e][s] = step[e][s]
        /\ step'[d]["apply"] \in {"idle", "receive"}
        /\ pending'[d] = NoFrame /\ \A e \in Devices : e # d => pending'[e] = pending[e]
    BY <1>3, NextIndexTyped
  <2>3. \A e \in Devices : step'[e]["apply"] = "idle" => pending'[e] = NoFrame
    BY <2>2 DEF Queue, Tasks
  <2>4. Queue'  BY <1>1, <1>2, <1>3, <2>2, <2>3, TaskMoves
  <2> QED  BY <1>1, <2>1, <2>4
<1>4. CASE /\ UNCHANGED <<files, pending>>
           /\ \/ step' = [step EXCEPT ![d][t] = "receiving"]
              \/ step' = [step EXCEPT ![d][t] = "send"]
              \/ t = "timer" /\ step' = [step EXCEPT ![d][t] = "idle"]
           /\ batch' = batch \/ batch' = [batch EXCEPT ![d][t] = {}]
  <2>1. PICK place \in {"idle", "receiving", "send"} :
          step' = [step EXCEPT ![d][t] = place] /\ (t = "apply" => place # "idle")
    BY <1>4
  <2>2. place \in Places  BY <2>1 DEF Places
  <2>3. /\ step' \in [Devices -> [Tasks -> Places]] /\ step'[d][t] = place
        /\ \A e \in Devices, s \in Tasks : e # d \/ s # t => step'[e][s] = step[e][s]
    BY <2>1, <2>2, OneStep
  <2>4. batch' \in [Devices -> [Tasks -> SUBSET Known]]
    <3>1. CASE batch' = [batch EXCEPT ![d][t] = {}]
      <4>1. {} \in SUBSET Known  OBVIOUS
      <4> QED  BY <3>1, <4>1, OneBatch
    <3> QED  BY <1>4, <3>1 DEF SessionShape
  <2>5. SessionShape'  BY <1>1, <1>2, <1>4, <2>3, <2>4 DEF SessionShape
  <2>6. \A e \in Devices : step'[e]["apply"] = "idle" => pending'[e] = NoFrame
    BY <1>1, <1>4, <2>1, <2>3 DEF Queue, Tasks
  <2>7. Queue'  BY <1>1, <1>2, <2>1, <2>3, <2>6, TaskMoves
  <2> QED  BY <1>1, <2>5, <2>7
<1> QED  BY <1>3, <1>4, ReceiveStep

-----------------------------------------------------------------------------
(* The steps that send.                                                    *)

(* A task queues the write of a scan, or finds that it is old news.        *)
LEMMA WriteQueued ==
  ASSUME SessionShape, Queue, NEW d \in Devices, NEW t \in Tasks, NEW scan \in Scans,
         Write(d, t, scan), step[d][t] \in {"send", "encrypting"},
         UNCHANGED <<mesh, user, sequence, batch, pending, files, sent>>
  PROVE  SessionShape' /\ Queue'
<1>1. Known' = Known /\ Scans' = Scans  BY SameKnown
<1>2. CASE IsOldNews(d, t, scan)
  <2>1. /\ step' = [step EXCEPT ![d][t] = "idle"] /\ snapshot' = [snapshot EXCEPT ![d][t] = NoFrame]
        /\ UNCHANGED <<wire, unmarked>>
    BY <1>2 DEF Write
  <2>2. "idle" \in Places /\ t # "apply"  BY <1>2 DEF Places, IsOldNews
  <2>3. /\ step' \in [Devices -> [Tasks -> Places]] /\ step'[d][t] = "idle"
        /\ \A e \in Devices, s \in Tasks : e # d \/ s # t => step'[e][s] = step[e][s]
    BY <2>1, <2>2, OneStep
  <2>4. /\ snapshot' \in [Devices -> [Tasks -> Scans \cup {NoFrame}]]
        /\ \A e \in Devices, s \in Tasks : e # d \/ s # t => snapshot'[e][s] = snapshot[e][s]
    BY <2>1 DEF SessionShape
  <2>5. SessionShape'  BY <1>1, <2>1, <2>3, <2>4 DEF SessionShape, user
  <2>6. \A e \in Devices : \A i \in DOMAIN unmarked[e] : unmarked[e][i] \in Tasks /\ step[e][unmarked[e][i]] = "writing"
    BY DEF SessionShape, Queue
  <2>7. \A e \in Devices : \A i \in DOMAIN unmarked[e] : step'[e][unmarked[e][i]] = "writing"
    BY <2>3, <2>6
  <2>8. \A e \in Devices, s \in Tasks : step'[e][s] \in {"encrypting", "writing"} => snapshot'[e][s] \in Scans
    BY <2>3, <2>4 DEF Queue
  <2>9. \A e \in Devices : step'[e]["config"] \notin {"receive", "receiving"}
    BY <2>3 DEF Queue, Tasks
  <2>10. \A e \in Devices : step'[e]["apply"] = "idle" => pending'[e] = NoFrame
    BY <2>2, <2>3 DEF Queue, Tasks
  <2>11. Queue'  BY <1>1, <2>1, <2>7, <2>8, <2>9, <2>10 DEF Queue
  <2> QED  BY <2>5, <2>11
<1>3. CASE ~IsOldNews(d, t, scan)
  <2>1. /\ step' = [step EXCEPT ![d][t] = "writing"] /\ snapshot' = [snapshot EXCEPT ![d][t] = scan]
        /\ wire' = [wire EXCEPT ![d] = Append(wire[d], scan.records)]
        /\ unmarked' = [unmarked EXCEPT ![d] = Append(unmarked[d], t)]
    BY <1>3 DEF Write
  <2>2. "writing" \in Places  BY DEF Places
  <2>3. /\ step' \in [Devices -> [Tasks -> Places]] /\ step'[d][t] = "writing"
        /\ \A e \in Devices, s \in Tasks : e # d \/ s # t => step'[e][s] = step[e][s]
    BY <2>1, <2>2, OneStep
  <2>4. /\ snapshot' \in [Devices -> [Tasks -> Scans \cup {NoFrame}]] /\ snapshot'[d][t] = scan
        /\ \A e \in Devices, s \in Tasks : e # d \/ s # t => snapshot'[e][s] = snapshot[e][s]
    BY <2>1 DEF SessionShape
  <2>5. scan.records \in SUBSET Known  BY DEF Scans
  <2>6. Append(wire[d], scan.records) \in Seq(SUBSET Known)  BY <2>5 DEF SessionShape
  <2>7. wire' \in [Devices -> Seq(SUBSET Known)]  BY <2>1, <2>6 DEF SessionShape
  <2>8. unmarked[d] \in Seq(Tasks) /\ Append(unmarked[d], t) \in Seq(Tasks)  BY DEF SessionShape
  <2>9. /\ unmarked' \in [Devices -> Seq(Tasks)] /\ unmarked'[d] = Append(unmarked[d], t)
        /\ \A e \in Devices : e # d => unmarked'[e] = unmarked[e]
    BY <2>1, <2>8 DEF SessionShape
  <2>10. SessionShape'  BY <1>1, <2>3, <2>4, <2>7, <2>9 DEF SessionShape, user
  <2>11. \A e \in Devices : \A i \in DOMAIN unmarked[e] : unmarked[e][i] \in Tasks /\ step[e][unmarked[e][i]] = "writing"
    BY DEF SessionShape, Queue
  <2>12. \A i \in DOMAIN unmarked[d] : unmarked[d][i] # t  BY <2>11
  <2>13. /\ DOMAIN unmarked'[d] = 1..Len(unmarked[d]) + 1 /\ DOMAIN unmarked[d] = 1..Len(unmarked[d])
         /\ unmarked'[d][Len(unmarked[d]) + 1] = t
         /\ \A i \in 1..Len(unmarked[d]) : unmarked'[d][i] = unmarked[d][i]
    BY <2>8, <2>9
  <2>14. Len(unmarked[d]) \in Nat  BY <2>8
  <2>15. \A e \in Devices : \A i \in DOMAIN unmarked'[e] : step'[e][unmarked'[e][i]] = "writing"
    <3> TAKE e \in Devices
    <3>1. CASE e # d
      <4>1. unmarked'[e] = unmarked[e]  BY <2>9, <3>1
      <4> QED  BY <2>3, <2>11, <3>1, <4>1
    <3>2. CASE e = d
      <4> TAKE i \in DOMAIN unmarked'[e]
      <4>1. i \in 1..Len(unmarked[d]) \/ i = Len(unmarked[d]) + 1  BY <2>13, <2>14, <3>2
      <4> QED  BY <2>3, <2>11, <2>13, <3>2, <4>1
    <3> QED  BY <3>1, <3>2
  <2>16. \A e \in Devices : \A i, j \in DOMAIN unmarked'[e] : unmarked'[e][i] = unmarked'[e][j] => i = j
    <3> TAKE e \in Devices
    <3>1. CASE e # d  BY <2>9, <3>1 DEF Queue
    <3>2. CASE e = d
      <4> SUFFICES ASSUME NEW i \in DOMAIN unmarked'[d], NEW j \in DOMAIN unmarked'[d],
                          unmarked'[d][i] = unmarked'[d][j]
                   PROVE  i = j
        BY <3>2
      <4>1. /\ i \in 1..Len(unmarked[d]) \/ i = Len(unmarked[d]) + 1
            /\ j \in 1..Len(unmarked[d]) \/ j = Len(unmarked[d]) + 1
        BY <2>13, <2>14
      <4> QED  BY <2>12, <2>13, <4>1 DEF Queue
    <3> QED  BY <3>1, <3>2
  <2>17. \A e \in Devices, s \in Tasks : step'[e][s] \in {"encrypting", "writing"} => snapshot'[e][s] \in Scans
    BY <2>3, <2>4 DEF Queue
  <2>18. \A e \in Devices : step'[e]["config"] \notin {"receive", "receiving"}
    BY <2>3 DEF Queue, Tasks
  <2>19. \A e \in Devices : step'[e]["apply"] = "idle" => pending'[e] = NoFrame
    BY <2>3 DEF Queue, Tasks
  <2>20. Queue'  BY <1>1, <2>15, <2>16, <2>17, <2>18, <2>19 DEF Queue
  <2> QED  BY <2>10, <2>20
<1> QED  BY <1>2, <1>3

(* A task scans what it sends; the scan may have to be encrypted first.    *)
LEMMA SendKeepsSession ==
  ASSUME MeshShape, SessionShape, Queue, NEW d \in Devices, NEW t \in Tasks, Sending(d, t)
  PROVE  UNCHANGED mesh /\ SessionShape' /\ Queue'
<1> DEFINE scan == [sequence |-> sequence[d], records |-> Records(d)]
<1>1. UNCHANGED <<mesh, user, sequence, batch, pending, files, sent>>
  BY DEF Sending, ScanForSend, WriteEncrypted
<1>2. scan \in Scans  BY KnownTyped DEF Scans, SessionShape
<1>3. CASE WriteEncrypted(d, t)
  <2>1. step[d][t] = "encrypting" /\ Write(d, t, snapshot[d][t])  BY <1>3 DEF WriteEncrypted
  <2>2. snapshot[d][t] \in Scans  BY <2>1 DEF Queue
  <2> QED  BY <1>1, <2>1, <2>2, WriteQueued
<1>4. CASE ScanForSend(d, t) /\ ~Encrypted
  <2>1. step[d][t] = "send" /\ Write(d, t, scan)  BY <1>4 DEF ScanForSend
  <2> HIDE DEF scan
  <2> QED  BY <1>1, <1>2, <2>1, WriteQueued
<1>5. CASE ScanForSend(d, t) /\ Encrypted
  <2>1. /\ step[d][t] = "send" /\ UNCHANGED <<wire, unmarked>>
        /\ step' = [step EXCEPT ![d][t] = "encrypting"]
        /\ snapshot' = [snapshot EXCEPT ![d][t] = scan]
    BY <1>5 DEF ScanForSend
  <2> HIDE DEF scan
  <2>2. Known' = Known /\ Scans' = Scans  BY <1>1, SameKnown
  <2>3. "encrypting" \in Places  BY DEF Places
  <2>4. /\ step' \in [Devices -> [Tasks -> Places]] /\ step'[d][t] = "encrypting"
        /\ \A e \in Devices, s \in Tasks : e # d \/ s # t => step'[e][s] = step[e][s]
    BY <2>1, <2>3, OneStep
  <2>5. /\ snapshot' \in [Devices -> [Tasks -> Scans \cup {NoFrame}]] /\ snapshot'[d][t] = scan
        /\ \A e \in Devices, s \in Tasks : e # d \/ s # t => snapshot'[e][s] = snapshot[e][s]
    BY <1>2, <2>1 DEF SessionShape
  <2>6. SessionShape'  BY <1>1, <2>1, <2>2, <2>4, <2>5 DEF SessionShape, user
  <2>7. \A e \in Devices : \A i \in DOMAIN unmarked[e] : unmarked[e][i] \in Tasks /\ step[e][unmarked[e][i]] = "writing"
    BY DEF SessionShape, Queue
  <2>8. \A e \in Devices : \A i \in DOMAIN unmarked[e] : step'[e][unmarked[e][i]] = "writing"
    BY <2>1, <2>4, <2>7
  <2>9. \A e \in Devices, s \in Tasks : step'[e][s] \in {"encrypting", "writing"} => snapshot'[e][s] \in Scans
    BY <1>2, <2>4, <2>5 DEF Queue
  <2>10. \A e \in Devices : step'[e]["config"] \notin {"receive", "receiving"}
    BY <2>4 DEF Queue, Tasks
  <2>11. \A e \in Devices : step'[e]["apply"] = "idle" => pending'[e] = NoFrame
    BY <1>1, <2>4 DEF Queue, Tasks
  <2>12. Queue'  BY <2>1, <2>2, <2>8, <2>9, <2>10, <2>11 DEF Queue
  <2> QED  BY <1>1, <2>6, <2>12
<1> QED  BY <1>3, <1>4, <1>5 DEF Sending

(* A write completes: the first task that waits goes on.                   *)
LEMMA MarkKeepsSession ==
  ASSUME SessionShape, Queue, NEW d \in Devices, MarkSent(d)
  PROVE  UNCHANGED mesh /\ SessionShape' /\ Queue'
<1>0. unmarked[d] \in Seq(Tasks) /\ unmarked[d] # <<>>  BY DEF SessionShape, MarkSent
<1>0a. PICK t \in Tasks : t = Head(unmarked[d])  BY <1>0, HeadTailProperties
<1>1. /\ unmarked[d] # <<>> /\ unmarked' = [unmarked EXCEPT ![d] = Tail(unmarked[d])]
      /\ sent' = [sent EXCEPT ![d] = snapshot[d][t].sequence]
      /\ snapshot' = [snapshot EXCEPT ![d][t] = NoFrame]
      /\ UNCHANGED <<mesh, user, sequence, wire>>
  BY <1>0a DEF MarkSent, SentSequence
<1>2. Known' = Known /\ Scans' = Scans  BY <1>1, SameKnown
<1>4. /\ t \in Tasks /\ Tail(unmarked[d]) \in Seq(Tasks)
      /\ Len(unmarked[d]) \in Nat \ {0} /\ DOMAIN unmarked[d] = 1..Len(unmarked[d]) /\ t = unmarked[d][1]
      /\ Len(Tail(unmarked[d])) = Len(unmarked[d]) - 1
      /\ \A i \in 1..Len(Tail(unmarked[d])) : Tail(unmarked[d])[i] = unmarked[d][i + 1]
  BY <1>0, <1>0a, HeadTailProperties
<1>5. step[d][t] = "writing" /\ snapshot[d][t] \in Scans  BY <1>4 DEF Queue
<1>6. snapshot[d][t].sequence \in Nat  BY <1>5 DEF Scans
<1>7. \/ t = "apply" /\ NextIndex(d)
      \/ t # "apply" /\ step' = [step EXCEPT ![d][t] = "idle"] /\ UNCHANGED <<batch, files, pending>>
  <2>1. CASE t = "apply"  BY <1>0a, <2>1 DEF MarkSent
  <2>2. CASE t # "apply"  BY <1>0a, <2>2 DEF MarkSent
  <2> QED  BY <2>1, <2>2
<1>8. /\ sent' \in [Devices -> Nat \cup {Unsent}]
      /\ unmarked' \in [Devices -> Seq(Tasks)] /\ unmarked'[d] = Tail(unmarked[d])
      /\ \A e \in Devices : e # d => unmarked'[e] = unmarked[e]
  BY <1>1, <1>4, <1>6 DEF SessionShape
<1>9. /\ snapshot' \in [Devices -> [Tasks -> Scans \cup {NoFrame}]]
      /\ \A e \in Devices, s \in Tasks : e # d \/ s # t => snapshot'[e][s] = snapshot[e][s]
  BY <1>1, <1>4 DEF SessionShape
<1>10. /\ step' \in [Devices -> [Tasks -> Places]] /\ step'[d][t] \in {"idle", "receive"}
       /\ t # "apply" => step'[d][t] = "idle"
       /\ \A e \in Devices, s \in Tasks : e # d \/ s # t => step'[e][s] = step[e][s]
       /\ batch' \in [Devices -> [Tasks -> SUBSET Known]]
       /\ pending' \in [Devices -> (SUBSET Known) \cup {NoFrame}]
       /\ \A e \in Devices : step'[e]["apply"] = "idle" => pending'[e] = NoFrame
       /\ files' \in [Devices -> SUBSET Known]
  <2>1. CASE t = "apply" /\ NextIndex(d)
    <3>1. /\ step' \in [Devices -> [Tasks -> Places]]
          /\ \A e \in Devices, s \in Tasks : e # d \/ s # "apply" => step'[e][s] = step[e][s]
          /\ step'[d]["apply"] \in {"idle", "receive"}
          /\ batch' \in [Devices -> [Tasks -> SUBSET Known]]
          /\ pending' \in [Devices -> (SUBSET Known) \cup {NoFrame}]
          /\ pending'[d] = NoFrame /\ \A e \in Devices : e # d => pending'[e] = pending[e]
          /\ files' \in [Devices -> SUBSET Known]
      BY <2>1, NextIndexTyped
    <3>2. \A e \in Devices : step'[e]["apply"] = "idle" => pending'[e] = NoFrame
      BY <3>1 DEF Queue, Tasks
    <3> QED  BY <2>1, <3>1, <3>2
  <2>2. CASE t # "apply" /\ step' = [step EXCEPT ![d][t] = "idle"] /\ UNCHANGED <<batch, files, pending>>
    <3>1. "idle" \in Places /\ step' = [step EXCEPT ![d][t] = "idle"]  BY <2>2 DEF Places
    <3>2. /\ step' \in [Devices -> [Tasks -> Places]] /\ step'[d][t] = "idle"
          /\ \A e \in Devices, s \in Tasks : e # d \/ s # t => step'[e][s] = step[e][s]
      BY <3>1, OneStep
    <3>3. \A e \in Devices : step'[e]["apply"] = "idle" => pending'[e] = NoFrame
      BY <2>2, <3>2 DEF Queue, Tasks
    <3> QED  BY <2>2, <3>2, <3>3 DEF SessionShape
  <2> QED  BY <1>7, <2>1, <2>2
<1>11. SessionShape'  BY <1>1, <1>2, <1>8, <1>9, <1>10 DEF SessionShape, user
<1>12. ASSUME NEW e \in Devices, NEW i \in DOMAIN unmarked'[e]
       PROVE  step'[e][unmarked'[e][i]] = "writing"
  <2>1. \A j \in DOMAIN unmarked[e] : unmarked[e][j] \in Tasks /\ step[e][unmarked[e][j]] = "writing"
    BY DEF SessionShape, Queue
  <2>2. CASE e # d
    <3>1. unmarked'[e] = unmarked[e]  BY <1>8, <2>2
    <3> QED  BY <1>10, <1>12, <2>1, <2>2, <3>1
  <2>3. CASE e = d
    <3>1. i \in 1..Len(Tail(unmarked[d]))  BY <1>4, <1>8, <1>12, <2>3
    <3>2. i + 1 \in DOMAIN unmarked[d] /\ i + 1 # 1 /\ 1 \in DOMAIN unmarked[d]  BY <1>4, <3>1
    <3>3. unmarked[d][i + 1] # t  BY <1>4, <3>2 DEF Queue
    <3>4. unmarked'[e][i] = unmarked[d][i + 1]  BY <1>4, <1>8, <2>3, <3>1
    <3> QED  BY <1>10, <2>1, <2>3, <3>2, <3>3, <3>4
  <2> QED  BY <2>2, <2>3
<1>13. ASSUME NEW e \in Devices, NEW i \in DOMAIN unmarked'[e], NEW j \in DOMAIN unmarked'[e],
              unmarked'[e][i] = unmarked'[e][j]
       PROVE  i = j
  <2>1. CASE e # d
    <3>1. unmarked'[e] = unmarked[e]  BY <1>8, <2>1
    <3> QED  BY <1>13, <3>1 DEF Queue
  <2>2. CASE e = d
    <3>1. i \in 1..Len(Tail(unmarked[d])) /\ j \in 1..Len(Tail(unmarked[d]))  BY <1>4, <1>8, <1>13, <2>2
    <3>2. i + 1 \in DOMAIN unmarked[d] /\ j + 1 \in DOMAIN unmarked[d]  BY <1>4, <3>1
    <3>3. unmarked[d][i + 1] = unmarked[d][j + 1]  BY <1>4, <1>8, <1>13, <2>2, <3>1
    <3>4. i + 1 = j + 1  BY <3>2, <3>3 DEF Queue
    <3> QED  BY <3>1, <3>4
  <2> QED  BY <2>1, <2>2
<1>14. \A e \in Devices, s \in Tasks : step'[e][s] \in {"encrypting", "writing"} => snapshot'[e][s] \in Scans
  <2>1. \A e \in Devices, s \in Tasks : step[e][s] \in {"encrypting", "writing"} => snapshot[e][s] \in Scans
    BY DEF Queue
  <2> QED  BY <1>9, <1>10, <2>1
<1>15. \A e \in Devices : step'[e]["config"] \notin {"receive", "receiving"}
  BY <1>10 DEF Queue, Tasks
<1>16. Queue'  BY <1>2, <1>10, <1>12, <1>13, <1>14, <1>15 DEF Queue
<1> QED  BY <1>1, <1>11, <1>16

-----------------------------------------------------------------------------
(* The steps that change the durable indexes.                              *)

LEMMA GrowthKeepsSession ==
  ASSUME SessionShape, Queue, published \subseteq published',
         UNCHANGED <<step, snapshot, wire, unmarked, pending, files, sent>>,
         disk' \in [Devices -> [Edited -> File \cup {NoFile}]],
         \E d \in Devices : sequence' = [sequence EXCEPT ![d] = @ + 1],
         batch' \in [Devices -> [Tasks -> SUBSET Known]]
  PROVE  SessionShape' /\ Queue'
<1>1. /\ Known \subseteq Known' /\ Scans \subseteq Scans'
      /\ Seq(SUBSET Known) \subseteq Seq(SUBSET Known')
  BY KnownGrows
<1>2. sequence' \in [Devices -> Nat]  BY DEF SessionShape
<1>3. batch' \in [Devices -> [Tasks -> SUBSET Known']]  BY <1>1
<1>4. wire' \in [Devices -> Seq(SUBSET Known')]  BY <1>1 DEF SessionShape
<1>5. snapshot' \in [Devices -> [Tasks -> Scans' \cup {NoFrame}]]  BY <1>1 DEF SessionShape
<1>6. /\ pending' \in [Devices -> (SUBSET Known') \cup {NoFrame}]
      /\ files' \in [Devices -> SUBSET Known']
  BY <1>1 DEF SessionShape
<1>7. SessionShape'  BY <1>2, <1>3, <1>4, <1>5, <1>6 DEF SessionShape
<1>8. Queue'  BY <1>1 DEF Queue
<1> QED  BY <1>7, <1>8

(* A scan is an edit of the mesh.                                          *)
LEMMA ScanEdits ==
  ASSUME MeshShape, SessionShape, Queue, CopiesHad, NEW d \in Devices, NEW p \in Edited, Scan(d, p)
  PROVE  MeshShape' /\ SessionShape' /\ Queue' /\ Mesh!Next
<1>1. MeshShape' /\ published \subseteq published' /\ Mesh!Next
  <2>1. CASE disk[d][p] = NoFile
    <3>1. Mesh!Delete(d, p)  BY <2>1 DEF Scan
    <3>2. entries[d][p] # NoInfo  BY <3>1 DEF Mesh!Delete, Mesh!IsLive
    <3>3. p \in Names \cup {q \in Copies : entries[d][q] # NoInfo}  BY <3>2, PathKinds
    <3> QED  BY <3>1, <3>3, DeleteKeepsMesh DEF Mesh!Next, Mesh!UserEdit, Editors
  <2>2. CASE disk[d][p] # NoFile
    <3>1. disk[d][p] \in File  BY <2>2 DEF SessionShape
    <3>2. disk[d][p].content \in Contents /\ disk[d][p].mtime \in Times  BY <3>1 DEF File
    <3>3. Mesh!Write(d, p, disk[d][p].content, disk[d][p].mtime)  BY <2>2 DEF Scan
    <3>4. p \in Copies => entries[d][p] # NoInfo  BY <2>2 DEF CopiesHad
    <3>5. p \in Names \cup {q \in Copies : entries[d][q] # NoInfo}  BY <3>4, PathKinds
    <3>6. disk[d][p].mtime \in [c \in Contents |-> Times][disk[d][p].content]  BY <3>2
    <3>7. Mesh!UserEdit(d)  BY <3>2, <3>3, <3>5, <3>6 DEF Mesh!UserEdit, Editors
    <3>8. Mesh!Next  BY <3>7 DEF Mesh!Next
    <3> QED  BY <3>2, <3>3, <3>4, <3>8, WriteKeepsMesh
  <2> QED  BY <2>1, <2>2
<1>2. /\ UNCHANGED <<step, batch, snapshot, wire, unmarked, pending, files, sent, disk>>
      /\ sequence' = [sequence EXCEPT ![d] = @ + 1]
  BY DEF Scan, user, session
<1>3. SessionShape' /\ Queue'  BY <1>1, <1>2, GrowthKeepsSession DEF SessionShape
<1> QED  BY <1>1, <1>3

(* An install merges a published record.                                   *)
LEMMA InstallMerges ==
  ASSUME MeshShape, SessionShape, Queue,
         NEW d \in Devices, NEW t \in Tasks, NEW r \in batch[d][t],
         InstallCopy(d, t, r) \/ InstallWinner(d, t, r)
  PROVE  MeshShape' /\ SessionShape' /\ Queue' /\ Mesh!Next
<1>1. r \in Known  BY DEF SessionShape
<1>2. r.path \in Paths /\ r.info \in InfosAt(r.path) /\ <<r.path, r.info>> \in published
  BY <1>1, KnownTyped
<1>3. Mesh!InstallConflictCopy(d, r.path, r.info) \/ Mesh!ReceiveWinner(d, r.path, r.info)
  BY DEF InstallCopy, InstallWinner
<1>4. PICK q \in published : q[1] = r.path /\ q[2] = r.info  BY <1>2
<1>5. MeshShape' /\ published \subseteq published'  BY <1>3, <1>4, MergeKeepsMesh
<1>6. Mesh!Next  BY <1>3, <1>4 DEF Mesh!Next, Mesh!Merge
<1>7. /\ UNCHANGED <<step, snapshot, wire, unmarked, pending, files, sent>>
      /\ sequence' = [sequence EXCEPT ![d] = @ + 1]
  BY DEF InstallCopy, InstallWinner, Installed
<1>8. batch' \in [Devices -> [Tasks -> SUBSET Known]]
  <2>1. CASE InstallCopy(d, t, r)  BY <2>1 DEF InstallCopy, SessionShape
  <2>2. CASE InstallWinner(d, t, r)
    <3>1. batch' = [batch EXCEPT ![d][t] = batch[d][t] \ {r}]  BY <2>2 DEF InstallWinner
    <3>2. batch[d][t] \ {r} \in SUBSET Known  BY DEF SessionShape
    <3> QED  BY <3>1, <3>2, OneBatch
  <2> QED  BY <2>1, <2>2
<1>9. disk' \in [Devices -> [Edited -> File \cup {NoFile}]]
  <2> DEFINE FileOf(info) == IF IsDeleted(info) THEN NoFile
                             ELSE [content |-> info.content, mtime |-> info.mtime]
  <2>1. CASE UNCHANGED disk  BY <2>1 DEF SessionShape
  <2>2. ASSUME NEW path \in Paths, NEW info \in InfosAt(path), OnDisk(d, path, info), ~UNCHANGED disk
        PROVE  disk' \in [Devices -> [Edited -> File \cup {NoFile}]]
    <3>1. path \in Edited /\ disk' = [disk EXCEPT ![d][path] = FileOf(info)]
      BY <2>2 DEF OnDisk, Edited
    <3>2. FileOf(info) \in File \cup {NoFile}  BY DEF InfosAt, FileInfo, File, IsDeleted
    <3> HIDE DEF FileOf
    <3> QED  BY <3>1, <3>2 DEF SessionShape
  <2>3. CASE InstallWinner(d, t, r)  BY <1>2, <2>1, <2>2, <2>3 DEF InstallWinner
  <2>4. CASE InstallCopy(d, t, r)
    <3> DEFINE plan == planReplicaMerge(entries[d][r.path], r.info)
    <3>1. Mesh!Plan(d, r.path, r.info) = plan  BY SameMerge DEF Mesh!Plan
    <3>2. Mesh!InstallConflictCopy(d, r.path, r.info)  BY <2>4 DEF InstallCopy
    <3>3. plan.conflict # NoInfo
      BY <3>1, <3>2 DEF Mesh!InstallConflictCopy, Mesh!NeedsConflictCopy
    <3>4. OnDisk(d, ConflictPath(r.path, plan.conflict.content), plan.conflict)
      BY <2>4, <3>1 DEF InstallCopy
    <3>5. /\ ConflictPath(r.path, plan.conflict.content) \in Paths
          /\ plan.conflict \in InfosAt(ConflictPath(r.path, plan.conflict.content))
      BY <1>2, <3>3, EntryTyped, Plans
    <3> HIDE DEF plan
    <3> QED  BY <2>1, <2>2, <3>4, <3>5
  <2> QED  BY <2>3, <2>4
<1>10. SessionShape' /\ Queue'  BY <1>5, <1>7, <1>8, <1>9, GrowthKeepsSession
<1> QED  BY <1>5, <1>6, <1>10

-----------------------------------------------------------------------------
(* The sessions of both devices.                                           *)

LEMMA SessionInit == Init => SessionShape /\ Queue
<1> SUFFICES ASSUME Init PROVE SessionShape /\ Queue  OBVIOUS
<1>1. disk \in [Devices -> [Edited -> File \cup {NoFile}]]
  BY ExchangeAssumption DEF Init, File, Edited
<1>2. wire \in [Devices -> Seq(SUBSET Known)] /\ unmarked \in [Devices -> Seq(Tasks)]
  BY DEF Init
<1>3. SessionShape  BY <1>1, <1>2 DEF Init, SessionShape, Tasks, Places
<1>4. \A d \in Devices : DOMAIN unmarked[d] = {} /\ pending[d] = NoFrame
  <2> TAKE d \in Devices
  <2>1. unmarked[d] = <<>> /\ pending[d] = NoFrame  BY DEF Init
  <2>2. DOMAIN unmarked[d] = {}  BY <2>1
  <2> QED  BY <2>1, <2>2
<1>5. \A d \in Devices : /\ step[d]["config"] = "send"
                         /\ \A t \in Tasks : step[d][t] \in {"send", "idle"}
  BY DEF Init, Tasks
<1>6. Queue  BY <1>4, <1>5 DEF Queue
<1> QED  BY <1>3, <1>6

LEMMA DropKeepsSession ==
  ASSUME SessionShape, DropSession
  PROVE  UNCHANGED mesh /\ SessionShape' /\ Queue'
<1>1. UNCHANGED <<mesh, disk, sequence>>  BY DEF DropSession, user
<1>2. wire' \in [Devices -> Seq(SUBSET Known')] /\ unmarked' \in [Devices -> Seq(Tasks)]
  BY DEF DropSession
<1>3. SessionShape'  BY <1>1, <1>2 DEF DropSession, SessionShape, Tasks, Places
<1>4. \A d \in Devices : DOMAIN unmarked'[d] = {} /\ pending'[d] = NoFrame  BY DEF DropSession
<1>5. \A d \in Devices : /\ step'[d]["config"] = "send"
                         /\ \A t \in Tasks : step'[d][t] \in {"send", "idle"}
  BY DEF DropSession, Tasks
<1>6. Queue'  BY <1>4, <1>5 DEF Queue
<1> QED  BY <1>1, <1>3, <1>6

(* The disk has a conflict copy only where the index has had it.           *)
LEMMA CopiesInit == Init => CopiesHad
  BY ExchangeAssumption, PathKinds DEF Init, CopiesHad, Edited

LEMMA NextKeepsCopies ==
  ASSUME MeshShape, SessionShape, Queue, CopiesHad, [Next]_vars
  PROVE  CopiesHad'
<1>1. ASSUME UNCHANGED <<entries, disk>>  PROVE CopiesHad'  BY <1>1 DEF CopiesHad
<1>2. ASSUME NEW d \in Devices, NEW p, NEW info, Mesh!Store(d, p, info), info # NoInfo,
             \A e \in Devices, q \in Copies : e # d \/ q # p => disk'[e][q] = disk[e][q]
      PROVE  CopiesHad'
  <2>1. entries' = [entries EXCEPT ![d][p] = info]  BY <1>2 DEF Mesh!Store
  <2>2. ASSUME NEW e \in Devices, NEW q \in Copies, disk'[e][q] # NoFile  PROVE entries'[e][q] # NoInfo
    <3>1. entries \in [Devices -> [Paths -> FileInfo \cup {NoInfo}]] /\ q \in Paths
      BY SameMerge, PathKinds DEF MeshShape, Mesh!TypeOK, Paths
    <3>2. CASE e = d /\ q = p  BY <1>2, <2>1, <3>1, <3>2
    <3>3. CASE e # d \/ q # p
      <4>1. entries'[e][q] = entries[e][q]  BY <2>1, <3>1, <3>3
      <4> QED  BY <1>2, <2>2, <3>3, <4>1 DEF CopiesHad
    <3> QED  BY <3>2, <3>3
  <2> QED  BY <2>2 DEF CopiesHad
<1>3. ASSUME NEW d \in Devices, NEW path, NEW info, OnDisk(d, path, info)
      PROVE  \A e \in Devices, q \in Copies : e # d \/ q # path => disk'[e][q] = disk[e][q]
  BY <1>3, PathKinds DEF OnDisk, SessionShape
<1>4. CASE UNCHANGED vars  BY <1>1, <1>4 DEF vars, mesh, user
<1>5. CASE DropSession  BY <1>1, <1>5 DEF DropSession, mesh, user
<1>6. ASSUME NEW d \in Devices, Users(d) \/ Progress(d) \/ \E t \in Tasks : Task(d, t)
      PROVE  CopiesHad'
  <2>1. CASE Users(d)
    <3>1. PICK p \in Names \cup {q \in Copies : entries[d][q] # NoInfo} :
            UNCHANGED mesh /\ \E f : disk' = [disk EXCEPT ![d][p] = f]
      BY <2>1 DEF Users, UserWrites, UserDeletes
    <3>2. \A e \in Devices, q \in Copies : e # d \/ q # p => disk'[e][q] = disk[e][q]
      BY <3>1, PathKinds DEF SessionShape
    <3>3. UNCHANGED entries  BY <3>1 DEF mesh
    <3>4. p \in Copies => entries[d][p] # NoInfo  BY <3>1, PathKinds
    <3> QED  BY <3>2, <3>3, <3>4 DEF CopiesHad
  <2>2. CASE Deliver(d) \/ MarkSent(d)
    BY <1>1, <2>2 DEF Deliver, MarkSent, mesh, user
  <2>3. CASE \E p \in Edited : Scan(d, p)
    <3>1. PICK p \in Edited : Scan(d, p)  BY <2>3
    <3>2. UNCHANGED disk  BY <3>1 DEF Scan, user
    <3>3. PICK info : Mesh!Store(d, p, info)  BY <3>1 DEF Scan, Mesh!Write, Mesh!Delete
    <3>5. entries'[d][p] = info
      BY <3>3, SameMerge, PathKinds DEF Mesh!Store, MeshShape, Mesh!TypeOK, Paths
    <3>6. entries'[d][p] # NoInfo
      <4>1. CASE disk[d][p] = NoFile
        <5>1. Mesh!Delete(d, p) /\ p \in Paths  BY <3>1, <4>1, PathKinds DEF Scan
        <5>2. entries[d][p] \in FileInfo
          BY <5>1, EntryTyped DEF Mesh!Delete, Mesh!IsLive, InfosAt
        <5>3. entries'[d][p].version = Mesh!advanceVersionVector(entries[d][p].version, d)
              /\ entries'[d][p] = [entries[d][p] EXCEPT !.content = Tombstone,
                     !.version = Mesh!advanceVersionVector(entries[d][p].version, d)]
          BY <5>1, <5>2, SameMerge DEF Mesh!Delete, Mesh!Store, MeshShape, Mesh!TypeOK, Paths, FileInfo
        <5>4. Mesh!advanceVersionVector(entries[d][p].version, d) \in Vector
          BY <5>2 DEF Mesh!advanceVersionVector, Vector, FileInfo
        <5>5. entries'[d][p] \in FileInfo  BY <5>2, <5>3, <5>4 DEF FileInfo
        <5> QED  BY <5>5, NoInfoAssumption
      <4>2. CASE disk[d][p] # NoFile
        <5>1. Mesh!Write(d, p, disk[d][p].content, disk[d][p].mtime) /\ p \in Paths
          BY <3>1, <4>2, PathKinds DEF Scan
        <5> DEFINE old == Mesh!PreviousVersion(entries[d][p])
        <5>2. disk[d][p] \in File  BY <4>2 DEF SessionShape
        <5>3. old \in Vector
          BY <5>1, EntryTyped DEF Mesh!PreviousVersion, Mesh!NoCounters, Vector, InfosAt, FileInfo
        <5>4. Mesh!advanceVersionVector(old, d) \in Vector
          BY <5>3 DEF Mesh!advanceVersionVector, Vector
        <5>5. [version |-> Mesh!advanceVersionVector(old, d), content |-> disk[d][p].content,
               mtime |-> disk[d][p].mtime] \in FileInfo
          BY <5>2, <5>4, ExchangeAssumption DEF File, FileInfo
        <5>6. Mesh!Store(d, p, [version |-> Mesh!advanceVersionVector(old, d), content |-> disk[d][p].content,
                                mtime |-> disk[d][p].mtime])
          BY <5>1 DEF Mesh!Write
        <5> HIDE DEF old
        <5>7. entries'[d][p] \in FileInfo
          BY <5>1, <5>5, <5>6, SameMerge DEF Mesh!Store, MeshShape, Mesh!TypeOK, Paths
        <5> QED  BY <5>7, NoInfoAssumption
      <4> QED  BY <4>1, <4>2
    <3> QED  BY <1>2, <3>2, <3>3, <3>5, <3>6
  <2>4. ASSUME NEW t \in Tasks, Task(d, t)
        PROVE  CopiesHad'
    <3>1. CASE TimerFires(d)  BY <1>1, <3>1 DEF TimerFires, mesh, user
    <3>2. CASE ReceiveMoves(d, t)  BY <1>1, <3>2, ReceiveStep DEF mesh
    <3>3. CASE Sending(d, t)
      BY <1>1, <3>3 DEF Sending, ScanForSend, WriteEncrypted, mesh, user
    <3>4. ASSUME NEW r \in batch[d][t], InstallCopy(d, t, r) \/ InstallWinner(d, t, r)
          PROVE  CopiesHad'
      <4> DEFINE plan == planReplicaMerge(entries[d][r.path], r.info)
      <4>1. r \in Known  BY DEF SessionShape
      <4>2. r.path \in Paths /\ r.info \in InfosAt(r.path) /\ entries[d][r.path] \in InfosAt(r.path) \cup {NoInfo}
        BY <4>1, KnownTyped, EntryTyped
      <4>3. Mesh!Plan(d, r.path, r.info) = plan  BY SameMerge DEF Mesh!Plan
      <4>4. plan.winner \in FileInfo  BY <4>2, Plans DEF InfosAt
      <4> HIDE DEF plan
      <4>5. CASE InstallCopy(d, t, r)
        <5>1. Mesh!InstallConflictCopy(d, r.path, r.info)  BY <4>5 DEF InstallCopy
        <5>2. /\ plan.conflict # NoInfo
              /\ Mesh!Store(d, ConflictPath(r.path, plan.conflict.content), plan.conflict)
          BY <4>3, <5>1, SameMerge DEF Mesh!InstallConflictCopy, Mesh!NeedsConflictCopy
        <5>3. OnDisk(d, ConflictPath(r.path, plan.conflict.content), plan.conflict)
          BY <4>3, <4>5 DEF InstallCopy
        <5> QED  BY <1>2, <1>3, <5>2, <5>3
      <4>6. CASE InstallWinner(d, t, r)
        <5>1. Mesh!Store(d, r.path, plan.winner)
          BY <4>3, <4>6 DEF InstallWinner, Mesh!ReceiveWinner
        <5>2. OnDisk(d, r.path, r.info) \/ UNCHANGED disk  BY <4>6 DEF InstallWinner
        <5>3. plan.winner # NoInfo  BY <4>4, NoInfoAssumption
        <5> QED  BY <1>2, <1>3, <5>1, <5>2, <5>3
      <4> QED  BY <3>4, <4>5, <4>6
    <3> QED  BY <2>4, <3>1, <3>2, <3>3, <3>4 DEF Task, Receiving, ReceiveMoves
  <2> QED  BY <1>6, <2>1, <2>2, <2>3, <2>4 DEF Progress, Edited
<1> QED  BY <1>4, <1>5, <1>6 DEF Next

(* Every step keeps the shape and changes the indexes only as the mesh may. *)
LEMMA NextKeepsShape ==
  ASSUME MeshShape, SessionShape, Queue, CopiesHad, [Next]_vars
  PROVE  MeshShape' /\ SessionShape' /\ Queue' /\ CopiesHad' /\ [Mesh!Next]_mesh
<1>0. CopiesHad'  BY NextKeepsCopies
<1> SUFFICES MeshShape' /\ SessionShape' /\ Queue' /\ [Mesh!Next]_mesh  BY <1>0
<1>1. CASE UNCHANGED vars
  <2>1. UNCHANGED <<mesh, user, sequence, session>>  BY <1>1 DEF vars
  <2>2. Known' = Known /\ Scans' = Scans /\ MeshShape'  BY <2>1, SameKnown
  <2> QED  BY <2>1, <2>2 DEF user, session, SessionShape, Queue
<1>2. CASE DropSession  BY <1>2, DropKeepsSession, SameKnown
<1>3. ASSUME NEW d \in Devices, Users(d) \/ Progress(d) \/ \E t \in Tasks : Task(d, t)
      PROVE  MeshShape' /\ SessionShape' /\ Queue' /\ [Mesh!Next]_mesh
  <2>1. CASE Users(d)  BY <2>1, UsersKeepSession, SameKnown
  <2>2. CASE Deliver(d)  BY <2>2, DeliverKeepsSession, SameKnown
  <2>3. CASE MarkSent(d)  BY <2>3, MarkKeepsSession, SameKnown
  <2>4. CASE \E p \in Edited : Scan(d, p)  BY <2>4, ScanEdits
  <2>5. ASSUME NEW t \in Tasks, Task(d, t)
        PROVE  MeshShape' /\ SessionShape' /\ Queue' /\ [Mesh!Next]_mesh
    <3>1. CASE TimerFires(d)  BY <3>1, TimerKeepsSession, SameKnown
    <3>2. CASE ReceiveMoves(d, t)  BY <3>2, ReceiveKeepsSession, SameKnown
    <3>3. CASE Sending(d, t)  BY <3>3, SendKeepsSession, SameKnown
    <3>4. CASE \E r \in batch[d][t] : InstallCopy(d, t, r) \/ InstallWinner(d, t, r)
      BY <3>4, InstallMerges
    <3> QED  BY <2>5, <3>1, <3>2, <3>3, <3>4 DEF Task, Receiving, ReceiveMoves
  <2> QED  BY <1>3, <2>1, <2>2, <2>3, <2>4, <2>5 DEF Progress, Edited
<1> QED  BY <1>1, <1>2, <1>3 DEF Next

\* Type invariant of the exchange, in every reachable state: frames hold records
\* only, and each task is at a place the code has.
THEOREM TypeCorrect == Spec => []TypeOK
<1>1. Init => MeshShape /\ SessionShape /\ Queue /\ CopiesHad  BY MeshInit, SessionInit, CopiesInit
<1>2. MeshShape /\ SessionShape /\ Queue /\ CopiesHad /\ [Next]_vars => (MeshShape /\ SessionShape /\ Queue /\ CopiesHad)'
  BY NextKeepsShape
<1>3. MeshShape /\ SessionShape => TypeOK
  <2> SUFFICES ASSUME MeshShape, SessionShape  PROVE TypeOK  OBVIOUS
  <2>1. \A frame \in SUBSET Known : frame \in Frames  BY KnownTyped DEF Frames, Paths
  <2>2. ASSUME NEW d \in Devices, NEW i \in DOMAIN wire[d]
        PROVE  wire[d][i] \in SUBSET Known
    BY <2>2 DEF SessionShape
  <2>3. ASSUME NEW d \in Devices, NEW t \in Tasks
        PROVE  batch[d][t] \in SUBSET Known
    BY DEF SessionShape
  <2>4. \A d \in Devices : pending[d] \in (SUBSET Known) \cup {NoFrame} /\ files[d] \in SUBSET Known
    BY DEF SessionShape
  <2> QED  BY <2>1, <2>2, <2>3, <2>4 DEF TypeOK, MeshShape, SessionShape, Places, Edited
<1> QED  BY <1>1, <1>2, <1>3, PTL DEF Spec

\* The tasks of the two sessions implement the mesh (BepSession over
\* receiveReplicaFiles and scanReplicaIndex): each step edits, merges a record
\* that has been published, or leaves the durable indexes as they are.
THEOREM SessionsImplementMesh == Spec => ImplementsMesh
<1>1. Init => MeshShape /\ SessionShape /\ Queue /\ CopiesHad  BY MeshInit, SessionInit, CopiesInit
<1>2. MeshShape /\ SessionShape /\ Queue /\ CopiesHad /\ [Next]_vars =>
        (MeshShape /\ SessionShape /\ Queue /\ CopiesHad)' /\ [Mesh!Next]_mesh
  BY NextKeepsShape
<1>3. Init => Mesh!Init  BY DEF Init
<1> QED  BY <1>1, <1>2, <1>3, PTL DEF Spec, ImplementsMesh

-----------------------------------------------------------------------------
(* What was sent last.                                                     *)

\* A scan under way is of the index as it is, unless the sequence has moved.
ScanIsCurrent(d, scan) ==
  scan.sequence <= sequence[d] /\ (scan.sequence = sequence[d] => Records(d) \subseteq scan.records)

LastWriter(d) == unmarked[d][Len(unmarked[d])]

Current ==
  \A d \in Devices :
    /\ \A t \in Tasks : step[d][t] \in {"encrypting", "writing"} => ScanIsCurrent(d, snapshot[d][t])
    /\ sent[d] <= sequence[d]
    /\ unmarked[d] = <<>> /\ sent[d] = sequence[d] => Records(d) \subseteq LastSaid(d)
    /\ unmarked[d] # <<>> => snapshot[d][LastWriter(d)].records \subseteq LastSaid(d)

\* Nothing that a device has said last is taken back.
SaidStays == \A d \in Devices : LastSaid(d) \subseteq LastSaid(d)'

(* The next index is taken over by state.files before it is forgotten.     *)
LEMMA NextIndexSays ==
  ASSUME SessionShape, NEW d \in Devices, NextIndex(d), UNCHANGED wire
  PROVE  SaidStays
<1>1. SUFFICES ASSUME NEW e \in Devices  PROVE LastSaid(e) \subseteq LastSaid(e)'
  BY DEF SaidStays
<1>2. CASE Remote(e) # d
  <2>1. pending'[Remote(e)] = pending[Remote(e)] /\ files'[Remote(e)] = files[Remote(e)]
    BY <1>2, TheOther DEF NextIndex, HandleIndex, SessionShape
  <2> QED  BY <2>1 DEF LastSaid
<1>3. CASE Remote(e) = d
  <2>1. CASE pending[d] = NoFrame
    <3>1. UNCHANGED <<pending, files>>  BY <2>1 DEF NextIndex
    <3> QED  BY <3>1 DEF LastSaid
  <2>2. CASE pending[d] # NoFrame
    <3>1. pending'[d] = NoFrame /\ pending[d] \subseteq files'[d]
      BY <2>2 DEF NextIndex, HandleIndex, SessionShape
    <3> QED  BY <1>3, <2>2, <3>1 DEF LastSaid
  <2> QED  BY <2>1, <2>2
<1> QED  BY <1>2, <1>3

(* An index that arrives is taken over, or waits and replaces an older one. *)
LEMMA DeliverSays ==
  ASSUME MeshShape, SessionShape, Queue, NEW d \in Devices, Deliver(d)
  PROVE  SaidStays
<1> DEFINE w == wire[Remote(d)]
<1>1. /\ w # <<>> /\ wire' = [wire EXCEPT ![Remote(d)] = Tail(w)]
      /\ \/ /\ step[d]["apply"] = "idle" /\ UNCHANGED pending
            /\ files' = [files EXCEPT ![d] =
                 Head(w) \cup {r \in files[d] : \A n \in Head(w) : n.path # r.path}]
         \/ pending' = [pending EXCEPT ![d] = Head(w)] /\ UNCHANGED files
  BY DEF Deliver, HandleIndex
<1>2. w \in Seq(SUBSET Known)  BY TheOther DEF SessionShape
<1>3. /\ Head(w) \in SUBSET Known /\ Head(w) = w[1] /\ Len(w) \in Nat \ {0}
      /\ Tail(w) \in Seq(SUBSET Known) /\ Len(Tail(w)) = Len(w) - 1
      /\ \A i \in 1..Len(Tail(w)) : Tail(w)[i] = w[i + 1]
  BY <1>1, <1>2, HeadTailProperties
<1>4. Head(w) # NoFrame  BY <1>3, KnownTyped, NoFrameAssumption DEF Frames, Paths
<1>5. /\ wire'[Remote(d)] = Tail(w) /\ wire'[d] = wire[d]
      /\ pending'[Remote(d)] = pending[Remote(d)] /\ files'[Remote(d)] = files[Remote(d)]
  BY <1>1, TheOther DEF SessionShape
<1>6. LastSaid(d)' = LastSaid(d)  BY <1>5 DEF LastSaid
<1>7. LastSaid(Remote(d)) = w[Len(w)]  BY <1>1 DEF LastSaid
<1>8. CASE Len(w) # 1
  <2>1. Len(Tail(w)) \in 1..Len(Tail(w)) /\ Len(Tail(w)) + 1 = Len(w)
    <3>1. \A n \in Nat \ {0} : \A m : n # 1 /\ m = n - 1 => m \in 1..m /\ m + 1 = n  OBVIOUS
    <3> QED  BY <1>3, <1>8, <3>1
  <2>1a. Tail(w) # <<>>
    <3>1. Len(<<>>) = 0  BY EmptySeq
    <3>2. Len(Tail(w)) # 0  BY <1>3, <1>8
    <3> QED  BY <3>1, <3>2
  <2>2. LastSaid(Remote(d))' = Tail(w)[Len(Tail(w))]  BY <1>5, <2>1a DEF LastSaid
  <2> QED  BY <1>3, <1>6, <1>7, <2>1, <2>2, TheOther DEF SaidStays
<1>9. CASE Len(w) = 1
  <2>1. Tail(w) = <<>>
    <3>1. Len(Tail(w)) = 0  BY <1>3, <1>9
    <3>2. Tail(w) # <<>> => Len(Tail(w)) \in Nat \ {0}  BY <1>3, EmptySeq
    <3> QED  BY <3>1, <3>2
  <2>2. LastSaid(Remote(d))' = IF pending'[d] # NoFrame THEN pending'[d] ELSE files'[d]
    BY <1>5, <2>1, TheOther DEF LastSaid
  <2>3. Head(w) \subseteq LastSaid(Remote(d))'
    <3>1. CASE pending' = [pending EXCEPT ![d] = Head(w)]
      <4>1. pending'[d] = Head(w)  BY <3>1 DEF SessionShape
      <4> QED  BY <1>4, <2>2, <4>1
    <3>2. CASE /\ step[d]["apply"] = "idle" /\ UNCHANGED pending
               /\ files' = [files EXCEPT ![d] =
                    Head(w) \cup {r \in files[d] : \A n \in Head(w) : n.path # r.path}]
      <4>1. pending'[d] = NoFrame  BY <3>2 DEF Queue
      <4>2. Head(w) \subseteq files'[d]  BY <3>2 DEF SessionShape
      <4> QED  BY <2>2, <4>1, <4>2
    <3> QED  BY <1>1, <3>1, <3>2
  <2> QED  BY <1>3, <1>6, <1>7, <1>9, <2>3, TheOther DEF SaidStays
<1> QED  BY <1>8, <1>9

(* Only a send makes scans, and only an edit or an install moves a sequence. *)
LEMMA CurrentStays ==
  ASSUME Current, UNCHANGED <<entries, sequence, sent, snapshot, unmarked>>, SaidStays,
         \A d \in Devices, t \in Tasks :
           step'[d][t] \in {"encrypting", "writing"} => step[d][t] \in {"encrypting", "writing"}
  PROVE  Current'
<1>1. SUFFICES ASSUME NEW d \in Devices
               PROVE  /\ \A t \in Tasks : step'[d][t] \in {"encrypting", "writing"} =>
                           ScanIsCurrent(d, snapshot[d][t])'
                      /\ sent[d] <= sequence[d]
                      /\ unmarked[d] = <<>> /\ sent[d] = sequence[d] => Records(d)' \subseteq LastSaid(d)'
                      /\ unmarked[d] # <<>> => snapshot[d][LastWriter(d)'].records \subseteq LastSaid(d)'
  BY DEF Current
<1>2. Records(d)' = Records(d)  BY DEF Records
<1>3. \A t \in Tasks : ScanIsCurrent(d, snapshot[d][t]) => ScanIsCurrent(d, snapshot[d][t])'
  BY <1>2 DEF ScanIsCurrent
<1>4. LastWriter(d)' = LastWriter(d)  BY DEF LastWriter
<1>5. LastSaid(d) \subseteq LastSaid(d)'  BY DEF SaidStays
<1> QED  BY <1>2, <1>3, <1>4, <1>5 DEF Current

(* A scan that has just been taken is current.                             *)
LEMMA FreshScan ==
  ASSUME SessionShape, NEW d \in Devices
  PROVE  ScanIsCurrent(d, [sequence |-> sequence[d], records |-> Records(d)])
<1>1. sequence[d] \in Nat  BY DEF SessionShape
<1> QED  BY <1>1 DEF ScanIsCurrent

(* What is written last is what is said last.                              *)
LEMMA WriteSays ==
  ASSUME SessionShape, Queue, Current, NEW d \in Devices, NEW t \in Tasks, NEW scan \in Scans,
         Write(d, t, scan), step[d][t] \in {"send", "encrypting"}, ScanIsCurrent(d, scan),
         UNCHANGED <<entries, sequence, pending, files, sent>>
  PROVE  Current'
<1>1. \A e \in Devices : Records(e)' = Records(e)  BY DEF Records
<1>3. /\ \A e \in Devices, s \in Tasks : e # d \/ s # t => step'[e][s] = step[e][s] /\ snapshot'[e][s] = snapshot[e][s]
      /\ \A e \in Devices : e # d => wire'[e] = wire[e] /\ unmarked'[e] = unmarked[e]
  BY DEF Write, SessionShape
<1>4. \A e \in Devices : unmarked[e] # <<>> => LastWriter(e) \in Tasks /\ step[e][LastWriter(e)] = "writing"
  <2> TAKE e \in Devices
  <2>1. unmarked[e] \in Seq(Tasks)  BY DEF SessionShape
  <2>2. unmarked[e] # <<>> => Len(unmarked[e]) \in DOMAIN unmarked[e]
    BY <2>1, EmptySeq, LenProperties
  <2> QED  BY <2>1, <2>2 DEF LastWriter, Queue
<1>5. SUFFICES ASSUME NEW e \in Devices
               PROVE  /\ \A s \in Tasks : step'[e][s] \in {"encrypting", "writing"} => ScanIsCurrent(e, snapshot'[e][s])
                      /\ unmarked'[e] = <<>> /\ sent[e] = sequence[e] => Records(e) \subseteq LastSaid(e)'
                      /\ unmarked'[e] # <<>> => snapshot'[e][LastWriter(e)'].records \subseteq LastSaid(e)'
  BY <1>1 DEF Current, ScanIsCurrent
<1>6. CASE e # d
  <2>1. LastSaid(e)' = LastSaid(e) /\ LastWriter(e)' = LastWriter(e) /\ unmarked'[e] = unmarked[e]
    BY <1>3, <1>6 DEF LastSaid, LastWriter
  <2>2. unmarked[e] # <<>> => snapshot'[e][LastWriter(e)] = snapshot[e][LastWriter(e)]
    BY <1>3, <1>4, <1>6
  <2>3. \A s \in Tasks : step'[e][s] = step[e][s] /\ snapshot'[e][s] = snapshot[e][s]  BY <1>3, <1>6
  <2>4. \A s \in Tasks : step'[e][s] \in {"encrypting", "writing"} => ScanIsCurrent(e, snapshot'[e][s])
    BY <2>3 DEF Current
  <2> QED  BY <2>1, <2>2, <2>4 DEF Current
<1>7. CASE e = d /\ IsOldNews(d, t, scan)
  <2>1. UNCHANGED <<wire, unmarked>> /\ step'[d][t] = "idle"
    BY <1>7 DEF Write, SessionShape
  <2>2. LastSaid(e)' = LastSaid(e) /\ LastWriter(e)' = LastWriter(e)
    BY <2>1 DEF LastSaid, LastWriter
  <2>3. unmarked[e] # <<>> => snapshot'[e][LastWriter(e)] = snapshot[e][LastWriter(e)]
    BY <1>3, <1>4, <1>7
  <2>4. \A s \in Tasks : step'[e][s] \in {"encrypting", "writing"} => ScanIsCurrent(e, snapshot'[e][s])
    BY <1>3, <1>7, <2>1 DEF Current
  <2> QED  BY <2>1, <2>2, <2>3, <2>4 DEF Current
<1>8. CASE e = d /\ ~IsOldNews(d, t, scan)
  <2>1. /\ snapshot'[d][t] = scan
        /\ wire'[d] = Append(wire[d], scan.records) /\ unmarked'[d] = Append(unmarked[d], t)
    BY <1>8 DEF Write, SessionShape
  <2>2. wire[d] \in Seq(SUBSET Known) /\ unmarked[d] \in Seq(Tasks) /\ scan.records \in SUBSET Known
    BY DEF SessionShape, Scans
  <2>3. wire'[d] # <<>> /\ wire'[d][Len(wire'[d])] = scan.records
    <3>1. LET w == Append(wire[d], scan.records) IN w # <<>> /\ w[Len(w)] = scan.records
      BY <2>2, AppendProperties
    <3> QED  BY <2>1, <3>1
  <2>4. unmarked'[d] # <<>> /\ unmarked'[d][Len(unmarked'[d])] = t
    <3>1. LET u == Append(unmarked[d], t) IN u # <<>> /\ u[Len(u)] = t
      BY <2>2, AppendProperties
    <3> QED  BY <2>1, <3>1
  <2>5. LastSaid(d)' = scan.records  BY <2>3 DEF LastSaid
  <2>6. LastWriter(d)' = t  BY <2>4 DEF LastWriter
  <2>7. \A s \in Tasks : step'[d][s] \in {"encrypting", "writing"} => ScanIsCurrent(d, snapshot'[d][s])
    BY <1>3, <2>1 DEF Current
  <2> QED  BY <1>8, <2>1, <2>4, <2>5, <2>6, <2>7
<1> QED  BY <1>6, <1>7, <1>8

LEMMA SendSays ==
  ASSUME MeshShape, SessionShape, Queue, Current, NEW d \in Devices, NEW t \in Tasks, Sending(d, t)
  PROVE  Current'
<1> DEFINE scan == [sequence |-> sequence[d], records |-> Records(d)]
<1>1. UNCHANGED <<entries, sequence, pending, files, sent>>
  BY DEF Sending, ScanForSend, WriteEncrypted, mesh
<1>2. scan \in Scans /\ ScanIsCurrent(d, scan)  BY KnownTyped, FreshScan DEF Scans, SessionShape
<1>3. CASE WriteEncrypted(d, t)
  <2>1. step[d][t] = "encrypting" /\ Write(d, t, snapshot[d][t])  BY <1>3 DEF WriteEncrypted
  <2>2. snapshot[d][t] \in Scans /\ ScanIsCurrent(d, snapshot[d][t])  BY <2>1 DEF Queue, Current
  <2> QED  BY <1>1, <2>1, <2>2, WriteSays
<1>4. CASE ScanForSend(d, t) /\ ~Encrypted
  <2>1. step[d][t] = "send" /\ Write(d, t, scan)  BY <1>4 DEF ScanForSend
  <2> HIDE DEF scan
  <2> QED  BY <1>1, <1>2, <2>1, WriteSays
<1>5. CASE ScanForSend(d, t) /\ Encrypted
  <2>1. /\ step[d][t] = "send" /\ UNCHANGED <<wire, unmarked>>
        /\ step' = [step EXCEPT ![d][t] = "encrypting"]
        /\ snapshot' = [snapshot EXCEPT ![d][t] = scan]
    BY <1>5 DEF ScanForSend
  <2> HIDE DEF scan
  <2>2. /\ snapshot'[d][t] = scan
        /\ \A e \in Devices, s \in Tasks : e # d \/ s # t =>
             step'[e][s] = step[e][s] /\ snapshot'[e][s] = snapshot[e][s]
    BY <2>1 DEF SessionShape
  <2>3. \A e \in Devices : Records(e)' = Records(e) /\ LastSaid(e)' = LastSaid(e) /\ LastWriter(e)' = LastWriter(e)
    BY <1>1, <2>1 DEF Records, LastSaid, LastWriter
  <2>4. \A e \in Devices : unmarked[e] # <<>> => LastWriter(e) \in Tasks /\ step[e][LastWriter(e)] = "writing"
    <3> TAKE e \in Devices
    <3>1. unmarked[e] \in Seq(Tasks)  BY DEF SessionShape
    <3>2. unmarked[e] # <<>> => Len(unmarked[e]) \in DOMAIN unmarked[e]
      BY <3>1, EmptySeq, LenProperties
    <3> QED  BY <3>1, <3>2 DEF LastWriter, Queue
  <2>5. \A e \in Devices : unmarked[e] # <<>> => snapshot'[e][LastWriter(e)] = snapshot[e][LastWriter(e)]
    BY <2>1, <2>2, <2>4
  <2>6. \A e \in Devices, s \in Tasks : step'[e][s] \in {"encrypting", "writing"} => ScanIsCurrent(e, snapshot'[e][s])
    BY <1>2, <2>2 DEF Current
  <2> QED  BY <1>1, <2>1, <2>3, <2>5, <2>6 DEF Current, ScanIsCurrent
<1> QED  BY <1>3, <1>4, <1>5 DEF Sending

(* A write that completes leaves the scan behind it as what was sent.      *)
LEMMA MarkSays ==
  ASSUME SessionShape, Queue, Current, NEW d \in Devices, MarkSent(d), SessionShape', Queue'
  PROVE  Current'
<1>0. unmarked[d] \in Seq(Tasks) /\ unmarked[d] # <<>>  BY DEF SessionShape, MarkSent
<1>0a. PICK t \in Tasks : t = Head(unmarked[d])  BY <1>0, HeadTailProperties
<1>1. /\ unmarked' = [unmarked EXCEPT ![d] = Tail(unmarked[d])]
      /\ sent' = [sent EXCEPT ![d] = snapshot[d][t].sequence]
      /\ snapshot' = [snapshot EXCEPT ![d][t] = NoFrame]
      /\ UNCHANGED <<entries, sequence, wire>>
  BY <1>0a DEF MarkSent, SentSequence, mesh
<1>2. SaidStays
  <2>1. CASE t = "apply"
    <3>1. NextIndex(d)  BY <1>0a, <2>1 DEF MarkSent
    <3> QED  BY <1>1, <3>1, NextIndexSays
  <2>2. CASE t # "apply"
    <3>1. UNCHANGED <<wire, pending, files>>  BY <1>0a, <1>1, <2>2 DEF MarkSent
    <3> QED  BY <3>1 DEF SaidStays, LastSaid
  <2> QED  BY <2>1, <2>2
<1>3. \A e \in Devices, s \in Tasks : e # d \/ s # t => step'[e][s] = step[e][s] \/ step'[e][s] \in {"idle", "receive"}
  <2>1. CASE t = "apply"
    <3>1. NextIndex(d)  BY <1>0a, <2>1 DEF MarkSent
    <3> QED  BY <2>1, <3>1, NextIndexTyped
  <2>2. CASE t # "apply"
    <3>1. step' = [step EXCEPT ![d][t] = "idle"]  BY <1>0a, <2>2 DEF MarkSent
    <3> QED  BY <3>1 DEF SessionShape
  <2> QED  BY <2>1, <2>2
<1>4. step'[d][t] \in {"idle", "receive"}
  <2>1. CASE t = "apply"
    <3>1. NextIndex(d)  BY <1>0a, <2>1 DEF MarkSent
    <3> QED  BY <2>1, <3>1, NextIndexTyped
  <2>2. CASE t # "apply"
    <3>1. step' = [step EXCEPT ![d][t] = "idle"]  BY <1>0a, <2>2 DEF MarkSent
    <3> QED  BY <3>1 DEF SessionShape
  <2> QED  BY <2>1, <2>2
<1>5. /\ \A e \in Devices, s \in Tasks : e # d \/ s # t => snapshot'[e][s] = snapshot[e][s]
      /\ \A e \in Devices : e # d => unmarked'[e] = unmarked[e] /\ sent'[e] = sent[e]
      /\ unmarked'[d] = Tail(unmarked[d]) /\ sent'[d] = snapshot[d][t].sequence
  BY <1>1 DEF SessionShape
<1>6. /\ Tail(unmarked[d]) \in Seq(Tasks)
      /\ Len(unmarked[d]) \in Nat \ {0} /\ DOMAIN unmarked[d] = 1..Len(unmarked[d]) /\ t = unmarked[d][1]
      /\ Len(Tail(unmarked[d])) = Len(unmarked[d]) - 1
      /\ \A i \in 1..Len(Tail(unmarked[d])) : Tail(unmarked[d])[i] = unmarked[d][i + 1]
  BY <1>0, <1>0a, HeadTailProperties
<1>7. step[d][t] = "writing" /\ ScanIsCurrent(d, snapshot[d][t])
  BY <1>6 DEF Queue, Current
<1>8. \A e \in Devices : Records(e)' = Records(e) /\ LastSaid(e) \subseteq LastSaid(e)'
  BY <1>1, <1>2 DEF Records, SaidStays
<1>9. \A e \in Devices, s \in Tasks : step'[e][s] \in {"encrypting", "writing"} => ScanIsCurrent(e, snapshot'[e][s])
  <2> TAKE e \in Devices, s \in Tasks
  <2>1. CASE e = d /\ s = t  BY <1>4, <2>1
  <2>2. CASE e # d \/ s # t
    <3>1. snapshot'[e][s] = snapshot[e][s]  BY <1>5, <2>2
    <3>2. step'[e][s] \in {"encrypting", "writing"} => step[e][s] \in {"encrypting", "writing"}
      BY <1>3, <2>2
    <3> QED  BY <3>1, <3>2 DEF Current
  <2> QED  BY <2>1, <2>2
<1>10. SUFFICES ASSUME NEW e \in Devices
                PROVE  /\ sent'[e] <= sequence[e]
                       /\ unmarked'[e] = <<>> /\ sent'[e] = sequence[e] => Records(e) \subseteq LastSaid(e)'
                       /\ unmarked'[e] # <<>> => snapshot'[e][LastWriter(e)'].records \subseteq LastSaid(e)'
  BY <1>1, <1>8, <1>9 DEF Current, ScanIsCurrent
<1>11. unmarked[e] # <<>> => LastWriter(e) \in Tasks
  <2>1. unmarked[e] \in Seq(Tasks)  BY DEF SessionShape
  <2>2. unmarked[e] # <<>> => Len(unmarked[e]) \in DOMAIN unmarked[e]
    BY <2>1, EmptySeq, LenProperties
  <2> QED  BY <2>1, <2>2 DEF LastWriter
<1>12. CASE e # d
  <2>1. unmarked'[e] = unmarked[e] /\ sent'[e] = sent[e] /\ LastWriter(e)' = LastWriter(e)
    BY <1>5, <1>12 DEF LastWriter
  <2>2. unmarked[e] # <<>> => snapshot'[e][LastWriter(e)] = snapshot[e][LastWriter(e)]
    BY <1>5, <1>11, <1>12
  <2> QED  BY <1>8, <2>1, <2>2 DEF Current
<1>13. CASE e = d /\ Tail(unmarked[d]) = <<>>
  <2>1. Len(Tail(unmarked[d])) = 0  BY <1>13, EmptySeq
  <2>2. LastWriter(d) = t  BY <1>6, <2>1 DEF LastWriter
  <2>3. snapshot[d][t].records \subseteq LastSaid(d)  BY <1>0, <2>2 DEF Current
  <2> QED  BY <1>5, <1>7, <1>8, <1>13, <2>3 DEF ScanIsCurrent
<1>14. CASE e = d /\ Tail(unmarked[d]) # <<>>
  <2>1. Len(Tail(unmarked[d])) \in Nat \ {0}  BY <1>6, <1>14, EmptySeq
  <2>2. \A n \in Nat \ {0}, m \in Nat \ {0} : m = n - 1 => m \in 1..m /\ m + 1 = n /\ n # 1 /\ n \in 1..n /\ 1 \in 1..n
    OBVIOUS
  <2>3. /\ Len(Tail(unmarked[d])) \in 1..Len(Tail(unmarked[d]))
        /\ Len(Tail(unmarked[d])) + 1 = Len(unmarked[d])
        /\ Len(unmarked[d]) # 1 /\ Len(unmarked[d]) \in DOMAIN unmarked[d] /\ 1 \in DOMAIN unmarked[d]
    BY <1>6, <2>1, <2>2
  <2>4. LastWriter(d)' = Tail(unmarked[d])[Len(Tail(unmarked[d]))]  BY <1>5 DEF LastWriter
  <2>5. LastWriter(d)' = LastWriter(d)  BY <1>6, <2>3, <2>4 DEF LastWriter
  <2>6. LastWriter(d) # t  BY <1>6, <2>3 DEF LastWriter, Queue
  <2>7. snapshot'[d][LastWriter(d)] = snapshot[d][LastWriter(d)]  BY <1>0, <1>5, <1>11, <1>14, <2>6
  <2>8. snapshot[d][LastWriter(d)].records \subseteq LastSaid(d)  BY <1>0 DEF Current
  <2> QED  BY <1>5, <1>7, <1>8, <1>14, <2>5, <2>7, <2>8 DEF ScanIsCurrent
<1> QED  BY <1>12, <1>13, <1>14

(* A record that is stored has moved the sequence past every scan.         *)
LEMMA GrowthSays ==
  ASSUME SessionShape, Queue, Current, NEW d \in Devices,
         UNCHANGED <<step, snapshot, wire, unmarked, pending, files, sent>>,
         sequence' = [sequence EXCEPT ![d] = @ + 1],
         \A e \in Devices : e # d => entries'[e] = entries[e]
  PROVE  Current'
<1>1. /\ \A e \in Devices : sequence[e] \in Nat /\ sent[e] \in Int
      /\ sequence'[d] = sequence[d] + 1
      /\ \A e \in Devices : e # d => sequence'[e] = sequence[e] /\ Records(e)' = Records(e)
  BY DEF SessionShape, Records, Unsent
<1>2. \A e \in Devices : LastSaid(e)' = LastSaid(e) /\ LastWriter(e)' = LastWriter(e)
  BY DEF LastSaid, LastWriter
<1>3. \A t \in Tasks : step[d][t] \in {"encrypting", "writing"} =>
        snapshot[d][t].sequence \in Nat /\ snapshot[d][t].sequence <= sequence[d]
  BY DEF Queue, Current, ScanIsCurrent, Scans
<1>4. SUFFICES ASSUME NEW e \in Devices
               PROVE  /\ \A t \in Tasks : step[e][t] \in {"encrypting", "writing"} => ScanIsCurrent(e, snapshot[e][t])'
                      /\ sent[e] <= sequence'[e]
                      /\ unmarked[e] = <<>> /\ sent[e] = sequence'[e] => Records(e)' \subseteq LastSaid(e)
                      /\ unmarked[e] # <<>> => snapshot[e][LastWriter(e)].records \subseteq LastSaid(e)
  BY <1>2 DEF Current
<1>5. CASE e # d
  BY <1>1, <1>5 DEF Current, ScanIsCurrent
<1>6. CASE e = d
  <2>1. sent[d] <= sequence[d]  BY DEF Current
  <2>2. \A t \in Tasks : step[d][t] \in {"encrypting", "writing"} => ScanIsCurrent(d, snapshot[d][t])'
    BY <1>1, <1>3 DEF ScanIsCurrent
  <2>3. sent[d] <= sequence'[d] /\ sent[d] # sequence'[d]  BY <1>1, <2>1
  <2> QED  BY <1>6, <2>2, <2>3 DEF Current
<1> QED  BY <1>5, <1>6

LEMMA CurrentInit == Init => Current
<1> SUFFICES ASSUME Init PROVE Current  OBVIOUS
<1>1. \A d \in Devices : /\ \A t \in Tasks : step[d][t] \in {"send", "idle"}
                         /\ sent[d] = -1 /\ sequence[d] = 0 /\ unmarked[d] = <<>>
  BY DEF Init, Tasks, Unsent
<1>2. ASSUME NEW d \in Devices  PROVE sent[d] <= sequence[d] /\ sent[d] # sequence[d]
  <2>1. sent[d] = -1 /\ sequence[d] = 0  BY <1>1
  <2>2. -1 <= 0 /\ -1 # 0  OBVIOUS
  <2> QED  BY <2>1, <2>2
<1>3. SUFFICES ASSUME NEW d \in Devices
               PROVE  /\ \A t \in Tasks : step[d][t] \notin {"encrypting", "writing"}
                      /\ sent[d] <= sequence[d] /\ sent[d] # sequence[d] /\ unmarked[d] = <<>>
  BY DEF Current
<1> QED  BY <1>1, <1>2

LEMMA NextKeepsCurrent ==
  ASSUME MeshShape, SessionShape, Queue, Current, [Next]_vars, SessionShape', Queue'
  PROVE  Current'
<1>1. CASE UNCHANGED vars
  <2>1. UNCHANGED <<entries, sequence, sent, snapshot, unmarked, step, wire, pending, files>>
    BY <1>1 DEF vars, mesh, session
  <2>2. SaidStays  BY <2>1 DEF SaidStays, LastSaid
  <2> QED  BY <2>1, <2>2, CurrentStays
<1>2. CASE DropSession
  <2>1. \A d \in Devices : /\ \A t \in Tasks : step'[d][t] \in {"send", "idle"}
                           /\ sent'[d] = -1 /\ sequence'[d] \in Nat /\ unmarked'[d] = <<>>
    BY <1>2 DEF DropSession, Tasks, Unsent, SessionShape
  <2> QED  BY <2>1 DEF Current
<1>3. ASSUME NEW d \in Devices, Users(d) \/ Progress(d) \/ \E t \in Tasks : Task(d, t)
      PROVE  Current'
  <2>1. CASE Users(d)
    <3>1. UNCHANGED <<entries, sequence, sent, snapshot, unmarked, step, wire, pending, files>>
      BY <2>1 DEF Users, UserWrites, UserDeletes, mesh, session
    <3>2. SaidStays  BY <3>1 DEF SaidStays, LastSaid
    <3> QED  BY <3>1, <3>2, CurrentStays
  <2>2. CASE Deliver(d)
    <3>1. UNCHANGED <<entries, sequence, sent, snapshot, unmarked>>  BY <2>2 DEF Deliver, mesh
    <3>2. \A e \in Devices, t \in Tasks :
            step'[e][t] \in {"encrypting", "writing"} => step[e][t] \in {"encrypting", "writing"}
      <4>1. CASE step' = [step EXCEPT ![d]["apply"] = "receive"]
        <5>1. "apply" \in Tasks /\ "receive" \in Places  BY DEF Tasks, Places
        <5> QED  BY <4>1, <5>1, OneStep
      <4> QED  BY <2>2, <4>1 DEF Deliver, HandleIndex
    <3> QED  BY <2>2, <3>1, <3>2, DeliverSays, CurrentStays
  <2>3. CASE MarkSent(d)  BY <2>3, MarkSays
  <2>4. CASE \E p \in Edited : Scan(d, p)
    <3>1. PICK p \in Edited : Scan(d, p)  BY <2>4
    <3>2. /\ UNCHANGED <<step, snapshot, wire, unmarked, pending, files, sent>>
          /\ sequence' = [sequence EXCEPT ![d] = @ + 1]
      BY <3>1 DEF Scan, session
    <3>3. \E info : entries' = [entries EXCEPT ![d][p] = info]
      BY <3>1 DEF Scan, Mesh!Delete, Mesh!Write, Mesh!Store
    <3>4. \A e \in Devices : e # d => entries'[e] = entries[e]  BY <3>3 DEF MeshShape, Mesh!TypeOK
    <3> QED  BY <3>2, <3>4, GrowthSays
  <2>5. ASSUME NEW t \in Tasks, Task(d, t)
        PROVE  Current'
    <3>1. CASE TimerFires(d)
      <4>1. UNCHANGED <<entries, sequence, sent, snapshot, unmarked, wire, pending, files>>
        BY <3>1 DEF TimerFires, mesh
      <4>2. SaidStays  BY <4>1 DEF SaidStays, LastSaid
      <4>3. \A e \in Devices, s \in Tasks :
              step'[e][s] \in {"encrypting", "writing"} => step[e][s] \in {"encrypting", "writing"}
        <5>1. PICK place \in {"receive", "send"} : step' = [step EXCEPT ![d]["timer"] = place]
          BY <3>1 DEF TimerFires
        <5>2. "timer" \in Tasks /\ place \in Places  BY <5>1 DEF Tasks, Places
        <5> QED  BY <5>1, <5>2, OneStep
      <4> QED  BY <4>1, <4>2, <4>3, CurrentStays
    <3>2. CASE ReceiveMoves(d, t)
      <4>1. UNCHANGED <<mesh, sequence, snapshot, wire, unmarked, sent>>  BY <3>2, ReceiveStep
      <4>2. SaidStays
        <5>1. CASE NextIndex(d)  BY <4>1, <5>1, NextIndexSays
        <5>2. CASE UNCHANGED <<files, pending>>  BY <4>1, <5>2 DEF SaidStays, LastSaid
        <5> QED  BY <3>2, <5>1, <5>2, ReceiveStep
      <4>3. \A e \in Devices, s \in Tasks :
              step'[e][s] \in {"encrypting", "writing"} => step[e][s] \in {"encrypting", "writing"}
        <5>1. CASE NextIndex(d)
          <6>1. /\ \A e \in Devices, s \in Tasks : e # d \/ s # "apply" => step'[e][s] = step[e][s]
                /\ step'[d]["apply"] \in {"idle", "receive"}
            BY <5>1, NextIndexTyped
          <6> QED  BY <6>1
        <5>2. CASE \/ step' = [step EXCEPT ![d][t] = "receiving"]
                   \/ step' = [step EXCEPT ![d][t] = "send"]
                   \/ step' = [step EXCEPT ![d][t] = "idle"]
          <6>1. PICK place \in {"receiving", "send", "idle"} : step' = [step EXCEPT ![d][t] = place]
            BY <5>2
          <6>2. place \in Places  BY <6>1 DEF Places
          <6> QED  BY <6>1, <6>2, OneStep
        <5> QED  BY <3>2, <5>1, <5>2, ReceiveStep
      <4> QED  BY <4>1, <4>2, <4>3, CurrentStays DEF mesh
    <3>3. CASE Sending(d, t)  BY <3>3, SendSays
    <3>4. CASE \E r \in batch[d][t] : InstallCopy(d, t, r) \/ InstallWinner(d, t, r)
      <4>1. PICK r \in batch[d][t] : InstallCopy(d, t, r) \/ InstallWinner(d, t, r)  BY <3>4
      <4>2. /\ UNCHANGED <<step, snapshot, wire, unmarked, pending, files, sent>>
            /\ sequence' = [sequence EXCEPT ![d] = @ + 1]
        BY <4>1 DEF InstallCopy, InstallWinner, Installed
      <4>3. \E p, info : entries' = [entries EXCEPT ![d][p] = info]
        BY <4>1 DEF InstallCopy, InstallWinner, Mesh!InstallConflictCopy, Mesh!ReceiveWinner, Mesh!Store
      <4>4. \A e \in Devices : e # d => entries'[e] = entries[e]  BY <4>3 DEF MeshShape, Mesh!TypeOK
      <4> QED  BY <4>2, <4>4, GrowthSays
    <3> QED  BY <2>5, <3>1, <3>2, <3>3, <3>4 DEF Task, Receiving, ReceiveMoves
  <2> QED  BY <1>3, <2>1, <2>2, <2>3, <2>4, <2>5 DEF Progress, Edited
<1> QED  BY <1>1, <1>2, <1>3 DEF Next

\* changedOnly of sendSharedFolderIndexes never keeps back an index that is not
\* on its way or at the peer, however the tasks of the session overtake each other,
\* encrypted or not.
THEOREM SentStaysCurrent == Spec => []SentIsCurrent
<1> DEFINE Inv == MeshShape /\ SessionShape /\ Queue /\ CopiesHad /\ Current
<1>1. Init => Inv  BY MeshInit, SessionInit, CopiesInit, CurrentInit
<1>2. Inv /\ [Next]_vars => Inv'  BY NextKeepsShape, NextKeepsCurrent
<1>3. Inv => SentIsCurrent
  <2> SUFFICES ASSUME Inv, NEW d \in Devices, sent[d] = sequence[d],
                      \A t \in Tasks : step[d][t] \notin {"encrypting", "writing"}
               PROVE  Records(d) \subseteq LastSaid(d)
    BY DEF SentIsCurrent
  <2>1. unmarked[d] \in Seq(Tasks)  BY DEF SessionShape
  <2>2. unmarked[d] = <<>>
    <3> SUFFICES ASSUME unmarked[d] # <<>>  PROVE FALSE  OBVIOUS
    <3>1. 1 \in DOMAIN unmarked[d] /\ unmarked[d][1] \in Tasks
      BY <2>1, EmptySeq, LenProperties
    <3> QED  BY <3>1 DEF Queue
  <2> QED  BY <2>2 DEF Current
<1> HIDE DEF Inv
<1> QED  BY <1>1, <1>2, <1>3, PTL DEF Spec

-----------------------------------------------------------------------------
(* What a device has said, it stands by.                                   *)

\* The record is in the index of e, or e has sent it, or is about to.
Says(e, r) ==
  \/ r \in Records(e)
  \/ \E t \in Tasks : r \in batch[Remote(e)][t]
  \/ r \in files[Remote(e)]
  \/ pending[Remote(e)] # NoFrame /\ r \in pending[Remote(e)]
  \/ \E i \in DOMAIN wire[e] : r \in wire[e][i]
  \/ \E t \in Tasks : step[e][t] = "encrypting" /\ r \in snapshot[e][t].records

HasCopy(e, p, c) == entries[e][ConflictPath(p, c)] # NoInfo

Reached(e, p, version) == entries[e][p] # NoInfo /\ DominatedBy(version, entries[e][p].version)

\* The index of e has not gone back behind the record, and the content, while no
\* user has given it up, is there or in a conflict copy, or the other device has
\* gone on as well.
StandsBy(e, r) ==
  /\ entries[e][r.path] # NoInfo
  /\ r.path \in Names =>
       /\ Reached(e, r.path, r.info.version)
       /\ r.info.content \in Contents \ superseded =>
            \/ entries[e][r.path].content = r.info.content
            \/ HasCopy(e, r.path, r.info.content)
            \/ Reached(Remote(e), r.path, r.info.version)

Vouching == \A e \in Devices : \A r \in Known : Says(e, r) => StandsBy(e, r)

NothingNew == \A e \in Devices, r \in Known : Says(e, r)' => Says(e, r)

(* Steps that leave the indexes alone say nothing that was not said.       *)
LEMMA SilenceVouches ==
  ASSUME Vouching, UNCHANGED mesh, NothingNew
  PROVE  Vouching'
<1>1. UNCHANGED <<entries, superseded>> /\ Known' = Known  BY SameKnown DEF mesh
<1>2. \A e \in Devices : \A r : StandsBy(e, r)' <=> StandsBy(e, r)
  BY <1>1 DEF StandsBy, HasCopy, Reached
<1> QED  BY <1>1, <1>2 DEF Vouching, NothingNew

(* The next index was waiting before it is taken.                          *)
LEMMA NextIndexNothingNew ==
  ASSUME SessionShape, NEW d \in Devices, NextIndex(d), UNCHANGED <<mesh, wire>>,
         \A e \in Devices, t \in Tasks : step'[e][t] = "encrypting" =>
           step[e][t] = "encrypting" /\ snapshot'[e][t] = snapshot[e][t]
  PROVE  NothingNew
<1>1. "apply" \in Tasks /\ UNCHANGED entries  BY DEF Tasks, mesh
<1>2. \A e \in Devices : /\ pending'[e] # NoFrame => pending'[e] = pending[e]
                         /\ \A r \in files'[e] : r \in files[e] \/ (pending[e] # NoFrame /\ r \in pending[e])
                         /\ \A t \in Tasks : \A r \in batch'[e][t] :
                              r \in batch[e][t] \/ (pending[e] # NoFrame /\ r \in pending[e])
  <2>1. CASE pending[d] = NoFrame
    <3>1. batch' = [batch EXCEPT ![d]["apply"] = {}] /\ UNCHANGED <<files, pending>>
      BY <2>1 DEF NextIndex
    <3> QED  BY <1>1, <3>1 DEF SessionShape
  <2>2. CASE pending[d] # NoFrame
    <3> DEFINE new == pending[d] \cup {r \in files[d] : \A n \in pending[d] : n.path # r.path}
    <3>1. /\ batch' = [batch EXCEPT ![d]["apply"] = pending[d]]
          /\ files' = [files EXCEPT ![d] = new]
          /\ pending' = [pending EXCEPT ![d] = NoFrame]
      BY <2>2 DEF NextIndex, HandleIndex
    <3>2. \A r \in new : r \in files[d] \/ r \in pending[d]  OBVIOUS
    <3> HIDE DEF new
    <3> QED  BY <1>1, <2>2, <3>1, <3>2 DEF SessionShape
  <2> QED  BY <2>1, <2>2
<1>3. \A e \in Devices : Records(e)' = Records(e)  BY <1>1 DEF Records
<1>4. UNCHANGED wire  OBVIOUS
<1> QED  BY <1>2, <1>3, <1>4, TheOther DEF NothingNew, Says

(* An index that arrives was on the wire.                                  *)
LEMMA DeliverNothingNew ==
  ASSUME SessionShape, NEW d \in Devices, Deliver(d)
  PROVE  NothingNew
<1> DEFINE frame == Head(wire[Remote(d)])
           new == frame \cup {r \in files[d] : \A n \in frame : n.path # r.path}
<1>1. /\ wire[Remote(d)] # <<>> /\ wire' = [wire EXCEPT ![Remote(d)] = Tail(wire[Remote(d)])]
      /\ UNCHANGED <<entries, snapshot>>
      /\ \/ /\ step' = [step EXCEPT ![d]["apply"] = "receive"]
            /\ batch' = [batch EXCEPT ![d]["apply"] = frame]
            /\ files' = [files EXCEPT ![d] = new] /\ UNCHANGED pending
         \/ pending' = [pending EXCEPT ![d] = frame] /\ UNCHANGED <<step, batch, files>>
  BY DEF Deliver, HandleIndex, mesh
<1>2. "apply" \in Tasks /\ "receive" \in Places /\ Remote(d) \in Devices  BY TheOther DEF Tasks, Places
<1>3. wire[Remote(d)] \in Seq(SUBSET Known)  BY <1>2 DEF SessionShape
<1>4. /\ 1 \in DOMAIN wire[Remote(d)] /\ frame = wire[Remote(d)][1]
      /\ \A i \in DOMAIN Tail(wire[Remote(d)]) :
           i + 1 \in DOMAIN wire[Remote(d)] /\ Tail(wire[Remote(d)])[i] = wire[Remote(d)][i + 1]
  <2>1. /\ Len(wire[Remote(d)]) \in Nat \ {0} /\ DOMAIN wire[Remote(d)] = 1..Len(wire[Remote(d)])
        /\ Len(Tail(wire[Remote(d)])) = Len(wire[Remote(d)]) - 1
        /\ DOMAIN Tail(wire[Remote(d)]) = 1..Len(Tail(wire[Remote(d)]))
        /\ \A i \in 1..Len(Tail(wire[Remote(d)])) : Tail(wire[Remote(d)])[i] = wire[Remote(d)][i + 1]
    BY <1>1, <1>3, HeadTailProperties, LenProperties
  <2> QED  BY <2>1
<1>5. \A r \in new : r \in files[d] \/ r \in frame  OBVIOUS
<1> HIDE DEF frame, new
<1>6. \A e \in Devices : e # d =>
        files'[e] = files[e] /\ pending'[e] = pending[e] /\ \A t \in Tasks : batch'[e][t] = batch[e][t]
  BY <1>1, <1>2 DEF SessionShape
<1>7. /\ \A r \in files'[d] : r \in files[d] \/ r \in frame
      /\ pending'[d] = pending[d] \/ pending'[d] = frame
      /\ \A t \in Tasks : \A r \in batch'[d][t] : r \in batch[d][t] \/ r \in frame
  <2>1. CASE batch' = [batch EXCEPT ![d]["apply"] = frame] /\ files' = [files EXCEPT ![d] = new]
             /\ UNCHANGED pending
    <3>1. files'[d] = new  BY <2>1 DEF SessionShape
    <3>2. \A t \in Tasks : batch'[d][t] = IF t = "apply" THEN frame ELSE batch[d][t]
      BY <1>2, <2>1 DEF SessionShape
    <3> QED  BY <1>5, <2>1, <3>1, <3>2
  <2>2. CASE pending' = [pending EXCEPT ![d] = frame] /\ UNCHANGED <<step, batch, files>>
    BY <2>2 DEF SessionShape
  <2> QED  BY <1>1, <2>1, <2>2
<1>8. \A e \in Devices : \A i \in DOMAIN wire'[e] : \E j \in DOMAIN wire[e] : wire'[e][i] = wire[e][j]
  BY <1>1, <1>2, <1>4 DEF SessionShape
<1>9. \A e \in Devices, t \in Tasks : step'[e][t] = "encrypting" => step[e][t] = "encrypting"
  <2>1. CASE step' = [step EXCEPT ![d]["apply"] = "receive"]  BY <1>2, <2>1, OneStep
  <2> QED  BY <1>1, <2>1
<1>10. \A e \in Devices : Records(e)' = Records(e)  BY <1>1 DEF Records
<1>11. SUFFICES ASSUME NEW e \in Devices, NEW r \in Known, Says(e, r)'
                PROVE  Says(e, r)
  BY DEF NothingNew
<1>12. \/ r \in Records(e)
       \/ \E t \in Tasks : r \in batch'[Remote(e)][t]
       \/ r \in files'[Remote(e)]
       \/ pending'[Remote(e)] # NoFrame /\ r \in pending'[Remote(e)]
       \/ \E i \in DOMAIN wire'[e] : r \in wire'[e][i]
       \/ \E t \in Tasks : step'[e][t] = "encrypting" /\ r \in snapshot[e][t].records
  BY <1>1, <1>10, <1>11 DEF Says
<1>13. CASE Remote(e) = d
  <2>1. e = Remote(d)  BY <1>13, TheOther
  <2>2. r \in frame => Says(e, r)  BY <1>4, <2>1 DEF Says
  <2> QED  BY <1>7, <1>8, <1>9, <1>12, <1>13, <2>2 DEF Says
<1>14. CASE Remote(e) # d
  BY <1>6, <1>8, <1>9, <1>12, <1>14, TheOther DEF Says
<1> QED  BY <1>13, <1>14

(* What a task has under way to encrypt it has scanned; what it writes is  *)
(* that, or the index as it is.                                            *)
LEMMA WriteNothingNew ==
  ASSUME SessionShape, NEW d \in Devices, NEW t \in Tasks, NEW scan, Write(d, t, scan),
         UNCHANGED <<mesh, batch, pending, files>>,
         \A r \in scan.records : Says(d, r)
  PROVE  NothingNew
<1>1. /\ \/ step' = [step EXCEPT ![d][t] = "idle"] /\ snapshot' = [snapshot EXCEPT ![d][t] = NoFrame]
         \/ step' = [step EXCEPT ![d][t] = "writing"] /\ snapshot' = [snapshot EXCEPT ![d][t] = scan]
      /\ \/ UNCHANGED wire
         \/ wire' = [wire EXCEPT ![d] = Append(wire[d], scan.records)]
  BY DEF Write
<1>2. \A e \in Devices, s \in Tasks : step'[e][s] = "encrypting" =>
        step[e][s] = "encrypting" /\ snapshot'[e][s] = snapshot[e][s]
  <2>1. \A e \in Devices, s \in Tasks : e # d \/ s # t =>
          step'[e][s] = step[e][s] /\ snapshot'[e][s] = snapshot[e][s]
    BY <1>1 DEF SessionShape
  <2>2. step'[d][t] # "encrypting"  BY <1>1 DEF SessionShape
  <2> QED  BY <2>1, <2>2
<1>3. \A e \in Devices : e # d => wire'[e] = wire[e]  BY <1>1 DEF SessionShape
<1>4. \A i \in DOMAIN wire'[d] :
        wire'[d][i] = scan.records \/ (i \in DOMAIN wire[d] /\ wire'[d][i] = wire[d][i])
  <2>1. CASE UNCHANGED wire  BY <2>1
  <2>2. CASE wire' = [wire EXCEPT ![d] = Append(wire[d], scan.records)]
    <3>1. wire[d] \in Seq(SUBSET Known) /\ wire'[d] = Append(wire[d], scan.records)
      BY <2>2 DEF SessionShape
    <3>2. Len(wire[d]) \in Nat /\ DOMAIN wire[d] = 1..Len(wire[d])
      BY <3>1, LenProperties
    <3>3. DOMAIN wire'[d] = 1..Len(wire[d]) + 1
      BY <3>1, <3>2
    <3>4. /\ \A i \in 1..Len(wire[d]) : wire'[d][i] = wire[d][i]
          /\ wire'[d][Len(wire[d]) + 1] = scan.records
      BY <3>1, <3>2
    <3>5. \A i \in 1..Len(wire[d]) + 1 : i \in 1..Len(wire[d]) \/ i = Len(wire[d]) + 1
      BY <3>2
    <3> QED  BY <3>2, <3>3, <3>4, <3>5
  <2> QED  BY <1>1, <2>1, <2>2
<1>5. \A e \in Devices : Records(e)' = Records(e)  BY DEF Records, mesh
<1>6. SUFFICES ASSUME NEW e \in Devices, NEW r \in Known, Says(e, r)'
               PROVE  Says(e, r)
  BY DEF NothingNew
<1>7. CASE \E i \in DOMAIN wire'[e] : r \in wire'[e][i]
  BY <1>3, <1>4, <1>7 DEF Says
<1>8. CASE \E s \in Tasks : step'[e][s] = "encrypting" /\ r \in snapshot'[e][s].records
  BY <1>2, <1>8 DEF Says
<1> QED  BY <1>5, <1>6, <1>7, <1>8 DEF Says

(* No step that leaves the indexes alone says anything new.                *)
LEMMA CalmNothingNew ==
  ASSUME MeshShape, SessionShape, Queue,
         NEW d \in Devices, NEW t \in Tasks,
         \/ Users(d) \/ Deliver(d) \/ MarkSent(d) \/ TimerFires(d)
         \/ ReceiveMoves(d, t) \/ Sending(d, t)
  PROVE  UNCHANGED mesh /\ NothingNew
<1>1. CASE Users(d)
  <2>1. UNCHANGED <<mesh, session>>  BY <1>1 DEF Users, UserWrites, UserDeletes
  <2> QED  BY <2>1 DEF mesh, session, NothingNew, Says, Records
<1>2. CASE Deliver(d)  BY <1>2, DeliverKeepsSession, DeliverNothingNew
<1>3. CASE TimerFires(d)
  <2>1. /\ UNCHANGED <<mesh, snapshot, wire, pending, files>>
        /\ \E place \in {"receive", "send"} : step' = [step EXCEPT ![d]["timer"] = place]
        /\ batch' = batch \/ batch' = [batch EXCEPT ![d]["timer"] = files[d]]
    BY <1>3 DEF TimerFires
  <2>2. "timer" \in Tasks  BY DEF Tasks
  <2>3. \A e \in Devices, s \in Tasks : step'[e][s] = "encrypting" => step[e][s] = "encrypting"
    BY <2>1, <2>2 DEF SessionShape
  <2>4. \A e \in Devices, s \in Tasks : batch'[e][s] = batch[e][s] \/ batch'[e][s] = files[e]
    <3>1. CASE batch' = batch  BY <3>1
    <3>2. CASE batch' = [batch EXCEPT ![d]["timer"] = files[d]]  BY <2>2, <3>2 DEF SessionShape
    <3> QED  BY <2>1, <3>1, <3>2
  <2>5. \A e \in Devices : Records(e)' = Records(e)  BY <2>1 DEF Records, mesh
  <2> QED  BY <2>1, <2>3, <2>4, <2>5, TheOther DEF NothingNew, Says
<1>4. CASE ReceiveMoves(d, t)
  <2>1. UNCHANGED <<mesh, snapshot, wire>>  BY <1>4, ReceiveStep
  <2>2. CASE t = "apply" /\ NextIndex(d)
    <3>1. \A e \in Devices, s \in Tasks : step'[e][s] = "encrypting" => step[e][s] = "encrypting"
      BY <2>2, NextIndexTyped
    <3> QED  BY <2>1, <2>2, <3>1, NextIndexNothingNew
  <2>3. CASE /\ UNCHANGED <<files, pending>>
             /\ \/ step' = [step EXCEPT ![d][t] = "receiving"]
                \/ step' = [step EXCEPT ![d][t] = "send"]
                \/ step' = [step EXCEPT ![d][t] = "idle"]
             /\ batch' = batch \/ batch' = [batch EXCEPT ![d][t] = {}]
    <3>1. \A e \in Devices, s \in Tasks : step'[e][s] = "encrypting" => step[e][s] = "encrypting"
      <4>1. PICK place \in {"receiving", "send", "idle"} : step' = [step EXCEPT ![d][t] = place]
        BY <2>3
      <4> QED  BY <4>1 DEF SessionShape
    <3>2. \A e \in Devices, s \in Tasks : batch'[e][s] = batch[e][s] \/ batch'[e][s] = {}
      <4>1. CASE batch' = batch  BY <4>1
      <4>2. CASE batch' = [batch EXCEPT ![d][t] = {}]  BY <4>2 DEF SessionShape
      <4> QED  BY <2>3, <4>1, <4>2
    <3>3. \A e \in Devices : Records(e)' = Records(e)  BY <2>1 DEF Records, mesh
    <3> QED  BY <2>1, <2>3, <3>1, <3>2, <3>3, TheOther DEF NothingNew, Says
  <2> QED  BY <1>4, <2>1, <2>2, <2>3, ReceiveStep
<1>5. CASE MarkSent(d)
  <2>1. PICK s \in Tasks : s = Head(unmarked[d])
    <3>1. unmarked[d] \in Seq(Tasks) /\ unmarked[d] # <<>>  BY <1>5 DEF SessionShape, MarkSent
    <3> QED  BY <3>1, HeadTailProperties
  <2>2. step[d][s] = "writing"
    <3>1. unmarked[d] \in Seq(Tasks) /\ unmarked[d] # <<>>  BY <1>5 DEF SessionShape, MarkSent
    <3>2. 1 \in DOMAIN unmarked[d] /\ s = unmarked[d][1]  BY <2>1, <3>1, HeadTailProperties, LenProperties
    <3> QED  BY <3>2 DEF Queue
  <2>3. /\ UNCHANGED <<mesh, wire>> /\ snapshot' = [snapshot EXCEPT ![d][s] = NoFrame]
        /\ \/ s = "apply" /\ NextIndex(d)
           \/ /\ step' = [step EXCEPT ![d][s] = "idle"] /\ UNCHANGED <<batch, files, pending>>
    BY <1>5, <2>1 DEF MarkSent
  <2>4. \A e \in Devices, u \in Tasks : e # d \/ u # s => snapshot'[e][u] = snapshot[e][u]
    BY <2>3 DEF SessionShape
  <2>5. CASE s = "apply" /\ NextIndex(d)
    <3>1. \A e \in Devices, u \in Tasks : step'[e][u] = "encrypting" =>
            step[e][u] = "encrypting" /\ snapshot'[e][u] = snapshot[e][u]
      BY <2>4, <2>5, NextIndexTyped
    <3> QED  BY <2>3, <2>5, <3>1, NextIndexNothingNew
  <2>6. CASE step' = [step EXCEPT ![d][s] = "idle"] /\ UNCHANGED <<batch, files, pending>>
    <3>1. \A e \in Devices, u \in Tasks : step'[e][u] = "encrypting" =>
            step[e][u] = "encrypting" /\ snapshot'[e][u] = snapshot[e][u]
      BY <2>4, <2>6 DEF SessionShape
    <3>2. \A e \in Devices : Records(e)' = Records(e)  BY <2>3 DEF Records, mesh
    <3> QED  BY <2>3, <2>6, <3>1, <3>2 DEF NothingNew, Says
  <2> QED  BY <2>3, <2>5, <2>6
<1>6. CASE Sending(d, t)
  <2> DEFINE scan == [sequence |-> sequence[d], records |-> Records(d)]
  <2>1. UNCHANGED <<mesh, batch, pending, files>>
    BY <1>6 DEF Sending, ScanForSend, WriteEncrypted
  <2>2. CASE WriteEncrypted(d, t)
    <3>1. step[d][t] = "encrypting" /\ Write(d, t, snapshot[d][t])  BY <2>2 DEF WriteEncrypted
    <3>2. \A r \in snapshot[d][t].records : Says(d, r)  BY <3>1 DEF Says
    <3> QED  BY <2>1, <3>1, <3>2, WriteNothingNew
  <2>3. \A r \in scan.records : Says(d, r)  BY DEF Says
  <2>4. CASE ScanForSend(d, t) /\ ~Encrypted
    <3>1. Write(d, t, scan)  BY <2>4 DEF ScanForSend
    <3> HIDE DEF scan
    <3> QED  BY <2>1, <2>3, <3>1, WriteNothingNew
  <2>5. CASE ScanForSend(d, t) /\ Encrypted
    <3>1. /\ step' = [step EXCEPT ![d][t] = "encrypting"] /\ UNCHANGED wire
          /\ snapshot' = [snapshot EXCEPT ![d][t] = scan]
      BY <2>5 DEF ScanForSend
    <3>2. scan.records = Records(d)  OBVIOUS
    <3> HIDE DEF scan
    <3>3. \A e \in Devices, s \in Tasks : step'[e][s] = "encrypting" =>
            \/ step[e][s] = "encrypting" /\ snapshot'[e][s] = snapshot[e][s]
            \/ e = d /\ snapshot'[e][s].records = Records(d)
      BY <3>1, <3>2 DEF SessionShape
    <3>4. \A e \in Devices : Records(e)' = Records(e)  BY <2>1 DEF Records, mesh
    <3> QED  BY <2>1, <3>1, <3>3, <3>4 DEF NothingNew, Says
  <2> QED  BY <1>6, <2>1, <2>2, <2>4, <2>5 DEF Sending
<1> QED  BY <1>1, <1>2, <1>3, <1>4, <1>5, <1>6

(* What succeeds a successor of a version succeeds the version.            *)
LEMMA DominanceChains ==
  \A u, v, w \in Vector : DominatedBy(u, v) /\ DominatedBy(v, w) => DominatedBy(u, w)
<1> SUFFICES ASSUME NEW u \in Vector, NEW v \in Vector, NEW w \in Vector,
                    DominatedBy(u, v), DominatedBy(v, w), NEW d \in Devices
             PROVE  u[d] <= w[d]
  BY DEF DominatedBy
<1>1. u[d] \in Nat /\ v[d] \in Nat /\ w[d] \in Nat  BY DEF Vector
<1>2. u[d] <= v[d] /\ v[d] <= w[d]  BY DEF DominatedBy
<1> QED  BY <1>1, <1>2

(* A record that is stored makes no device go back on what it has said, if *)
(* it continues the one it replaces, and the content it replaces is given  *)
(* up, in a conflict copy, or left behind by the other device too.         *)
LEMMA StoreVouches ==
  ASSUME MeshShape, Vouching, NEW d \in Devices, NEW p \in Paths, NEW info \in InfosAt(p),
         Mesh!Store(d, p, info), superseded \subseteq superseded',
         p \in Names /\ entries[d][p] # NoInfo => DominatedBy(entries[d][p].version, info.version),
         p \in Names /\ entries[d][p] # NoInfo =>
           \/ entries[d][p].content = info.content
           \/ entries[d][p].content \notin Contents \ superseded'
           \/ HasCopy(d, p, entries[d][p].content)
           \/ Reached(Remote(d), p, entries[d][p].version)
  PROVE  /\ \A e \in Devices : \A r \in Known : StandsBy(e, r) => StandsBy(e, r)'
         /\ \A e \in Devices : \A r \in Records(e)' : r \in Records(e) \/ StandsBy(e, r)'
         /\ \A r \in Known' : r \in Known \/ r \in Records(d)'
<1>1. \A e \in Devices, q \in Paths : entries'[e][q] = IF e = d /\ q = p THEN info ELSE entries[e][q]
  BY SameMerge DEF MeshShape, Mesh!TypeOK, Mesh!Store, Paths
<1>2. info # NoInfo /\ info \in FileInfo /\ info.version \in Vector
  BY NoInfoAssumption DEF InfosAt, FileInfo
<1>3. \A e \in Devices, q \in Paths : entries[e][q] # NoInfo =>
        entries[e][q] \in FileInfo /\ entries[e][q].version \in Vector
  BY EntryTyped DEF InfosAt, FileInfo
<1>4. \A u, v, w \in Vector : DominatedBy(u, v) /\ DominatedBy(v, w) => DominatedBy(u, w)
  BY DominanceChains
<1>5. ASSUME NEW e \in Devices, NEW q \in Paths, NEW v \in Vector, q \in Names, Reached(e, q, v)
      PROVE  Reached(e, q, v)'
  BY <1>1, <1>2, <1>3, <1>4, <1>5 DEF Reached
<1>6. ASSUME NEW e \in Devices, NEW r \in Known, StandsBy(e, r)
      PROVE  StandsBy(e, r)'
  <2>1. r.path \in Paths /\ r.info.version \in Vector  BY KnownTyped DEF InfosAt, FileInfo
  <2>2. entries'[e][r.path] # NoInfo  BY <1>1, <1>2, <1>6, <2>1 DEF StandsBy
  <2>3. CASE r.path \in Names
    <3>1. Reached(e, r.path, r.info.version)'  BY <1>5, <1>6, <2>1, <2>3 DEF StandsBy
    <3>2. ASSUME r.info.content \in Contents \ superseded'
          PROVE  \/ entries'[e][r.path].content = r.info.content
                 \/ HasCopy(e, r.path, r.info.content)'
                 \/ Reached(Remote(e), r.path, r.info.version)'
      <4>1. \/ entries[e][r.path].content = r.info.content
            \/ HasCopy(e, r.path, r.info.content)
            \/ Reached(Remote(e), r.path, r.info.version)
        BY <1>6, <2>3, <3>2 DEF StandsBy
      <4>2. ConflictPath(r.path, r.info.content) \in Paths  BY <2>3, <3>2, PathKinds
      <4>3. HasCopy(e, r.path, r.info.content) => HasCopy(e, r.path, r.info.content)'
        BY <1>1, <1>2, <4>2 DEF HasCopy
      <4>4. Reached(Remote(e), r.path, r.info.version) => Reached(Remote(e), r.path, r.info.version)'
        BY <1>5, <2>1, <2>3, TheOther
      <4>5. CASE entries[e][r.path].content = r.info.content /\ ~(e = d /\ r.path = p)
        BY <1>1, <2>1, <4>5
      <4>6. CASE entries[e][r.path].content = r.info.content /\ e = d /\ r.path = p
        <5>1. entries[d][p] # NoInfo /\ entries'[d][p] = info /\ p \in Names
          BY <1>1, <1>6, <2>3, <4>6 DEF StandsBy
        <5>2. CASE Reached(Remote(d), p, entries[d][p].version)
          <6>1. DominatedBy(r.info.version, entries[d][p].version)
            BY <1>6, <2>3, <4>6 DEF StandsBy, Reached
          <6>2. Reached(Remote(d), p, r.info.version)
            BY <1>3, <1>4, <2>1, <5>1, <5>2, <6>1, TheOther DEF Reached
          <6> QED  BY <4>4, <4>6, <6>2
        <5>3. CASE entries[d][p].content = info.content  BY <4>6, <5>1, <5>3
        <5>4. CASE HasCopy(d, p, entries[d][p].content)  BY <4>3, <4>6, <5>4
        <5> QED  BY <3>2, <4>6, <5>1, <5>2, <5>3, <5>4
      <4> QED  BY <4>1, <4>3, <4>4, <4>5, <4>6
    <3> QED  BY <2>2, <3>1, <3>2 DEF StandsBy
  <2>4. CASE r.path \notin Names  BY <2>2, <2>4 DEF StandsBy
  <2> QED  BY <2>3, <2>4
<1>7. ASSUME NEW e \in Devices, NEW r \in Records(e)', r \notin Records(e)
      PROVE  StandsBy(e, r)'
  <2>1. PICK q \in Paths : r = [path |-> q, info |-> entries'[e][q]] /\ entries'[e][q] # NoInfo
    BY DEF Records, Paths
  <2>2. e = d /\ q = p /\ r.path = p /\ r.info = info /\ entries'[e][p] = info
    BY <1>1, <1>7, <2>1 DEF Records, Paths
  <2>3. DominatedBy(info.version, info.version)  BY <1>2 DEF DominatedBy, Vector
  <2> QED  BY <1>2, <2>2, <2>3 DEF StandsBy, Reached
<1>8. ASSUME NEW r \in Known', r \notin Known
      PROVE  r \in Records(d)'
  <2>1. published' = published \cup {<<p, info>>}  BY DEF Mesh!Store
  <2>2. r = [path |-> p, info |-> info]  BY <1>8, <2>1 DEF Known
  <2> QED  BY <1>1, <1>2, <2>2 DEF Records, Paths
<1> QED  BY <1>6, <1>7, <1>8

(* What both devices have said before a record is stored, and that record, *)
(* is all they say after it.                                               *)
LEMMA GrowthVouches ==
  ASSUME MeshShape, SessionShape, Queue, Vouching, NEW d \in Devices, NEW p \in Paths, NEW info \in InfosAt(p),
         Mesh!Store(d, p, info), superseded \subseteq superseded',
         p \in Names /\ entries[d][p] # NoInfo => DominatedBy(entries[d][p].version, info.version),
         p \in Names /\ entries[d][p] # NoInfo =>
           \/ entries[d][p].content = info.content
           \/ entries[d][p].content \notin Contents \ superseded'
           \/ HasCopy(d, p, entries[d][p].content)
           \/ Reached(Remote(d), p, entries[d][p].version),
         UNCHANGED <<step, snapshot, wire, pending, files>>,
         \A e \in Devices, t \in Tasks : batch'[e][t] \subseteq batch[e][t]
  PROVE  Vouching'
<1>1. /\ \A e \in Devices : \A r \in Known : StandsBy(e, r) => StandsBy(e, r)'
      /\ \A e \in Devices : \A r \in Records(e)' : r \in Records(e) \/ StandsBy(e, r)'
  BY StoreVouches
<1>2. SUFFICES ASSUME NEW e \in Devices, NEW r \in Known', Says(e, r)', r \notin Records(e)'
               PROVE  StandsBy(e, r)'
  <2>1. ASSUME NEW e \in Devices, NEW r \in Known', r \in Records(e)'
        PROVE  StandsBy(e, r)'
    <3>1. CASE r \in Records(e)
      <4>1. r \in Known  BY <3>1, KnownTyped
      <4>2. Says(e, r)  BY <3>1 DEF Says
      <4> QED  BY <1>1, <4>1, <4>2 DEF Vouching
    <3> QED  BY <1>1, <2>1, <3>1
  <2> QED  BY <2>1 DEF Vouching
<1>3. Says(e, r)  BY <1>2, TheOther DEF Says
<1>4. r \in Known
  <2>1. r \in Records(e) => r \in Known  BY KnownTyped
  <2>2. \A i \in DOMAIN wire[e] : wire[e][i] \in SUBSET Known  BY DEF SessionShape
  <2>3. \A t \in Tasks : batch[Remote(e)][t] \in SUBSET Known  BY TheOther DEF SessionShape
  <2>4. /\ files[Remote(e)] \in SUBSET Known
        /\ pending[Remote(e)] # NoFrame => pending[Remote(e)] \in SUBSET Known
    BY TheOther DEF SessionShape
  <2>5. ASSUME NEW t \in Tasks, step[e][t] = "encrypting", r \in snapshot[e][t].records
        PROVE  r \in Known
    <3>1. snapshot[e][t] \in Scans  BY <2>5 DEF Queue
    <3> QED  BY <2>5, <3>1 DEF Scans
  <2> QED  BY <1>3, <2>1, <2>2, <2>3, <2>4, <2>5 DEF Says
<1> QED  BY <1>1, <1>3, <1>4 DEF Vouching

(* A user who writes or deletes continues the record he replaces, and gives *)
(* up its content.                                                         *)
LEMMA ScanVouches ==
  ASSUME MeshShape, SessionShape, Queue, Vouching, NEW d \in Devices, NEW p \in Edited, Scan(d, p)
  PROVE  Vouching'
<1> DEFINE old == entries[d][p]
           version == Mesh!PreviousVersion(old)
<1>1. p \in Paths /\ old \in InfosAt(p) \cup {NoInfo}  BY PathKinds, EntryTyped
<1>2. version \in Vector
  BY <1>1 DEF Mesh!PreviousVersion, Mesh!NoCounters, Vector, InfosAt, FileInfo
<1>3. /\ Mesh!advanceVersionVector(version, d) \in Vector
      /\ DominatedBy(version, Mesh!advanceVersionVector(version, d))
  BY <1>2, AdvancedVector DEF Mesh!advanceVersionVector, advanceVersionVector
<1>4. superseded' = superseded \cup Mesh!Replaced(old)
  BY DEF Scan, Mesh!Write, Mesh!Delete
<1>5. old # NoInfo => old.content \notin Contents \ superseded'
  <2>1. old # NoInfo /\ old.content \in Contents => old.content \in Mesh!Replaced(old)
    BY ContentsAssumption, SameMerge DEF Mesh!Replaced, Mesh!IsLive, IsDeleted
  <2> QED  BY <1>4, <2>1
<1>6. \E info \in InfosAt(p) :
        Mesh!Store(d, p, info) /\ (old # NoInfo => DominatedBy(old.version, info.version))
  <2>1. CASE disk[d][p] = NoFile
    <3> DEFINE info == [old EXCEPT !.content = Tombstone, !.version = Mesh!advanceVersionVector(@, d)]
    <3>1. Mesh!Delete(d, p)  BY <2>1 DEF Scan
    <3>2. old # NoInfo /\ Mesh!Store(d, p, info)  BY <3>1 DEF Mesh!Delete, Mesh!IsLive
    <3>3. version = old.version /\ old \in InfosAt(p)  BY <1>1, <3>2 DEF Mesh!PreviousVersion
    <3>4. info \in InfosAt(p) /\ info.version = Mesh!advanceVersionVector(version, d)
      BY <1>3, <3>3 DEF InfosAt, FileInfo
    <3> HIDE DEF info
    <3> QED  BY <1>3, <3>2, <3>3, <3>4
  <2>2. CASE disk[d][p] # NoFile
    <3> DEFINE info == [version |-> Mesh!advanceVersionVector(version, d),
                        content |-> disk[d][p].content, mtime |-> disk[d][p].mtime]
    <3>1. disk[d][p] \in File  BY <2>2 DEF SessionShape
    <3>2. disk[d][p].content \in Contents /\ disk[d][p].mtime \in Times  BY <3>1 DEF File
    <3>3. Mesh!Store(d, p, info)  BY <2>2 DEF Scan, Mesh!Write
    <3>4. info \in InfosAt(p) /\ info.version = Mesh!advanceVersionVector(version, d)
      BY <1>3, <3>2, ExchangeAssumption DEF InfosAt, FileInfo
    <3>5. old # NoInfo => version = old.version  BY DEF Mesh!PreviousVersion
    <3> HIDE DEF info, version
    <3> QED  BY <1>3, <3>3, <3>4, <3>5
  <2> QED  BY <2>1, <2>2
<1>7. UNCHANGED <<step, snapshot, wire, pending, files, batch>>  BY DEF Scan, session
<1> PICK info \in InfosAt(p) :
      Mesh!Store(d, p, info) /\ (old # NoInfo => DominatedBy(old.version, info.version))
  BY <1>6
<1>8. superseded \subseteq superseded'  BY <1>4
<1> QED  BY <1>1, <1>5, <1>7, <1>8, GrowthVouches

(* A merge continues both records; the local content it replaces is in a   *)
(* conflict copy by then, or the peer had gone on from it.                 *)
LEMMA InstallVouches ==
  ASSUME MeshShape, SessionShape, Queue, Vouching,
         NEW d \in Devices, NEW t \in Tasks, NEW r \in batch[d][t],
         InstallCopy(d, t, r) \/ InstallWinner(d, t, r)
  PROVE  Vouching'
<1> DEFINE p == r.path
           remote == r.info
           local == entries[d][p]
           plan == planReplicaMerge(local, remote)
<1>1. r \in Known  BY DEF SessionShape
<1>2. p \in Paths /\ remote \in InfosAt(p) /\ local \in InfosAt(p) \cup {NoInfo}
  BY <1>1, KnownTyped, EntryTyped
<1>3. /\ plan.winner \in InfosAt(p)
      /\ plan.conflict # NoInfo =>
           /\ p \in Edited /\ plan.conflict.content \in Contents
           /\ ConflictPath(p, plan.conflict.content) \in Paths
           /\ plan.conflict \in InfosAt(ConflictPath(p, plan.conflict.content))
  BY <1>2, Plans
<1>4. Mesh!Plan(d, p, remote) = plan  BY SameMerge DEF Mesh!Plan
<1>5. StandsBy(Remote(d), r)
  <2>1. Remote(d) \in Devices /\ Remote(Remote(d)) = d  BY TheOther
  <2>2. Says(Remote(d), r)  BY <2>1 DEF Says
  <2> QED  BY <1>1, <2>1, <2>2 DEF Vouching
<1>6. UNCHANGED <<step, snapshot, wire, pending, files, superseded>>
  BY DEF InstallCopy, InstallWinner, Installed, Mesh!InstallConflictCopy, Mesh!ReceiveWinner
<1>7. \A e \in Devices, s \in Tasks : batch'[e][s] \subseteq batch[e][s]
  <2>1. CASE batch' = batch  BY <2>1
  <2>2. CASE batch' = [batch EXCEPT ![d][t] = batch[d][t] \ {r}]  BY <2>2 DEF SessionShape
  <2> QED  BY <2>1, <2>2 DEF InstallCopy, InstallWinner
<1> HIDE DEF plan
<1>8. CASE InstallCopy(d, t, r)
  <2> DEFINE q == ConflictPath(p, plan.conflict.content)
  <2>1. Mesh!InstallConflictCopy(d, p, remote)  BY <1>8 DEF InstallCopy
  <2>2. plan.conflict # NoInfo /\ Mesh!Store(d, q, plan.conflict)
    BY <1>4, <2>1, SameMerge DEF Mesh!InstallConflictCopy, Mesh!NeedsConflictCopy
  <2>3. q \in Paths /\ q \notin Names /\ plan.conflict \in InfosAt(q)
    BY <1>3, <2>2, PathKinds
  <2> HIDE DEF q
  <2> QED  BY <1>6, <1>7, <2>2, <2>3, GrowthVouches
<1>9. CASE InstallWinner(d, t, r)
  <2>1. Mesh!ReceiveWinner(d, p, remote)  BY <1>9 DEF InstallWinner
  <2>2. /\ plan.action # "keep" /\ Mesh!Store(d, p, plan.winner)
        /\ ~Mesh!NeedsConflictCopy(d, p, remote)
    BY <1>4, <2>1 DEF Mesh!ReceiveWinner
  <2>3. plan.conflict # NoInfo => entries[d][ConflictPath(p, plan.conflict.content)] # NoInfo
    BY <1>4, <2>2, SameMerge DEF Mesh!NeedsConflictCopy
  <2>4. ASSUME p \in Names, local # NoInfo
        PROVE  /\ DominatedBy(local.version, plan.winner.version)
               /\ \/ local.content = plan.winner.content
                  \/ local.content \notin Contents \ superseded'
                  \/ HasCopy(d, p, local.content)
                  \/ Reached(Remote(d), p, local.version)
    <3>1. local \in FileInfo /\ remote \in FileInfo /\ local.version \in Vector /\ remote.version \in Vector
      BY <1>2, <2>4 DEF InfosAt, FileInfo
    <3>2. plan # Keep(local)  BY <2>2 DEF Keep
    <3>3. CASE plan = Receive(remote) /\ DominatedBy(local.version, remote.version)
      <4>1. Reached(Remote(d), p, remote.version)  BY <1>5, <2>4 DEF StandsBy
      <4>2. entries[Remote(d)][p].version \in Vector
        BY <1>2, <4>1, EntryTyped, TheOther DEF Reached, InfosAt, FileInfo
      <4>3. Reached(Remote(d), p, local.version)
        BY <3>1, <3>3, <4>1, <4>2, DominanceChains DEF Reached
      <4> QED  BY <3>3, <4>3 DEF Receive
    <3>4. CASE plan = MergeConcurrent(local, remote)
      <4> DEFINE merged == mergeVersionVectors(local.version, remote.version)
      <4>1. DominatedBy(local.version, merged)  BY <3>1, MergedVector
      <4> HIDE DEF merged
      <4>2. plan.winner.version = merged
        BY <3>1, <3>4, ConcurrentPlanTyped DEF merged
      <4>3. ASSUME local.content # plan.winner.content, local.content \in Contents
            PROVE  plan.conflict # NoInfo /\ plan.conflict.content = local.content
        <5>1. plan.winner = [remote EXCEPT !.version = merged] /\ local.content # remote.content
          BY <3>1, <3>4, <4>3 DEF MergeConcurrent, merged, FileInfo
        <5>2. ~(Rank(local, remote) >= 0)
          BY <3>1, <3>4, <4>3 DEF MergeConcurrent, merged, FileInfo
        <5>3. ~IsDeleted(local)  BY <4>3, ContentsAssumption DEF IsDeleted
        <5>4. plan.conflict = [local EXCEPT !.version = merged]
          BY <3>4, <5>1, <5>2, <5>3 DEF MergeConcurrent, merged
        <5>5. [local EXCEPT !.version = merged] \in FileInfo
              /\ [local EXCEPT !.version = merged].content = local.content
          BY <3>1, MergedVector DEF merged, FileInfo
        <5> QED  BY <5>4, <5>5, NoInfoAssumption
      <4> QED  BY <2>3, <4>1, <4>2, <4>3 DEF HasCopy
    <3> QED  BY <3>1, <3>2, <3>3, <3>4, PlanKinds DEF plan
  <2> HIDE DEF p, remote, local
  <2>5. local = entries[d][p]  BY DEF local
  <2> QED  BY <1>2, <1>3, <1>6, <1>7, <2>2, <2>4, <2>5, GrowthVouches
<1> QED  BY <1>8, <1>9

LEMMA VouchingInit == Init => Vouching
<1> SUFFICES ASSUME Init, NEW r \in Known PROVE FALSE  BY DEF Vouching
<1> QED  BY DEF Init, Mesh!Init, Known

LEMMA NextKeepsVouching ==
  ASSUME MeshShape, SessionShape, Queue, Vouching, [Next]_vars
  PROVE  Vouching'
<1>1. CASE UNCHANGED vars
  <2>1. UNCHANGED <<mesh, session>>  BY <1>1 DEF vars
  <2>2. NothingNew  BY <2>1 DEF mesh, session, NothingNew, Says, Records
  <2> QED  BY <2>1, <2>2, SilenceVouches
<1>2. CASE DropSession
  <2>1. /\ UNCHANGED mesh
        /\ \A e \in Devices : /\ wire'[e] = <<>> /\ pending'[e] = NoFrame /\ files'[e] = {}
                              /\ \A t \in Tasks : batch'[e][t] = {} /\ step'[e][t] # "encrypting"
    BY <1>2 DEF DropSession
  <2>2. \A e \in Devices : Records(e)' = Records(e) /\ DOMAIN wire'[e] = {}
    BY <2>1 DEF Records, mesh
  <2>3. NothingNew  BY <2>1, <2>2, TheOther DEF NothingNew, Says
  <2> QED  BY <2>1, <2>3, SilenceVouches
<1>3. ASSUME NEW d \in Devices, Users(d) \/ Progress(d) \/ \E t \in Tasks : Task(d, t)
      PROVE  Vouching'
  <2>1. CASE \E p \in Edited : Scan(d, p)  BY <2>1, ScanVouches
  <2>2. CASE Users(d) \/ Deliver(d) \/ MarkSent(d)
    <3>1. "apply" \in Tasks  BY DEF Tasks
    <3> QED  BY <2>2, <3>1, CalmNothingNew, SilenceVouches
  <2>3. ASSUME NEW t \in Tasks, Task(d, t)
        PROVE  Vouching'
    <3>1. CASE TimerFires(d) \/ ReceiveMoves(d, t) \/ Sending(d, t)
      BY <3>1, CalmNothingNew, SilenceVouches
    <3>2. CASE \E r \in batch[d][t] : InstallCopy(d, t, r) \/ InstallWinner(d, t, r)
      BY <3>2, InstallVouches
    <3> QED  BY <2>3, <3>1, <3>2 DEF Task, Receiving, ReceiveMoves
  <2> QED  BY <1>3, <2>1, <2>2, <2>3 DEF Progress, Edited
<1> QED  BY <1>1, <1>2, <1>3 DEF Next

\* Content that a receive wants at a name of the user's own (receiveReplicaFiles), that
\* no user has replaced or deleted on either device and whose merge is not refused, is
\* in the peer's index, at the name or as its conflict copy, where readReplicaBlock
\* finds it while the peer's files are as indexed: no merge at the peer, however the
\* tasks of the two sessions overtake each other, takes it away.
THEOREM WantedStaysServed == Spec => []WantedIsServed
<1> DEFINE Inv == MeshShape /\ SessionShape /\ Queue /\ CopiesHad /\ Vouching
<1>1. Init => Inv  BY MeshInit, SessionInit, CopiesInit, VouchingInit
<1>2. Inv /\ [Next]_vars => Inv'  BY NextKeepsShape, NextKeepsVouching
<1>3. Inv => WantedIsServed
  <2> SUFFICES ASSUME Inv, NEW d \in Devices, NEW t \in Tasks, NEW r \in batch[d][t],
                      NEW c \in Wanted(d, r) \ superseded,
                      \A p \in Edited : Indexed(Remote(d), p), r.path \in Names,
                      ~MergeRefused(entries[d][r.path], r.info)
               PROVE  Serves(Remote(d), r.path, c)
    BY DEF WantedIsServed, Edited
  <2> DEFINE p == r.path
             e == Remote(d)
             local == entries[d][p]
             plan == planReplicaMerge(local, r.info)
  <2>1. e \in Devices /\ Remote(e) = d  BY TheOther
  <2>2. r \in Known  BY DEF SessionShape
  <2>3. StandsBy(e, r)  BY <2>1, <2>2 DEF Vouching, Says
  <2>4. p \in Paths /\ r.info \in InfosAt(p) /\ local \in InfosAt(p) \cup {NoInfo}
    BY <2>2, KnownTyped, EntryTyped
  <2>5. \A q \in Paths : entries[e][q] \in InfosAt(q) \cup {NoInfo}  BY <2>1, EntryTyped
  <2>6. Mesh!Plan(d, p, r.info) = plan  BY SameMerge DEF Mesh!Plan
  <2>8. \A q \in Paths : entries[e][q] # NoInfo /\ entries[e][q].content = c /\ c \in Contents => Holds(e, q, c)
    BY ContentsAssumption, SameMerge DEF Holds, Mesh!IsLive, IsDeleted, Indexed, Edited
  <2> HIDE DEF plan
  <2>9. plan.action # "keep" /\ c = r.info.content /\ c \in Contents
    <3>1. plan.action # "keep"  BY <2>6 DEF Wanted
    <3>2. CASE Mesh!NeedsConflictCopy(d, p, r.info)
      <4>1. plan.source # "remote" /\ c = plan.conflict.content
        BY <2>6, <3>1, <3>2 DEF Wanted, Unless
      <4>2. plan.conflict # NoInfo  BY <2>6, <3>2 DEF Mesh!NeedsConflictCopy
      <4>3. local # NoInfo /\ local \in FileInfo /\ r.info \in FileInfo
        BY <2>4, <4>1 DEF plan, planReplicaMerge, Receive, InfosAt
      <4>4. plan = MergeConcurrent(local, r.info)
        BY <3>1, <4>1, <4>3, PlanKinds DEF plan, Keep, Receive
      <4>5. Rank(local, r.info) >= 0  BY <4>1, <4>4 DEF MergeConcurrent
      <4>6. plan.conflict = [r.info EXCEPT !.version = mergeVersionVectors(local.version, r.info.version)]
            /\ ~IsDeleted(r.info)
        BY <4>2, <4>4, <4>5 DEF MergeConcurrent
      <4> QED  BY <3>1, <4>1, <4>3, <4>6 DEF FileInfo, IsDeleted
    <3>3. CASE ~Mesh!NeedsConflictCopy(d, p, r.info)
      <4>1. plan.source # "local" /\ c = plan.winner.content /\ c # Tombstone
        BY <2>6, <3>1, <3>3 DEF Wanted, Unless
      <4>2. r.info \in FileInfo  BY <2>4 DEF InfosAt
      <4>3. plan.winner.content = r.info.content
        <5>1. CASE local = NoInfo  BY <5>1 DEF plan, planReplicaMerge, Receive
        <5>2. CASE local # NoInfo
          <6>1. local \in FileInfo  BY <2>4, <5>2 DEF InfosAt
          <6>2. plan = Receive(r.info) \/ plan = MergeConcurrent(local, r.info)
            BY <3>1, <4>2, <6>1, PlanKinds DEF plan, Keep
          <6> QED  BY <4>1, <4>2, <6>2 DEF Receive, MergeConcurrent, FileInfo
        <5> QED  BY <5>1, <5>2
      <4> QED  BY <3>1, <4>1, <4>2, <4>3 DEF FileInfo
    <3> QED  BY <3>2, <3>3
  <2>10. /\ p \in NamedAfter[p]
         /\ \A q \in Paths : q = ConflictPath(p, c) => q \in NamedAfter[p]
    BY <2>4, <2>9 DEF NamedAfter, CopiesOf, Paths
  <2>11. p \in Names  OBVIOUS
  <2> QED
    <3>1. ~Reached(d, p, r.info.version)
      <4> SUFFICES ASSUME Reached(d, p, r.info.version)  PROVE FALSE  OBVIOUS
      <4>1. local # NoInfo /\ DominatedBy(r.info.version, local.version)  BY DEF Reached
      <4>2. local \in FileInfo /\ r.info \in FileInfo  BY <2>4, <4>1 DEF InfosAt
      <4>3. plan = Keep(local)  BY <4>1, <4>2, PlanKinds DEF plan
      <4> QED  BY <2>9, <4>3 DEF Keep
    <3>2. ConflictPath(p, c) \in Paths /\ ConflictPath(p, c)[2] = c
      BY <2>9, <2>11, PathKinds
    <3>3. entries[e][p] # NoInfo /\ (entries[e][p].content = c \/ HasCopy(e, p, c))
      BY <2>1, <2>3, <2>9, <2>11, <3>1 DEF StandsBy
    <3>4. CASE entries[e][p].content = c
      BY <2>4, <2>8, <2>9, <2>10, <3>3, <3>4 DEF Serves
    <3>5. CASE HasCopy(e, p, c)
      <4>1. entries[e][ConflictPath(p, c)] # NoInfo  BY <3>5 DEF HasCopy
      <4>2. entries[e][ConflictPath(p, c)].content = c
        <5>1. CASE ConflictPath(p, c) \in Copies
          <6>1. <<ConflictPath(p, c), entries[e][ConflictPath(p, c)]>> \in published
            BY <2>1, <3>2, <4>1 DEF MeshShape
          <6>2. CopyHolds(ConflictPath(p, c), entries[e][ConflictPath(p, c)], superseded)
            BY <5>1, <6>1 DEF MeshShape
          <6> QED  BY <3>2, <6>2 DEF CopyHolds
        <5>2. CASE ConflictPath(p, c) \notin Copies
          <6>1. ConflictPath(p, c) \notin Edited  BY <2>9, <2>11, <5>2, PathKinds
          <6> QED  BY <2>5, <3>2, <4>1, <6>1 DEF InfosAt
        <5> QED  BY <5>1, <5>2
      <4>3. Holds(e, ConflictPath(p, c), c)  BY <2>8, <2>9, <3>2, <4>1, <4>2
      <4> QED  BY <2>10, <3>2, <4>3 DEF Serves
    <3> QED  BY <3>3, <3>4, <3>5
<1> HIDE DEF Inv
<1> QED  BY <1>1, <1>2, <1>3, PTL DEF Spec

-----------------------------------------------------------------------------
(* What is proved of the mesh holds of the two indexes.                    *)

MeshProofs == INSTANCE ReplicaMeshProofs WITH Times <- [c \in Contents |-> Times]

(* The mesh of the proofs is the mesh the sessions implement: its records, *)
(* its plans and its steps.                                                *)
LEMMA SameRecords ==
  /\ MeshProofs!FileInfo = Mesh!FileInfo /\ MeshProofs!Paths = Mesh!Paths
  /\ \A d, p, info : MeshProofs!Store(d, p, info) <=> Mesh!Store(d, p, info)
  /\ \A info : /\ MeshProofs!IsLive(info) <=> Mesh!IsLive(info)
               /\ MeshProofs!PreviousVersion(info) = Mesh!PreviousVersion(info)
               /\ MeshProofs!Replaced(info) = Mesh!Replaced(info)
  BY DEF MeshProofs!FileInfo, Mesh!FileInfo, MeshProofs!Vector, Mesh!Vector, MeshProofs!Paths, Mesh!Paths,
         MeshProofs!Edited, Mesh!Edited,
         MeshProofs!ConflictPath, Mesh!ConflictPath, MeshProofs!Store, Mesh!Store,
         MeshProofs!IsLive, Mesh!IsLive, MeshProofs!IsDeleted, Mesh!IsDeleted,
         MeshProofs!PreviousVersion, Mesh!PreviousVersion, MeshProofs!NoCounters, Mesh!NoCounters,
         MeshProofs!Replaced, Mesh!Replaced

LEMMA SamePlans ==
  /\ \A local, remote :
       /\ MeshProofs!planReplicaMerge(local, remote) = Mesh!planReplicaMerge(local, remote)
       /\ MeshProofs!MergeRefused(local, remote) <=> Mesh!MergeRefused(local, remote)
  /\ \A d, p, remote :
       /\ MeshProofs!Plan(d, p, remote) = Mesh!Plan(d, p, remote)
       /\ MeshProofs!NeedsConflictCopy(d, p, remote) <=> Mesh!NeedsConflictCopy(d, p, remote)
<1>1. ASSUME NEW local, NEW remote
      PROVE  /\ MeshProofs!planReplicaMerge(local, remote) = Mesh!planReplicaMerge(local, remote)
             /\ MeshProofs!MergeRefused(local, remote) <=> Mesh!MergeRefused(local, remote)
  <2>1. MeshProofs!compareVersionVectors(local.version, remote.version)
          = Mesh!compareVersionVectors(local.version, remote.version)
    BY DEF MeshProofs!compareVersionVectors, Mesh!compareVersionVectors,
           MeshProofs!DominatedBy, Mesh!DominatedBy
  <2>2. MeshProofs!Rank(local, remote) = Mesh!Rank(local, remote)
    BY DEF MeshProofs!Rank, Mesh!Rank, MeshProofs!IsDeleted, Mesh!IsDeleted,
           MeshProofs!compareConcurrentVersionCounters, Mesh!compareConcurrentVersionCounters,
           MeshProofs!Differing, Mesh!Differing, MeshProofs!Least, Mesh!Least
  <2>3. MeshProofs!mergeVersionVectors(local.version, remote.version)
          = Mesh!mergeVersionVectors(local.version, remote.version)
    BY DEF MeshProofs!mergeVersionVectors, Mesh!mergeVersionVectors
  <2>4. MeshProofs!MergeConcurrent(local, remote) = Mesh!MergeConcurrent(local, remote)
    BY <2>2, <2>3 DEF MeshProofs!MergeConcurrent, Mesh!MergeConcurrent, MeshProofs!IsDeleted, Mesh!IsDeleted
  <2>5. MeshProofs!planReplicaMerge(local, remote) = Mesh!planReplicaMerge(local, remote)
    BY <2>1, <2>4 DEF MeshProofs!planReplicaMerge, Mesh!planReplicaMerge, MeshProofs!Keep, Mesh!Keep,
                      MeshProofs!Receive, Mesh!Receive
  <2> QED
    BY <2>5 DEF MeshProofs!MergeRefused, Mesh!MergeRefused, MeshProofs!NoCounters, Mesh!NoCounters
<1>2. \A d, p, remote : MeshProofs!Plan(d, p, remote) = Mesh!Plan(d, p, remote)
  BY <1>1 DEF MeshProofs!Plan, Mesh!Plan
<1>3. ASSUME NEW d, NEW p, NEW remote
      PROVE  MeshProofs!NeedsConflictCopy(d, p, remote) <=> Mesh!NeedsConflictCopy(d, p, remote)
  BY <1>1, <1>2 DEF MeshProofs!NeedsConflictCopy, Mesh!NeedsConflictCopy,
                    MeshProofs!ConflictPath, Mesh!ConflictPath
<1> QED  BY <1>1, <1>2, <1>3

LEMMA SameSteps == (Mesh!Init => MeshProofs!Init) /\ ([Mesh!Next]_mesh => [MeshProofs!Next]_(MeshProofs!vars))
<1>1. Mesh!Init => MeshProofs!Init
  BY SameRecords DEF Mesh!Init, MeshProofs!Init
<1>2. ASSUME NEW d, NEW p, NEW c, NEW time, Mesh!Write(d, p, c, time)
      PROVE  MeshProofs!Write(d, p, c, time)
  <2>1. MeshProofs!PlausibleTime(d, p, time)
    BY DEF MeshProofs!PlausibleTime, ClocksAgree
  <2>2. MeshProofs!advanceVersionVector(Mesh!PreviousVersion(entries[d][p]), d)
          = Mesh!advanceVersionVector(Mesh!PreviousVersion(entries[d][p]), d)
    BY DEF Mesh!advanceVersionVector, MeshProofs!advanceVersionVector
  <2> QED
    BY <1>2, <2>1, <2>2, SameRecords
    DEF Mesh!Write, MeshProofs!Write, Mesh!CanAdvance, MeshProofs!CanAdvance
<1>3. ASSUME NEW d, NEW p, Mesh!Delete(d, p)  PROVE MeshProofs!Delete(d, p)
  BY <1>3, SameRecords
  DEF Mesh!Delete, MeshProofs!Delete, Mesh!CanAdvance, MeshProofs!CanAdvance,
      Mesh!advanceVersionVector, MeshProofs!advanceVersionVector
<1>4. ASSUME NEW d, NEW p, NEW remote, Mesh!InstallConflictCopy(d, p, remote)
      PROVE  MeshProofs!InstallConflictCopy(d, p, remote)
  BY <1>4, SameRecords, SamePlans
  DEF Mesh!InstallConflictCopy, MeshProofs!InstallConflictCopy, Mesh!ConflictPath, MeshProofs!ConflictPath
<1>5. ASSUME NEW d, NEW p, NEW remote, Mesh!ReceiveWinner(d, p, remote)
      PROVE  MeshProofs!ReceiveWinner(d, p, remote)
  BY <1>5, SameRecords, SamePlans DEF Mesh!ReceiveWinner, MeshProofs!ReceiveWinner
<1>6. ASSUME NEW d \in Devices, Mesh!UserEdit(d)  PROVE MeshProofs!UserEdit(d)
  BY <1>2, <1>3, <1>6 DEF Mesh!UserEdit, MeshProofs!UserEdit
<1>7. ASSUME NEW d \in Devices, Mesh!Merge(d)  PROVE MeshProofs!Merge(d)
  BY <1>4, <1>5, <1>7 DEF Mesh!Merge, MeshProofs!Merge
<1>8. Mesh!Next => MeshProofs!Next
  BY <1>6, <1>7 DEF Mesh!Next, MeshProofs!Next
<1>9. UNCHANGED mesh => UNCHANGED MeshProofs!vars  BY DEF mesh, MeshProofs!vars
<1> QED  BY <1>1, <1>8, <1>9

(* The constants of the exchange are constants of a mesh.                  *)
LEMMA MeshConstants ==
  /\ MeshProofs!MeshAssumption /\ MeshProofs!ContentsAssumption /\ MeshProofs!NoInfoAssumption
  /\ MeshProofs!DevicesAssumption /\ MeshProofs!MaxCounterAssumption
<1>1. MeshProofs!MeshAssumption
  BY ExchangeAssumption DEF MeshProofs!MeshAssumption, MeshProofs!Edited, Mesh!Edited, Editors, ClocksAgree
<1>2. MeshProofs!ContentsAssumption  BY ContentsAssumption DEF MeshProofs!ContentsAssumption
<1>3. MeshProofs!NoInfoAssumption
  BY NoInfoAssumption DEF MeshProofs!NoInfoAssumption, MeshProofs!FileInfo, MeshProofs!Vector, FileInfo, Vector
<1>4. MeshProofs!DevicesAssumption  BY DevicesAssumption DEF MeshProofs!DevicesAssumption
<1>5. MeshProofs!MaxCounterAssumption  BY MaxCounterAssumption DEF MeshProofs!MaxCounterAssumption
<1> QED  BY <1>1, <1>2, <1>3, <1>4, <1>5

(* The mesh's inductive invariant holds of the two indexes.                *)
LEMMA MeshInvariant == Spec => [](MeshProofs!IInv)
<1> DEFINE Inv == MeshShape /\ SessionShape /\ Queue /\ CopiesHad /\ MeshProofs!IInv
<1>1. Init => Inv
  <2>1. Init => MeshProofs!Init  BY SameSteps DEF Init
  <2>2. MeshProofs!Init => MeshProofs!IInv  BY MeshProofs!InitInv, MeshConstants
  <2> QED  BY <2>1, <2>2, MeshInit, SessionInit, CopiesInit
<1>2. Inv /\ [Next]_vars => Inv'
  <2>1. MeshProofs!IInv /\ [MeshProofs!Next]_(MeshProofs!vars) => MeshProofs!IInv'
    BY MeshProofs!NextInv, MeshConstants
  <2> QED  BY <2>1, NextKeepsShape, SameSteps
<1> QED  BY <1>1, <1>2, PTL DEF Spec

\* Two sessions lose no content a user saved under a name and nobody gave up, there or
\* in a conflict copy of it, whatever the order their tasks run in and the frames
\* arrive (BepSession over receiveReplicaFiles), and though users edit and delete
\* conflict copies as well.
THEOREM SessionsLoseNothing == Spec => []Mesh!NoSavedContentLost
<1>1. MeshProofs!IInv => MeshProofs!NoSavedContentLost
  BY MeshProofs!InvKeepsContent, MeshConstants
<1>2. MeshProofs!NoSavedContentLost => Mesh!NoSavedContentLost
  BY SameRecords DEF MeshProofs!NoSavedContentLost, Mesh!NoSavedContentLost
<1> QED  BY <1>1, <1>2, MeshInvariant, PTL

\* No task of either session takes a path back to a version the device has left behind,
\* but for a conflict copy that a merge installs again with the content it is named
\* after (receiveReplicaFiles).
THEOREM SessionsForgetNothing == Spec => Mesh!HistoryNeverForgotten
<1> DEFINE Kept ==
      \A d \in Devices, p \in Mesh!Paths :
        entries[d][p] # NoInfo =>
          \/ Mesh!DominatedBy(entries[d][p].version, entries'[d][p].version)
          \/ p \notin Names /\ entries'[d][p].content = p[2]
<1>1. MeshProofs!Grows => Kept
  BY SameRecords DEF MeshProofs!Grows, MeshProofs!DominatedBy, Mesh!DominatedBy
<1> HIDE DEF Kept
<1>2. MeshShape /\ SessionShape /\ Queue /\ CopiesHad /\ MeshProofs!IInv /\ MeshProofs!IInv' /\ [Next]_vars
        => [Kept]_(Mesh!vars)
  <2>1. MeshProofs!IInv /\ MeshProofs!IInv' /\ [MeshProofs!Next]_(MeshProofs!vars)
          => [MeshProofs!Grows]_(MeshProofs!vars)
    BY MeshProofs!NextGrows, MeshConstants
  <2>2. UNCHANGED MeshProofs!vars => UNCHANGED Mesh!vars  BY DEF MeshProofs!vars, Mesh!vars
  <2> QED  BY <1>1, <2>1, <2>2, NextKeepsShape, SameSteps
<1>3. Spec => [](MeshShape /\ SessionShape /\ Queue /\ CopiesHad)
  <2>1. Init => MeshShape /\ SessionShape /\ Queue /\ CopiesHad  BY MeshInit, SessionInit, CopiesInit
  <2>2. MeshShape /\ SessionShape /\ Queue /\ CopiesHad /\ [Next]_vars => (MeshShape /\ SessionShape /\ Queue /\ CopiesHad)'
    BY NextKeepsShape
  <2> QED  BY <2>1, <2>2, PTL DEF Spec
<1>4. Spec => [][Kept]_(Mesh!vars)
  BY <1>2, <1>3, MeshInvariant, PTL DEF Spec
<1> QED  BY <1>4 DEF Kept, Mesh!HistoryNeverForgotten
=============================================================================
