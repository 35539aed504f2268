------------------------- MODULE FolderReplicaProofs -------------------------
(***************************************************************************)
(* What holds of one device's replica for every set of names, contents and *)
(* times, wherever its transactions are cut off: types, the history of the *)
(* index, the meaning of revisions, that no saved content is lost, and     *)
(* what an edit of a file with a name of the users' replaces.              *)
(***************************************************************************)
EXTENDS FolderReplica, ReplicaMergeProofs, FiniteSetTheorems

-----------------------------------------------------------------------------
(* The ranges of the variables.  A conflict copy has the content its path  *)
(* is named after, as long as users leave it alone: then it needs no copy.  *)

InfosAt(p) == {i \in FileInfo : p \notin Edited => i.content \in {p[2], Tombstone}}
FilesAt(p) == {f \in File : f.revision # Deleted /\ (p \notin Edited => f.content = p[2])}

IsRecord(r) == r.path \in Paths /\ r.info \in InfosAt(r.path)
IsEntry(e, p) == e \in Entry /\ e.info \in InfosAt(p)
IsFolder(files) ==
  files \in [Paths -> File \cup {NoFile}] /\ \A p \in Paths : files[p] # NoFile => files[p] \in FilesAt(p)
AreEarlier(files) ==
  /\ files \in [Paths -> SUBSET (File \cup {NoFile})]
  /\ \A p \in Paths : IsFiniteSet(files[p]) /\ \A f \in files[p] : f # NoFile => f \in FilesAt(p)
IsEntries(entries) ==
  entries \in [Paths -> Entry \cup {NoInfo}] /\ \A p \in Paths : entries[p] # NoInfo => IsEntry(entries[p], p)
IsIndex(idx) ==
  /\ idx = [files |-> idx.files, pending |-> idx.pending]
  /\ IsEntries(idx.files)
  /\ idx.pending # NoInfo => IsRecord(idx.pending)

Scans == {"listed", "hashed", "flushedPending"}
Installs == {"chosen", "staged", "archived", "doomed", "journaled", "checked", "replaced", "flushed"}

Folder ==
  /\ IsFolder(disk) /\ AreEarlier(older) /\ IsFolder(listing)
  /\ IsIndex(index) /\ IsIndex(memory)
  /\ archived \subseteq Contents

Transaction ==
  /\ step \in {"idle", "ready"} \cup Scans \cup Installs
  /\ \A r \in todo : IsRecord(r)
  /\ step \in Installs => IsRecord(work)
  /\ kind = "edit" => draft # NoInfo
  /\ step = "listed" => \A p \in Paths \ Edited : disk[p] = listing[p]

Others ==
  /\ draft # NoInfo => draft \in Draft /\ draft.content \in used \cup {Tombstone}
  /\ peer \in [Paths -> FileInfo \cup {NoInfo}]
  /\ \A p \in Paths : peer[p] # NoInfo => peer[p] \in InfosAt(p)
  /\ saved \subseteq used /\ used \subseteq Contents
  /\ authored \in [Names -> Nat]

Shape == Folder /\ Transaction /\ Others

-----------------------------------------------------------------------------
(* One record of a path succeeds another: it is not older, and as long as  *)
(* the version is the same, so is the content.                             *)

Follows(old, new) ==
  new # NoInfo /\ DominatedBy(old.version, new.version) /\ (new.version = old.version => new.content = old.content)

Succeeds(old, new) == old = NoInfo \/ Follows(old, new)

(* A version ahead of one that is ahead is ahead.                          *)
LEMMA DominanceTransitive ==
  ASSUME NEW u \in Vector, NEW v \in Vector, NEW w \in Vector, DominatedBy(u, v), DominatedBy(v, w)
  PROVE  DominatedBy(u, w)
<1>1. ASSUME NEW d \in Devices  PROVE u[d] <= w[d]
  <2>1. u[d] \in Nat /\ v[d] \in Nat /\ w[d] \in Nat  BY DEF Vector
  <2>2. u[d] <= v[d] /\ v[d] <= w[d]  BY DEF DominatedBy
  <2> QED  BY <2>1, <2>2
<1> QED  BY <1>1 DEF DominatedBy

(* A record succeeds itself, and what succeeds a successor.                *)
LEMMA Succession ==
  ASSUME NEW old, old.version \in Vector
  PROVE  /\ old # NoInfo => Follows(old, old)
         /\ \A mid, new : Follows(old, mid) /\ Succeeds(mid, new)
                           /\ mid.version \in Vector /\ (new # NoInfo => new.version \in Vector)
              => Follows(old, new)
<1>1. old # NoInfo => Follows(old, old)  BY DEF Follows, DominatedBy, Vector
<1>2. ASSUME NEW mid, NEW new, Follows(old, mid), Follows(mid, new),
             mid.version \in Vector, new.version \in Vector
      PROVE  Follows(old, new)
  <2>1. DominatedBy(old.version, mid.version) /\ DominatedBy(mid.version, new.version)  BY <1>2 DEF Follows
  <2>2. DominatedBy(old.version, new.version)  BY <1>2, <2>1, DominanceTransitive
  <2>3. new.version = old.version => mid.version = old.version  BY <1>2, <2>1, MutualDominance
  <2> QED  BY <1>2, <2>2, <2>3 DEF Follows
<1> QED  BY <1>1, <1>2 DEF Succeeds, Follows

-----------------------------------------------------------------------------
(* Paths, records and plans                                                *)

(* A path is one that users change or the path of a conflict copy, which   *)
(* gives its content.                                                       *)
LEMMA PathKinds ==
  /\ Edited \subseteq Paths /\ Names \subseteq Edited /\ Names \subseteq Paths
  /\ \A p \in Edited, c \in Contents :
       ConflictPath(p, c) \in Paths /\ ConflictPath(p, c) \notin Names /\ ConflictPath(p, c)[2] = c
  /\ \A p \in Paths \ Edited : p[2] \in Contents
<1>1. Edited \subseteq Paths /\ Names \subseteq Edited  BY DEF Paths, Edited
<1>2. ASSUME NEW p \in Edited, NEW c \in Contents
      PROVE  ConflictPath(p, c) \in Paths /\ ConflictPath(p, c) \notin Names /\ ConflictPath(p, c)[2] = c
  <2>1. ConflictPath(p, c) \in Paths  BY DEF Paths
  <2>2. <<p, c>> \in Edited \X Contents  OBVIOUS
  <2> QED  BY <2>1, <2>2, FolderAssumption DEF ConflictPath
<1>3. ASSUME NEW p \in Paths \ Edited  PROVE p[2] \in Contents
  BY DEF Paths, ConflictPath
<1> QED  BY <1>1, <1>2, <1>3

(* What a plan for a path returns are records for it, and its winner       *)
(* succeeds the local one; a conflict copy is only made of a path that     *)
(* users change, and has its record.                                       *)
LEMMA Plans ==
  ASSUME NEW p \in Paths, NEW local, local # NoInfo => local \in InfosAt(p),
         NEW remote \in InfosAt(p)
  PROVE  LET plan == planReplicaMerge(local, remote)
         IN  /\ plan.winner \in InfosAt(p)
             /\ Succeeds(local, plan.winner)
             /\ plan.source = "local" => local # NoInfo /\ plan.winner.content = local.content
             /\ plan.conflict # NoInfo =>
                  /\ p \in Edited /\ plan.conflict.content \in Contents
                  /\ ConflictPath(p, plan.conflict.content) \in Paths
                  /\ plan.conflict \in InfosAt(ConflictPath(p, plan.conflict.content))
<1> DEFINE plan == planReplicaMerge(local, remote)
<1>0. remote \in FileInfo /\ remote # NoInfo  BY NoInfoAssumption DEF InfosAt
<1>1. CASE local = NoInfo
  <2>1. plan = Receive(remote)  BY <1>1 DEF planReplicaMerge
  <2> QED  BY <1>1, <2>1 DEF Receive, Succeeds
<1>2. CASE local # NoInfo
  <2> DEFINE merged == mergeVersionVectors(local.version, remote.version)
  <2>1. local \in InfosAt(p) /\ local \in FileInfo  BY <1>2 DEF InfosAt
  <2>2. local.version \in Vector /\ remote.version \in Vector  BY <1>0, <2>1 DEF FileInfo
  <2>3. Succeeds(local, local)  BY <1>2, <2>2, Succession DEF Succeeds
  <2>4. CASE plan = Keep(local)
    BY <1>2, <2>1, <2>3, <2>4 DEF Keep
  <2>5. CASE /\ plan = Receive(remote)
             /\ DominatedBy(local.version, remote.version) /\ ~DominatedBy(remote.version, local.version)
    <3>1. Succeeds(local, remote)  BY <1>0, <2>5 DEF Succeeds, Follows
    <3> QED  BY <1>0, <1>2, <2>1, <2>5, <3>1 DEF Receive
  <2>6. CASE plan = MergeConcurrent(local, remote) /\ ~DominatedBy(remote.version, local.version)
    <3>1. merged \in Vector /\ DominatedBy(local.version, merged) /\ merged # local.version
      BY <2>2, <2>6, MergedVector
    <3> HIDE DEF merged
    <3>2. ASSUME NEW i \in InfosAt(p)
          PROVE  /\ [i EXCEPT !.version = merged] \in InfosAt(p)
                 /\ [i EXCEPT !.version = merged].version = merged
                 /\ [i EXCEPT !.version = merged].content = i.content
      BY <3>1 DEF InfosAt, FileInfo
    <3>3. plan.winner \in {[local EXCEPT !.version = merged], [remote EXCEPT !.version = merged]}
      BY <2>6 DEF MergeConcurrent, merged
    <3>4. plan.source = "local" => plan.winner = [local EXCEPT !.version = merged]
      BY <2>6 DEF MergeConcurrent, merged
    <3>5. plan.conflict # NoInfo =>
            /\ local.content # remote.content
            /\ \/ /\ plan.conflict = [remote EXCEPT !.version = merged] /\ ~IsDeleted(remote)
                  /\ Rank(local, remote) >= 0
               \/ /\ plan.conflict = [local EXCEPT !.version = merged] /\ ~IsDeleted(local)
                  /\ ~(Rank(local, remote) >= 0)
      BY <2>6 DEF MergeConcurrent, merged
    <3>6. ASSUME plan.conflict # NoInfo
          PROVE  plan.conflict \in InfosAt(p) /\ plan.conflict.content \in Contents
      BY <3>5, <3>6, <3>2, <2>1 DEF InfosAt, FileInfo, IsDeleted
    <3>7. ASSUME plan.conflict # NoInfo
          PROVE  p \in Edited
      <4>1. SUFFICES ASSUME p \notin Edited PROVE FALSE  OBVIOUS
      <4>2. local.content \in {p[2], Tombstone} /\ remote.content \in {p[2], Tombstone}
        BY <4>1, <2>1 DEF InfosAt
      <4>3. CASE IsDeleted(local) /\ ~IsDeleted(remote)
        BY <4>3, <3>5, <3>7 DEF Rank, IsDeleted
      <4>4. CASE ~IsDeleted(local) /\ IsDeleted(remote)
        BY <4>4, <3>5, <3>7 DEF Rank, IsDeleted
      <4> QED  BY <4>2, <4>3, <4>4, <3>5, <3>7 DEF IsDeleted
    <3>8. ASSUME plan.conflict # NoInfo
          PROVE  /\ ConflictPath(p, plan.conflict.content) \in Paths
                 /\ plan.conflict \in InfosAt(ConflictPath(p, plan.conflict.content))
      BY <3>6, <3>7, <3>8, PathKinds DEF InfosAt
    <3>9. plan.winner \in InfosAt(p) /\ plan.winner.version = merged
      BY <3>2, <3>3, <2>1
    <3>10. Succeeds(local, plan.winner)
      BY <3>1, <3>9, NoInfoAssumption DEF Succeeds, Follows, InfosAt
    <3> QED  BY <1>2, <2>1, <3>2, <3>4, <3>6, <3>7, <3>8, <3>9, <3>10
  <2> QED  BY <1>0, <2>1, <2>4, <2>5, <2>6, PlanKinds
<1> QED  BY <1>1, <1>2

-----------------------------------------------------------------------------
(* Revisions                                                               *)

(* There are finitely many paths.                                          *)
LEMMA PathsFinite == IsFiniteSet(Paths)
<1>1. Paths = Edited \cup (Edited \X Contents)  BY DEF Paths, ConflictPath
<1>2. IsFiniteSet(Names \X Contents)  BY FolderAssumption, FS_Product
<1>3. IsFiniteSet(Copies)  BY <1>2, FolderAssumption, FS_Subset
<1>4. IsFiniteSet(Edited)  BY <1>3, FolderAssumption, FS_Union DEF Edited
<1>5. IsFiniteSet(Edited \X Contents)  BY <1>4, FolderAssumption, FS_Product
<1> QED  BY <1>1, <1>4, <1>5, FS_Union

(* A folder has finitely many revisions.                                   *)
LEMMA RevisionsFinite ==
  ASSUME NEW files, IsFolder(files)
  PROVE  IsFiniteSet(Revisions(files)) /\ \A p \in Paths : RevisionOf(files[p]) \in Revisions(files)
<1> DEFINE f == [p \in Paths |-> RevisionOf(files[p])]
<1>1. f \in Surjection(Paths, Revisions(files))  BY DEF Surjection, Revisions
<1> QED  BY <1>1, PathsFinite, FS_Surjection DEF Revisions

(* So has an index.                                                        *)
LEMMA EntryRevisionsFinite ==
  ASSUME NEW idx
  PROVE  /\ IsFiniteSet(EntryRevisions(idx))
         /\ \A p \in Paths : idx.files[p] # NoInfo => idx.files[p].revision \in EntryRevisions(idx)
<1> DEFINE S == {q \in Paths : idx.files[q] # NoInfo}
           f == [p \in S |-> idx.files[p].revision]
<1>1. IsFiniteSet(S)  BY PathsFinite, FS_Subset
<1>2. f \in Surjection(S, EntryRevisions(idx))  BY DEF Surjection, EntryRevisions
<1> QED  BY <1>1, <1>2, FS_Surjection DEF EntryRevisions

(* So have the files that a loss of power may bring back.                  *)
LEMMA OlderFinite ==
  ASSUME AreEarlier(older)
  PROVE  IsFiniteSet(OlderRevisions) /\ \A p \in Paths : \A f \in older[p] : RevisionOf(f) \in OlderRevisions
<1> DEFINE sets == {older[p] : p \in Paths}
           files == UNION sets
           g == [p \in Paths |-> older[p]]
           h == [f \in files |-> RevisionOf(f)]
<1>1. g \in Surjection(Paths, sets)  BY DEF Surjection
<1>2. IsFiniteSet(sets)  BY <1>1, PathsFinite, FS_Surjection
<1>3. \A s \in sets : IsFiniteSet(s)  BY DEF AreEarlier
<1>4. IsFiniteSet(files)
  <2> HIDE DEF sets
  <2> QED  BY <1>2, <1>3, FS_UNION
<1>5. h \in Surjection(files, OlderRevisions)  BY DEF Surjection, OlderRevisions
<1>6. IsFiniteSet(OlderRevisions)  BY <1>4, <1>5, FS_Surjection
<1> QED  BY <1>6 DEF OlderRevisions

(* The least member of a set of naturals is in it.                         *)
LEMMA LeastNatural ==
  ASSUME NEW S \in SUBSET Nat, S # {}
  PROVE  Least(S) \in S
<1>1. IsWellFoundedOn(OpToRel(<, Nat), Nat)  BY NatLessThanWellFounded
<1>2. PICK x \in S : \A y \in S : ~(<<y, x>> \in OpToRel(<, Nat))  BY <1>1, WFMin
<1>3. ASSUME NEW y \in S  PROVE x <= y
  <2>1. ~(y < x)  BY <1>2 DEF OpToRel
  <2> QED  BY <2>1
<1> QED  BY <1>3 DEF Least

(* The revision of a new file is one that nothing remembers.               *)
LEMMA NewRevision ==
  ASSUME Folder
  PROVE  /\ FreshRevision \in Nat /\ FreshRevision # Deleted
         /\ \A p \in Paths :
              /\ \A files \in {disk, listing} : RevisionOf(files[p]) # FreshRevision
              /\ \A f \in older[p] : RevisionOf(f) # FreshRevision
              /\ \A idx \in {index, memory} :
                   idx.files[p] # NoInfo => idx.files[p].revision # FreshRevision
<1> DEFINE known == {Deleted} \cup Revisions(disk) \cup OlderRevisions \cup Revisions(listing)
                              \cup EntryRevisions(index) \cup EntryRevisions(memory)
           n == Cardinality(known)
           free == (0 .. n) \ known
<1>1. IsFiniteSet(known)
  <2>1. IsFiniteSet({Deleted})  BY FS_Singleton
  <2>2. IsFiniteSet({Deleted} \cup Revisions(disk))  BY <2>1, RevisionsFinite, FS_Union DEF Folder
  <2>3. IsFiniteSet({Deleted} \cup Revisions(disk) \cup OlderRevisions)
    BY <2>2, OlderFinite, FS_Union DEF Folder
  <2>4. IsFiniteSet({Deleted} \cup Revisions(disk) \cup OlderRevisions \cup Revisions(listing))
    BY <2>3, RevisionsFinite, FS_Union DEF Folder
  <2>5. IsFiniteSet({Deleted} \cup Revisions(disk) \cup OlderRevisions \cup Revisions(listing)
                    \cup EntryRevisions(index))
    BY <2>4, EntryRevisionsFinite, FS_Union
  <2> QED  BY <2>5, EntryRevisionsFinite, FS_Union
<1>2. n \in Nat  BY <1>1, FS_CardinalityType
<1> HIDE DEF known, n
<1>3. IsFiniteSet(0 .. n) /\ Cardinality(0 .. n) = n + 1  BY <1>2, FS_Interval
<1>4. free # {}
  <2>1. SUFFICES ASSUME (0 .. n) \subseteq known PROVE FALSE  BY DEF free
  <2>2. Cardinality(0 .. n) <= Cardinality(known)  BY <2>1, <1>1, FS_Subset
  <2> QED  BY <2>2, <1>2, <1>3 DEF n
<1>5. free \in SUBSET Nat  BY <1>2
<1>6. FreshRevision = Least(free)  BY DEF FreshRevision, known, n
<1>7. FreshRevision \in free  BY <1>4, <1>5, <1>6, LeastNatural
<1>8. FreshRevision \in Nat /\ FreshRevision \notin known  BY <1>5, <1>7
<1> QED  BY <1>8, RevisionsFinite, OlderFinite, EntryRevisionsFinite DEF known, Folder

-----------------------------------------------------------------------------
(* Types: what a step looks up and what it stores                          *)

(* The record an index has of a path.                                      *)
LEMMA Infos ==
  ASSUME NEW idx, IsIndex(idx), NEW p \in Paths
  PROVE  /\ InfoAt(idx, p) = NoInfo <=> idx.files[p] = NoInfo
         /\ InfoAt(idx, p) # NoInfo =>
              InfoAt(idx, p) \in InfosAt(p) /\ InfoAt(idx, p) = idx.files[p].info
                /\ idx.files[p].revision \in Nat
  BY NoInfoAssumption DEF InfoAt, IsIndex, IsEntries, IsEntry, InfosAt, Entry

(* The record at hand, where it goes and what is installed there.          *)
LEMMA AtHand ==
  ASSUME Folder, IsRecord(work)
  PROVE  /\ Target \in Paths /\ Install \in InfosAt(Target)
         /\ work.path \in Paths /\ Plan.winner \in InfosAt(work.path)
         /\ Plan.source = "local" =>
              /\ InfoAt(memory, work.path) # NoInfo
              /\ Plan.winner.content = InfoAt(memory, work.path).content
         /\ Succeeds(InfoAt(memory, work.path), Plan.winner)
         /\ Target \in Names => Target = work.path /\ Install = Plan.winner /\ ~InstallsCopy
         /\ [path |-> Target, info |-> Install] # NoInfo => IsRecord([path |-> Target, info |-> Install])
<1>1. work.path \in Paths /\ work.info \in InfosAt(work.path)  BY DEF IsRecord
<1>2. InfoAt(memory, work.path) # NoInfo => InfoAt(memory, work.path) \in InfosAt(work.path)
  BY <1>1, Infos DEF Folder
<1>3. /\ Plan.winner \in InfosAt(work.path)
      /\ Succeeds(InfoAt(memory, work.path), Plan.winner)
      /\ Plan.source = "local" =>
           /\ InfoAt(memory, work.path) # NoInfo
           /\ Plan.winner.content = InfoAt(memory, work.path).content
      /\ Plan.conflict # NoInfo =>
           /\ work.path \in Edited /\ Plan.conflict.content \in Contents
           /\ ConflictPath(work.path, Plan.conflict.content) \in Paths
           /\ Plan.conflict \in InfosAt(ConflictPath(work.path, Plan.conflict.content))
  BY <1>1, <1>2, Plans DEF Plan
<1>4. CASE InstallsCopy
  <2>1. /\ Target = ConflictPath(work.path, Plan.conflict.content) /\ Install = Plan.conflict
        /\ Plan.conflict # NoInfo
    BY <1>4 DEF Target, Install, InstallsCopy
  <2> QED  BY <1>1, <1>3, <2>1, PathKinds DEF IsRecord
<1>5. CASE ~InstallsCopy
  <2>1. Target = work.path /\ Install = Plan.winner  BY <1>5 DEF Target, Install
  <2> QED  BY <1>1, <1>3, <1>5, <2>1 DEF IsRecord
<1> QED  BY <1>4, <1>5

(* As long as the entries and the record at hand stay, so does the plan.   *)
LEMMA SamePlan ==
  ASSUME memory'.files = memory.files, work' = work
  PROVE  /\ Plan' = Plan /\ InstallsCopy' = InstallsCopy
         /\ Target' = Target /\ Install' = Install /\ FromDisk' = FromDisk
         /\ \A p : InfoAt(memory, p)' = InfoAt(memory, p)
  BY DEF Plan, InstallsCopy, Target, Install, FromDisk, InfoAt, CopyIsNeeded

(* A file and its listing of the same revision are both there or not.      *)
LEMMA SameRevision ==
  ASSUME NEW f, NEW g, IsFolder(f), IsFolder(g), NEW p \in Paths, RevisionOf(f[p]) = RevisionOf(g[p])
  PROVE  /\ f[p] = NoFile <=> g[p] = NoFile
         /\ f[p] # NoFile => /\ f[p] \in FilesAt(p) /\ g[p] \in FilesAt(p)
                             /\ f[p].revision = g[p].revision
  BY DEF IsFolder, RevisionOf, FilesAt

(* What a scan reads is a content of the path: where users write nothing   *)
(* the file is the listed one.                                             *)
LEMMA Reading ==
  ASSUME Shape, step = "listed", NEW p \in Paths, NEW c \in Read(p), c # NoFile
  PROVE  c \in Contents /\ (p \notin Edited => c = p[2]) /\ listing[p] \in FilesAt(p) /\ disk[p] \in FilesAt(p)
<1>1. listing[p] # NoFile /\ disk[p] # NoFile  BY DEF Read
<1>2. listing[p] \in FilesAt(p) /\ disk[p] \in FilesAt(p)  BY <1>1 DEF Shape, Folder, IsFolder
<1>3. CASE disk[p].revision = listing[p].revision
  <2>1. c = disk[p].content  BY <1>1, <1>3 DEF Read
  <2> QED  BY <1>2, <2>1 DEF FilesAt, File
<1>4. CASE disk[p].revision # listing[p].revision
  <2>1. c \in Contents  BY <1>1, <1>4 DEF Read
  <2>2. p \in Edited  BY <1>4 DEF Shape, Transaction
  <2> QED  BY <1>2, <2>1, <2>2
<1> QED  BY <1>3, <1>4

(* One entry of an index is changed.                                       *)
LEMMA OneEntry ==
  ASSUME NEW entries, IsEntries(entries), NEW p \in Paths, NEW e, IsEntry(e, p)
  PROVE  IsEntries([entries EXCEPT ![p] = e])
  BY DEF IsEntries, IsEntry

(* A pending update that reached the disk is recovered as an entry.        *)
LEMMA RecoveredTyped ==
  ASSUME Folder, memory.pending # NoInfo, NEW c
  PROVE  IsEntries(Recovered(memory.pending, c))
<1> DEFINE update == memory.pending
           e == [revision |-> RevisionOf(listing[update.path]), info |-> update.info]
<1>1. IsRecord(update) /\ IsEntries(memory.files)  BY DEF Folder, IsIndex
<1>2. RevisionOf(listing[update.path]) \in Nat
  BY <1>1 DEF IsRecord, Folder, IsFolder, File, RevisionOf, Deleted
<1>3. IsEntry(e, update.path)  BY <1>1, <1>2 DEF IsRecord, IsEntry, Entry, InfosAt
<1>4. IsEntries([memory.files EXCEPT ![update.path] = e])  BY <1>1, <1>3, OneEntry DEF IsRecord
<1> QED  BY <1>1, <1>4 DEF Recovered

(* The entry of a file that was read is one of its path.                   *)
LEMMA ReadTyped ==
  ASSUME Folder, NEW p \in Paths, listing[p] \in FilesAt(p), NEW c \in Contents, p \notin Edited => c = p[2]
  PROVE  IsEntry(ReadEntry(p, c), p)
<1> DEFINE version == advanceVersionVector(PreviousVersion(InfoAt(memory, p)), Self)
           info == [content |-> c, mtime |-> listing[p].mtime, version |-> version]
<1>1. PreviousVersion(InfoAt(memory, p)) \in Vector
  BY Infos DEF Folder, PreviousVersion, NoCounters, Vector, InfosAt, FileInfo
<1>2. version \in Vector  BY <1>1, AdvancedVector, FolderAssumption
<1>3. ReadEntry(p, c) = [revision |-> listing[p].revision, info |-> info]  BY DEF ReadEntry
<1>4. listing[p].revision \in Nat /\ listing[p].mtime \in Nat  BY DEF FilesAt, File
<1> HIDE DEF version
<1>5. info \in InfosAt(p)  BY <1>2, <1>4 DEF InfosAt, FileInfo
<1> QED  BY <1>3, <1>4, <1>5 DEF IsEntry, Entry, InfosAt

(* The entry of a missing file.                                            *)
LEMMA MissingTyped ==
  ASSUME Folder, NEW p \in Paths
  PROVE  MissingEntry(p) # NoInfo => IsEntry(MissingEntry(p), p)
<1> DEFINE old == memory.files[p]
           version == advanceVersionVector(old.info.version, Self)
           info == [old.info EXCEPT !.content = Tombstone, !.version = version]
<1>1. old # NoInfo => IsEntry(old, p)  BY DEF Folder, IsIndex, IsEntries
<1>2. CASE listing[p] = NoFile /\ IsLive(InfoAt(memory, p))
  <2>1. old # NoInfo /\ old.info \in FileInfo /\ old.info \in InfosAt(p) /\ old.info.version \in Vector
    BY <1>1, <1>2 DEF IsLive, InfoAt, IsEntry, InfosAt, FileInfo
  <2>2. version \in Vector  BY <2>1, AdvancedVector, FolderAssumption
  <2>3. MissingEntry(p) = [revision |-> Deleted, info |-> info]
    BY <1>2, <2>1 DEF MissingEntry, FileInfo
  <2> HIDE DEF version
  <2>4. info \in InfosAt(p) /\ info \in FileInfo  BY <2>1, <2>2 DEF InfosAt, FileInfo
  <2> QED  BY <2>3, <2>4 DEF IsEntry, Entry, Deleted
<1>3. CASE ~(listing[p] = NoFile /\ IsLive(InfoAt(memory, p)))
  BY <1>1, <1>3 DEF MissingEntry
<1> QED  BY <1>2, <1>3

-----------------------------------------------------------------------------
(* Types: every step keeps them                                            *)

(* An empty folder and an empty index are in their ranges.                 *)
LEMMA EmptyTyped ==
  IsIndex(EmptyIndex) /\ IsFolder([p \in Paths |-> NoFile]) /\ AreEarlier([p \in Paths |-> {}])
  BY FS_EmptySet DEF IsIndex, EmptyIndex, IsEntries, IsFolder, AreEarlier

(* In the beginning all is empty.                                          *)
LEMMA ShapeInit == Init => Shape
  BY EmptyTyped DEF Init, Shape, Folder, Transaction, Others, Scans, Installs

(* A transaction may end anywhere.                                         *)
LEMMA EndingKeepsShape ==
  ASSUME EndTransaction, IsFolder(disk'), AreEarlier(older'), IsIndex(index'), archived' \subseteq Contents
  PROVE  Folder' /\ Transaction'
  BY EmptyTyped DEF EndTransaction, Folder, Transaction, Scans, Installs

(* One path of a folder is changed.                                        *)
LEMMA OneFile ==
  ASSUME NEW files, IsFolder(files), NEW p \in Paths, NEW f, f # NoFile => f \in FilesAt(p)
  PROVE  IsFolder([files EXCEPT ![p] = f])
  BY DEF IsFolder, FilesAt

(* One more file may come back at a path, or none any more.                *)
LEMMA OneEarlier ==
  ASSUME NEW files, AreEarlier(files), NEW p \in Paths, NEW f, f # NoFile => f \in FilesAt(p)
  PROVE  /\ AreEarlier([files EXCEPT ![p] = @ \cup {f}])
         /\ AreEarlier([files EXCEPT ![p] = {}])
<1>1. IsFiniteSet(files[p] \cup {f}) /\ IsFiniteSet({})
  BY FS_AddElement, FS_EmptySet DEF AreEarlier
<1>2. f \in File \cup {NoFile}  BY DEF FilesAt
<1>3. ASSUME NEW s, s = files[p] \cup {f} \/ s = {}
      PROVE  AreEarlier([files EXCEPT ![p] = s])
  <2>1. IsFiniteSet(s) /\ s \in SUBSET (File \cup {NoFile}) /\ \A g \in s : g # NoFile => g \in FilesAt(p)
    BY <1>1, <1>2, <1>3 DEF AreEarlier
  <2> QED  BY <2>1 DEF AreEarlier
<1> QED  BY <1>3

(* The steps of a scan.                                                    *)
LEMMA ScanKeepsShape ==
  ASSUME Shape, \/ \E k \in {"scan", "receive", "edit"} : BeginScan(k) /\ (k = "edit" => draft # NoInfo)
                \/ RecoverPending \/ (\E p \in Paths : HashFile(p)) \/ FinishScan \/ FlushPending
  PROVE  Shape'
<1>1. CASE \E k \in {"scan", "receive", "edit"} : BeginScan(k) /\ (k = "edit" => draft # NoInfo)
  BY <1>1 DEF BeginScan, Idle, Shape, Folder, Transaction, Others, Scans, Installs, folder, users
<1>2. CASE RecoverPending
  <2>1. PICK c : memory' = [files |-> Recovered(memory.pending, c), pending |-> NoInfo]
    BY <1>2 DEF RecoverPending
  <2>2. IsEntries(Recovered(memory.pending, c))  BY <1>2, RecoveredTyped DEF RecoverPending, Shape
  <2>3. IsIndex(memory')  BY <2>1, <2>2 DEF IsIndex
  <2> QED  BY <1>2, <2>3 DEF RecoverPending, Shape, Folder, Transaction, Others, Scans, Installs, folder, users
<1>3. ASSUME NEW p \in Paths, HashFile(p)
      PROVE  Shape'
  <2>0. UNCHANGED <<folder, draft, peer, users>> /\ step = "listed"  BY <1>3 DEF HashFile
  <2>1. PICK c \in Read(p) : IF c = NoFile THEN EndTransaction
                             ELSE /\ memory' = [memory EXCEPT !.files[p] = ReadEntry(p, c)]
                                  /\ UNCHANGED <<step, kind, listing, todo, work>>
    BY <1>3 DEF HashFile
  <2>2. CASE c = NoFile
    <3>1. Folder' /\ Transaction'  BY <2>0, <2>1, <2>2, EndingKeepsShape DEF Shape, Folder, folder
    <3> QED  BY <2>0, <3>1 DEF Shape, Others, users
  <2>3. CASE c # NoFile
    <3>1. IsEntry(ReadEntry(p, c), p)  BY <2>0, <2>3, Reading, ReadTyped DEF Shape
    <3> HIDE DEF ReadEntry
    <3>2. memory = [files |-> memory.files, pending |-> memory.pending]  BY DEF Shape, Folder, IsIndex
    <3>3. memory' = [files |-> [memory.files EXCEPT ![p] = ReadEntry(p, c)], pending |-> memory.pending]
      BY <2>1, <2>3, <3>2
    <3>4. IsEntries([memory.files EXCEPT ![p] = ReadEntry(p, c)])
      BY <3>1, OneEntry DEF Shape, Folder, IsIndex
    <3>5. IsIndex(memory')  BY <3>3, <3>4 DEF IsIndex, Shape, Folder
    <3> QED  BY <2>0, <2>1, <2>3, <3>5 DEF Shape, Folder, Transaction, Others, Scans, Installs, folder, users
  <2> QED  BY <2>2, <2>3
<1>4. CASE FinishScan
  <2>1. CASE ~FolderUnchanged
    <3>1. EndTransaction /\ UNCHANGED <<folder, draft, peer, users>>  BY <1>4, <2>1 DEF FinishScan
    <3>2. Folder' /\ Transaction'  BY <3>1, EndingKeepsShape DEF Shape, Folder, folder
    <3> QED  BY <3>1, <3>2 DEF Shape, Others, users
  <2>2. CASE FolderUnchanged
    <3>1. /\ memory' = [memory EXCEPT !.files = [p \in Paths |-> MissingEntry(p)]]
          /\ step' = "hashed" /\ UNCHANGED <<folder, draft, peer, users, kind, listing, todo, work>>
      BY <1>4, <2>2 DEF FinishScan
    <3>2. \A p \in Paths : MissingEntry(p) # NoInfo => IsEntry(MissingEntry(p), p)
      BY MissingTyped DEF Shape
    <3>3. memory' = [files |-> [p \in Paths |-> MissingEntry(p)], pending |-> memory.pending]
      BY <3>1 DEF Shape, Folder, IsIndex
    <3>4. IsIndex(memory')  BY <3>2, <3>3 DEF IsIndex, IsEntries, IsEntry, Shape, Folder
    <3> QED  BY <3>1, <3>4 DEF Shape, Folder, Transaction, Others, Scans, Installs, folder, users
  <2> QED  BY <2>1, <2>2
<1>5. CASE FlushPending
  <2>1. AreEarlier(older')
    <3>1. CASE index.pending = NoInfo  BY <1>5, <3>1 DEF FlushPending, Shape, Folder
    <3>2. CASE index.pending # NoInfo
      <4>1. index.pending.path \in Paths  BY <3>2 DEF Shape, Folder, IsIndex, IsRecord
      <4> QED  BY <1>5, <3>2, <4>1, OneEarlier DEF FlushPending, Shape, Folder
    <3> QED  BY <3>1, <3>2
  <2> QED  BY <1>5, <2>1 DEF FlushPending, Shape, Folder, Transaction, Others, Scans, Installs, users
<1> QED  BY <1>1, <1>2, <1>3, <1>4, <1>5

(* What a receive or an edit has to go through are records.                *)
LEMMA SaveScanKeepsShape ==
  ASSUME Shape, SaveScan
  PROVE  Shape'
<1> USE DEF Shape
<1>0. IsIndex(index') /\ UNCHANGED <<disk, older, archived, peer, users>>
  BY DEF SaveScan, Folder
<1>1. CASE kind = "receive"
  <2>1. \A r \in todo' : IsRecord(r)  BY <1>1 DEF SaveScan, PeerRecords, Others, IsRecord
  <2> QED  BY <1>0, <1>1, <2>1 DEF SaveScan, Folder, Transaction, Others, Scans, Installs, users
<1>2. CASE kind = "edit" /\ DraftIsCurrent
  <2>1. draft \in Draft  BY <1>2 DEF Transaction, Others
  <2>2. /\ draft.path \in Edited /\ draft.path \in Paths /\ draft.content \in Contents \cup {Tombstone}
        /\ draft.mtime \in Nat
    BY <2>1, PathKinds DEF Draft
  <2>3. PreviousVersion(InfoAt(memory, draft.path)) \in Vector
    BY <2>2, Infos DEF Folder, PreviousVersion, NoCounters, Vector, InfosAt, FileInfo
  <2>4. advanceVersionVector(PreviousVersion(InfoAt(memory, draft.path)), Self) \in Vector
    BY <2>3, AdvancedVector, FolderAssumption
  <2>5. EditRecord \in InfosAt(draft.path)  BY <2>2, <2>4 DEF EditRecord, InfosAt, FileInfo
  <2>6. todo' = {[path |-> draft.path, info |-> EditRecord]}  BY <1>2 DEF SaveScan
  <2>7. \A r \in todo' : IsRecord(r)  BY <2>2, <2>5, <2>6 DEF IsRecord
  <2> QED  BY <1>0, <1>2, <2>7 DEF SaveScan, Folder, Transaction, Others, Scans, Installs, users
<1>3. CASE kind # "receive" /\ ~(kind = "edit" /\ DraftIsCurrent)
  <2>1. EndTransaction /\ draft' \in {draft, NoInfo}  BY <1>3 DEF SaveScan
  <2>2. Folder' /\ Transaction'  BY <1>0, <2>1, EndingKeepsShape DEF Folder
  <2> QED  BY <1>0, <2>1, <2>2 DEF Others, users
<1> QED  BY <1>1, <1>2, <1>3

(* Steps that only go on or give up.                                       *)
LEMMA GoingOnKeepsShape ==
  ASSUME Shape, ChooseRecord \/ Download \/ FinalCheck \/ ProcessStops
  PROVE  Shape'
<1> USE DEF Shape
<1>0. UNCHANGED <<folder, draft, peer, users>>
  BY DEF ChooseRecord, Download, FinalCheck, ProcessStops
<1>1. Others'  BY <1>0 DEF Others, users
<1>2. CASE EndTransaction
  <2>1. Folder' /\ Transaction'  BY <1>0, <1>2, EndingKeepsShape DEF Folder, folder
  <2> QED  BY <1>1, <2>1
<1>3. CASE /\ UNCHANGED <<kind, listing, memory>>
           /\ \/ UNCHANGED <<step, work>> /\ todo' \subseteq todo
              \/ step' = "chosen" /\ work' \in todo /\ todo' \subseteq todo
              \/ step \in Installs /\ step' \in Installs /\ UNCHANGED <<todo, work>>
  <2>1. Folder'  BY <1>0, <1>3 DEF Folder, folder
  <2>2. Transaction'  BY <1>0, <1>3 DEF Transaction, Scans, Installs, folder
  <2> QED  BY <1>1, <2>1, <2>2
<1>4. ChooseRecord => EndTransaction \/ /\ UNCHANGED <<kind, listing, memory>>
                                        /\ \/ UNCHANGED <<step, work>> /\ todo' \subseteq todo
                                           \/ step' = "chosen" /\ work' \in todo /\ todo' \subseteq todo
  BY DEF ChooseRecord
<1>5. Download \/ FinalCheck => EndTransaction \/ /\ UNCHANGED <<kind, listing, memory, todo, work>>
                                                  /\ step \in Installs /\ step' \in Installs
  BY DEF Download, FinalCheck, Installing, Installs
<1> QED  BY <1>2, <1>3, <1>4, <1>5 DEF ProcessStops

(* A complete transaction.                                                 *)
LEMMA FinishKeepsShape ==
  ASSUME Shape, FinishReceive
  PROVE  Shape'
<1> USE DEF Shape
<1>1. EndTransaction /\ UNCHANGED <<folder, peer, used, givenUp, authored>>  BY DEF FinishReceive
<1>2. Folder' /\ Transaction'  BY <1>1, EndingKeepsShape DEF Folder, folder
<1>3. Others'  BY <1>1 DEF FinishReceive, Others, Transaction
<1> QED  BY <1>2, <1>3

(* Archiving, and the save points before a file is replaced.               *)
LEMMA ArchivingKeepsShape ==
  ASSUME Shape, ArchiveReplaced \/ ArchiveDoomed
  PROVE  Shape'
<1> USE DEF Shape
<1>0. UNCHANGED <<disk, older, index, draft, peer, users>> /\ step \in Installs
  BY DEF ArchiveReplaced, ArchiveDoomed, Installing, Installs
<1>1. Target \in Paths  BY <1>0, AtHand DEF Transaction
<1>2. archived' \subseteq Contents
  BY <1>1 DEF ArchiveReplaced, ArchiveDoomed, ArchiveTarget, Folder, IsFolder, File
<1>3. Others'  BY <1>0 DEF Others, users
<1>4. CASE EndTransaction
  <2>1. Folder' /\ Transaction'  BY <1>0, <1>2, <1>4, EndingKeepsShape DEF Folder
  <2> QED  BY <1>3, <2>1
<1>5. CASE step' \in Installs /\ UNCHANGED <<kind, listing, memory, todo, work>>
  <2>1. Folder'  BY <1>0, <1>2, <1>5 DEF Folder
  <2>2. Transaction'  BY <1>0, <1>5 DEF Transaction, Scans, Installs
  <2> QED  BY <1>3, <2>1, <2>2
<1> QED  BY <1>4, <1>5 DEF ArchiveReplaced, ArchiveDoomed, Installs

(* The save point that marks the record at hand as pending.                *)
LEMMA JournalKeepsShape ==
  ASSUME Shape, JournalFile \/ JournalDeletion
  PROVE  Shape'
<1> USE DEF Shape
<1>0. /\ UNCHANGED <<disk, older, archived, draft, peer, users>> /\ step \in Installs
  BY DEF JournalFile, JournalDeletion, Installing, Installs
<1>1. Others'  BY <1>0 DEF Others, users
<1>2. CASE EndTransaction /\ UNCHANGED index
  <2>1. Folder' /\ Transaction'  BY <1>0, <1>2, EndingKeepsShape DEF Folder
  <2> QED  BY <1>1, <2>1
<1>3. CASE Save(Journaled) /\ step' \in Installs /\ UNCHANGED <<kind, listing, todo, work>>
  <2>1. IsIndex(Journaled)
    BY <1>0, AtHand DEF Transaction, Folder, IsIndex, Journaled
  <2>2. Folder'  BY <1>0, <1>3, <2>1 DEF Folder, Save
  <2>3. Transaction'  BY <1>0, <1>3 DEF Transaction, Scans, Installs
  <2> QED  BY <1>1, <2>2, <2>3
<1> QED  BY <1>2, <1>3 DEF JournalFile, JournalDeletion, Installs

(* Replacing a file and recording it.                                      *)
LEMMA InstalledFile ==
  ASSUME Folder, IsRecord(work), ~IsDeleted(Install)
  PROVE  LET file == [content |-> Install.content, revision |-> FreshRevision, mtime |-> Install.mtime]
         IN  file \in FilesAt(Target) /\ file # NoFile /\ Install.content \in Contents
  BY AtHand, NewRevision, NothingAssumption DEF FilesAt, File, InfosAt, FileInfo, IsDeleted

(* Replacing or deleting a file, and flushing it.                          *)
LEMMA ReplacingKeepsShape ==
  ASSUME Shape, Replace \/ FlushTarget
  PROVE  Shape'
<1> USE DEF Shape
<1>0. /\ UNCHANGED <<archived, index, kind, listing, memory, todo, work, draft, peer, users>>
      /\ step \in Installs /\ step' \in Installs
  BY DEF Replace, FlushTarget, Installs
<1>1. Target \in Paths /\ IsRecord(work)  BY <1>0, AtHand DEF Transaction
<1>2. IsFolder(disk') /\ AreEarlier(older')
  <2>0. disk[Target] # NoFile => disk[Target] \in FilesAt(Target)  BY <1>1 DEF Folder, IsFolder
  <2>1. CASE Replace
    <3>1. AreEarlier(older')  BY <1>1, <2>0, <2>1, OneEarlier DEF Replace, Folder
    <3>2. CASE IsDeleted(Install)
      BY <1>1, <2>1, <3>1, <3>2, OneFile DEF Replace, Folder
    <3>3. CASE ~IsDeleted(Install)
      BY <1>1, <2>1, <3>1, <3>3, OneFile, InstalledFile DEF Replace, Folder
    <3> QED  BY <3>2, <3>3
  <2>2. CASE FlushTarget
    BY <1>1, <2>0, <2>2, OneEarlier DEF FlushTarget, Folder
  <2> QED  BY <2>1, <2>2
<1>3. Folder'  BY <1>0, <1>2 DEF Folder
<1>4. Transaction'  BY <1>0 DEF Transaction, Scans, Installs
<1>5. Others'  BY <1>0 DEF Others, users
<1> QED  BY <1>3, <1>4, <1>5

(* The save point that records the file in place, or the local winner.     *)
LEMMA SavingKeepsShape ==
  ASSUME Shape, SaveLocalWinner \/ SaveInstalled
  PROVE  Shape'
<1> USE DEF Shape
<1>0. /\ UNCHANGED <<disk, older, archived, kind, listing, todo, draft, peer, users>>
      /\ step \in Installs /\ step' \in {"ready", "chosen"} /\ (step' = "chosen" => work' = work)
  BY DEF SaveLocalWinner, SaveInstalled, Installs
<1>1. IsRecord(work)  BY <1>0 DEF Transaction
<1>2. CASE SaveLocalWinner
  <2>1. /\ InfoAt(memory, work.path) # NoInfo /\ work.path \in Paths
        /\ Plan.winner \in InfosAt(work.path)
    BY <1>1, <1>2, AtHand DEF SaveLocalWinner
  <2>2. /\ memory.files[work.path] \in Entry /\ memory.files \in [Paths -> Entry \cup {NoInfo}]
        /\ IsEntries(memory.files)
    BY <2>1, Infos DEF Folder, IsIndex, IsEntries
  <2>3. [memory.files[work.path] EXCEPT !.info = Plan.winner] \in Entry
          /\ [memory.files[work.path] EXCEPT !.info = Plan.winner].info = Plan.winner
    BY <2>1, <2>2 DEF Entry, InfosAt
  <2>4. IsEntry([memory.files[work.path] EXCEPT !.info = Plan.winner], work.path)
    BY <2>1, <2>3 DEF IsEntry
  <2> DEFINE e == [memory.files[work.path] EXCEPT !.info = Plan.winner]
             entries == [memory.files EXCEPT ![work.path] = e]
  <2>5. IsEntries(entries)  BY <2>1, <2>2, <2>4, OneEntry
  <2>6. memory = [files |-> memory.files, pending |-> memory.pending]  BY DEF Folder, IsIndex
  <2>7. memory' = [files |-> entries, pending |-> memory.pending] /\ index' = memory'
    BY <1>2, <2>2, <2>6 DEF SaveLocalWinner, Save
  <2>8. IsIndex(memory')  BY <2>5, <2>7 DEF IsIndex, Folder
  <2> QED  BY <1>0, <2>7, <2>8 DEF Folder, Transaction, Others, users, Scans, Installs
<1>3. CASE SaveInstalled
  <2>1. Target \in Paths /\ Install \in InfosAt(Target)  BY <1>1, AtHand
  <2>2. RevisionOf(disk[Target]) \in Nat
    BY <2>1 DEF Folder, IsFolder, File, RevisionOf, Deleted
  <2> DEFINE e == [revision |-> RevisionOf(disk[Target]), info |-> Install]
  <2>3. IsEntry(e, Target)  BY <2>1, <2>2 DEF IsEntry, Entry, InfosAt
  <2>4. IsEntries([memory.files EXCEPT ![Target] = e])
    BY <2>1, <2>3, OneEntry DEF Folder, IsIndex
  <2>5. memory' = [files |-> [memory.files EXCEPT ![Target] = e], pending |-> NoInfo] /\ index' = memory'
    BY <1>3 DEF SaveInstalled, Save
  <2>6. IsIndex(memory')  BY <2>4, <2>5 DEF IsIndex
  <2> QED  BY <1>0, <1>1, <2>5, <2>6 DEF Folder, Transaction, Others, users, Scans, Installs
<1> QED  BY <1>2, <1>3

(* What users do, they do at names and at the copies they change.          *)
LEMMA UserActs ==
  ASSUME Users
  PROVE  \E p \in Edited, t \in Nat :
           \/ UserDeletes(p) \/ PeerDeletes(p)
           \/ \E c \in Contents : UserWrites(p, c, t) \/ PeerWrites(p, c, t)
           \/ \E c \in Contents \cup {Tombstone} : OpenDraft(p, c, t)
<1>1. 0 \in Nat  OBVIOUS
<1>2. \A c \in Contents : Times[c] \in SUBSET Nat  BY FolderAssumption
<1>3. \A S : Names \cup {q \in Copies : q \in S} \subseteq Edited  BY DEF Edited
<1>4. CASE \E p \in Names \cup {q \in Copies : disk[q] # NoFile} :
             UserDeletes(p) \/ \E c \in Contents : \E t \in Times[c] : UserWrites(p, c, t)
  <2>1. PICK p \in Names \cup {q \in Copies : disk[q] # NoFile} :
               UserDeletes(p) \/ \E c \in Contents : \E t \in Times[c] : UserWrites(p, c, t)
    BY <1>4
  <2> QED  BY <1>1, <1>2, <2>1 DEF Edited
<1>5. CASE \E p \in Names \cup {q \in Copies : IsLive(InfoAt(index, q))} :
             \E c \in Contents : \E t \in Times[c] : OpenDraft(p, c, t) \/ OpenDraft(p, Tombstone, t)
  <2>1. PICK p \in Names \cup {q \in Copies : IsLive(InfoAt(index, q))} :
               \E c \in Contents : \E t \in Times[c] : OpenDraft(p, c, t) \/ OpenDraft(p, Tombstone, t)
    BY <1>5
  <2> QED  BY <1>2, <2>1 DEF Edited
<1>6. CASE \E p \in Names \cup {q \in Copies : IsLive(peer[q])} :
             PeerDeletes(p) \/ \E c \in Contents : \E t \in Times[c] : PeerWrites(p, c, t)
  <2>1. PICK p \in Names \cup {q \in Copies : IsLive(peer[q])} :
               PeerDeletes(p) \/ \E c \in Contents : \E t \in Times[c] : PeerWrites(p, c, t)
    BY <1>6
  <2> QED  BY <1>1, <1>2, <2>1 DEF Edited
<1> QED  BY <1>4, <1>5, <1>6 DEF Users

(* An edit of a copy counts at the name the copy was made of.              *)
LEMMA Counting ==
  ASSUME NEW p \in Edited, authored \in [Names -> Nat], Authored(p)
  PROVE  authored' \in [Names -> Nat]
<1>1. NameOf(p) \in Names
  <2>1. p \in Names \/ p \in Names \X Contents  BY FolderAssumption DEF Edited
  <2> QED  BY <2>1 DEF NameOf
<1> HIDE DEF NameOf
<1> QED  BY <1>1 DEF Authored

(* What the users do to the files here.                                    *)
LEMMA PutFileKeepsShape ==
  ASSUME Shape, NEW p \in Edited, NEW f, PutFile(p, f), f # NoFile => f \in FilesAt(p)
  PROVE  Folder' /\ Transaction' /\ authored' \in [Names -> Nat]
<1>1. UNCHANGED <<archived, index, transaction, draft>> /\ p \in Paths
  BY PathKinds DEF PutFile
<1>2. IsFolder(disk') /\ AreEarlier(older')
  <2>1. disk[p] # NoFile => disk[p] \in FilesAt(p)  BY <1>1 DEF Shape, Folder, IsFolder
  <2> QED  BY <1>1, <2>1, OneFile, OneEarlier DEF PutFile, Shape, Folder
<1>3. authored' \in [Names -> Nat]  BY Counting DEF PutFile, Shape, Others
<1>4. \A q \in Paths \ Edited : disk'[q] = disk[q]
  BY DEF PutFile, Shape, Folder, IsFolder
<1>5. Transaction'  BY <1>1, <1>4 DEF Shape, Transaction, transaction
<1> QED  BY <1>1, <1>2, <1>3, <1>5 DEF Shape, Folder, transaction

(* What the users of either device do.                                     *)
LEMMA UsersKeepShape ==
  ASSUME Shape, Users
  PROVE  Shape'
<1>0. \A p \in Edited, c \in Contents, t \in Nat :
        LET file == [content |-> c, revision |-> FreshRevision, mtime |-> t]
        IN  file \in FilesAt(p)
  BY NewRevision DEF FilesAt, File, Shape
<1>1. ASSUME NEW p \in Edited, NEW c \in Contents, NEW t \in Nat, UserWrites(p, c, t)
      PROVE  Shape'
  BY <1>0, <1>1, PutFileKeepsShape DEF UserWrites, Shape, Others, PutFile
<1>2. ASSUME NEW p \in Edited, UserDeletes(p)
      PROVE  Shape'
  BY <1>2, PutFileKeepsShape DEF UserDeletes, Shape, Others, PutFile
<1>3. ASSUME NEW p \in Edited, NEW c \in Contents \cup {Tombstone}, NEW t \in Nat, OpenDraft(p, c, t)
      PROVE  Shape'
  <2>1. p \in Paths  BY PathKinds
  <2>2. InfoAt(index, p) # NoInfo =>
          InfoAt(index, p).version \in Vector /\ InfoAt(index, p).content \in Contents \cup {Tombstone}
    BY <2>1, Infos DEF Shape, Folder, InfosAt, FileInfo
  <2>3. draft' \in Draft /\ draft'.content = c  BY <1>3, <2>2 DEF OpenDraft, Draft
  <2>4. draft' # NoInfo  BY <2>3, NothingAssumption
  <2>5. authored' \in [Names -> Nat]  BY <1>3, Counting DEF OpenDraft, Shape, Others
  <2>6. used' = used \cup ({c} \ {Tombstone})  BY <1>3 DEF OpenDraft
  <2>7. UNCHANGED <<folder, transaction, peer, saved>>  BY <1>3 DEF OpenDraft
  <2>8. Others'  BY <2>3, <2>5, <2>6, <2>7 DEF Shape, Others
  <2>9. Folder' /\ Transaction'  BY <2>4, <2>7 DEF Shape, Folder, Transaction, folder, transaction
  <2> QED  BY <2>8, <2>9 DEF Shape
<1>4. ASSUME NEW p \in Edited, NEW c \in Contents, NEW t \in Nat, PeerWrites(p, c, t)
      PROVE  Shape'
  <2>1. p \in Paths  BY PathKinds
  <2>2. PreviousVersion(peer[p]) \in Vector
    BY <2>1 DEF Shape, Others, PreviousVersion, NoCounters, Vector, FileInfo
  <2>3. advanceVersionVector(PreviousVersion(peer[p]), Peer) \in Vector
    BY <2>2, AdvancedVector, FolderAssumption
  <2> DEFINE i == [content |-> c, mtime |-> t,
                   version |-> advanceVersionVector(PreviousVersion(peer[p]), Peer)]
  <2>4. i \in InfosAt(p) /\ i \in FileInfo  BY <2>3 DEF InfosAt, FileInfo
  <2>5. peer' = [peer EXCEPT ![p] = i]  BY <1>4 DEF PeerWrites
  <2> HIDE DEF i
  <2>6. Others'  BY <1>4, <2>1, <2>4, <2>5 DEF PeerWrites, Shape, Others
  <2> QED  BY <1>4, <2>6 DEF PeerWrites, Shape, Folder, Transaction, folder, transaction
<1>5. ASSUME NEW p \in Edited, PeerDeletes(p)
      PROVE  Shape'
  <2>1. p \in Paths /\ peer[p] \in InfosAt(p) /\ peer[p].version \in Vector
    BY <1>5, PathKinds DEF PeerDeletes, IsLive, Shape, Others, InfosAt, FileInfo
  <2> DEFINE v == advanceVersionVector(peer[p].version, Peer)
             i == [peer[p] EXCEPT !.content = Tombstone, !.version = v]
  <2>2. v \in Vector  BY <2>1, AdvancedVector, FolderAssumption
  <2>3. peer' = [peer EXCEPT ![p] = i]  BY <1>5 DEF PeerDeletes
  <2> HIDE DEF v
  <2>4. i \in InfosAt(p) /\ i \in FileInfo  BY <2>1, <2>2 DEF InfosAt, FileInfo
  <2> HIDE DEF i
  <2>5. Others'  BY <1>5, <2>1, <2>3, <2>4 DEF PeerDeletes, Shape, Others
  <2> QED  BY <1>5, <2>5 DEF PeerDeletes, Shape, Folder, Transaction, folder, transaction
<1> QED  BY <1>1, <1>2, <1>3, <1>4, <1>5, UserActs

(* The peer's merge is one of the plans above, too.                        *)
LEMMA PeerKeepsShape ==
  ASSUME Shape, NEW p \in Paths, PeerMerges(p)
  PROVE  Shape'
<1> DEFINE record == InfoAt(index, p)
           plan == planReplicaMerge(peer[p], record)
           copy == plan.conflict
<1>1. record \in InfosAt(p) /\ (peer[p] # NoInfo => peer[p] \in InfosAt(p))
  BY Infos DEF PeerMerges, Shape, Folder, Others
<1>2. /\ plan.winner \in InfosAt(p)
      /\ copy # NoInfo => copy \in InfosAt(ConflictPath(p, copy.content))
  BY <1>1, Plans
<1>3. UNCHANGED <<folder, transaction, draft, users>>
      /\ peer' = [q \in Paths |->
           IF q = p THEN plan.winner
           ELSE IF copy # NoInfo /\ q = ConflictPath(p, copy.content) /\ CopyIsNeeded(peer[q], copy)
           THEN copy ELSE peer[q]]
  BY DEF PeerMerges
<1> HIDE DEF plan
<1>4. \A q \in Paths : peer'[q] \in InfosAt(q) \/ peer'[q] = peer[q]  BY <1>2, <1>3
<1>5. Others'  BY <1>3, <1>4 DEF Shape, Others, users, InfosAt
<1> QED  BY <1>3, <1>5 DEF Shape, Folder, Transaction, folder, transaction

(* A loss of power leaves files that were there, or are there again.       *)
LEMMA PowerLoss ==
  ASSUME MachineStops
  PROVE  /\ EndTransaction /\ UNCHANGED <<archived, index, draft, peer, used, saved>>
         /\ older' = [p \in Paths |-> {}]
         /\ \E back : /\ PowerIsLost(back) /\ DOMAIN back \subseteq Paths
                      /\ \A p \in DOMAIN back : back[p] \in older[p] /\ back[p] # disk[p]
  BY DEF MachineStops

LEMMA PowerLossKeepsShape ==
  ASSUME Shape, MachineStops
  PROVE  Shape'
<1>1. PICK back : /\ PowerIsLost(back) /\ DOMAIN back \subseteq Paths
                  /\ \A p \in DOMAIN back : back[p] \in older[p]
  BY PowerLoss
<1>2. disk' = [p \in Paths |-> IF p \in DOMAIN back THEN back[p] ELSE disk[p]]  BY <1>1 DEF PowerIsLost
<1>3. IsFolder(disk')  BY <1>1, <1>2 DEF Shape, Folder, IsFolder, AreEarlier
<1>4. Folder' /\ Transaction'  BY <1>3, PowerLoss, EmptyTyped, EndingKeepsShape DEF Shape, Folder
<1>5. authored' \in [Names -> Nat]
  <2> DEFINE S(n) == {p \in DOMAIN back : NameOf(p) = n /\ ~(Arrived(p) /\ RevisionOf(back[p]) = IndexedRevision(p))}
  <2>1. ASSUME NEW n \in Names  PROVE Cardinality(S(n)) \in Nat
    BY <1>1, PathsFinite, FS_Subset, FS_CardinalityType
  <2>2. authored' = [n \in Names |-> authored[n] + Cardinality(S(n))]  BY <1>1 DEF PowerIsLost
  <2> HIDE DEF S
  <2> QED  BY <2>1, <2>2 DEF Shape, Others
<1> QED  BY <1>4, <1>5, PowerLoss DEF Shape, Others

(* Every step is one of these.                                             *)
LEMMA Steps ==
  ASSUME Next
  PROVE  \/ \E k \in {"scan", "receive", "edit"} : BeginScan(k) /\ (k = "edit" => draft # NoInfo)
         \/ RecoverPending \/ (\E p \in Paths : HashFile(p))
         \/ FinishScan \/ FlushPending \/ SaveScan
         \/ ChooseRecord \/ Download \/ FinalCheck \/ ProcessStops \/ FinishReceive
         \/ ArchiveReplaced \/ ArchiveDoomed \/ JournalFile \/ JournalDeletion
         \/ Replace \/ FlushTarget \/ SaveLocalWinner \/ SaveInstalled
         \/ Users \/ (\E p \in Paths : PeerMerges(p)) \/ MachineStops
  BY DEF Next, Begin, Proceed

(* So every step keeps the shape.                                          *)
LEMMA NextKeepsShape == Shape /\ [Next]_vars => Shape'
<1> SUFFICES ASSUME Shape, [Next]_vars PROVE Shape'  OBVIOUS
<1>1. CASE Next
  BY <1>1, Steps, ScanKeepsShape, SaveScanKeepsShape, GoingOnKeepsShape, FinishKeepsShape,
     ArchivingKeepsShape, JournalKeepsShape, ReplacingKeepsShape, SavingKeepsShape, UsersKeepShape,
     PeerKeepsShape, PowerLossKeepsShape
<1>2. CASE UNCHANGED vars
  BY <1>2 DEF vars, folder, transaction, users, Shape, Folder, Transaction, Others
<1> QED  BY <1>1, <1>2

(* The shape of folder, index, transaction and drafts holds throughout.    *)
THEOREM ShapeHolds == Spec => []Shape
  BY ShapeInit, NextKeepsShape, PTL DEF Spec

(* Every variable stays in its range: what transactions leave on disk, in  *)
(* the archive and in the saved index are files, contents and records.     *)
THEOREM TypeCorrect == Spec => []TypeOK
<1>1. Shape => TypeOK
  BY DEF Shape, Folder, Others, IsFolder, AreEarlier, IsIndex, IsEntries, TypeOK
<1> QED  BY <1>1, ShapeHolds, PTL

-----------------------------------------------------------------------------
(* The history of the index at the names of the users: what a transaction  *)
(* has in memory is never behind what was saved, and a pending update is   *)
(* not behind its entry.                                                   *)

PendingAhead ==
  index.pending # NoInfo /\ index.pending.path \in Names =>
    Succeeds(InfoAt(index, index.pending.path), index.pending.info)

MemoryAhead ==
  /\ step \in Scans => \A p \in Names : Succeeds(InfoAt(index, p), InfoAt(memory, p))
  /\ step \in {"ready"} \cup Installs => index = memory

NothingPending ==
  step \in {"hashed", "flushedPending", "ready", "chosen", "staged", "archived"} =>
    memory.pending = NoInfo

\* Before anything else a scan settles the pending update of the saved index.
PendingFirst == step = "listed" /\ memory.pending # NoInfo => memory = index

History == PendingAhead /\ MemoryAhead /\ NothingPending /\ PendingFirst

(* A record of an index succeeds itself.                                   *)
LEMMA Itself ==
  ASSUME NEW idx, IsIndex(idx), NEW p \in Paths
  PROVE  /\ Succeeds(InfoAt(idx, p), InfoAt(idx, p))
         /\ InfoAt(idx, p) # NoInfo => InfoAt(idx, p).version \in Vector
  BY Infos, Succession DEF Succeeds, InfosAt, FileInfo

(* What succeeds a successor succeeds.                                     *)
LEMMA SucceedsOn ==
  ASSUME NEW a, NEW b, NEW c, a # NoInfo => a.version \in Vector, b # NoInfo => b.version \in Vector,
         c # NoInfo => c.version \in Vector, Succeeds(a, b), Succeeds(b, c)
  PROVE  Succeeds(a, c)
<1>1. SUFFICES ASSUME a # NoInfo PROVE Follows(a, c)  BY DEF Succeeds
<1>2. Follows(a, b) /\ b.version \in Vector /\ b # NoInfo  BY <1>1 DEF Succeeds, Follows
<1> QED  BY <1>1, <1>2, Succession

(* A record with the next version of the device succeeds.                  *)
LEMMA NextVersion ==
  ASSUME NEW old, old # NoInfo => old.version \in Vector, NEW new \in FileInfo,
         new.version = advanceVersionVector(PreviousVersion(old), Self)
  PROVE  Succeeds(old, new)
<1>1. CASE old = NoInfo  BY <1>1 DEF Succeeds
<1>2. CASE old # NoInfo
  <2>1. PreviousVersion(old) = old.version /\ old.version \in Vector  BY <1>2 DEF PreviousVersion
  <2>2. new.version[Self] = old.version[Self] + 1 /\ old.version[Self] \in Nat
        /\ DominatedBy(old.version, new.version)
    BY <2>1, AdvancedVector, FolderAssumption DEF Vector
  <2>3. new.version # old.version  BY <2>2
  <2> QED  BY <2>2, <2>3, NoInfoAssumption DEF Succeeds, Follows
<1> QED  BY <1>1, <1>2

(* What a scan makes of a missing file, or of one that it read, succeeds   *)
(* what it has.                                                            *)
LEMMA MissingAhead ==
  ASSUME Folder, NEW p \in Paths, NEW idx, idx.files[p] = MissingEntry(p)
  PROVE  Succeeds(InfoAt(memory, p), InfoAt(idx, p))
<1>1. CASE listing[p] = NoFile /\ IsLive(InfoAt(memory, p))
  <2> DEFINE old == memory.files[p].info
             v == advanceVersionVector(old.version, Self)
             i == [old EXCEPT !.content = Tombstone, !.version = v]
  <2>1. InfoAt(memory, p) = old /\ old # NoInfo /\ old \in FileInfo /\ old.version \in Vector
    <3>1. InfoAt(memory, p) # NoInfo  BY <1>1 DEF IsLive
    <3> QED  BY <3>1, Infos, NoInfoAssumption DEF Folder, InfosAt, FileInfo
  <2>2. v \in Vector  BY <2>1, AdvancedVector, FolderAssumption
  <2>3. MissingEntry(p) = [revision |-> Deleted, info |-> i]
    BY <1>1, <2>1 DEF MissingEntry, FileInfo
  <2>4. v = advanceVersionVector(PreviousVersion(old), Self)  BY <2>1 DEF PreviousVersion
  <2> HIDE DEF v
  <2>5. i \in FileInfo /\ i.version = v  BY <2>1, <2>2 DEF FileInfo
  <2> HIDE DEF i
  <2>6. [revision |-> Deleted, info |-> i] \in Entry  BY <2>5 DEF Entry, Deleted
  <2>7. InfoAt(idx, p) = i  BY <2>3, <2>6, NothingAssumption DEF InfoAt
  <2>8. Succeeds(old, i)  BY <2>1, <2>4, <2>5, NextVersion
  <2> QED  BY <2>1, <2>7, <2>8
<1>2. CASE ~(listing[p] = NoFile /\ IsLive(InfoAt(memory, p)))
  <2>1. InfoAt(idx, p) = InfoAt(memory, p)  BY <1>2 DEF MissingEntry, InfoAt
  <2> QED  BY <2>1, Itself DEF Folder
<1> QED  BY <1>1, <1>2

LEMMA ReadAhead ==
  ASSUME Folder, NEW p \in Paths, NEW c, IsEntry(ReadEntry(p, c), p)
  PROVE  ReadEntry(p, c) # NoInfo /\ Succeeds(InfoAt(memory, p), ReadEntry(p, c).info)
<1>1. ReadEntry(p, c).info.version = advanceVersionVector(PreviousVersion(InfoAt(memory, p)), Self)
  BY DEF ReadEntry
<1>2. ReadEntry(p, c) \in Entry /\ ReadEntry(p, c).info \in FileInfo  BY DEF IsEntry, Entry
<1>3. InfoAt(memory, p) # NoInfo => InfoAt(memory, p).version \in Vector  BY Itself DEF Folder
<1> HIDE DEF ReadEntry
<1> QED  BY <1>1, <1>2, <1>3, NextVersion, NothingAssumption

(* In the beginning there is no history.                                   *)
LEMMA HistoryInit == Init => History
  BY DEF Init, History, PendingAhead, MemoryAhead, NothingPending, PendingFirst, EmptyIndex, Scans, Installs

(* A transaction may end anywhere, and others leave the index alone.       *)
LEMMA EndingKeepsHistory ==
  ASSUME History, EndTransaction, UNCHANGED index
  PROVE  History'
  BY DEF EndTransaction, History, PendingAhead, MemoryAhead, NothingPending, PendingFirst, InfoAt, Succeeds, Follows, Scans, Installs

(* Steps that touch neither index nor transaction.                         *)
LEMMA OthersKeepHistory ==
  ASSUME History, UNCHANGED <<index, memory, step>>
  PROVE  History'
  BY DEF History, PendingAhead, MemoryAhead, NothingPending, PendingFirst, InfoAt, Succeeds, Follows, Scans, Installs

(* What a step of a scan makes of its index is ahead of what it had, and   *)
(* so of what is saved.                                                    *)
LEMMA MemoryMovesOn ==
  ASSUME Shape, Shape', History, step \in Scans, step' \in Scans, UNCHANGED index,
         \A p \in Names : Succeeds(InfoAt(memory, p), InfoAt(memory', p)),
         memory'.pending = NoInfo
  PROVE  History'
<1>1. ASSUME NEW p \in Names
      PROVE  Succeeds(InfoAt(index, p), InfoAt(memory', p))
  <2>1. p \in Paths /\ IsIndex(index) /\ IsIndex(memory) /\ IsIndex(memory')
    BY PathKinds DEF Shape, Folder
  <2>2. \A idx \in {index, memory, memory'} : InfoAt(idx, p) # NoInfo => InfoAt(idx, p).version \in Vector
    BY <2>1, Itself
  <2>3. Succeeds(InfoAt(index, p), InfoAt(memory, p))  BY DEF History, MemoryAhead
  <2> QED  BY <2>2, <2>3, SucceedsOn
<1>2. MemoryAhead'  BY <1>1 DEF MemoryAhead, Scans, Installs, InfoAt, Succeeds, Follows
<1>3. PendingAhead'  BY DEF History, PendingAhead, InfoAt, Succeeds, Follows
<1> QED  BY <1>2, <1>3 DEF History, NothingPending, PendingFirst

(* The steps of a scan, with the pending update that it recognises.        *)
LEMMA ScanKeepsHistory ==
  ASSUME Shape, Shape', History, RecoverPending \/ (\E p \in Paths : HashFile(p)) \/ FinishScan
  PROVE  History' /\ UNCHANGED index
<1>0. UNCHANGED index /\ step = "listed" /\ step \in Scans
  BY DEF RecoverPending, HashFile, FinishScan, folder, Scans
<1>1. \A q \in Names : q \in Paths /\ Succeeds(InfoAt(memory, q), InfoAt(memory, q))
  BY PathKinds, Itself DEF Shape, Folder
<1>2. CASE RecoverPending
  <2>1. PICK c : memory' = [files |-> Recovered(memory.pending, c), pending |-> NoInfo]
    BY <1>2 DEF RecoverPending
  <2> DEFINE update == memory.pending
             e == [revision |-> RevisionOf(listing[update.path]), info |-> update.info]
  <2>2. update # NoInfo /\ memory = index /\ IsRecord(update)
    BY <1>2 DEF RecoverPending, History, PendingFirst, Shape, Folder, IsIndex
  <2>3. memory.files \in [Paths -> Entry \cup {NoInfo}]  BY DEF Shape, Folder, IsIndex, IsEntries
  <2>4. ASSUME NEW q \in Names
        PROVE  Succeeds(InfoAt(memory, q), InfoAt(memory', q))
    <3>1. CASE memory'.files[q] = memory.files[q]
      <4>1. InfoAt(memory', q) = InfoAt(memory, q)  BY <3>1 DEF InfoAt
      <4> QED  BY <1>1, <4>1
    <3>2. CASE memory'.files[q] # memory.files[q]
      <4>1. q = update.path /\ memory'.files[q] = e
        BY <1>1, <2>1, <2>2, <2>3, <3>2 DEF Recovered, IsRecord
      <4>2. e \in Entry
        <5>1. RevisionOf(listing[q]) \in Nat
          BY <1>1 DEF Shape, Folder, IsFolder, File, RevisionOf, Deleted
        <5> QED  BY <2>2, <4>1, <5>1 DEF Entry, IsRecord, InfosAt
      <4>3. InfoAt(memory', q) = update.info  BY <4>1, <4>2, NothingAssumption DEF InfoAt
      <4> QED  BY <2>2, <4>1, <4>3 DEF History, PendingAhead
    <3> QED  BY <3>1, <3>2
  <2>5. memory'.pending = NoInfo /\ step' = step  BY <1>2, <2>1 DEF RecoverPending
  <2> QED  BY <1>0, <2>4, <2>5, MemoryMovesOn
<1>3. ASSUME NEW p \in Paths, HashFile(p)
      PROVE  History'
  <2>1. PICK c \in Read(p) : IF c = NoFile THEN EndTransaction
                             ELSE /\ memory' = [memory EXCEPT !.files[p] = ReadEntry(p, c)]
                                  /\ UNCHANGED <<step, kind, listing, todo, work>>
    BY <1>3 DEF HashFile
  <2>2. CASE c = NoFile
    BY <1>0, <2>1, <2>2, EndingKeepsHistory
  <2>3. CASE c # NoFile
    <3>1. IsEntry(ReadEntry(p, c), p)  BY <1>0, <2>3, Reading, ReadTyped DEF Shape
    <3>2. ReadEntry(p, c) # NoInfo /\ Succeeds(InfoAt(memory, p), ReadEntry(p, c).info)
      BY <3>1, ReadAhead DEF Shape
    <3> HIDE DEF ReadEntry
    <3>3. memory = [files |-> memory.files, pending |-> memory.pending]
          /\ memory.files \in [Paths -> Entry \cup {NoInfo}]
      BY DEF Shape, Folder, IsIndex, IsEntries
    <3>4. memory'.files = [memory.files EXCEPT ![p] = ReadEntry(p, c)] /\ memory'.pending = memory.pending
      BY <2>1, <2>3, <3>3
    <3>5. ASSUME NEW q \in Names
          PROVE  Succeeds(InfoAt(memory, q), InfoAt(memory', q))
      <4>1. CASE q = p
        <5>1. InfoAt(memory', q) = ReadEntry(p, c).info  BY <1>1, <3>2, <3>3, <3>4, <4>1 DEF InfoAt
        <5> QED  BY <3>2, <4>1, <5>1
      <4>2. CASE q # p
        <5>1. InfoAt(memory', q) = InfoAt(memory, q)  BY <1>1, <3>3, <3>4, <4>2 DEF InfoAt
        <5> QED  BY <1>1, <5>1
      <4> QED  BY <4>1, <4>2
    <3>6. memory'.pending = NoInfo /\ step' = step  BY <1>3, <2>1, <2>3, <3>4 DEF HashFile
    <3> QED  BY <1>0, <3>5, <3>6, MemoryMovesOn
  <2> QED  BY <2>2, <2>3
<1>4. CASE FinishScan
  <2>1. CASE ~FolderUnchanged  BY <1>0, <1>4, <2>1, EndingKeepsHistory DEF FinishScan
  <2>2. CASE FolderUnchanged
    <3>1. memory' = [memory EXCEPT !.files = [p \in Paths |-> MissingEntry(p)]] /\ step' = "hashed"
          /\ memory.pending = NoInfo
      BY <1>4, <2>2 DEF FinishScan
    <3>2. memory'.files = [p \in Paths |-> MissingEntry(p)] /\ memory'.pending = memory.pending
      BY <3>1 DEF Shape, Folder, IsIndex
    <3>3. ASSUME NEW q \in Names
          PROVE  Succeeds(InfoAt(memory, q), InfoAt(memory', q))
      <4>1. memory'.files[q] = MissingEntry(q) /\ q \in Paths  BY <1>1, <3>2
      <4> QED  BY <4>1, MissingAhead DEF Shape
    <3>4. step' \in Scans  BY <3>1 DEF Scans
    <3> QED  BY <1>0, <3>1, <3>2, <3>3, <3>4, MemoryMovesOn
  <2> QED  BY <2>1, <2>2
<1> QED  BY <1>0, <1>2, <1>3, <1>4

(* A save point: what is saved is ahead of what was.                       *)
LEMMA SaveAhead ==
  ASSUME Shape, History, SaveScan \/ JournalFile \/ JournalDeletion \/ SaveLocalWinner \/ SaveInstalled
  PROVE  History' /\ \A p \in Names : Succeeds(InfoAt(index, p), InfoAt(index, p)')
<1>0. \A p \in Names : Succeeds(InfoAt(index, p), InfoAt(index, p))
  BY PathKinds, Itself DEF Shape, Folder
<1>1. CASE SaveScan
  <2>1. index' = memory /\ memory.pending = NoInfo
        /\ \A p \in Names : Succeeds(InfoAt(index, p), InfoAt(memory, p))
    BY <1>1 DEF SaveScan, History, MemoryAhead, NothingPending, PendingFirst, Scans
  <2>2. EndTransaction \/ (step' = "ready" /\ memory' = memory)  BY <1>1 DEF SaveScan
  <2> QED  BY <2>1, <2>2 DEF EndTransaction, History, PendingAhead, MemoryAhead, NothingPending, PendingFirst, Scans,
                              InfoAt, Installs
<1>2. ASSUME step \in Installs
      PROVE  index = memory /\ IsRecord(work) /\ Folder
  BY <1>2 DEF History, MemoryAhead, Shape, Transaction
<1>3. CASE JournalFile \/ JournalDeletion
  <2>0. step \in Installs  BY <1>3 DEF JournalFile, JournalDeletion, Installing, Installs
  <2>1. CASE Save(Journaled) /\ step' \in {"journaled", "doomed", "replaced"}
    <3>1. /\ index' = memory' /\ index'.files = index.files
          /\ index'.pending = [path |-> Target, info |-> Install]
      BY <1>2, <2>0, <2>1 DEF Save, Journaled, Folder, IsIndex
    <3>2. Target \in Names => Succeeds(InfoAt(index, Target), Install)
      BY <1>2, <2>0, AtHand
    <3>3. \A p : InfoAt(index, p)' = InfoAt(index, p)  BY <3>1 DEF InfoAt
    <3> QED  BY <1>0, <2>1, <3>1, <3>2, <3>3
             DEF History, PendingAhead, MemoryAhead, NothingPending, PendingFirst, Scans, Installs
  <2>2. CASE EndTransaction /\ UNCHANGED index
    BY <1>0, <2>2, EndingKeepsHistory DEF InfoAt
  <2> QED  BY <1>3, <2>1, <2>2 DEF JournalFile, JournalDeletion
<1>4. CASE SaveLocalWinner
  <2>0. step \in Installs /\ step = "chosen"  BY <1>4 DEF SaveLocalWinner, Installs
  <2>1. /\ InfoAt(memory, work.path) # NoInfo /\ work.path \in Paths
        /\ Plan.winner \in InfosAt(work.path)
        /\ Succeeds(InfoAt(memory, work.path), Plan.winner)
    BY <1>2, <1>4, <2>0, AtHand DEF SaveLocalWinner
  <2>2. memory.files \in [Paths -> Entry \cup {NoInfo}] /\ memory.files[work.path] \in Entry
    BY <1>2, <2>0, <2>1, Infos DEF Folder, IsIndex, IsEntries
  <2> DEFINE e == [memory.files[work.path] EXCEPT !.info = Plan.winner]
  <2>3. e \in Entry /\ e.info = Plan.winner  BY <2>1, <2>2 DEF Entry, InfosAt
  <2>4. /\ index' = memory' /\ index'.pending = memory.pending
        /\ index'.files = [memory.files EXCEPT ![work.path] = e]
    BY <1>2, <1>4, <2>0, <2>2 DEF SaveLocalWinner, Save, Folder, IsIndex
  <2> HIDE DEF e
  <2>5. e # NoInfo  BY <2>3, NothingAssumption
  <2>6. ASSUME NEW p \in Names
        PROVE  Succeeds(InfoAt(index, p), InfoAt(index, p)')
    <3>1. CASE p = work.path
      <4>1. InfoAt(index, p)' = Plan.winner  BY <2>1, <2>2, <2>3, <2>4, <2>5, <3>1 DEF InfoAt
      <4> QED  BY <1>2, <2>0, <2>1, <3>1, <4>1
    <3>2. CASE p # work.path
      <4>1. InfoAt(index, p)' = InfoAt(index, p)
        BY <1>2, <2>0, <2>2, <2>4, <3>2, PathKinds DEF InfoAt
      <4> QED  BY <1>0, <4>1
    <3> QED  BY <3>1, <3>2
  <2>7. step' = "ready" /\ memory.pending = NoInfo
    BY <1>4, <2>0 DEF SaveLocalWinner, History, NothingPending
  <2> QED  BY <2>4, <2>6, <2>7 DEF History, PendingAhead, MemoryAhead, NothingPending, PendingFirst, Scans
<1>5. CASE SaveInstalled
  <2>0. step \in Installs  BY <1>5 DEF SaveInstalled, Installs
  <2>1. /\ Target \in Paths /\ Install \in InfosAt(Target)
        /\ Target \in Names => Succeeds(InfoAt(memory, Target), Install)
    BY <1>2, <2>0, AtHand
  <2>2. memory.files \in [Paths -> Entry \cup {NoInfo}]  BY <1>2, <2>0 DEF Folder, IsIndex, IsEntries
  <2> DEFINE e == [revision |-> RevisionOf(disk[Target]), info |-> Install]
  <2>3. e \in Entry /\ e.info = Install
    <3>1. RevisionOf(disk[Target]) \in Nat
      BY <1>2, <2>0, <2>1 DEF Folder, IsFolder, File, RevisionOf, Deleted
    <3> QED  BY <2>1, <3>1 DEF Entry, InfosAt
  <2>4. /\ index' = memory' /\ index'.pending = NoInfo
        /\ index'.files = [memory.files EXCEPT ![Target] = e]
    BY <1>5 DEF SaveInstalled, Save
  <2> HIDE DEF e
  <2>5. e # NoInfo  BY <2>3, NothingAssumption
  <2>6. ASSUME NEW p \in Names
        PROVE  Succeeds(InfoAt(index, p), InfoAt(index, p)')
    <3>1. CASE p = Target
      <4>1. InfoAt(index, p)' = Install  BY <2>1, <2>2, <2>3, <2>4, <2>5, <3>1 DEF InfoAt
      <4> QED  BY <1>2, <2>0, <2>1, <3>1, <4>1
    <3>2. CASE p # Target
      <4>1. InfoAt(index, p)' = InfoAt(index, p)
        BY <1>2, <2>0, <2>2, <2>4, <3>2, PathKinds DEF InfoAt
      <4> QED  BY <1>0, <4>1
    <3> QED  BY <3>1, <3>2
  <2>7. step' \in {"ready", "chosen"}  BY <1>5 DEF SaveInstalled
  <2> QED  BY <2>4, <2>6, <2>7 DEF History, PendingAhead, MemoryAhead, NothingPending, PendingFirst, Scans
<1> QED  BY <1>1, <1>3, <1>4, <1>5

(* The other steps of a transaction leave both indexes alone.              *)
LEMMA StepKeepsHistory ==
  ASSUME History, UNCHANGED <<index, memory>>,
         \/ step = "hashed" /\ step' = "flushedPending"
         \/ /\ step \in {"ready"} \cup Installs /\ step' \in {"ready"} \cup Installs
            /\ step' \in {"ready", "chosen", "staged", "archived"} =>
                 step \in {"ready", "chosen", "staged", "archived"}
  PROVE  History'
<1>1. PendingAhead' /\ \A p : InfoAt(index, p)' = InfoAt(index, p) /\ InfoAt(memory, p)' = InfoAt(memory, p)
  BY DEF History, PendingAhead, InfoAt, Succeeds, Follows
<1>2. NothingPending' /\ PendingFirst'  BY DEF History, NothingPending, PendingFirst, Scans, Installs
<1>3. MemoryAhead'  BY <1>1 DEF History, MemoryAhead, Scans, Installs
<1> QED  BY <1>1, <1>2, <1>3 DEF History

(* Every step keeps the history, and saves no version behind another.      *)
LEMMA NextKeepsHistory ==
  ASSUME Shape, History, [Next]_vars
  PROVE  History' /\ \A p \in Names : Succeeds(InfoAt(index, p), InfoAt(index, p)')
<1>0. \A p \in Names : Succeeds(InfoAt(index, p), InfoAt(index, p))
  BY PathKinds, Itself DEF Shape, Folder
<1>1. SUFFICES ASSUME ~(SaveScan \/ JournalFile \/ JournalDeletion \/ SaveLocalWinner \/ SaveInstalled)
               PROVE  History' /\ UNCHANGED index
  BY <1>0, SaveAhead DEF InfoAt
<1>2. CASE \E k \in {"scan", "receive", "edit"} : BeginScan(k)
  <2>1. step' = "listed" /\ memory' = index /\ index' = index  BY <1>2 DEF BeginScan, folder
  <2>2. MemoryAhead'
    BY <1>0, <2>1 DEF MemoryAhead, Scans, Installs, InfoAt, Succeeds, Follows
  <2>3. PendingAhead'  BY <2>1 DEF History, PendingAhead, InfoAt, Succeeds, Follows
  <2> QED  BY <2>1, <2>2, <2>3 DEF History, NothingPending, PendingFirst
<1>3. CASE RecoverPending \/ (\E p \in Paths : HashFile(p)) \/ FinishScan
  BY <1>3, ScanKeepsHistory, NextKeepsShape
<1>4. CASE FlushPending
  BY <1>4, StepKeepsHistory DEF FlushPending
<1>5. CASE ChooseRecord \/ Download \/ FinalCheck \/ ArchiveReplaced \/ ArchiveDoomed \/ Replace \/ FlushTarget
  <2>1. UNCHANGED index
    BY <1>5 DEF ChooseRecord, Download, FinalCheck, ArchiveReplaced, ArchiveDoomed, Replace, FlushTarget, folder
  <2>2. CASE EndTransaction  BY <2>1, <2>2, EndingKeepsHistory
  <2>3. CASE ~EndTransaction
    <3>1. /\ UNCHANGED memory
          /\ step \in {"ready"} \cup Installs /\ step' \in {"ready"} \cup Installs
          /\ step' \in {"ready", "chosen", "staged", "archived"} =>
               step \in {"ready", "chosen", "staged", "archived"}
      BY <1>5, <2>3 DEF ChooseRecord, Download, FinalCheck, ArchiveReplaced, ArchiveDoomed, Replace,
         FlushTarget, Installing, Installs
    <3> QED  BY <2>1, <3>1, StepKeepsHistory
  <2> QED  BY <2>2, <2>3
<1>6. CASE ProcessStops \/ FinishReceive \/ MachineStops
  BY <1>6, EndingKeepsHistory DEF ProcessStops, FinishReceive, MachineStops, folder
<1>7. CASE Users \/ \E p \in Paths : PeerMerges(p)
  <2>1. UNCHANGED <<index, memory, step>>
    BY <1>7 DEF Users, UserWrites, UserDeletes, PutFile, OpenDraft, PeerWrites, PeerDeletes, PeerMerges,
       folder, transaction
  <2> QED  BY <2>1, OthersKeepHistory
<1>8. CASE UNCHANGED vars
  BY <1>8, OthersKeepHistory DEF vars, folder, transaction
<1> QED  BY <1>1, <1>2, <1>3, <1>4, <1>5, <1>6, <1>7, <1>8, Steps

(* Whatever is merged, scanned, edited or cut off, the saved version of a  *)
(* file never goes back.                                                   *)
THEOREM HistoryKept == Spec => HistoryNeverForgotten
<1>0. ASSUME Shape, History, [Next]_vars, NEW p \in Names
      PROVE  DominatedBy(PreviousVersion(InfoAt(index, p)), PreviousVersion(InfoAt(index, p)'))
  <2>1. Succeeds(InfoAt(index, p), InfoAt(index, p)')  BY <1>0, NextKeepsHistory
  <2>2. InfoAt(index, p)' # NoInfo => InfoAt(index, p)'.version \in Vector
    BY <1>0, NextKeepsShape, PathKinds, Itself DEF Shape, Folder, InfoAt
  <2>3. \A v \in Vector : DominatedBy(NoCounters, v)  BY DEF DominatedBy, NoCounters, Vector
  <2>4. NoCounters \in Vector  BY DEF NoCounters, Vector
  <2> QED  BY <2>1, <2>2, <2>3, <2>4 DEF PreviousVersion, Succeeds, Follows
<1>1. Shape /\ History /\ [Next]_vars =>
        History' /\ [\A p \in Names :
          DominatedBy(PreviousVersion(InfoAt(index, p)), PreviousVersion(InfoAt(index, p)'))]_vars
  BY <1>0, NextKeepsHistory
<1>2. Spec => [](Shape /\ History)
  <2>1. Shape /\ History /\ [Next]_vars => Shape' /\ History'  BY <1>1, NextKeepsShape
  <2> QED  BY <2>1, ShapeInit, HistoryInit, PTL DEF Spec
<1> QED  BY <1>1, <1>2, PTL DEF Spec, HistoryNeverForgotten

-----------------------------------------------------------------------------
(* While the editor keeps out of the window no check can close, the file   *)
(* to replace is the one that was checked, and the file in place is the    *)
(* one that was installed.                                                 *)

InPlace ==
  /\ step = "checked" => LocalUnchanged
  /\ step \in {"replaced", "flushed"} =>
       IF IsDeleted(Install) THEN disk[Target] = NoFile
       ELSE disk[Target] # NoFile /\ disk[Target].content = Install.content
  /\ step = "flushed" => older[Target] = {}

(* In the beginning nothing is being installed, nor when a transaction has *)
(* just ended or is not that far.                                          *)
LEMMA InPlaceEarly ==
  ASSUME step' \notin {"checked", "replaced", "flushed"}
  PROVE  InPlace'
  BY DEF InPlace

(* A file whose index entry is not live is not there.                      *)
LEMMA NotThere ==
  ASSUME Folder, NEW p \in Paths, RevisionOf(disk[p]) = Deleted
  PROVE  disk[p] = NoFile
  BY DEF Folder, IsFolder, FilesAt, RevisionOf

(* The checked file stays checked, and the installed one installed.        *)
LEMMA NextKeepsInPlace ==
  ASSUME Shape, InPlace, ~EditorRaces, [Next]_vars
  PROVE  InPlace'
<1>1. SUFFICES ASSUME step' \in {"checked", "replaced", "flushed"}
               PROVE  InPlace'
  BY InPlaceEarly
<1>2. CASE FinalCheck
  <2>1. /\ LocalUnchanged /\ step' = "checked" /\ UNCHANGED <<memory, work, disk, older>>
    BY <1>1, <1>2 DEF FinalCheck, EndTransaction, folder
  <2>2. LocalUnchanged'  BY <2>1, SamePlan DEF LocalUnchanged
  <2> QED  BY <2>1, <2>2 DEF InPlace
<1>3. CASE Replace
  <2>1. step \in Installs  BY <1>3 DEF Replace, Installs
  <2>2. Target \in Paths /\ IsRecord(work)  BY <2>1, AtHand DEF Shape, Transaction
  <2>3. UNCHANGED <<memory, work>> /\ step' = "replaced"  BY <1>3 DEF Replace
  <2>4. Target' = Target /\ Install' = Install  BY <2>3, SamePlan
  <2>5. disk'[Target] = IF IsDeleted(Install) THEN NoFile
                        ELSE [content |-> Install.content, revision |-> FreshRevision, mtime |-> Install.mtime]
    BY <1>3, <2>2 DEF Replace, Shape, Folder, IsFolder
  <2>6. ~IsDeleted(Install) => disk'[Target] # NoFile
    BY <2>2, <2>5, InstalledFile DEF Shape
  <2> QED  BY <2>3, <2>4, <2>5, <2>6 DEF InPlace, IsDeleted
<1>4. CASE FlushTarget
  <2>1. step \in Installs  BY <1>4 DEF FlushTarget, Installs
  <2>2. Target \in Paths /\ IsRecord(work)  BY <2>1, AtHand DEF Shape, Transaction
  <2>3. UNCHANGED <<memory, work, disk>> /\ step' = "flushed" /\ step = "replaced"  BY <1>4 DEF FlushTarget
  <2>4. Target' = Target /\ Install' = Install  BY <2>3, SamePlan
  <2>5. older'[Target] = {}  BY <1>4, <2>2 DEF FlushTarget, Shape, Folder, AreEarlier
  <2> QED  BY <2>3, <2>4, <2>5 DEF InPlace, IsDeleted
<1>5. CASE JournalDeletion
  <2>1. /\ LocalUnchanged /\ Save(Journaled) /\ step' = "replaced" /\ step = "chosen"
        /\ IsDeleted(Install) /\ ~IsLive(InfoAt(memory, Target)) /\ UNCHANGED <<work, disk>>
    BY <1>1, <1>5 DEF JournalDeletion, Installing, EndTransaction
  <2>2. step \in Installs  BY <2>1 DEF Installs
  <2>3. Target \in Paths  BY <2>2, AtHand DEF Shape, Transaction
  <2>4. disk[Target] = NoFile  BY <2>1, <2>3, NotThere DEF LocalUnchanged, Shape
  <2>5. memory'.files = memory.files  BY <2>1 DEF Save, Journaled, Shape, Folder, IsIndex
  <2>6. Target' = Target /\ Install' = Install  BY <2>1, <2>5, SamePlan
  <2> QED  BY <2>1, <2>4, <2>6 DEF InPlace, IsDeleted
<1>6. CASE Users
  <2>1. UNCHANGED <<memory, work, step>> /\ step \in Installs
    BY <1>1, <1>6 DEF Users, UserWrites, UserDeletes, PutFile, OpenDraft, PeerWrites, PeerDeletes,
       transaction, Installs
  <2>2. Target' = Target /\ Install' = Install /\ InfoAt(memory, Target)' = InfoAt(memory, Target)
    BY <2>1, SamePlan
  <2>3. Target \in Paths  BY <2>1, AtHand DEF Shape, Transaction
  <2>4. disk'[Target] = disk[Target] /\ older'[Target] = older[Target]
    <3>1. ASSUME NEW p \in Edited, NEW f, PutFile(p, f)
          PROVE  disk'[Target] = disk[Target] /\ older'[Target] = older[Target]
      <4>1. Target # p  BY <1>1, <2>1, <3>1 DEF PutFile, EditorKeepsOut
      <4> QED  BY <2>3, <3>1, <4>1, PathKinds DEF PutFile, Shape, Folder, IsFolder, AreEarlier
    <3> QED  BY <1>6, <3>1, UserActs DEF UserWrites, UserDeletes, OpenDraft, PeerWrites, PeerDeletes, folder
  <2> QED  BY <2>1, <2>2, <2>4 DEF InPlace, LocalUnchanged, IsDeleted, IsLive
<1>7. CASE (\E p \in Paths : PeerMerges(p)) \/ UNCHANGED vars
  <2>1. UNCHANGED <<memory, work, step, disk, older>>
    BY <1>7 DEF PeerMerges, vars, folder, transaction
  <2>2. Target' = Target /\ Install' = Install /\ InfoAt(memory, Target)' = InfoAt(memory, Target)
    BY <2>1, SamePlan
  <2> QED  BY <2>1, <2>2 DEF InPlace, LocalUnchanged, IsDeleted, IsLive
<1>8. CASE \/ \E k \in {"scan", "receive", "edit"} : BeginScan(k)
           \/ RecoverPending \/ (\E p \in Paths : HashFile(p))
           \/ FinishScan \/ FlushPending \/ SaveScan \/ ChooseRecord \/ Download \/ ProcessStops
           \/ FinishReceive \/ ArchiveReplaced \/ ArchiveDoomed \/ JournalFile
           \/ SaveLocalWinner \/ SaveInstalled \/ MachineStops
  BY <1>1, <1>8 DEF BeginScan, RecoverPending, HashFile, FinishScan, FlushPending, SaveScan, ChooseRecord, Download, ProcessStops,
     FinishReceive, ArchiveReplaced, ArchiveDoomed, JournalFile, SaveLocalWinner, SaveInstalled,
     MachineStops, EndTransaction
<1> QED  BY <1>2, <1>3, <1>4, <1>5, <1>6, <1>7, <1>8, Steps

-----------------------------------------------------------------------------
(* A revision vouches for a content: of a file that is there, was listed   *)
(* or may come back, and of an entry, saved or not.  A scan may read       *)
(* nonsense where a file was written since it was listed: then it is not   *)
(* saved.                                                                  *)

Seen(p) == {disk[p], listing[p]} \cup older[p]

Torn(p) == step = "listed" /\ listing[p] # NoFile /\ RevisionOf(disk[p]) # listing[p].revision

Agree(files) ==
  \A f, g \in files : f # NoFile /\ g # NoFile /\ f.revision = g.revision => f.content = g.content

Vouches(entry, files) ==
  entry # NoInfo /\ ~IsDeleted(entry.info) =>
    /\ entry.revision # Deleted
    /\ \A f \in files : f # NoFile /\ f.revision = entry.revision => f.content = entry.info.content

Vouching ==
  \A p \in Paths :
    /\ Agree(Seen(p))
    /\ Vouches(index.files[p], Seen(p))
    /\ Torn(p) \/ Vouches(memory.files[p], Seen(p))

(* What a scan reads is the content of the listed file, or the file has    *)
(* changed since, and then it stays so.                                    *)
LEMMA ReadOrTorn ==
  ASSUME Shape, step = "listed", NEW p \in Paths, NEW c \in Read(p), c # NoFile
  PROVE  /\ listing[p] # NoFile /\ disk[p] # NoFile
         /\ Torn(p) \/ (c = disk[p].content /\ disk[p].revision = listing[p].revision)
<1>1. listing[p] # NoFile /\ disk[p] # NoFile  BY DEF Read
<1>2. CASE disk[p].revision = listing[p].revision  BY <1>1, <1>2 DEF Read
<1>3. CASE disk[p].revision # listing[p].revision  BY <1>1, <1>3 DEF Torn, RevisionOf
<1> QED  BY <1>1, <1>2, <1>3

(* When the second listing equals the first, nothing is torn.              *)
LEMMA NothingIsTorn ==
  ASSUME FolderUnchanged, NEW p \in Paths
  PROVE  ~Torn(p)
  BY DEF FolderUnchanged, Torn, RevisionOf

(* In the beginning there is no file.                                      *)
LEMMA VouchingInit == Init => Vouching
  BY DEF Init, Vouching, Seen, Agree, Vouches, EmptyIndex

(* No file is new, and the entries, new or not, vouch for those there are. *)
LEMMA NoNewFile ==
  ASSUME Vouching,
         \A p \in Paths : /\ Seen(p)' \subseteq Seen(p) \cup {NoFile}
                          /\ Vouches(index'.files[p], Seen(p))
                          /\ Torn(p)' \/ Vouches(memory'.files[p], Seen(p))
  PROVE  Vouching'
<1> SUFFICES ASSUME NEW p \in Paths
             PROVE  /\ Agree(Seen(p)') /\ Vouches(index'.files[p], Seen(p)')
                    /\ Torn(p)' \/ Vouches(memory'.files[p], Seen(p)')
  BY DEF Vouching, Agree, Vouches
<1>1. /\ Seen(p)' \subseteq Seen(p) \cup {NoFile} /\ Agree(Seen(p))
      /\ Vouches(index'.files[p], Seen(p))
      /\ Torn(p)' \/ Vouches(memory'.files[p], Seen(p))
  BY DEF Vouching
<1>2. ASSUME NEW S, NEW T, S \subseteq T \cup {NoFile}
      PROVE  /\ Agree(T) => Agree(S)
             /\ \A e : Vouches(e, T) => Vouches(e, S)
  BY <1>2 DEF Agree, Vouches
<1>3. /\ Agree(Seen(p)) => Agree(Seen(p)')
      /\ \A e : Vouches(e, Seen(p)) => Vouches(e, Seen(p)')
  BY <1>1, <1>2
<1> QED  BY <1>1, <1>3

(* A transaction may end anywhere.                                         *)
LEMMA EndingKeepsVouching ==
  ASSUME Vouching, UNCHANGED <<disk, older>>, EndTransaction,
         \A p \in Paths : index'.files[p] = index.files[p] \/ (index'.files[p] = memory.files[p] /\ ~Torn(p))
  PROVE  Vouching'
<1>1. ASSUME NEW p \in Paths
      PROVE  /\ Seen(p)' \subseteq Seen(p) \cup {NoFile}
             /\ Vouches(index'.files[p], Seen(p))
             /\ Vouches(memory'.files[p], Seen(p))
  BY DEF EndTransaction, Seen, Vouching, Vouches, EmptyIndex
<1> QED  BY <1>1, NoNewFile

(* Steps that change no file, and no entry but by saving what is in memory. *)
LEMMA QuietKeepsVouching ==
  ASSUME Vouching, UNCHANGED <<disk, listing>>, \A p \in Paths : older'[p] \subseteq older[p],
         memory'.files = memory.files, index'.files = index.files \/ index'.files = memory.files,
         step' = step \/ (step # "listed" /\ step' # "listed"), index'.files = index.files \/ step # "listed"
  PROVE  Vouching'
<1>1. ASSUME NEW p \in Paths
      PROVE  /\ Seen(p)' \subseteq Seen(p) \cup {NoFile}
             /\ Vouches(index'.files[p], Seen(p))
             /\ Torn(p)' \/ Vouches(memory'.files[p], Seen(p))
  <2>1. Seen(p)' \subseteq Seen(p)  BY DEF Seen
  <2>2. Torn(p) => Torn(p)' /\ step = "listed"  BY DEF Torn, RevisionOf
  <2> QED  BY <2>1, <2>2 DEF Vouching
<1> QED  BY <1>1, NoNewFile

(* One path gets a file that nothing remembers, or loses its file; the one *)
(* that was there may come back.                                           *)
LEMMA NewFileKeepsVouching ==
  ASSUME Shape, Vouching, NEW p \in Paths, NEW f, UNCHANGED <<index, memory, listing>>,
         step' = step \/ (step # "listed" /\ step' # "listed"),
         f = NoFile \/ f.revision = FreshRevision,
         disk' = [disk EXCEPT ![p] = f],
         older' = [older EXCEPT ![p] = @ \cup {disk[p]}]
  PROVE  Vouching'
<1>1. ASSUME NEW q \in Paths
      PROVE  /\ disk'[q] = (IF q = p THEN f ELSE disk[q])
             /\ Seen(q)' \subseteq Seen(q) \cup {f} /\ (q # p => Seen(q)' = Seen(q))
  BY DEF Shape, Folder, IsFolder, AreEarlier, Seen
<1>2. ASSUME NEW g \in Seen(p), g # NoFile
      PROVE  g.revision # FreshRevision
  <2>1. RevisionOf(g) # FreshRevision  BY NewRevision DEF Shape, Seen
  <2> QED  BY <1>2, <2>1 DEF RevisionOf
<1>3. ASSUME NEW q \in Paths
      PROVE  /\ index.files[q] # NoInfo => index.files[q].revision # FreshRevision
             /\ memory.files[q] # NoInfo => memory.files[q].revision # FreshRevision
             /\ RevisionOf(listing[q]) # FreshRevision
  BY NewRevision DEF Shape
<1>4. ASSUME NEW q \in Paths, Torn(q)
      PROVE  Torn(q)'
  <2>1. step' = "listed" /\ listing'[q] # NoFile /\ listing'[q] = listing[q]
        /\ RevisionOf(disk[q]) # listing[q].revision
    BY <1>4 DEF Torn
  <2>2. listing[q].revision # FreshRevision /\ listing[q].revision # Deleted
    BY <1>3, <2>1 DEF RevisionOf, Shape, Folder, IsFolder, FilesAt
  <2>3. RevisionOf(disk'[q]) # listing[q].revision
    BY <1>1, <2>1, <2>2 DEF RevisionOf
  <2> QED  BY <2>1, <2>3 DEF Torn, RevisionOf
<1>5. ASSUME NEW q \in Paths
      PROVE  Agree(Seen(q)')
  <2>1. Agree(Seen(q))  BY DEF Vouching
  <2>2. CASE q # p  BY <1>1, <2>1, <2>2
  <2>3. CASE q = p
    <3>1. Seen(q)' \subseteq Seen(q) \cup {f}  BY <1>1
    <3> QED  BY <1>2, <2>1, <2>3, <3>1 DEF Agree
  <2> QED  BY <2>2, <2>3
<1>6. ASSUME NEW q \in Paths, NEW e \in {index.files[q], memory.files[q]}, Vouches(e, Seen(q))
      PROVE  Vouches(e, Seen(q)')
  <2>1. Seen(q)' \subseteq Seen(q) \cup {f}  BY <1>1
  <2>2. e # NoInfo => e.revision # FreshRevision  BY <1>3
  <2> QED  BY <1>6, <2>1, <2>2 DEF Vouches
<1> SUFFICES ASSUME NEW q \in Paths
             PROVE  /\ Agree(Seen(q)') /\ Vouches(index'.files[q], Seen(q)')
                    /\ Torn(q)' \/ Vouches(memory'.files[q], Seen(q)')
  BY DEF Vouching, Agree, Vouches
<1>7. Vouches(index.files[q], Seen(q)) /\ (Torn(q) \/ Vouches(memory.files[q], Seen(q)))  BY DEF Vouching
<1> QED  BY <1>4, <1>5, <1>6, <1>7

(* One entry is made for the file that is there.                           *)
LEMMA NewEntryKeepsVouching ==
  ASSUME Shape, Vouching, NEW p \in Paths, NEW e, UNCHANGED <<disk, older, listing>>,
         memory'.files = [memory.files EXCEPT ![p] = e],
         index'.files = index.files \/ (index'.files = memory'.files /\ step # "listed"),
         step' = step \/ (step # "listed" /\ step' # "listed"),
         Torn(p) \/ Vouches(e, Seen(p))
  PROVE  Vouching'
<1>1. \A q \in Paths : memory'.files[q] = IF q = p THEN e ELSE memory.files[q]
  BY DEF Shape, Folder, IsIndex, IsEntries
<1>2. ASSUME NEW q \in Paths
      PROVE  /\ Seen(q)' \subseteq Seen(q) \cup {NoFile}
             /\ Vouches(index'.files[q], Seen(q))
             /\ Torn(q)' \/ Vouches(memory'.files[q], Seen(q))
  <2>1. Seen(q)' = Seen(q)  BY DEF Seen
  <2>2. Torn(q) => Torn(q)' /\ step = "listed"  BY DEF Torn, RevisionOf
  <2>3. Torn(q) \/ Vouches(memory'.files[q], Seen(q))  BY <1>1 DEF Vouching
  <2> QED  BY <2>1, <2>2, <2>3 DEF Vouching
<1> QED  BY <1>2, NoNewFile

(* The steps of a scan: what it records of a file it has read, where the   *)
(* file has not changed since it was listed.                               *)
LEMMA ScanKeepsVouching ==
  ASSUME Shape, Shape', Vouching, RecoverPending \/ (\E p \in Paths : HashFile(p)) \/ FinishScan
  PROVE  Vouching'
<1>0. UNCHANGED <<index, disk, older>> /\ step = "listed"
  BY DEF RecoverPending, HashFile, FinishScan, folder
<1>1. CASE RecoverPending
  <2> DEFINE update == memory.pending
             q == update.path
             e == [revision |-> RevisionOf(listing[q]), info |-> update.info]
  <2>1. UNCHANGED <<step, listing>> /\ update # NoInfo  BY <1>1 DEF RecoverPending
  <2>2. IsRecord(update) /\ q \in Paths  BY <2>1 DEF Shape, Folder, IsIndex, IsRecord
  <2>3. PICK c \in Read(q) : memory'.files = Recovered(update, c)  BY <1>1 DEF RecoverPending
  <2>4. CASE PendingMatches(update, c)
    <3>1. memory'.files = [memory.files EXCEPT ![q] = e]  BY <2>3, <2>4 DEF Recovered
    <3>2. Torn(q) \/ Vouches(e, Seen(q))
      <4>1. SUFFICES ASSUME ~IsDeleted(update.info), ~Torn(q)
                     PROVE  Vouches(e, Seen(q))
        BY DEF Vouches
      <4>2. c = update.info.content /\ c \in Contents
        BY <2>2, <2>4, <4>1 DEF PendingMatches, IsRecord, InfosAt, FileInfo, IsDeleted
      <4>3. c # NoFile  BY <4>2, NothingAssumption
      <4>4. listing[q] # NoFile /\ c = disk[q].content /\ disk[q].revision = listing[q].revision /\ disk[q] # NoFile
        BY <1>0, <2>2, <4>1, <4>3, ReadOrTorn
      <4>5. e.revision = disk[q].revision /\ e.revision # Deleted /\ e.info = update.info
        BY <2>2, <4>4 DEF RevisionOf, Shape, Folder, IsFolder, FilesAt
      <4>6. Agree(Seen(q)) /\ disk[q] \in Seen(q)  BY <2>2 DEF Vouching, Seen
      <4> HIDE DEF e
      <4> QED  BY <4>2, <4>4, <4>5, <4>6 DEF Agree, Vouches
    <3> HIDE DEF e
    <3> QED  BY <1>0, <2>1, <2>2, <3>1, <3>2, NewEntryKeepsVouching
  <2>5. CASE ~PendingMatches(update, c)
    <3>1. memory'.files = memory.files  BY <2>3, <2>5 DEF Recovered
    <3> QED  BY <1>0, <2>1, <3>1, QuietKeepsVouching
  <2> QED  BY <2>4, <2>5
<1>2. ASSUME NEW p \in Paths, HashFile(p)
      PROVE  Vouching'
  <2>1. PICK c \in Read(p) : IF c = NoFile THEN EndTransaction
                             ELSE /\ memory' = [memory EXCEPT !.files[p] = ReadEntry(p, c)]
                                  /\ UNCHANGED <<step, kind, listing, todo, work>>
    BY <1>2 DEF HashFile
  <2>2. CASE c = NoFile  BY <1>0, <2>1, <2>2, EndingKeepsVouching
  <2>3. CASE c # NoFile
    <3>1. listing[p] # NoFile /\ disk[p] # NoFile
          /\ (Torn(p) \/ (c = disk[p].content /\ disk[p].revision = listing[p].revision))
      BY <1>0, <2>3, ReadOrTorn
    <3>2. listing[p].revision # Deleted  BY <3>1 DEF Shape, Folder, IsFolder, FilesAt
    <3>3. ReadEntry(p, c).revision = listing[p].revision /\ ReadEntry(p, c).info.content = c
      BY DEF ReadEntry
    <3>4. Agree(Seen(p)) /\ disk[p] \in Seen(p)  BY DEF Vouching, Seen
    <3> HIDE DEF ReadEntry
    <3>5. Torn(p) \/ Vouches(ReadEntry(p, c), Seen(p))
      BY <3>1, <3>2, <3>3, <3>4 DEF Agree, Vouches
    <3>6. memory'.files = [memory.files EXCEPT ![p] = ReadEntry(p, c)]
      BY <2>1, <2>3 DEF Shape, Folder, IsIndex
    <3> QED  BY <1>0, <2>1, <2>3, <3>5, <3>6, NewEntryKeepsVouching
  <2> QED  BY <2>2, <2>3
<1>3. CASE FinishScan
  <2>1. CASE ~FolderUnchanged
    BY <1>0, <1>3, <2>1, EndingKeepsVouching DEF FinishScan
  <2>2. CASE FolderUnchanged
    <3>1. memory'.files = [p \in Paths |-> MissingEntry(p)] /\ UNCHANGED listing
      BY <1>3, <2>2 DEF FinishScan, Shape, Folder, IsIndex
    <3>2. ASSUME NEW p \in Paths
          PROVE  /\ Seen(p)' \subseteq Seen(p) \cup {NoFile}
                 /\ Vouches(index'.files[p], Seen(p))
                 /\ Vouches(memory'.files[p], Seen(p))
      <4>1. Vouches(memory.files[p], Seen(p)) /\ Vouches(index.files[p], Seen(p))
        BY <2>2, NothingIsTorn DEF Vouching
      <4>2. Seen(p)' = Seen(p)  BY <1>0, <3>1 DEF Seen
      <4>3. Vouches(MissingEntry(p), Seen(p))
        <5>1. CASE listing[p] = NoFile /\ IsLive(InfoAt(memory, p))
          <6>1. memory.files[p].info \in FileInfo  BY <5>1, Infos DEF IsLive, InfosAt, Shape, Folder, InfoAt
          <6>2. MissingEntry(p).info.content = Tombstone  BY <5>1, <6>1 DEF MissingEntry, FileInfo
          <6> QED  BY <6>2 DEF Vouches, IsDeleted
        <5>2. CASE ~(listing[p] = NoFile /\ IsLive(InfoAt(memory, p)))
          BY <4>1, <5>2 DEF MissingEntry
        <5> QED  BY <5>1, <5>2
      <4> QED  BY <1>0, <3>1, <4>1, <4>2, <4>3
    <3> QED  BY <3>2, NoNewFile
  <2> QED  BY <2>1, <2>2
<1> QED  BY <1>1, <1>2, <1>3

(* Every step leaves each revision vouching for one content.               *)
LEMMA NextKeepsVouching ==
  ASSUME Shape, InPlace, Vouching, ~EditorRaces, [Next]_vars
  PROVE  Vouching'
<1>1. CASE \E k \in {"scan", "receive", "edit"} : BeginScan(k)
  <2>1. ASSUME NEW p \in Paths
        PROVE  /\ Seen(p)' \subseteq Seen(p) \cup {NoFile}
               /\ Vouches(index'.files[p], Seen(p))
               /\ Vouches(memory'.files[p], Seen(p))
    BY <1>1 DEF BeginScan, folder, Seen, Vouching
  <2> QED  BY <2>1, NoNewFile
<1>2. CASE RecoverPending \/ (\E p \in Paths : HashFile(p)) \/ FinishScan
  BY <1>2, ScanKeepsVouching, NextKeepsShape
<1>3. CASE \/ ChooseRecord \/ Download \/ FinalCheck \/ ArchiveReplaced \/ ArchiveDoomed
           \/ ProcessStops \/ FinishReceive \/ SaveScan \/ JournalFile \/ JournalDeletion
           \/ \E p \in Paths : PeerMerges(p)
           \/ UNCHANGED vars
  <2>1. UNCHANGED <<disk, older>> /\ Journaled.files = memory.files
    BY <1>3 DEF ChooseRecord, Download, FinalCheck, ArchiveReplaced, ArchiveDoomed, ProcessStops,
       FinishReceive, SaveScan, JournalFile, JournalDeletion, PeerMerges, vars, folder,
       Journaled, Shape, Folder, IsIndex
  <2>2. /\ index'.files = index.files \/ (index'.files = memory.files /\ step # "listed")
        /\ \/ EndTransaction
           \/ /\ memory'.files = memory.files /\ UNCHANGED listing
              /\ step' = step \/ (step # "listed" /\ step' # "listed")
    BY <1>3, <2>1 DEF ChooseRecord, Download, FinalCheck, ArchiveReplaced, ArchiveDoomed, ProcessStops,
       FinishReceive, SaveScan, JournalFile, JournalDeletion, PeerMerges, vars, folder,
       transaction, Save, Installing
  <2>3. CASE EndTransaction
    <3>1. \A p \in Paths : index'.files[p] = index.files[p] \/ (index'.files[p] = memory.files[p] /\ ~Torn(p))
      BY <2>2 DEF Torn
    <3> QED  BY <2>1, <2>3, <3>1, EndingKeepsVouching
  <2>4. CASE ~EndTransaction
    <3>1. \A p \in Paths : older'[p] \subseteq older[p]  BY <2>1
    <3> QED  BY <2>1, <2>2, <2>4, <3>1, QuietKeepsVouching
  <2> QED  BY <2>3, <2>4
<1>4. CASE FlushPending \/ FlushTarget
  <2>1. UNCHANGED <<disk, index, memory, listing>> /\ step # "listed" /\ step' # "listed"
    BY <1>4 DEF FlushPending, FlushTarget
  <2>2. \A p \in Paths : older'[p] \subseteq older[p]
    BY <1>4 DEF FlushPending, FlushTarget, Shape, Folder, AreEarlier
  <2> QED  BY <2>1, <2>2, QuietKeepsVouching
<1>5. CASE Replace
  <2>1. Target \in Paths  BY <1>5, AtHand DEF Replace, Shape, Transaction, Installs
  <2> DEFINE f == IF IsDeleted(Install) THEN NoFile
                  ELSE [content |-> Install.content, revision |-> FreshRevision, mtime |-> Install.mtime]
  <2>2. f = NoFile \/ f.revision = FreshRevision  OBVIOUS
  <2>3. /\ disk' = [disk EXCEPT ![Target] = f] /\ UNCHANGED <<index, memory, listing>>
        /\ older' = [older EXCEPT ![Target] = @ \cup {disk[Target]}]
        /\ step # "listed" /\ step' # "listed"
    BY <1>5 DEF Replace
  <2> HIDE DEF f
  <2> QED  BY <2>1, <2>2, <2>3, NewFileKeepsVouching
<1>6. CASE Users
  <2>1. ASSUME NEW p \in Edited, NEW f, PutFile(p, f), f = NoFile \/ f.revision = FreshRevision
        PROVE  Vouching'
    BY <2>1, PathKinds, NewFileKeepsVouching DEF PutFile, transaction
  <2>2. ASSUME NEW p \in Edited, NEW c \in Contents, NEW t \in Nat, UserWrites(p, c, t)
        PROVE  Vouching'
    BY <2>1, <2>2 DEF UserWrites
  <2>3. ASSUME NEW p \in Edited, UserDeletes(p)  PROVE Vouching'
    BY <2>1, <2>3 DEF UserDeletes
  <2>4. CASE UNCHANGED <<folder, transaction>>
    BY <2>4, QuietKeepsVouching DEF folder, transaction
  <2> QED  BY <1>6, <2>2, <2>3, <2>4, UserActs DEF OpenDraft, PeerWrites, PeerDeletes
<1>7. CASE SaveInstalled
  <2>1. step = "flushed" /\ step \in Installs /\ step' # "listed" /\ UNCHANGED <<disk, older, listing>>
    BY <1>7 DEF SaveInstalled, Installs
  <2>2. Target \in Paths  BY <2>1, AtHand DEF Shape, Transaction
  <2> DEFINE e == [revision |-> RevisionOf(disk[Target]), info |-> Install]
  <2>3. memory'.files = [memory.files EXCEPT ![Target] = e] /\ index' = memory'
    BY <1>7 DEF SaveInstalled, Save
  <2>4. ~IsDeleted(Install) => disk[Target] # NoFile /\ disk[Target].content = Install.content
    BY <2>1 DEF InPlace
  <2>5. Agree(Seen(Target)) /\ disk[Target] \in Seen(Target)  BY <2>2 DEF Vouching, Seen
  <2>6. ~IsDeleted(Install) => e.revision = disk[Target].revision /\ e.revision # Deleted
    BY <2>2, <2>4 DEF RevisionOf, Shape, Folder, IsFolder, FilesAt
  <2>7. Vouches(e, Seen(Target))
    <3>1. e.info = Install  OBVIOUS
    <3> HIDE DEF e
    <3> QED  BY <2>4, <2>5, <2>6, <3>1 DEF Agree, Vouches
  <2> HIDE DEF e
  <2> QED  BY <2>1, <2>2, <2>3, <2>7, NewEntryKeepsVouching
<1>8. CASE SaveLocalWinner
  <2>1. /\ step \in Installs /\ step # "listed" /\ step' # "listed"
        /\ UNCHANGED <<disk, older, listing>> /\ Plan.source = "local"
        /\ Save([memory EXCEPT !.files[work.path].info = Plan.winner])
    BY <1>8 DEF SaveLocalWinner, Installs
  <2> DEFINE p == work.path
             old == memory.files[p]
             e == [old EXCEPT !.info = Plan.winner]
  <2>2. /\ p \in Paths /\ InfoAt(memory, p) # NoInfo
        /\ Plan.winner.content = InfoAt(memory, p).content
    BY <2>1, AtHand DEF Shape, Transaction
  <2>3. old \in Entry /\ InfoAt(memory, p) = old.info /\ old # NoInfo
    BY <2>2, Infos DEF Shape, Folder, IsIndex, IsEntries
  <2>4. e.info = Plan.winner /\ e.revision = old.revision  BY <2>3 DEF Entry
  <2>5. memory'.files = [memory.files EXCEPT ![p] = e] /\ index' = memory'
    BY <2>1 DEF Save, Shape, Folder, IsIndex
  <2>6. Vouches(old, Seen(p))  BY <2>1, <2>2 DEF Vouching, Torn
  <2> HIDE DEF e
  <2>7. Vouches(e, Seen(p))
    <3>1. e.info.content = old.info.content /\ e.revision = old.revision /\ old # NoInfo
      BY <2>2, <2>3, <2>4
    <3> HIDE DEF old
    <3> QED  BY <2>6, <3>1 DEF Vouches, IsDeleted
  <2> QED  BY <2>1, <2>2, <2>5, <2>7, NewEntryKeepsVouching
<1>9. CASE MachineStops
  <2>1. PICK back : /\ PowerIsLost(back) /\ \A p \in DOMAIN back : back[p] \in older[p]
    BY <1>9, PowerLoss
  <2>2. /\ disk' = [p \in Paths |-> IF p \in DOMAIN back THEN back[p] ELSE disk[p]]
        /\ older' = [p \in Paths |-> {}] /\ EndTransaction /\ index' = index
    BY <1>9, <2>1, PowerLoss DEF PowerIsLost
  <2>3. ASSUME NEW p \in Paths
        PROVE  /\ Seen(p)' \subseteq Seen(p) \cup {NoFile}
               /\ Vouches(index'.files[p], Seen(p))
               /\ Vouches(memory'.files[p], Seen(p))
    <3>1. disk'[p] \in {disk[p]} \cup older[p] /\ older'[p] = {}  BY <2>1, <2>2
    <3>2. listing'[p] = NoFile /\ memory'.files[p] = NoInfo  BY <2>2 DEF EndTransaction, EmptyIndex
    <3>3. Seen(p)' \subseteq Seen(p) \cup {NoFile}  BY <3>1, <3>2 DEF Seen
    <3>4. Vouches(index'.files[p], Seen(p))  BY <2>2 DEF Vouching
    <3> QED  BY <3>2, <3>3, <3>4 DEF Vouches
  <2> QED  BY <2>3, NoNewFile
<1> QED  BY <1>1, <1>2, <1>3, <1>4, <1>5, <1>6, <1>7, <1>8, <1>9, Steps

(* A scan that trusts a revision knows the content: unless an editor comes *)
(* into the window no check can close.                                     *)
THEOREM RevisionsVouch ==
  ASSUME ~EditorRaces
  PROVE  Spec => []RevisionVouches
<1>1. Init => Shape /\ InPlace /\ Vouching
  BY ShapeInit, VouchingInit DEF Init, InPlace
<1>2. Shape /\ InPlace /\ Vouching /\ [Next]_vars => Shape' /\ InPlace' /\ Vouching'
  BY NextKeepsShape, NextKeepsInPlace, NextKeepsVouching
<1>3. Vouching => RevisionVouches
  BY DEF Vouching, Vouches, Seen, RevisionVouches, IsLive, InfoAt
<1> QED  BY <1>1, <1>2, <1>3, PTL DEF Spec

-----------------------------------------------------------------------------
(* Every content is one that a user has written: of the files, the indexes *)
(* and the records.  What a torn read gave is only in memory.              *)

Uses(info, contents) == info # NoInfo => info.content \in contents \cup {Tombstone}

FilesUsed == \A p \in Paths : \A f \in Seen(p) : f # NoFile => f.content \in used

IndexUsed ==
  /\ \A p \in Paths : /\ Uses(InfoAt(index, p), used)
                      /\ Torn(p) \/ Uses(InfoAt(memory, p), used)
  /\ \A idx \in {index, memory} : idx.pending # NoInfo => Uses(idx.pending.info, used)

RecordsUsed ==
  /\ \A p \in Paths : Uses(peer[p], used)
  /\ \A r \in todo : Uses(r.info, used)
  /\ step \in Installs => Uses(work.info, used)

Authentic == FilesUsed /\ IndexUsed /\ RecordsUsed

(* In the beginning there is none.                                         *)
LEMMA AuthenticInit == Init => Authentic
  BY DEF Init, Authentic, FilesUsed, IndexUsed, RecordsUsed, Seen, Uses, InfoAt, EmptyIndex, Installs

(* A user's act leaves a path its file, deletes it, or puts a new one there. *)
LEMMA UsersPut ==
  ASSUME Shape, Users
  PROVE  \A p \in Paths : disk'[p] = disk[p] \/ disk'[p] = NoFile \/ disk'[p].revision = FreshRevision
<1>1. ASSUME NEW q, NEW f, PutFile(q, f), f = NoFile \/ f.revision = FreshRevision
      PROVE  \A p \in Paths : disk'[p] = disk[p] \/ disk'[p] = NoFile \/ disk'[p].revision = FreshRevision
  BY <1>1 DEF PutFile, Shape, Folder, IsFolder
<1>2. ASSUME NEW q, NEW c, NEW t, UserWrites(q, c, t)
      PROVE  \A p \in Paths : disk'[p] = disk[p] \/ disk'[p] = NoFile \/ disk'[p].revision = FreshRevision
  <2>1. PICK f : f = [content |-> c, revision |-> FreshRevision, mtime |-> t]  OBVIOUS
  <2>2. PutFile(q, f) /\ f.revision = FreshRevision  BY <1>2, <2>1 DEF UserWrites
  <2> QED  BY <1>1, <2>2
<1>3. ASSUME NEW q, UserDeletes(q)
      PROVE  \A p \in Paths : disk'[p] = disk[p] \/ disk'[p] = NoFile \/ disk'[p].revision = FreshRevision
  BY <1>1, <1>3 DEF UserDeletes
<1>4. CASE UNCHANGED disk  BY <1>4
<1> QED  BY <1>2, <1>3, <1>4, UserActs DEF OpenDraft, PeerWrites, PeerDeletes, folder

(* What was written stays written.                                         *)
LEMMA UsedGrows ==
  ASSUME [Next]_vars
  PROVE  used \subseteq used'
<1>1. CASE Users
  BY <1>1, UserActs DEF UserWrites, UserDeletes, OpenDraft, PeerWrites, PeerDeletes
<1>2. CASE ~Users
  BY <1>2, Steps, PowerLoss DEF BeginScan, RecoverPending, HashFile, FinishScan, FlushPending, SaveScan, ChooseRecord,
     Download, FinalCheck, ProcessStops, FinishReceive, ArchiveReplaced, ArchiveDoomed, JournalFile,
     JournalDeletion, Replace, FlushTarget, SaveLocalWinner, SaveInstalled, PeerMerges, users, vars
<1> QED  BY <1>1, <1>2

(* A merge makes no content up.                                            *)
LEMMA PlanUses ==
  ASSUME NEW local, local # NoInfo => local \in FileInfo, NEW remote \in FileInfo, NEW S,
         Uses(local, S), Uses(remote, S)
  PROVE  Uses(planReplicaMerge(local, remote).winner, S) /\ Uses(planReplicaMerge(local, remote).conflict, S)
<1>0. remote # NoInfo  BY NoInfoAssumption
<1>1. CASE local = NoInfo
  BY <1>1 DEF planReplicaMerge, Receive, Uses
<1>2. CASE local # NoInfo
  <2> DEFINE plan == planReplicaMerge(local, remote)
             merged == mergeVersionVectors(local.version, remote.version)
  <2>1. plan \in {Keep(local), Receive(remote), MergeConcurrent(local, remote)}  BY <1>2, PlanKinds
  <2>2. CASE plan = Keep(local)  BY <2>2 DEF Keep, Uses
  <2>3. CASE plan = Receive(remote)  BY <2>3 DEF Receive, Uses
  <2>4. CASE plan = MergeConcurrent(local, remote)
    <3>1. /\ plan.winner \in {[local EXCEPT !.version = merged], [remote EXCEPT !.version = merged]}
          /\ plan.conflict \in {NoInfo, [local EXCEPT !.version = merged], [remote EXCEPT !.version = merged]}
      BY <2>4 DEF MergeConcurrent
    <3> HIDE DEF plan, merged
    <3>2. /\ [local EXCEPT !.version = merged].content = local.content
          /\ [remote EXCEPT !.version = merged].content = remote.content
      BY <1>2 DEF FileInfo
    <3>3. Uses([local EXCEPT !.version = merged], S) /\ Uses([remote EXCEPT !.version = merged], S)
      BY <1>0, <1>2, <3>2 DEF Uses
    <3>4. Uses(NoInfo, S)  BY DEF Uses
    <3>5. Uses(plan.winner, S) /\ Uses(plan.conflict, S)  BY <3>1, <3>3, <3>4
    <3> QED  BY <3>5 DEF plan
  <2> QED  BY <2>1, <2>2, <2>3, <2>4
<1> QED  BY <1>1, <1>2

(* So what is installed was written by a user.                             *)
LEMMA InstallUsed ==
  ASSUME Shape, IndexUsed, RecordsUsed, step \in Installs
  PROVE  Uses(Install, used) /\ Uses(Plan.winner, used)
<1>1. work.path \in Paths /\ work.info \in InfosAt(work.path) /\ step # "listed"
  BY DEF Shape, Transaction, IsRecord, Installs
<1>2. InfoAt(memory, work.path) # NoInfo => InfoAt(memory, work.path) \in FileInfo
  BY <1>1, Infos DEF Shape, Folder, InfosAt
<1>3. Uses(InfoAt(memory, work.path), used) /\ Uses(work.info, used)
  BY <1>1 DEF IndexUsed, RecordsUsed, Torn
<1>4. Uses(Plan.winner, used) /\ Uses(Plan.conflict, used)
  BY <1>1, <1>2, <1>3, PlanUses DEF Plan, InfosAt
<1> QED  BY <1>4 DEF Install

(* Files: only a user's write and a replacement are new.                   *)
LEMMA NextKeepsFilesUsed ==
  ASSUME Shape, Authentic, [Next]_vars
  PROVE  FilesUsed'
<1>0. used \subseteq used'  BY UsedGrows
<1>1. ASSUME \A p \in Paths : \A f \in Seen(p)' : f \in Seen(p) \cup {NoFile} \/ f.content \in used'
      PROVE  FilesUsed'
  BY <1>0, <1>1 DEF Authentic, FilesUsed
<1>2. CASE Users
  <2>1. ASSUME NEW p \in Edited, NEW f, PutFile(p, f), f # NoFile => f.content \in used'
        PROVE  FilesUsed'
    <3>1. ASSUME NEW q \in Paths
          PROVE  Seen(q)' \subseteq Seen(q) \cup {f}
      BY <2>1 DEF PutFile, transaction, Seen, Shape, Folder, IsFolder, AreEarlier
    <3> QED  BY <1>1, <2>1, <3>1
  <2>2. ASSUME NEW p \in Edited, NEW c \in Contents, NEW t \in Nat, UserWrites(p, c, t)
        PROVE  FilesUsed'
    BY <2>1, <2>2 DEF UserWrites
  <2>3. ASSUME NEW p \in Edited, UserDeletes(p)  PROVE FilesUsed'
    BY <2>1, <2>3 DEF UserDeletes
  <2>4. CASE UNCHANGED <<folder, transaction>>
    BY <1>1, <2>4 DEF folder, transaction, Seen
  <2> QED  BY <1>2, <2>2, <2>3, <2>4, UserActs DEF OpenDraft, PeerWrites, PeerDeletes
<1>3. CASE Replace
  <2>1. Target \in Paths /\ step \in Installs  BY <1>3, AtHand DEF Replace, Shape, Transaction, Installs
  <2>2. Uses(Install, used) /\ Install # NoInfo
    BY <2>1, InstallUsed, AtHand, NoInfoAssumption DEF Authentic, Shape, Transaction, InfosAt
  <2> DEFINE f == IF IsDeleted(Install) THEN NoFile
                  ELSE [content |-> Install.content, revision |-> FreshRevision, mtime |-> Install.mtime]
  <2>3. f # NoFile => f.content \in used  BY <2>2 DEF Uses, IsDeleted
  <2>4. /\ disk' = [disk EXCEPT ![Target] = f] /\ UNCHANGED listing
        /\ older' = [older EXCEPT ![Target] = @ \cup {disk[Target]}]
    BY <1>3 DEF Replace
  <2> HIDE DEF f
  <2>5. ASSUME NEW q \in Paths
        PROVE  Seen(q)' \subseteq Seen(q) \cup {f}
    BY <2>4 DEF Seen, Shape, Folder, IsFolder, AreEarlier
  <2> QED  BY <1>0, <1>1, <2>3, <2>5
<1>4. CASE FlushPending \/ FlushTarget
  <2>1. \A p \in Paths : older'[p] \subseteq older[p]
    BY <1>4 DEF FlushPending, FlushTarget, Shape, Folder, AreEarlier
  <2>2. UNCHANGED <<disk, listing>>  BY <1>4 DEF FlushPending, FlushTarget
  <2> QED  BY <1>1, <2>1, <2>2 DEF Seen
<1>5. CASE MachineStops
  <2>1. PICK back : /\ PowerIsLost(back) /\ \A p \in DOMAIN back : back[p] \in older[p]
    BY <1>5, PowerLoss
  <2>2. /\ disk' = [p \in Paths |-> IF p \in DOMAIN back THEN back[p] ELSE disk[p]]
        /\ older' = [p \in Paths |-> {}] /\ listing' = [p \in Paths |-> NoFile]
    BY <1>5, <2>1, PowerLoss DEF PowerIsLost, EndTransaction
  <2> QED  BY <1>1, <2>1, <2>2 DEF Seen
<1>6. CASE ~(Users \/ Replace \/ FlushPending \/ FlushTarget \/ MachineStops)
  <2>1. UNCHANGED <<disk, older>> /\ \A p \in Paths : listing'[p] \in {listing[p], disk[p], NoFile}
    BY <1>6, Steps DEF BeginScan, RecoverPending, HashFile, FinishScan, SaveScan, ChooseRecord, Download,
       FinalCheck, ProcessStops, FinishReceive, ArchiveReplaced, ArchiveDoomed, JournalFile, JournalDeletion,
       SaveLocalWinner, SaveInstalled, PeerMerges, vars, folder, transaction, EndTransaction
  <2> QED  BY <1>1, <2>1 DEF Seen
<1> QED  BY <1>2, <1>3, <1>4, <1>5, <1>6

(* What is used stays used, and an index without entries uses nothing.     *)
LEMMA MoreUsed ==
  ASSUME used \subseteq used', NEW i, Uses(i, used)
  PROVE  Uses(i, used')
  BY DEF Uses

(* One entry is made of something used.                                    *)
LEMMA NewEntryUsed ==
  ASSUME Shape, NEW p \in Paths, NEW e, e # NoInfo, memory'.files = [memory.files EXCEPT ![p] = e], NEW q \in Paths
  PROVE  InfoAt(memory', q) = IF q = p THEN e.info ELSE InfoAt(memory, q)
  BY DEF Shape, Folder, IsIndex, IsEntries, InfoAt

(* The steps of a scan.                                                    *)
LEMMA ScanKeepsIndexUsed ==
  ASSUME Shape, Authentic, RecoverPending \/ (\E p \in Paths : HashFile(p)) \/ FinishScan
  PROVE  IndexUsed'
<1>0. UNCHANGED <<index, disk, older, used>> /\ step = "listed"
  BY DEF RecoverPending, HashFile, FinishScan, folder, users
<1>1. \A p \in Paths : Uses(InfoAt(index, p), used) /\ (Torn(p) \/ Uses(InfoAt(memory, p), used))
  BY DEF Authentic, IndexUsed
<1>2. ASSUME memory'.pending # NoInfo => Uses(memory'.pending.info, used),
             \A p \in Paths : Torn(p)' \/ Uses(InfoAt(memory', p), used)
      PROVE  IndexUsed'
  BY <1>0, <1>1, <1>2 DEF Authentic, IndexUsed, InfoAt, Uses
<1>3. UNCHANGED <<step, listing>> => \A p \in Paths : Torn(p)' <=> Torn(p)
  BY <1>0 DEF Torn, RevisionOf
<1>4. CASE EndTransaction
  BY <1>2, <1>4 DEF EndTransaction, EmptyIndex, InfoAt, Uses
<1>5. CASE RecoverPending
  <2> DEFINE update == memory.pending
             q == update.path
             e == [revision |-> RevisionOf(listing[q]), info |-> update.info]
  <2>1. PICK c : memory' = [files |-> Recovered(update, c), pending |-> NoInfo]
    BY <1>5 DEF RecoverPending
  <2>2. /\ update # NoInfo /\ IsRecord(update) /\ q \in Paths /\ Uses(update.info, used)
        /\ UNCHANGED <<step, listing>>
    BY <1>5 DEF RecoverPending, Shape, Folder, IsIndex, IsRecord, Authentic, IndexUsed
  <2>3. e # NoInfo
    <3>1. RevisionOf(listing[q]) \in Nat
      BY <2>2 DEF Shape, Folder, IsFolder, File, RevisionOf, Deleted
    <3>2. e \in Entry  BY <2>2, <3>1 DEF Entry, IsRecord, InfosAt
    <3> QED  BY <3>2, NothingAssumption
  <2>4. e.info = update.info  OBVIOUS
  <2>5. memory'.files = memory.files \/ memory'.files = [memory.files EXCEPT ![q] = e]
    BY <2>1 DEF Recovered
  <2> HIDE DEF e
  <2>6. \A p \in Paths : Torn(p)' \/ Uses(InfoAt(memory', p), used)
    <3>1. CASE memory'.files = memory.files  BY <1>1, <1>3, <2>2, <3>1 DEF InfoAt
    <3>2. CASE memory'.files = [memory.files EXCEPT ![q] = e]
      <4>1. \A p \in Paths : InfoAt(memory', p) = IF p = q THEN e.info ELSE InfoAt(memory, p)
        BY <2>2, <2>3, <3>2, NewEntryUsed
      <4> QED  BY <1>1, <1>3, <2>2, <2>4, <4>1
    <3> QED  BY <2>5, <3>1, <3>2
  <2> QED  BY <1>2, <2>1, <2>6
<1>6. ASSUME NEW p \in Paths, HashFile(p), ~EndTransaction
      PROVE  IndexUsed'
  <2>1. PICK c \in Read(p) : /\ c # NoFile /\ memory' = [memory EXCEPT !.files[p] = ReadEntry(p, c)]
                             /\ UNCHANGED <<step, kind, listing, todo, work>>
    BY <1>6 DEF HashFile
  <2>2. Torn(p) \/ (c = disk[p].content /\ disk[p] # NoFile)  BY <1>0, <2>1, ReadOrTorn
  <2>3. ReadEntry(p, c).info.content = c /\ ReadEntry(p, c) # NoInfo
    <3>1. IsEntry(ReadEntry(p, c), p)  BY <1>0, <2>1, Reading, ReadTyped DEF Shape
    <3>2. ReadEntry(p, c) # NoInfo  BY <3>1, NothingAssumption DEF IsEntry
    <3> QED  BY <3>2 DEF ReadEntry
  <2> HIDE DEF ReadEntry
  <2>4. memory'.files = [memory.files EXCEPT ![p] = ReadEntry(p, c)] /\ memory'.pending = memory.pending
    BY <2>1 DEF Shape, Folder, IsIndex
  <2>5. Torn(p) \/ Uses(ReadEntry(p, c).info, used)
    <3>1. disk[p] # NoFile => disk[p].content \in used  BY DEF Authentic, FilesUsed, Seen
    <3> QED  BY <2>2, <2>3, <3>1 DEF Uses
  <2>6. \A q \in Paths : InfoAt(memory', q) = IF q = p THEN ReadEntry(p, c).info ELSE InfoAt(memory, q)
    BY <2>3, <2>4, NewEntryUsed
  <2>7. memory.pending # NoInfo => Uses(memory.pending.info, used)  BY DEF Authentic, IndexUsed
  <2> QED  BY <1>1, <1>2, <1>3, <2>1, <2>4, <2>5, <2>6, <2>7
<1>7. CASE FinishScan /\ ~EndTransaction
  <2>1. FolderUnchanged /\ memory' = [memory EXCEPT !.files = [p \in Paths |-> MissingEntry(p)]]
    BY <1>7 DEF FinishScan
  <2>2. memory'.files = [p \in Paths |-> MissingEntry(p)] /\ memory'.pending = memory.pending
    BY <2>1 DEF Shape, Folder, IsIndex
  <2>3. ASSUME NEW p \in Paths
        PROVE  Uses(InfoAt(memory', p), used)
    <3>1. CASE listing[p] = NoFile /\ IsLive(InfoAt(memory, p))
      <4>1. memory.files[p].info \in FileInfo  BY <3>1, Infos DEF IsLive, InfosAt, Shape, Folder, InfoAt
      <4>2. MissingEntry(p).info.content = Tombstone  BY <3>1, <4>1 DEF MissingEntry, FileInfo
      <4> QED  BY <2>2, <4>2 DEF InfoAt, Uses
    <3>2. CASE ~(listing[p] = NoFile /\ IsLive(InfoAt(memory, p)))
      <4>1. InfoAt(memory', p) = InfoAt(memory, p)  BY <2>2, <3>2 DEF MissingEntry, InfoAt
      <4> QED  BY <1>1, <2>1, <4>1, NothingIsTorn
    <3> QED  BY <3>1, <3>2
  <2>4. memory.pending # NoInfo => Uses(memory.pending.info, used)  BY DEF Authentic, IndexUsed
  <2> QED  BY <1>2, <2>2, <2>3, <2>4
<1> QED  BY <1>4, <1>5, <1>6, <1>7

(* The indexes: entries are made of what was read, or of what is installed. *)
LEMMA NextKeepsIndexUsed ==
  ASSUME Shape, Authentic, [Next]_vars
  PROVE  IndexUsed'
<1>0. used \subseteq used'  BY UsedGrows
<1>1. /\ \A p \in Paths : Uses(InfoAt(index, p), used) /\ (Torn(p) \/ Uses(InfoAt(memory, p), used))
      /\ \A idx \in {index, memory} : idx.pending # NoInfo => Uses(idx.pending.info, used)
  BY DEF Authentic, IndexUsed
<1>2. ASSUME \A p \in Paths : /\ Uses(InfoAt(index', p), used)
                              /\ Torn(p)' \/ Uses(InfoAt(memory', p), used),
             \A idx \in {index', memory'} : idx.pending # NoInfo => Uses(idx.pending.info, used)
      PROVE  IndexUsed'
  BY <1>0, <1>2 DEF IndexUsed, Uses, InfoAt
<1>3. CASE RecoverPending \/ (\E p \in Paths : HashFile(p)) \/ FinishScan
  BY <1>3, ScanKeepsIndexUsed
<1>4. CASE step \in Installs /\ (SaveLocalWinner \/ SaveInstalled)
  <2>0. Uses(Install, used) /\ Uses(Plan.winner, used) /\ step # "listed"
    BY <1>4, InstallUsed DEF Authentic, Installs
  <2>1. Target \in Paths /\ work.path \in Paths /\ IsRecord(work)
    BY <1>4, AtHand DEF Shape, Transaction
  <2>2. PICK p \in Paths, e \in Entry : /\ memory'.files = [memory.files EXCEPT ![p] = e]
                                        /\ Uses(e.info, used)
                                        /\ index' = memory'
                                        /\ memory'.pending \in {NoInfo, memory.pending}
    <3>1. CASE SaveLocalWinner
      <4> DEFINE e == [memory.files[work.path] EXCEPT !.info = Plan.winner]
      <4>1. InfoAt(memory, work.path) # NoInfo /\ Plan.winner \in FileInfo
        BY <2>1, <3>1, AtHand DEF SaveLocalWinner, Shape, InfosAt
      <4>2. memory.files[work.path] \in Entry
        BY <2>1, <4>1, Infos DEF Shape, Folder, IsIndex, IsEntries
      <4>3. e \in Entry /\ e.info = Plan.winner  BY <4>1, <4>2 DEF Entry
      <4>4. /\ memory'.files = [memory.files EXCEPT ![work.path] = e]
            /\ index' = memory' /\ memory'.pending = memory.pending
        BY <3>1 DEF SaveLocalWinner, Save, Shape, Folder, IsIndex
      <4> HIDE DEF e
      <4> QED  BY <2>0, <2>1, <4>3, <4>4
    <3>2. CASE SaveInstalled
      <4> DEFINE e == [revision |-> RevisionOf(disk[Target]), info |-> Install]
      <4>1. RevisionOf(disk[Target]) \in Nat
        BY <2>1 DEF Shape, Folder, IsFolder, File, RevisionOf, Deleted
      <4>2. Install \in FileInfo  BY <2>1, AtHand DEF Shape, InfosAt
      <4>3. e \in Entry /\ e.info = Install  BY <4>1, <4>2 DEF Entry
      <4>4. /\ memory'.files = [memory.files EXCEPT ![Target] = e]
            /\ index' = memory' /\ memory'.pending = NoInfo
        BY <3>2 DEF SaveInstalled, Save
      <4> HIDE DEF e
      <4> QED  BY <2>0, <2>1, <4>3, <4>4
    <3> QED  BY <1>4, <3>1, <3>2
  <2>3. e # NoInfo  BY NothingAssumption
  <2>4. \A q \in Paths : InfoAt(memory', q) = IF q = p THEN e.info ELSE InfoAt(memory, q)
    BY <2>2, <2>3, NewEntryUsed
  <2>5. \A q \in Paths : Uses(InfoAt(memory', q), used)
    BY <1>1, <2>0, <2>2, <2>4 DEF Torn
  <2> QED  BY <1>1, <1>2, <2>2, <2>5
<1>5. CASE step \in Installs /\ (JournalFile \/ JournalDeletion)
  <2>0. Uses(Install, used) /\ step # "listed"  BY <1>5, InstallUsed DEF Authentic, Installs
  <2>1. CASE EndTransaction /\ UNCHANGED index
    BY <1>1, <1>2, <2>1 DEF EndTransaction, EmptyIndex, InfoAt, Uses
  <2>2. CASE Save(Journaled)
    <3>1. /\ index' = memory' /\ memory'.files = memory.files
          /\ memory'.pending = [path |-> Target, info |-> Install]
      BY <2>2 DEF Save, Journaled, Shape, Folder, IsIndex
    <3>2. \A q \in Paths : InfoAt(memory', q) = InfoAt(memory, q) /\ Uses(InfoAt(memory, q), used)
      BY <1>1, <2>0, <3>1 DEF InfoAt, Torn
    <3> QED  BY <1>2, <2>0, <3>1, <3>2
  <2> QED  BY <1>5, <2>1, <2>2 DEF JournalFile, JournalDeletion
<1>6. CASE \E k \in {"scan", "receive", "edit"} : BeginScan(k)
  <2>1. memory' = index /\ index' = index  BY <1>6 DEF BeginScan, folder
  <2> QED  BY <1>1, <1>2, <2>1
<1>7. CASE EndTransaction /\ (UNCHANGED index \/ (index' = memory /\ step # "listed"))
  BY <1>1, <1>2, <1>7 DEF EndTransaction, EmptyIndex, InfoAt, Uses, Torn
<1>8. CASE SaveScan /\ ~EndTransaction
  <2>1. index' = memory /\ memory' = memory /\ step # "listed"  BY <1>8 DEF SaveScan
  <2> QED  BY <1>1, <1>2, <2>1 DEF Torn
<1>9. CASE UNCHANGED <<index, memory>> /\ ((step # "listed" /\ step' # "listed") \/ UNCHANGED <<step, disk, listing>>)
  <2>1. \A p \in Paths : Torn(p) => Torn(p)'  BY <1>9 DEF Torn, RevisionOf
  <2> QED  BY <1>1, <1>2, <1>9, <2>1
<1>10. CASE Users
  <2>1. UNCHANGED <<index, memory, step, listing>>
    BY <1>10, UserActs DEF UserWrites, UserDeletes, PutFile, OpenDraft, PeerWrites, PeerDeletes, folder, transaction
  <2>2. ASSUME NEW p \in Paths, Torn(p)
        PROVE  Torn(p)'
    <3>1. disk'[p] = disk[p] \/ disk'[p] = NoFile \/ disk'[p].revision = FreshRevision
      BY <1>10, UsersPut
    <3>2. listing[p] # NoFile /\ listing[p].revision # FreshRevision /\ listing[p].revision # Deleted
      <4>1. RevisionOf(listing[p]) # FreshRevision  BY NewRevision DEF Shape
      <4> QED  BY <2>2, <4>1 DEF Torn, RevisionOf, Shape, Folder, IsFolder, FilesAt
    <3> QED  BY <2>1, <2>2, <3>1, <3>2 DEF Torn, RevisionOf
  <2> QED  BY <1>1, <1>2, <2>1, <2>2
<1>11. CASE ChooseRecord \/ Download \/ FinalCheck \/ ArchiveReplaced \/ ArchiveDoomed \/ Replace \/ FlushTarget \/ FlushPending
            \/ (\E p \in Paths : PeerMerges(p)) \/ UNCHANGED vars
  <2>1. UNCHANGED index
    BY <1>11 DEF ChooseRecord, Download, FinalCheck, ArchiveReplaced, ArchiveDoomed, Replace, FlushTarget,
       FlushPending, PeerMerges, vars, folder
  <2>2. EndTransaction \/ (UNCHANGED memory /\ ((step # "listed" /\ step' # "listed") \/ UNCHANGED <<step, disk, listing>>))
    BY <1>11 DEF ChooseRecord, Download, FinalCheck, ArchiveReplaced, ArchiveDoomed, Replace, FlushTarget,
       FlushPending, PeerMerges, vars, folder, transaction, Installing
  <2> QED  BY <1>7, <1>9, <2>1, <2>2
<1>12. CASE ProcessStops \/ FinishReceive \/ MachineStops \/ (SaveScan /\ EndTransaction)
  <2>1. EndTransaction /\ (UNCHANGED index \/ (index' = memory /\ step # "listed"))
    BY <1>12 DEF ProcessStops, FinishReceive, MachineStops, SaveScan, folder
  <2> QED  BY <1>7, <2>1
<1>13. SaveLocalWinner \/ SaveInstalled \/ JournalFile \/ JournalDeletion => step \in Installs
  BY DEF SaveLocalWinner, SaveInstalled, JournalFile, JournalDeletion, Installing, Installs
<1> QED  BY <1>3, <1>4, <1>5, <1>6, <1>8, <1>10, <1>11, <1>12, <1>13, Steps

(* The records still to receive, the one at hand, and the peer's.          *)
LEMMA NextKeepsRecordsUsed ==
  ASSUME Shape, Authentic, [Next]_vars
  PROVE  RecordsUsed'
<1>0. used \subseteq used'  BY UsedGrows
<1>1. /\ \A p \in Paths : Uses(peer[p], used)
      /\ \A r \in todo : Uses(r.info, used)
      /\ step \in Installs => Uses(work.info, used)
  BY DEF Authentic, RecordsUsed
<1>2. ASSUME \A p \in Paths : Uses(peer'[p], used'),
             \A r \in todo' : Uses(r.info, used'),
             step' \in Installs => Uses(work'.info, used')
      PROVE  RecordsUsed'
  BY <1>2 DEF RecordsUsed
<1>3. /\ \A p \in Paths : Uses(peer[p], used')
      /\ \A r \in todo : Uses(r.info, used')
      /\ step \in Installs => Uses(work.info, used')
  BY <1>0, <1>1 DEF Uses
<1>4. CASE Users
  <2>1. UNCHANGED <<todo, work, step>>
    BY <1>4, UserActs DEF UserWrites, UserDeletes, PutFile, OpenDraft, PeerWrites, PeerDeletes, transaction
  <2>2. ASSUME NEW p \in Edited, NEW c \in Contents, NEW t \in Nat, PeerWrites(p, c, t)
        PROVE  \A q \in Paths : Uses(peer'[q], used')
    <3> DEFINE i == [content |-> c, mtime |-> t,
                     version |-> advanceVersionVector(PreviousVersion(peer[p]), Peer)]
    <3>1. i.content = c /\ c \in used' /\ peer' = [peer EXCEPT ![p] = i]  BY <2>2 DEF PeerWrites
    <3> HIDE DEF i
    <3>2. \A q \in Paths : peer'[q] = i \/ peer'[q] = peer[q]  BY <3>1 DEF Shape, Others
    <3> QED  BY <1>3, <3>1, <3>2 DEF Uses
  <2>3. ASSUME NEW p \in Edited, PeerDeletes(p)
        PROVE  \A q \in Paths : Uses(peer'[q], used')
    <3>1. p \in Paths /\ peer[p] \in FileInfo
      BY <2>3, PathKinds DEF PeerDeletes, IsLive, Shape, Others
    <3> DEFINE i == [peer[p] EXCEPT !.content = Tombstone, !.version = advanceVersionVector(@, Peer)]
    <3>2. i.content = Tombstone  BY <3>1 DEF FileInfo
    <3>3. peer' = [peer EXCEPT ![p] = i]  BY <2>3 DEF PeerDeletes
    <3> HIDE DEF i
    <3>4. \A q \in Paths : peer'[q] = i \/ peer'[q] = peer[q]  BY <3>3 DEF Shape, Others
    <3> QED  BY <1>3, <3>2, <3>4 DEF Uses
  <2>4. \A q \in Paths : Uses(peer'[q], used')
    BY <1>3, <1>4, <2>2, <2>3, UserActs DEF UserWrites, UserDeletes, PutFile, OpenDraft
  <2> QED  BY <1>2, <1>3, <2>1, <2>4
<1>5. ASSUME NEW p \in Paths, PeerMerges(p)
      PROVE  RecordsUsed'
  <2> DEFINE record == InfoAt(index, p)
             plan == planReplicaMerge(peer[p], record)
  <2>1. record \in FileInfo /\ (peer[p] # NoInfo => peer[p] \in FileInfo)
    BY <1>5, Infos DEF PeerMerges, Shape, Folder, Others, InfosAt
  <2>2. Uses(record, used) /\ Uses(peer[p], used)  BY <1>1 DEF Authentic, IndexUsed
  <2>3. Uses(plan.winner, used) /\ Uses(plan.conflict, used)  BY <2>1, <2>2, PlanUses
  <2>4. \A q \in Paths : peer'[q] \in {plan.winner, plan.conflict, peer[q]}  BY <1>5 DEF PeerMerges
  <2>5. UNCHANGED <<todo, work, step>>  BY <1>5 DEF PeerMerges, transaction
  <2> HIDE DEF plan
  <2>6. \A q \in Paths : Uses(peer'[q], used')  BY <1>0, <1>1, <2>3, <2>4 DEF Uses
  <2> QED  BY <1>2, <1>3, <2>5, <2>6
<1>6. CASE SaveScan /\ step' = "ready"
  <2>1. peer' = peer /\ step' \notin Installs  BY <1>6 DEF SaveScan, Installs
  <2>2. ASSUME NEW r \in todo'
        PROVE  Uses(r.info, used')
    <3>1. CASE kind = "receive"
      <4>1. r \in PeerRecords  BY <1>6, <3>1 DEF SaveScan
      <4> QED  BY <1>3, <4>1 DEF PeerRecords
    <3>2. CASE kind # "receive"
      <4>1. kind = "edit" /\ r = [path |-> draft.path, info |-> EditRecord]
        BY <1>6, <3>2 DEF SaveScan, EndTransaction
      <4>2. draft.content \in used \cup {Tombstone}  BY <4>1 DEF Shape, Transaction, Others
      <4>3. r.info.content = draft.content  BY <4>1 DEF EditRecord
      <4> QED  BY <1>0, <4>2, <4>3 DEF Uses
    <3> QED  BY <3>1, <3>2
  <2> QED  BY <1>2, <1>3, <2>1, <2>2
<1>7. CASE peer' = peer /\ EndTransaction
  BY <1>2, <1>3, <1>7 DEF EndTransaction, Installs
<1>8. CASE ChooseRecord /\ ~EndTransaction
  <2>1. /\ peer' = peer /\ todo' \subseteq todo
        /\ (step' = step /\ work' = work) \/ (work' \in todo)
    BY <1>8 DEF ChooseRecord
  <2> QED  BY <1>2, <1>3, <2>1
<1>9. CASE peer' = peer /\ todo' = todo /\ work' = work /\ (step' \in Installs => step \in Installs)
  BY <1>2, <1>3, <1>9
<1>10. CASE peer' = peer /\ todo' = todo /\ step' \notin Installs
  BY <1>2, <1>3, <1>10
<1>11. CASE ~(Users \/ (\E p \in Paths : PeerMerges(p)) \/ SaveScan \/ ChooseRecord)
  <2>1. peer' = peer
    BY <1>11, Steps, PowerLoss DEF BeginScan, RecoverPending, HashFile, FinishScan, FlushPending, Download, FinalCheck,
       ProcessStops, FinishReceive, ArchiveReplaced, ArchiveDoomed, JournalFile, JournalDeletion, Replace,
       FlushTarget, SaveLocalWinner, SaveInstalled, vars
  <2>2. \/ EndTransaction
        \/ todo' = todo /\ work' = work /\ (step' \in Installs => step \in Installs)
        \/ todo' = todo /\ step' \notin Installs
    <3>1. CASE \/ \E k \in {"scan", "receive", "edit"} : BeginScan(k)
               \/ RecoverPending \/ (\E p \in Paths : HashFile(p)) \/ FinishScan \/ FlushPending
      BY <3>1 DEF BeginScan, RecoverPending, HashFile, FinishScan, FlushPending, Installs
    <3>2. CASE Download \/ FinalCheck \/ ArchiveReplaced \/ ArchiveDoomed \/ JournalFile \/ JournalDeletion
      BY <3>2 DEF Download, FinalCheck, ArchiveReplaced, ArchiveDoomed, JournalFile, JournalDeletion,
         Installing, Installs
    <3>3. CASE ProcessStops \/ FinishReceive \/ MachineStops
      BY <3>3 DEF ProcessStops, FinishReceive, MachineStops
    <3>4. CASE Replace \/ FlushTarget \/ SaveLocalWinner \/ SaveInstalled
      BY <3>4 DEF Replace, FlushTarget, SaveLocalWinner, SaveInstalled, Installs
    <3>5. CASE UNCHANGED vars  BY <3>5 DEF vars, transaction
    <3> QED  BY <1>11, <3>1, <3>2, <3>3, <3>4, <3>5, Steps
  <2> QED  BY <1>7, <1>9, <1>10, <2>1, <2>2
<1>12. SaveScan => step' = "ready" \/ (peer' = peer /\ EndTransaction)  BY DEF SaveScan
<1>13. ChooseRecord => peer' = peer  BY DEF ChooseRecord
<1> QED  BY <1>4, <1>5, <1>6, <1>7, <1>8, <1>11, <1>12, <1>13

(* Every step makes no content up.                                         *)
LEMMA NextKeepsAuthentic ==
  ASSUME Shape, Authentic, [Next]_vars
  PROVE  Authentic'
  BY NextKeepsFilesUsed, NextKeepsIndexUsed, NextKeepsRecordsUsed DEF Authentic

(* No mixture of two versions that a read gave while the file was written  *)
(* is ever in the saved index, editors in the window or not: the second    *)
(* listing differs.                                                        *)
THEOREM NothingTornGetsIndexed == Spec => []NothingTornIsIndexed
<1>1. Init => Shape /\ Authentic  BY ShapeInit, AuthenticInit
<1>2. Shape /\ Authentic /\ [Next]_vars => Shape' /\ Authentic'  BY NextKeepsShape, NextKeepsAuthentic
<1>3. Authentic => NothingTornIsIndexed
  BY DEF Authentic, IndexUsed, Uses, NothingTornIsIndexed, IsLive, IsDeleted
<1> QED  BY <1>1, <1>2, <1>3, PTL DEF Spec

-----------------------------------------------------------------------------
(* No saved content is lost: it is archived before the file that holds it  *)
(* is replaced, and an edit is on disk before it is acknowledged.          *)

ArchivedFirst ==
  /\ step \in {"archived", "journaled", "checked"} /\ IsLive(InfoAt(memory, Target))
  /\ disk[Target] # NoFile /\ disk[Target].revision = memory.files[Target].revision
  => disk[Target].content \in archived

Has(files, p, c) == files[p] # NoFile /\ files[p].content = c

\* A file that a loss of power may undo is none that the replica has put there.
Firm(p) == older[p] = {} \/ ~Arrived(p)

\* Whether the machine stops or not.
Safe(c) ==
  \/ c \in givenUp \/ c \in archived
  \/ \E p \in Paths : Has(disk, p, c) /\ Firm(p)

(* The file that is about to be replaced has been archived: another one    *)
(* that the editor puts in its place has another revision.                 *)
LEMMA NextKeepsArchivedFirst ==
  ASSUME Shape, ArchivedFirst, [Next]_vars
  PROVE  ArchivedFirst'
<1>1. SUFFICES ASSUME step' \in {"archived", "journaled", "checked"}
               PROVE  ArchivedFirst'
  BY DEF ArchivedFirst
<1>2. CASE ArchiveReplaced \/ ArchiveDoomed
  <2>1. ArchiveTarget /\ UNCHANGED <<memory, work, disk>>
    BY <1>1, <1>2 DEF ArchiveReplaced, ArchiveDoomed, EndTransaction
  <2>2. Target' = Target /\ InfoAt(memory, Target)' = InfoAt(memory, Target)  BY <2>1, SamePlan
  <2> QED  BY <2>1, <2>2 DEF ArchivedFirst, ArchiveTarget, IsLive, IsDeleted
<1>3. CASE JournalFile \/ FinalCheck \/ (\E p \in Paths : PeerMerges(p)) \/ UNCHANGED vars
  <2>1. UNCHANGED <<work, disk, archived>> /\ memory' \in {memory, Journaled}
    BY <1>1, <1>3 DEF JournalFile, FinalCheck, PeerMerges, EndTransaction, Save, vars, folder, transaction
  <2>2. memory'.files = memory.files  BY <2>1 DEF Journaled, Shape, Folder, IsIndex
  <2>3. step \in {"archived", "journaled", "checked"}
    BY <1>1, <1>3 DEF JournalFile, FinalCheck, PeerMerges, Installing, vars, transaction
  <2>4. Target' = Target /\ InfoAt(memory, Target)' = InfoAt(memory, Target)  BY <2>1, <2>2, SamePlan
  <2> QED  BY <2>1, <2>2, <2>3, <2>4 DEF ArchivedFirst, IsLive, IsDeleted
<1>4. CASE Users
  <2>1. UNCHANGED <<step, work, memory, archived>>
    BY <1>4, UserActs DEF UserWrites, UserDeletes, PutFile, OpenDraft, PeerWrites, PeerDeletes, folder, transaction
  <2>2. Target' = Target /\ InfoAt(memory, Target)' = InfoAt(memory, Target)  BY <2>1, SamePlan
  <2>3. Target \in Paths  BY <1>1, <2>1, AtHand DEF Shape, Transaction, Installs
  <2>4. disk'[Target] = disk[Target] \/ disk'[Target] = NoFile \/ disk'[Target].revision = FreshRevision
    BY <1>4, <2>3, UsersPut
  <2>5. IsLive(InfoAt(memory, Target)) => memory.files[Target].revision # FreshRevision
    BY <2>3, NewRevision DEF Shape, InfoAt, IsLive
  <2> QED  BY <1>1, <2>1, <2>2, <2>4, <2>5 DEF ArchivedFirst, IsLive, IsDeleted
<1>5. CASE \/ \E k \in {"scan", "receive", "edit"} : BeginScan(k)
           \/ RecoverPending \/ (\E p \in Paths : HashFile(p)) \/ FinishScan \/ FlushPending
           \/ SaveScan \/ ChooseRecord \/ Download \/ ProcessStops \/ FinishReceive \/ JournalDeletion \/ Replace \/ FlushTarget
           \/ SaveLocalWinner \/ SaveInstalled \/ MachineStops
  <2>1. CASE ChooseRecord
    <3>1. step' \in {"ready", "chosen", "idle"}  BY <2>1 DEF ChooseRecord, EndTransaction
    <3> QED  BY <1>1, <3>1
  <2>2. CASE Download
    <3>1. step' \in {"staged", "idle"}  BY <2>2 DEF Download, EndTransaction
    <3> QED  BY <1>1, <3>1
  <2>3. CASE SaveScan \/ JournalDeletion
    <3>1. step' \in {"ready", "doomed", "replaced", "idle"}
      BY <2>3 DEF SaveScan, JournalDeletion, EndTransaction
    <3> QED  BY <1>1, <3>1
  <2>4. CASE ~(ChooseRecord \/ Download \/ SaveScan \/ JournalDeletion)
    BY <1>1, <1>5, <2>4 DEF BeginScan, RecoverPending, HashFile, FinishScan, FlushPending, ProcessStops, FinishReceive, Replace,
       FlushTarget, SaveLocalWinner, SaveInstalled, MachineStops, EndTransaction
  <2> QED  BY <2>1, <2>2, <2>3, <2>4
<1> QED  BY <1>2, <1>3, <1>4, <1>5, Steps

(* What is replaced on disk is archived then.                              *)
LEMMA ReplacedIsArchived ==
  ASSUME Shape, InPlace, ArchivedFirst, Replace, NEW c, Has(disk, Target, c)
  PROVE  c \in archived
<1>1. step = "checked" /\ LocalUnchanged  BY DEF Replace, InPlace
<1>2. disk[Target] \in FilesAt(Target)
  BY <1>1, AtHand DEF Shape, Transaction, Installs, Folder, IsFolder, Has
<1>3. IsLive(InfoAt(memory, Target)) /\ disk[Target].revision = memory.files[Target].revision
  BY <1>1, <1>2 DEF LocalUnchanged, RevisionOf, FilesAt, Has
<1> QED  BY <1>1, <1>3 DEF ArchivedFirst, Has

(* What is given up or archived stays so.                                  *)
LEMMA GivenUpOrArchived ==
  ASSUME [Next]_vars
  PROVE  givenUp \subseteq givenUp' /\ archived \subseteq archived'
<1>1. CASE Users
  BY <1>1, UserActs DEF UserWrites, UserDeletes, PutFile, OpenDraft, PeerWrites, PeerDeletes, folder
<1>2. CASE MachineStops
  <2>1. PICK back : PowerIsLost(back)  BY <1>2, PowerLoss
  <2> QED  BY <1>2, <2>1, PowerLoss DEF PowerIsLost
<1>3. CASE ArchiveReplaced \/ ArchiveDoomed
  BY <1>3 DEF ArchiveReplaced, ArchiveDoomed, ArchiveTarget, users
<1>4. CASE ~(Users \/ MachineStops \/ ArchiveReplaced \/ ArchiveDoomed)
  BY <1>4, Steps DEF BeginScan, RecoverPending, HashFile, FinishScan, FlushPending, SaveScan, ChooseRecord,
     Download, FinalCheck, ProcessStops, FinishReceive, JournalFile, JournalDeletion, Replace,
     FlushTarget, SaveLocalWinner, SaveInstalled, PeerMerges, folder, users, vars
<1> QED  BY <1>1, <1>2, <1>3, <1>4

(* A file stays firm while no update is journaled, and no other file may   *)
(* come back in its place.                                                 *)
LEMMA StaysFirm ==
  ASSUME NEW p \in Paths, NEW c, Has(disk, p, c), Firm(p), disk'[p] = disk[p], older'[p] \subseteq older[p],
         index'.pending = index.pending \/ index'.pending = NoInfo
  PROVE  Safe(c)'
<1>1. Has(disk', p, c)  BY DEF Has
<1>2. Firm(p)'  BY DEF Firm, Arrived, IsDeleted
<1> QED  BY <1>1, <1>2 DEF Safe, Has

(* The file an update will replace is archived when the update is          *)
(* journaled; a deletion that is journaled has not been carried out while  *)
(* there is a file.                                                        *)
LEMMA JournalingIsSafe ==
  ASSUME Shape, ArchivedFirst, JournalFile \/ JournalDeletion,
         NEW p \in Paths, NEW c, Has(disk, p, c), Firm(p)
  PROVE  Safe(c)'
<1>1. UNCHANGED <<disk, older, archived>>  BY DEF JournalFile, JournalDeletion
<1>2. CASE UNCHANGED index  BY <1>1, <1>2, StaysFirm
<1>3. CASE ~UNCHANGED index
  <2>1. /\ LocalUnchanged /\ index'.pending = [path |-> Target, info |-> Install]
        /\ JournalFile => step = "archived"
        /\ JournalDeletion => IsDeleted(Install)
    <3>1. LocalUnchanged /\ index' = Journaled  BY <1>3 DEF JournalFile, JournalDeletion, Save
    <3>2. Journaled.pending = [path |-> Target, info |-> Install]
      BY DEF Journaled, Shape, Folder, IsIndex
    <3>3. JournalFile => step = "archived"  BY DEF JournalFile, Installing
    <3>4. JournalDeletion => IsDeleted(Install)  BY DEF JournalDeletion
    <3> QED  BY <3>1, <3>2, <3>3, <3>4
  <2>2. CASE p # Target
    <3>1. ~Arrived(p)'  BY <2>1, <2>2 DEF Arrived
    <3> QED  BY <1>1, <3>1 DEF Safe, Firm, Has
  <2>3. CASE p = Target /\ JournalDeletion
    <3>1. ~Arrived(p)'  BY <1>1, <2>1, <2>3 DEF Arrived, Has
    <3> QED  BY <1>1, <3>1 DEF Safe, Firm, Has
  <2>4. CASE p = Target /\ JournalFile
    <3>1. disk[p] \in FilesAt(p)  BY DEF Shape, Folder, IsFolder, Has
    <3>2. IsLive(InfoAt(memory, p)) /\ disk[p].revision = memory.files[p].revision
      BY <2>1, <2>4, <3>1 DEF LocalUnchanged, RevisionOf, FilesAt, Has
    <3>3. c \in archived  BY <2>1, <2>4, <3>2 DEF ArchivedFirst, Has
    <3> QED  BY <1>1, <3>3 DEF Safe
  <2> QED  BY <2>2, <2>3, <2>4
<1> QED  BY <1>2, <1>3

(* A loss of power takes only what an editor has not flushed, or what was  *)
(* archived.                                                               *)
LEMMA PowerLossIsSafe ==
  ASSUME Shape, MachineStops, NEW p \in Paths, NEW c, Has(disk, p, c), Firm(p)
  PROVE  Safe(c)'
<1>1. PICK back : /\ PowerIsLost(back) /\ DOMAIN back \subseteq Paths
                  /\ \A q \in DOMAIN back : back[q] \in older[q]
  BY PowerLoss
<1>2. older'[p] = {} /\ index' = index  BY PowerLoss
<1>3. CASE p \notin DOMAIN back
  <2>1. disk'[p] = disk[p]  BY <1>1, <1>3 DEF PowerIsLost
  <2> QED  BY <1>2, <2>1, StaysFirm
<1>4. CASE p \in DOMAIN back
  <2>1. ~Arrived(p)  BY <1>1, <1>4 DEF Firm
  <2>2. c \in givenUp'  BY <1>1, <1>4, <2>1 DEF PowerIsLost, Has
  <2> QED  BY <2>2 DEF Safe
<1> QED  BY <1>3, <1>4

(* Content that is safe stays so, whatever is cut off.                     *)
LEMMA SafeStays ==
  ASSUME Shape, History, InPlace, ArchivedFirst, [Next]_vars, NEW c, Safe(c)
  PROVE  Safe(c)'
<1>1. CASE c \in givenUp \/ c \in archived  BY <1>1, GivenUpOrArchived DEF Safe
<1>2. ASSUME NEW p \in Paths, Has(disk, p, c), Firm(p)
      PROVE  Safe(c)'
  <2>1. CASE Replace
    <3>1. Target \in Paths  BY <2>1, AtHand DEF Replace, Shape, Transaction, Installs
    <3>2. CASE p = Target
      <4>1. c \in archived  BY <1>2, <2>1, <3>2, ReplacedIsArchived
      <4> QED  BY <2>1, <4>1 DEF Replace, Safe
    <3>3. CASE p # Target
      <4>1. disk'[p] = disk[p] /\ older'[p] = older[p] /\ index' = index
        BY <2>1, <3>1, <3>3 DEF Replace, Shape, Folder, IsFolder, AreEarlier
      <4> QED  BY <1>2, <4>1, StaysFirm
    <3> QED  BY <3>2, <3>3
  <2>2. CASE FlushTarget \/ FlushPending
    <3>1. disk' = disk /\ index' = index /\ older'[p] \in {older[p], {}}
      BY <2>2 DEF FlushTarget, FlushPending, Shape, Folder, AreEarlier
    <3> QED  BY <1>2, <3>1, StaysFirm
  <2>3. CASE Users
    <3>1. ASSUME NEW q, NEW f, PutFile(q, f)
          PROVE  Safe(c)'
      <4>1. CASE q # p
        <5>1. disk'[p] = disk[p] /\ older'[p] = older[p] /\ index' = index
          BY <3>1, <4>1 DEF PutFile, Shape, Folder, IsFolder, AreEarlier
        <5> QED  BY <1>2, <5>1, StaysFirm
      <4>2. CASE q = p
        <5>1. c \in givenUp'  BY <1>2, <3>1, <4>2 DEF PutFile, Has
        <5> QED  BY <5>1 DEF Safe
      <4> QED  BY <4>1, <4>2
    <3>2. CASE UNCHANGED folder  BY <1>2, <3>2, StaysFirm DEF folder
    <3> QED  BY <2>3, <3>1, <3>2, UserActs DEF UserWrites, UserDeletes, OpenDraft, PeerWrites, PeerDeletes
  <2>4. CASE MachineStops  BY <1>2, <2>4, PowerLossIsSafe
  <2>5. CASE JournalFile \/ JournalDeletion  BY <1>2, <2>5, JournalingIsSafe
  <2>6. CASE SaveScan \/ SaveLocalWinner \/ SaveInstalled
    <3>1. UNCHANGED <<disk, older>> /\ index'.pending \in {memory.pending, NoInfo}
      BY <2>6 DEF SaveScan, SaveLocalWinner, SaveInstalled, Save, Shape, Folder, IsIndex
    <3>2. ~SaveInstalled => memory.pending = NoInfo
      BY <2>6 DEF History, NothingPending, SaveScan, SaveLocalWinner
    <3>3. SaveInstalled => index'.pending = NoInfo  BY DEF SaveInstalled, Save
    <3> QED  BY <1>2, <3>1, <3>2, <3>3, StaysFirm
  <2>7. CASE ~(Replace \/ FlushTarget \/ FlushPending \/ Users \/ MachineStops \/ JournalFile \/ JournalDeletion
               \/ SaveScan \/ SaveLocalWinner \/ SaveInstalled)
    <3>1. UNCHANGED <<disk, older, index>>
      BY <2>7, Steps DEF BeginScan, RecoverPending, HashFile, FinishScan, ChooseRecord, Download, FinalCheck,
         ProcessStops, FinishReceive, ArchiveReplaced, ArchiveDoomed, PeerMerges, folder, vars
    <3> QED  BY <1>2, <3>1, StaysFirm
  <2> QED  BY <2>1, <2>2, <2>3, <2>4, <2>5, <2>6, <2>7
<1> QED  BY <1>1, <1>2 DEF Safe

\* The edit's record is for the draft's path, which has not moved on since the
\* draft was opened, and succeeds what the index has: it is received as it is.
EditPlanned(r) ==
  /\ r.path = draft.path /\ r.info.content = draft.content /\ DraftIsCurrent
  /\ planReplicaMerge(InfoAt(memory, r.path), r.info) = Receive(r.info)

EditUnderway ==
  kind = "edit" =>
    /\ step = "ready" => \/ \E r : todo = {r} /\ EditPlanned(r)
                         \/ todo = {} /\ (draft.content # Tombstone => Safe(draft.content))
    /\ step \in Installs => todo = {} /\ EditPlanned(work)

(* The edit has the next version of the path: it takes the path's place.   *)
LEMMA EditIsReceived ==
  ASSUME Shape, kind = "edit"
  PROVE  planReplicaMerge(InfoAt(memory, draft.path), EditRecord) = Receive(EditRecord)
<1> DEFINE local == InfoAt(memory, draft.path)
           version == advanceVersionVector(PreviousVersion(local), Self)
<1>1. /\ draft \in Draft /\ draft.path \in Paths /\ draft.content \in Contents \cup {Tombstone}
      /\ draft.mtime \in Nat
  BY PathKinds, FolderAssumption DEF Shape, Transaction, Others, Draft
<1>2. CASE local = NoInfo  BY <1>2 DEF planReplicaMerge
<1>3. CASE local # NoInfo
  <2>1. local \in FileInfo /\ local.version \in Vector /\ PreviousVersion(local) = local.version
    BY <1>1, <1>3, Infos DEF Shape, Folder, InfosAt, FileInfo, PreviousVersion
  <2>2. version \in Vector /\ DominatedBy(local.version, version) /\ version[Self] = local.version[Self] + 1
    BY <2>1, AdvancedVector, FolderAssumption
  <2>3. Self \in Devices /\ local.version[Self] \in Nat  BY <2>1, FolderAssumption DEF Vector
  <2>4. ~DominatedBy(version, local.version)
    <3>1. ~(local.version[Self] + 1 <= local.version[Self])  BY <2>3
    <3> QED  BY <2>2, <2>3, <3>1 DEF DominatedBy
  <2>5. EditRecord \in FileInfo /\ EditRecord.version = version  BY <1>1, <2>2 DEF EditRecord, FileInfo
  <2> HIDE DEF local, version
  <2>6. planReplicaMerge(local, EditRecord) = Receive(EditRecord)  BY <2>1, <2>2, <2>4, <2>5, PlanKinds
  <2> QED  BY <2>6 DEF local
<1> QED  BY <1>2, <1>3

(* What an edit installs is the draft, at the path it was made for.        *)
LEMMA EditInstalls ==
  ASSUME EditPlanned(work)
  PROVE  /\ ~InstallsCopy /\ Plan.source = "remote"
         /\ Target = draft.path /\ Install = work.info /\ Install.content = draft.content
<1>1. Plan = Receive(work.info)  BY DEF EditPlanned, Plan
<1> QED  BY <1>1 DEF Receive, InstallsCopy, Target, Install, EditPlanned

(* An edit is on disk, and flushed, when its transaction is complete.      *)
LEMMA NextKeepsEditUnderway ==
  ASSUME Shape, History, InPlace, ArchivedFirst, EditUnderway, [Next]_vars
  PROVE  EditUnderway'
<1>1. SUFFICES ASSUME kind' = "edit", step' \in {"ready"} \cup Installs
               PROVE  /\ step' = "ready" => \/ \E r : todo' = {r} /\ EditPlanned(r)'
                                            \/ todo' = {} /\ (draft'.content # Tombstone => Safe(draft.content)')
                      /\ step' \in Installs => todo' = {} /\ EditPlanned(work)'
  BY DEF EditUnderway
<1> DEFINE SameEdit == kind' = kind /\ draft' = draft
<1>2. ASSUME NEW r, SameEdit, memory'.files = memory.files, EditPlanned(r)
      PROVE  EditPlanned(r)'
  BY <1>2 DEF EditPlanned, InfoAt, DraftIsCurrent, IsLive, IsDeleted
<1>3. CASE SaveScan
  <2>1. /\ SameEdit /\ memory' = memory /\ kind = "edit" /\ step' = "ready" /\ DraftIsCurrent
        /\ todo' = {[path |-> draft.path, info |-> EditRecord]}
    BY <1>1, <1>3 DEF SaveScan, EndTransaction
  <2>2. PICK r : r = [path |-> draft.path, info |-> EditRecord]  OBVIOUS
  <2>3. EditPlanned(r)  BY <2>1, <2>2, EditIsReceived DEF EditPlanned, EditRecord
  <2>4. EditPlanned(r)'  BY <1>2, <2>1, <2>3
  <2> QED  BY <2>1, <2>2, <2>4 DEF Installs
<1>4. CASE ChooseRecord
  <2>1. step' # "idle"  BY <1>1 DEF Installs
  <2>2. /\ SameEdit /\ memory' = memory /\ step = "ready" /\ step' \in {"ready", "chosen"}
        /\ \E r \in todo : /\ todo' = todo \ {r}
                           /\ IF planReplicaMerge(InfoAt(memory, r.path), r.info).action = "keep"
                              THEN UNCHANGED <<step, work>>
                              ELSE step' = "chosen" /\ work' = r
    BY <1>4, <2>1 DEF ChooseRecord, EndTransaction
  <2>3. PICK r : todo = {r} /\ EditPlanned(r)  BY <1>1, <2>2 DEF EditUnderway
  <2>4. todo' = {} /\ step' = "chosen" /\ work' = r  BY <2>2, <2>3 DEF EditPlanned, Receive
  <2>5. EditPlanned(work)'  BY <1>2, <2>2, <2>3, <2>4
  <2> QED  BY <2>4, <2>5
<1>5. CASE Download \/ ArchiveReplaced \/ JournalFile \/ JournalDeletion \/ ArchiveDoomed
             \/ FinalCheck \/ Replace \/ FlushTarget
  <2>1. step' # "idle"  BY <1>1 DEF Installs
  <2>2. /\ SameEdit /\ UNCHANGED <<todo, work>> /\ step \in Installs /\ step' \in Installs
        /\ memory' \in {memory, Journaled}
    BY <1>5, <2>1 DEF Download, ArchiveReplaced, JournalFile, JournalDeletion, ArchiveDoomed, FinalCheck,
       Replace, FlushTarget, EndTransaction, Installing, Installs, Save
  <2>3. memory'.files = memory.files  BY <2>2 DEF Journaled, Shape, Folder, IsIndex
  <2>4. todo = {} /\ EditPlanned(work)  BY <1>1, <2>2 DEF EditUnderway
  <2>5. EditPlanned(work)'  BY <1>2, <2>2, <2>3, <2>4
  <2> QED  BY <2>2, <2>4, <2>5 DEF Installs
<1>6. CASE SaveLocalWinner \/ SaveInstalled
  <2>1. SameEdit /\ todo' = todo /\ step \in Installs /\ UNCHANGED <<disk, older>>
    BY <1>6 DEF SaveLocalWinner, SaveInstalled, Installs
  <2>2. todo = {} /\ EditPlanned(work)  BY <1>1, <2>1 DEF EditUnderway
  <2>3. ~InstallsCopy /\ Install.content = draft.content /\ Plan.source = "remote"
    BY <2>2, EditInstalls
  <2>4. step' = "ready" /\ step = "flushed"  BY <1>6, <2>3 DEF SaveLocalWinner, SaveInstalled
  <2>5. older[Target] = {} /\ (draft.content # Tombstone => Has(disk, Target, draft.content))
    BY <2>1, <2>3, <2>4 DEF InPlace, Has, IsDeleted
  <2>6. Target \in Paths  BY <2>1, AtHand DEF Shape, Transaction
  <2>7. older'[Target] = {} /\ (draft'.content # Tombstone => Has(disk', Target, draft'.content))
    BY <2>1, <2>5 DEF Has
  <2> DEFINE p == Target
  <2> HIDE DEF p
  <2>8. draft'.content # Tombstone => Safe(draft.content)'
    <3>1. p \in Paths /\ older'[p] = {} /\ (draft'.content # Tombstone => Has(disk', p, draft'.content))
      BY <2>6, <2>7 DEF p
    <3> QED  BY <3>1 DEF Safe, Firm, Has
  <2> QED  BY <2>1, <2>2, <2>4, <2>8 DEF Installs
<1>7. CASE Users \/ (\E p \in Paths : PeerMerges(p)) \/ UNCHANGED vars
  <2>1. UNCHANGED transaction
    BY <1>7, UserActs DEF UserWrites, UserDeletes, PutFile, OpenDraft, PeerWrites, PeerDeletes, PeerMerges, vars
  <2>2. draft # NoInfo  BY <1>1, <2>1 DEF Shape, Transaction, transaction
  <2>3. draft' = draft
    BY <1>7, <2>2, UserActs DEF UserWrites, UserDeletes, PutFile, OpenDraft, PeerWrites, PeerDeletes, PeerMerges, vars
  <2>4. SameEdit /\ UNCHANGED <<memory, todo, work, step>>  BY <2>1, <2>3 DEF transaction
  <2>5. CASE step = "ready" /\ \E r : todo = {r} /\ EditPlanned(r)
    <3>1. PICK r : todo = {r} /\ EditPlanned(r)  BY <2>5
    <3>2. EditPlanned(r)'  BY <1>2, <2>4, <3>1
    <3> QED  BY <2>4, <2>5, <3>1, <3>2 DEF Installs
  <2>6. CASE step = "ready" /\ todo = {} /\ (draft.content # Tombstone => Safe(draft.content))
    <3>1. draft'.content # Tombstone => Safe(draft.content)'
      <4>1. ASSUME NEW c, Safe(c)  PROVE Safe(c)'  BY <4>1, SafeStays
      <4> QED  BY <2>4, <2>6, <4>1 DEF Safe, Has
    <3> QED  BY <2>4, <2>6, <3>1 DEF Installs
  <2>7. CASE step \in Installs
    <3>1. todo = {} /\ EditPlanned(work)  BY <1>1, <2>4, <2>7 DEF EditUnderway
    <3>2. EditPlanned(work)'  BY <1>2, <2>4, <3>1
    <3> QED  BY <2>4, <2>7, <3>1, <3>2 DEF Installs
  <2> QED  BY <1>1, <2>4, <2>5, <2>6, <2>7 DEF EditUnderway
<1>8. CASE \/ \E k \in {"scan", "receive", "edit"} : BeginScan(k)
           \/ RecoverPending \/ (\E p \in Paths : HashFile(p))
           \/ FinishScan \/ FlushPending \/ ProcessStops \/ FinishReceive \/ MachineStops
  BY <1>1, <1>8 DEF BeginScan, RecoverPending, HashFile, FinishScan, FlushPending, ProcessStops, FinishReceive, MachineStops,
     EndTransaction, Installs
<1> QED  BY <1>3, <1>4, <1>5, <1>6, <1>7, <1>8, Steps

Kept == \A c \in saved : Safe(c)

(* What a step adds to the saved content is safe, and the rest stays so.   *)
LEMMA NextKeepsSaved ==
  ASSUME Shape, History, InPlace, Authentic, ArchivedFirst, EditUnderway, Kept, [Next]_vars
  PROVE  Kept'
<1>1. ASSUME NEW c, Safe(c)  PROVE Safe(c)'  BY <1>1, SafeStays
<1>2. CASE FinishReceive
  <2>1. saved' \subseteq saved \cup (IF kind = "edit" THEN {draft.content} \ {Tombstone} ELSE {})
    BY <1>2 DEF FinishReceive
  <2>2. kind = "edit" /\ draft.content # Tombstone => Safe(draft.content)
    BY <1>2 DEF FinishReceive, EditUnderway
  <2>3. \A c \in saved' : Safe(c)  BY <2>1, <2>2 DEF Kept
  <2> QED  BY <1>1, <2>3 DEF Kept
<1>3. CASE Users
  <2>1. ASSUME NEW p \in Edited, NEW c \in Contents, NEW t \in Nat, UserWrites(p, c, t), NEW d \in saved'
        PROVE  Safe(d)'
    <3>1. CASE d \in saved  BY <1>1, <3>1 DEF Kept
    <3>2. CASE d = c
      <4> DEFINE f == [content |-> c, revision |-> FreshRevision, mtime |-> t]
      <4>1. f \in File  BY NewRevision DEF Shape, File
      <4>2. f # NoFile /\ p \in Paths  BY <4>1, NothingAssumption, PathKinds
      <4>3. disk'[p] = f /\ index' = index /\ c \notin used /\ f.content = c
        BY <2>1, <4>2 DEF UserWrites, PutFile, Shape, Folder, IsFolder
      <4>4. index.pending # NoInfo => index.pending.info.content \in used \cup {Tombstone} /\ index.pending.info # NoInfo
        <5>1. index.pending # NoInfo => index.pending.info # NoInfo
          BY NoInfoAssumption DEF Shape, Folder, IsIndex, IsRecord, InfosAt
        <5> QED  BY <5>1 DEF Authentic, IndexUsed, Uses
      <4> HIDE DEF f
      <4>5. ~Arrived(p)'  BY <4>2, <4>3, <4>4 DEF Arrived, IsDeleted
      <4> QED  BY <3>2, <4>2, <4>3, <4>5 DEF Safe, Has, Firm
    <3> QED  BY <2>1, <3>1, <3>2 DEF UserWrites
  <2>2. CASE UNCHANGED saved  BY <1>1, <2>2 DEF Kept
  <2> QED  BY <1>3, <2>1, <2>2, UserActs DEF UserDeletes, OpenDraft, PeerWrites, PeerDeletes, Kept
<1>4. CASE ~FinishReceive /\ ~Users
  <2>1. UNCHANGED saved
    BY <1>4, Steps DEF BeginScan, RecoverPending, HashFile, FinishScan, FlushPending, SaveScan, ChooseRecord,
       Download, FinalCheck, ProcessStops, ArchiveReplaced, ArchiveDoomed, JournalFile, JournalDeletion, Replace,
       FlushTarget, SaveLocalWinner, SaveInstalled, PeerMerges, MachineStops, users, vars
  <2> QED  BY <1>1, <2>1 DEF Kept
<1> QED  BY <1>2, <1>3, <1>4

(* Content that was saved here and that nobody here gave up is in the      *)
(* folder or in its archive, wherever a transaction is cut off: unless an  *)
(* editor comes into the window no check can close.                        *)
THEOREM SavedContentIsKept ==
  ASSUME ~EditorRaces
  PROVE  Spec => []NoSavedContentLost
<1> DEFINE Inv == Shape /\ History /\ InPlace /\ Authentic /\ ArchivedFirst /\ EditUnderway /\ Kept
<1>1. Init => Inv
  BY ShapeInit, HistoryInit, AuthenticInit DEF Init, InPlace, ArchivedFirst, EditUnderway, Kept, Installs
<1>2. Inv /\ [Next]_vars => Inv'
  BY NextKeepsShape, NextKeepsHistory, NextKeepsInPlace, NextKeepsAuthentic, NextKeepsArchivedFirst,
     NextKeepsEditUnderway, NextKeepsSaved
<1>3. Inv => NoSavedContentLost  BY DEF Kept, Safe, Has, NoSavedContentLost
<1> HIDE DEF Inv
<1> QED  BY <1>1, <1>2, <1>3, PTL DEF Spec

-----------------------------------------------------------------------------
(* What an edit replaces.  The record its draft has read is succeeded by   *)
(* what the index has now: as long as the version is the same, so is the   *)
(* content.                                                                *)

DraftRead ==
  draft # NoInfo /\ draft.path \in Names =>
    IF draft.expected = NoInfo THEN draft.base = Tombstone
    ELSE Follows([content |-> draft.base, version |-> draft.expected], InfoAt(index, draft.path))

(* Whatever is saved while the draft is open succeeds what it has read.    *)
LEMMA NextKeepsDraftRead ==
  ASSUME Shape, History, DraftRead, [Next]_vars
  PROVE  DraftRead'
<1>1. SUFFICES ASSUME draft' # NoInfo, draft'.path \in Names  PROVE DraftRead'  BY DEF DraftRead
<1>2. CASE draft' = draft
  <2>1. draft \in Draft /\ draft.path \in Names /\ draft.path \in Paths
    BY <1>1, <1>2, PathKinds DEF Shape, Others
  <2>2. CASE draft.expected = NoInfo  BY <1>1, <1>2, <2>2 DEF DraftRead
  <2>3. CASE draft.expected # NoInfo
    <3> DEFINE read == [content |-> draft.base, version |-> draft.expected]
    <3>1. read.version \in Vector  BY <2>1, <2>3 DEF Draft
    <3>2. Follows(read, InfoAt(index, draft.path))  BY <1>1, <1>2, <2>1, <2>3 DEF DraftRead
    <3>3. Succeeds(InfoAt(index, draft.path), InfoAt(index', draft.path))
      <4>1. ASSUME NEW p \in Names  PROVE Succeeds(InfoAt(index, p), InfoAt(index', p))
        BY NextKeepsHistory DEF InfoAt, Succeeds, Follows
      <4> QED  BY <2>1, <4>1
    <3>4. /\ InfoAt(index, draft.path) # NoInfo => InfoAt(index, draft.path).version \in Vector
          /\ InfoAt(index', draft.path) # NoInfo => InfoAt(index', draft.path).version \in Vector
      BY <2>1, Itself, NextKeepsShape DEF Shape, Folder
    <3>5. Follows(read, InfoAt(index', draft.path))
      <4>1. InfoAt(index, draft.path).version \in Vector  BY <3>2, <3>4 DEF Follows
      <4> HIDE DEF read
      <4> QED  BY <3>1, <3>2, <3>3, <3>4, <4>1, Succession
    <3> QED  BY <1>2, <2>3, <3>5 DEF DraftRead, Follows, InfoAt
  <2> QED  BY <2>2, <2>3
<1>3. ASSUME NEW p, NEW c, NEW t, OpenDraft(p, c, t)
      PROVE  DraftRead'
  <2>1. p \in Paths /\ index' = index  BY <1>1, <1>3, PathKinds DEF OpenDraft, folder
  <2> DEFINE read == InfoAt(index, p)
  <2>2. read # NoInfo => read.version \in Vector /\ Follows(read, read)
    BY <2>1, Itself, Infos, Succession DEF Shape, Folder
  <2>3. /\ draft'.path = p
        /\ draft'.expected = IF read = NoInfo THEN NoInfo ELSE read.version
        /\ draft'.base = IF read = NoInfo THEN Tombstone ELSE read.content
    BY <1>3 DEF OpenDraft
  <2>4. InfoAt(index, p)' = read  BY <2>1 DEF InfoAt
  <2>5. CASE read = NoInfo  BY <2>3, <2>5 DEF DraftRead
  <2>6. CASE read # NoInfo
    <3>1. Follows([content |-> draft'.base, version |-> draft'.expected], InfoAt(index', draft'.path))
      BY <2>1, <2>2, <2>3, <2>6 DEF Follows, InfoAt
    <3>2. draft'.expected # NoInfo  BY <2>2, <2>3, <2>6, NothingAssumption
    <3> QED  BY <3>1, <3>2 DEF DraftRead, Follows, InfoAt
  <2> QED  BY <2>5, <2>6
<1>4. draft' = draft \/ \E p, c, t : OpenDraft(p, c, t)
  <2>1. CASE Users
    BY <2>1, UserActs DEF UserWrites, UserDeletes, PutFile, PeerWrites, PeerDeletes
  <2>2. CASE SaveScan  BY <1>1, <2>2 DEF SaveScan
  <2>3. CASE FinishReceive  BY <1>1, <2>3 DEF FinishReceive
  <2>4. CASE ~(Users \/ SaveScan \/ FinishReceive)
    BY <2>4, Steps DEF BeginScan, RecoverPending, HashFile, FinishScan, FlushPending, ChooseRecord, Download,
       FinalCheck, ProcessStops, ArchiveReplaced, ArchiveDoomed, JournalFile, JournalDeletion, Replace,
       FlushTarget, SaveLocalWinner, SaveInstalled, PeerMerges, MachineStops, vars
  <2> QED  BY <2>1, <2>2, <2>3, <2>4
<1> QED  BY <1>2, <1>3, <1>4

(* At the last check before an edit replaces a file, the index entry is the *)
(* one the draft has read, and the file is the one of the entry.            *)
LEMMA ReplacesWhatWasRead ==
  ASSUME Shape, History, InPlace, Vouching, EditUnderway, DraftRead,
         kind = "edit", step = "checked", draft.path \in Names
  PROVE  IF draft.base = Tombstone THEN disk[draft.path] = NoFile
         ELSE disk[draft.path] # NoFile /\ disk[draft.path].content = draft.base
<1> DEFINE p == draft.path
           old == InfoAt(memory, p)
<1>1. /\ EditPlanned(work) /\ IsRecord(work) /\ memory = index /\ LocalUnchanged
  BY DEF EditUnderway, Shape, Transaction, Installs, History, MemoryAhead, InPlace
<1>2. Target = p /\ DraftIsCurrent  BY <1>1, EditInstalls DEF EditPlanned
<1>3. draft \in Draft /\ p \in Paths  BY PathKinds DEF Shape, Transaction, Others, Draft
<1>4. ~IsLive(old) => disk[p] = NoFile
  BY <1>1, <1>2, <1>3, NotThere DEF LocalUnchanged, Shape
<1>5. IsLive(old) => disk[p] # NoFile /\ disk[p].content = old.content
  <2>1. SUFFICES ASSUME IsLive(old) PROVE disk[p] # NoFile /\ disk[p].content = old.content  OBVIOUS
  <2>2. RevisionOf(disk[p]) = memory.files[p].revision  BY <1>1, <1>2, <2>1 DEF LocalUnchanged
  <2>3. Vouches(memory.files[p], Seen(p))  BY <1>3 DEF Vouching, Torn
  <2>4. memory.files[p] # NoInfo /\ memory.files[p].info = old /\ ~IsDeleted(old)
    BY <2>1 DEF IsLive, InfoAt
  <2>5. memory.files[p].revision # Deleted  BY <2>3, <2>4 DEF Vouches
  <2>6. disk[p] # NoFile /\ disk[p].revision = memory.files[p].revision  BY <2>2, <2>5 DEF RevisionOf
  <2> QED  BY <2>3, <2>4, <2>6 DEF Vouches, Seen
<1>6. CASE draft.expected = NoInfo
  <2>1. old = NoInfo /\ draft.base = Tombstone  BY <1>2, <1>6 DEF DraftIsCurrent, DraftRead, Shape, Transaction
  <2> QED  BY <1>4, <2>1 DEF IsLive
<1>7. CASE draft.expected # NoInfo
  <2>1. old # NoInfo /\ compareConcurrentVersionCounters(old.version, draft.expected) = 0
    BY <1>2, <1>7 DEF DraftIsCurrent
  <2>2. old.version \in Vector /\ draft.expected \in Vector
    BY <1>3, <1>7, <2>1, Itself DEF Draft, Shape, Folder
  <2>3. old.version = draft.expected
    BY <2>1, <2>2, ComparisonAntisymmetric
  <2>4. old.content = draft.base
    BY <1>1, <1>7, <2>3 DEF DraftRead, Follows, Shape, Transaction
  <2> QED  BY <1>4, <1>5, <2>1, <2>4 DEF IsLive, IsDeleted
<1> QED  BY <1>6, <1>7

(* An application's edit of a file with a name of the users' replaces only  *)
(* what the application had read, unless an editor comes into the window   *)
(* no check can close.                                                     *)
THEOREM EditsReplaceOnlyWhatTheyRead ==
  ASSUME ~EditorRaces
  PROVE  Spec => EditsReplaceWhatTheyRead
<1> DEFINE Inv == Shape /\ History /\ InPlace /\ Vouching /\ ArchivedFirst /\ EditUnderway /\ DraftRead
<1>1. Init => Inv
  BY ShapeInit, HistoryInit, VouchingInit DEF Init, InPlace, ArchivedFirst, EditUnderway, DraftRead, Installs
<1>2. Inv /\ [Next]_vars => Inv'
  BY NextKeepsShape, NextKeepsHistory, NextKeepsInPlace, NextKeepsVouching, NextKeepsArchivedFirst,
     NextKeepsEditUnderway, NextKeepsDraftRead
<1>3. Inv => (kind = "edit" /\ draft.path \in Names /\ step = "checked" /\ step' = "replaced" =>
                IF draft.base = Tombstone THEN disk[draft.path] = NoFile
                ELSE disk[draft.path] # NoFile /\ disk[draft.path].content = draft.base)
  BY ReplacesWhatWasRead
<1> HIDE DEF Inv
<1> QED  BY <1>1, <1>2, <1>3, PTL DEF Spec, EditsReplaceWhatTheyRead

==============================================================================
