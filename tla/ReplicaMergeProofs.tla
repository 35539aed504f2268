------------------------- MODULE ReplicaMergeProofs -------------------------
(***************************************************************************)
(* What planReplicaMerge guarantees for any set of devices, versions and   *)
(* contents.                                                               *)
(***************************************************************************)
EXTENDS ReplicaMerge, WellFoundedInduction, TLAPS

(* The merged vector is a vector and the least upper bound of its parts.   *)
LEMMA MergedVector ==
  ASSUME NEW v \in Vector, NEW w \in Vector
  PROVE  /\ mergeVersionVectors(v, w) \in Vector
         /\ DominatedBy(v, mergeVersionVectors(v, w))
         /\ DominatedBy(w, mergeVersionVectors(v, w))
         /\ mergeVersionVectors(v, w) = mergeVersionVectors(w, v)
  BY DEF Vector, mergeVersionVectors, DominatedBy

(* A counter of the merged vector is known to one of the two sides.        *)
LEMMA MergedCounter ==
  ASSUME NEW v \in Vector, NEW w \in Vector, NEW d \in Devices, NEW k \in Nat,
         mergeVersionVectors(v, w)[d] >= k
  PROVE  v[d] >= k \/ w[d] >= k
  BY DEF Vector, mergeVersionVectors

(* Advancing changes one counter, by one, upwards.                         *)
LEMMA AdvancedVector ==
  ASSUME NEW v \in Vector, NEW d \in Devices
  PROVE  /\ advanceVersionVector(v, d) \in Vector
         /\ DominatedBy(v, advanceVersionVector(v, d))
         /\ advanceVersionVector(v, d)[d] = v[d] + 1
         /\ \A e \in Devices \ {d} : advanceVersionVector(v, d)[e] = v[e]
  BY DEF Vector, advanceVersionVector, DominatedBy

(* Two vectors that dominate each other are the same vector.               *)
LEMMA MutualDominance ==
  ASSUME NEW v \in Vector, NEW w \in Vector, DominatedBy(v, w), DominatedBy(w, v)
  PROVE  v = w
<1>1. ASSUME NEW d \in Devices  PROVE v[d] = w[d]
  <2>1. v[d] \in Nat /\ w[d] \in Nat  BY DEF Vector
  <2>2. v[d] <= w[d] /\ w[d] <= v[d]  BY DEF DominatedBy
  <2> QED  BY <2>1, <2>2
<1> QED  BY <1>1 DEF Vector

(* A set of devices that is not empty has a least member.                  *)
LEMMA LeastMember ==
  ASSUME NEW S, S \subseteq Devices, S # {}
  PROVE  Least(S) \in S
<1>1. S \subseteq Nat  BY DevicesAssumption
<1>2. IsWellFoundedOn(OpToRel(<, Nat), Nat)  BY NatLessThanWellFounded
<1>3. \E x \in S : \A y \in S : ~(<<y, x>> \in OpToRel(<, Nat))
  BY <1>1, <1>2, WFMin
<1>4. PICK x \in S : \A y \in S : ~(<<y, x>> \in OpToRel(<, Nat))  BY <1>3
<1>5. ASSUME NEW y \in S  PROVE x <= y
  <2>1. x \in Nat /\ y \in Nat  BY <1>1
  <2>2. ~(y < x)  BY <2>1, <1>4 DEF OpToRel
  <2> QED  BY <2>1, <2>2
<1> QED  BY <1>5 DEF Least

(* Comparing concurrent vectors from the other side flips the sign, and no *)
(* two different vectors tie.                                              *)
LEMMA ComparisonAntisymmetric ==
  ASSUME NEW v \in Vector, NEW w \in Vector, v # w
  PROVE  /\ compareConcurrentVersionCounters(v, w) \in {-1, 1}
         /\ compareConcurrentVersionCounters(w, v) = -compareConcurrentVersionCounters(v, w)
<1>1. Differing(v, w) = Differing(w, v)  BY DEF Differing
<1>2. Differing(v, w) # {}  BY DEF Differing, Vector
<1>3. Differing(v, w) \subseteq Devices  BY DEF Differing
<1> DEFINE first == Least(Differing(v, w))
<1>4. first \in Differing(v, w)  BY <1>2, <1>3, LeastMember
<1>5. first \in Devices /\ v[first] # w[first]  BY <1>4 DEF Differing
<1>6. v[first] \in Nat /\ w[first] \in Nat  BY <1>5 DEF Vector
<1>7. compareConcurrentVersionCounters(v, w) = IF v[first] > w[first] THEN 1 ELSE -1
  BY <1>2 DEF compareConcurrentVersionCounters
<1>8. compareConcurrentVersionCounters(w, v) = IF w[first] > v[first] THEN 1 ELSE -1
  BY <1>1, <1>2 DEF compareConcurrentVersionCounters
<1> HIDE DEF first
<1> QED  BY <1>5, <1>6, <1>7, <1>8

-----------------------------------------------------------------------------

(* Between two records the plan keeps, receives or merges, as their        *)
(* versions are ordered.                                                   *)
LEMMA PlanKinds ==
  ASSUME NEW local \in FileInfo, NEW remote \in FileInfo
  PROVE  \/ /\ planReplicaMerge(local, remote) = Keep(local)
            /\ DominatedBy(remote.version, local.version)
         \/ /\ planReplicaMerge(local, remote) = Receive(remote)
            /\ DominatedBy(local.version, remote.version)
            /\ ~DominatedBy(remote.version, local.version)
         \/ /\ planReplicaMerge(local, remote) = MergeConcurrent(local, remote)
            /\ ~DominatedBy(remote.version, local.version)
            /\ ~DominatedBy(local.version, remote.version)
<1>1. local # NoInfo  BY NoInfoAssumption
<1> QED  BY <1>1 DEF planReplicaMerge, compareVersionVectors

(* What a merge of concurrent records plans are records, with the merged   *)
(* version.                                                                *)
LEMMA ConcurrentPlanTyped ==
  ASSUME NEW local \in FileInfo, NEW remote \in FileInfo
  PROVE  LET plan == MergeConcurrent(local, remote)
         IN  /\ plan.action = "merge"
             /\ plan.winner \in FileInfo
             /\ plan.winner.version = mergeVersionVectors(local.version, remote.version)
             /\ \/ plan.winner.content = local.content
                \/ plan.winner.content = remote.content
             /\ plan.conflict = NoInfo \/ plan.conflict \in FileInfo
             /\ plan.conflict # NoInfo =>
                  /\ plan.conflict.version = plan.winner.version
                  /\ ~IsDeleted(plan.conflict)
                  /\ {plan.conflict.content, plan.winner.content} = {local.content, remote.content}
<1> DEFINE plan == MergeConcurrent(local, remote)
           merged == mergeVersionVectors(local.version, remote.version)
<1>1. /\ local.version \in Vector /\ remote.version \in Vector
      /\ local.content \in Contents \cup {Tombstone}
      /\ remote.content \in Contents \cup {Tombstone}
      /\ local.mtime \in Nat /\ remote.mtime \in Nat
  BY DEF FileInfo
<1>2. merged \in Vector  BY <1>1, MergedVector
<1>3. /\ [local EXCEPT !.version = merged] \in FileInfo
      /\ [remote EXCEPT !.version = merged] \in FileInfo
      /\ [local EXCEPT !.version = merged].version = merged
      /\ [remote EXCEPT !.version = merged].version = merged
      /\ [local EXCEPT !.version = merged].content = local.content
      /\ [remote EXCEPT !.version = merged].content = remote.content
  BY <1>2 DEF FileInfo
<1> HIDE DEF merged
<1>4. CASE Rank(local, remote) >= 0
  <2>1. /\ plan.action = "merge"
        /\ plan.winner = [local EXCEPT !.version = merged]
        /\ plan.conflict = IF local.content = remote.content \/ IsDeleted(remote)
                           THEN NoInfo ELSE [remote EXCEPT !.version = merged]
    BY <1>4 DEF MergeConcurrent, merged
  <2> QED  BY <2>1, <1>3 DEF IsDeleted, merged
<1>5. CASE ~(Rank(local, remote) >= 0)
  <2>1. /\ plan.action = "merge"
        /\ plan.winner = [remote EXCEPT !.version = merged]
        /\ plan.conflict = IF local.content = remote.content \/ IsDeleted(local)
                           THEN NoInfo ELSE [local EXCEPT !.version = merged]
    BY <1>5 DEF MergeConcurrent, merged
  <2> QED  BY <2>1, <1>3 DEF IsDeleted, merged
<1> QED  BY <1>4, <1>5

(* Of two records with different versions each side ranks the same one     *)
(* first.                                                                  *)
LEMMA RankAntisymmetric ==
  ASSUME NEW local \in FileInfo, NEW remote \in FileInfo,
         local.version # remote.version
  PROVE  (Rank(local, remote) >= 0) <=> ~(Rank(remote, local) >= 0)
<1>1. /\ local.version \in Vector /\ remote.version \in Vector
      /\ local.mtime \in Nat /\ remote.mtime \in Nat
  BY DEF FileInfo
<1>2. /\ compareConcurrentVersionCounters(local.version, remote.version) \in {-1, 1}
      /\ compareConcurrentVersionCounters(remote.version, local.version)
           = -compareConcurrentVersionCounters(local.version, remote.version)
  BY <1>1, ComparisonAntisymmetric
<1>3. CASE IsDeleted(local) # IsDeleted(remote)
  <2>1. CASE IsDeleted(remote)
    <3>1. ~IsDeleted(local)  BY <1>3, <2>1 DEF IsDeleted
    <3>2. Rank(local, remote) = 1 /\ Rank(remote, local) = -1
      BY <2>1, <3>1 DEF Rank, IsDeleted
    <3> QED  BY <3>2
  <2>2. CASE ~IsDeleted(remote)
    <3>1. IsDeleted(local)  BY <1>3, <2>2 DEF IsDeleted
    <3>2. Rank(local, remote) = -1 /\ Rank(remote, local) = 1
      BY <2>2, <3>1 DEF Rank, IsDeleted
    <3> QED  BY <3>2
  <2> QED  BY <2>1, <2>2
<1>4. CASE IsDeleted(local) = IsDeleted(remote) /\ local.mtime # remote.mtime
  BY <1>1, <1>4 DEF Rank, IsDeleted
<1>5. CASE IsDeleted(local) = IsDeleted(remote) /\ local.mtime = remote.mtime
  <2>1. /\ Rank(local, remote) = compareConcurrentVersionCounters(local.version, remote.version)
        /\ Rank(remote, local) = compareConcurrentVersionCounters(remote.version, local.version)
    BY <1>5 DEF Rank
  <2> QED  BY <2>1, <1>2
<1> QED  BY <1>3, <1>4, <1>5

(* Two devices that hold different versions of a path plan the same merge  *)
(* of them, whichever of the two is theirs: the same winning record and    *)
(* the same conflict copy (planReplicaMerge).                              *)
THEOREM MergeIsSymmetric ==
  ASSUME NEW local \in FileInfo, NEW remote \in FileInfo,
         local.version # remote.version
  PROVE  /\ planReplicaMerge(local, remote).winner = planReplicaMerge(remote, local).winner
         /\ planReplicaMerge(local, remote).conflict = planReplicaMerge(remote, local).conflict
<1>1. local.version \in Vector /\ remote.version \in Vector  BY DEF FileInfo
<1>2. ~(DominatedBy(local.version, remote.version) /\ DominatedBy(remote.version, local.version))
  BY <1>1, MutualDominance
<1>3. CASE DominatedBy(local.version, remote.version)
  <2>1. /\ planReplicaMerge(local, remote) = Receive(remote)
        /\ planReplicaMerge(remote, local) = Keep(remote)
    BY <1>2, <1>3, PlanKinds
  <2> QED  BY <2>1 DEF Receive, Keep
<1>4. CASE DominatedBy(remote.version, local.version)
  <2>1. /\ planReplicaMerge(local, remote) = Keep(local)
        /\ planReplicaMerge(remote, local) = Receive(local)
    BY <1>2, <1>4, PlanKinds
  <2> QED  BY <2>1 DEF Receive, Keep
<1>5. CASE /\ ~DominatedBy(local.version, remote.version)
           /\ ~DominatedBy(remote.version, local.version)
  <2> DEFINE merged == mergeVersionVectors(local.version, remote.version)
  <2>1. mergeVersionVectors(remote.version, local.version) = merged
    BY <1>1, MergedVector
  <2>2. /\ planReplicaMerge(local, remote) = MergeConcurrent(local, remote)
        /\ planReplicaMerge(remote, local) = MergeConcurrent(remote, local)
    BY <1>5, PlanKinds
  <2> HIDE DEF merged
  <2>3. CASE Rank(local, remote) >= 0
    <3>1. ~(Rank(remote, local) >= 0)  BY <2>3, RankAntisymmetric
    <3> QED  BY <2>1, <2>2, <2>3, <3>1 DEF MergeConcurrent, merged
  <2>4. CASE ~(Rank(local, remote) >= 0)
    <3>1. Rank(remote, local) >= 0  BY <2>4, RankAntisymmetric
    <3> QED  BY <2>1, <2>2, <2>4, <3>1 DEF MergeConcurrent, merged
  <2> QED  BY <2>3, <2>4
<1> QED  BY <1>3, <1>4, <1>5

=============================================================================
