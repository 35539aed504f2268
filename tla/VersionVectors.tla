--------------------------- MODULE VersionVectors ---------------------------
(***************************************************************************)
(* Syncthing version vectors as packages/core keeps them: one unsigned     *)
(* counter per device that ever changed the file.  A counter that is       *)
(* missing compares as zero, so a vector is a total function here.         *)
(***************************************************************************)
EXTENDS Integers

CONSTANTS
  Devices,      \* numeric device ids, the order of concurrent comparison
  MaxCounter    \* the largest counter canonicalCounters accepts (2^64 - 1)

ASSUME DevicesAssumption == Devices \subseteq Nat
ASSUME MaxCounterAssumption == MaxCounter \in Nat \ {0}

Vector == [Devices -> Nat]

\* `version.counters` is empty: the peer sent no version at all.
NoCounters == [d \in Devices |-> 0]

mergeVersionVectors(v, w) ==
  [d \in Devices |-> IF v[d] > w[d] THEN v[d] ELSE w[d]]

\* Advancing past MaxCounter is rejected by canonicalCounters.
CanAdvance(v, d) == v[d] < MaxCounter

advanceVersionVector(v, d) == [v EXCEPT ![d] = @ + 1]

DominatedBy(v, w) == \A d \in Devices : v[d] <= w[d]

compareVersionVectors(v, w) ==
  CASE DominatedBy(v, w) /\ DominatedBy(w, v) -> "equal"
    [] DominatedBy(w, v) /\ ~DominatedBy(v, w) -> "after"
    [] DominatedBy(v, w) /\ ~DominatedBy(w, v) -> "before"
    [] OTHER -> "concurrent"

Differing(v, w) == {d \in Devices : v[d] # w[d]}

Least(S) == CHOOSE d \in S : \A e \in S : d <= e

\* The first unequal counter in numeric device order decides.
compareConcurrentVersionCounters(v, w) ==
  IF Differing(v, w) = {} THEN 0
  ELSE LET first == Least(Differing(v, w))
       IN  IF v[first] > w[first] THEN 1 ELSE -1

=============================================================================
