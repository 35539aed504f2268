------------------------- MODULE FavoriteSyncProofs -------------------------
(***************************************************************************)
(* The copies, baselines and records of a favourite keep their shape, and  *)
(* a recorded resolution is consumed only by a pass that has carried one   *)
(* out, for any number of passes, changes on both sides, lost sessions and *)
(* stops.                                                                  *)
(***************************************************************************)
EXTENDS FavoriteSync, TLAPS

-----------------------------------------------------------------------------
(* What a pass remembers                                                   *)

Baselines == Entries \cup {None}
Wants == {"none", "keep-local", "keep-remote"}
Kinds == {"upload", "delete", "download", "delete-local"}
PathSets == SUBSET Paths

Resting    == [at : {"idle"}]
Finishing  == [at : {"consume"}, p : Paths, c : Nat, want : {"keep-local", "keep-remote"}]
Passing    == [at : {"renames", "clear", "list"}, want : Wants,
               all : PathSets, pairs : PathSets, lone : PathSets]
Renaming   == [at : {"publish", "await", "confirmed", "old name", "renames", "clear", "list"},
               kind : {"upload", "delete"}, p : Paths, exp : Nat, rem : Entries, s : Nat,
               old : Paths, source : Entries,
               want : {"none"}, all : PathSets, pairs : PathSets, lone : PathSets]
Forgetting == [at : {"publish", "await", "confirmed", "renames", "clear", "list"},
               kind : {"delete"}, p : Paths, rem : Entries, old : {None},
               want : {"none"}, all : PathSets, pairs : PathSets, lone : PathSets]
Planning   == [at : {"run"}, p : Paths, cached : BOOLEAN, rem : Entries, b : Baselines, want : Wants]
Carrying   == [at : {"publish", "await", "confirmed", "fetch", "remove", "removed", "cleared"},
               kind : Kinds, p : Paths, exp : Nat, rem : Entries, s : Nat, want : {"none"}]
Keeping    == [at : {"publish", "await", "confirmed"}, kind : {"upload"},
               p : Paths, exp : Nat, rem : Entries, s : Nat, want : {"keep-local"}]
Taking     == [at : {"fetch"}, kind : {"download"},
               p : Paths, exp : Nat, rem : Entries, s : Nat, want : {"keep-remote"}]
Loading    == [at : {"commit", "downloaded"}, p : Paths, exp : Nat, c : Nat, s : Nat,
               want : {"none", "keep-remote"}, clean : BOOLEAN]

Jobs == Resting \cup Finishing \cup Passing \cup Renaming \cup Forgetting \cup Planning
          \cup Carrying \cup Keeping \cup Taking \cup Loading

Publications == [p : Paths, val : Entries, from : Entries, blind : BOOLEAN]

Shape ==
  /\ TypeOK
  /\ base \in [Paths -> Baselines]
  /\ clock \in Nat \ {0} /\ events \in Nat /\ failures \in Nat
  /\ live \subseteq 1..clock
  /\ job \in Jobs
  /\ out # None => out \in Publications

\* A resolution is consumed when its outcome is in the baseline.
Done == job.at = "consume" => base[job.p] # None /\ base[job.p].c = job.c

\* A download replaces the document that was hashed, and nothing comes between it
\* and its baseline.
DownloadsFit ==
  /\ job.at = "commit" /\ job.clean => doc[job.p] = job.exp
  /\ job.at = "downloaded" => doc[job.p] = job.c

-----------------------------------------------------------------------------
(* Every variable stays in its range                                       *)

LEMMA TwoPaths ==
  ASSUME NEW p \in Paths
  PROVE  /\ Other(p) \in Paths /\ Other(p) # p /\ Other(Other(p)) = p
         /\ \A q \in Paths : q = p \/ q = Other(p)
  BY DEF Paths, Other

(* Where a pass is tells what its record holds.                            *)
LEMMA JobClasses ==
  ASSUME job \in Jobs
  PROVE  /\ job.at \in {"renames", "clear", "list"} => job \in Passing \cup Renaming \cup Forgetting
         /\ job.at = "old name" => job \in Renaming
         /\ job.at = "run" => job \in Planning
         /\ job.at \in {"publish", "await", "confirmed"} =>
              job \in Renaming \cup Forgetting \cup Carrying \cup Keeping
         /\ job.at = "fetch" => job \in Carrying \cup Taking
         /\ job.at \in {"remove", "removed", "cleared"} => job \in Carrying
         /\ job.at \in {"commit", "downloaded"} => job \in Loading
         /\ job.at = "consume" => job \in Finishing
         /\ job \in Renaming \cup Forgetting => "old" \in DOMAIN job
         /\ job \in Carrying \cup Keeping \cup Taking \cup Planning \cup Loading => "old" \notin DOMAIN job
<1>1. \A j \in Resting : j.at = "idle"  BY DEF Resting
<1>2. \A j \in Finishing : j.at = "consume"  BY DEF Finishing
<1>3. \A j \in Passing : j.at \in {"renames", "clear", "list"}  BY DEF Passing
<1>4. \A j \in Renaming : /\ j.at \in {"publish", "await", "confirmed", "old name", "renames", "clear", "list"}
                          /\ "old" \in DOMAIN j
  BY DEF Renaming
<1>5. \A j \in Forgetting : /\ j.at \in {"publish", "await", "confirmed", "renames", "clear", "list"}
                            /\ "old" \in DOMAIN j
  BY DEF Forgetting
<1>6. \A j \in Planning : j.at = "run" /\ "old" \notin DOMAIN j  BY DEF Planning
<1>7. \A j \in Carrying :
        /\ j.at \in {"publish", "await", "confirmed", "fetch", "remove", "removed", "cleared"}
        /\ "old" \notin DOMAIN j
  BY DEF Carrying
<1>8. \A j \in Keeping : j.at \in {"publish", "await", "confirmed"} /\ "old" \notin DOMAIN j
  BY DEF Keeping
<1>9. \A j \in Taking : j.at = "fetch" /\ "old" \notin DOMAIN j  BY DEF Taking
<1>10. \A j \in Loading : j.at \in {"commit", "downloaded"} /\ "old" \notin DOMAIN j  BY DEF Loading
<1> QED  BY <1>1, <1>2, <1>3, <1>4, <1>5, <1>6, <1>7, <1>8, <1>9, <1>10 DEF Jobs

(* Saving an issue keeps the resolution.                                   *)
LEMMA Saving ==
  ASSUME TypeOK
  PROVE  /\ \A issue \in {"none", "conflict", "error"} : Save(issue) =>
              /\ entry' \in [issue : {"none", "conflict", "error"}, want : Wants]
              /\ entry'.want = entry.want
         /\ \A p, issue : Report(p, issue) => Save(issue) \/ UNCHANGED entry
         /\ Fail => (Save("error") \/ UNCHANGED entry) /\ job' = Idle
  BY DEF TypeOK, Save, Report, Fail, Wants

LEMMA PassMoves ==
  ASSUME Shape, job.at \in {"renames", "clear", "list"}
  PROVE  /\ \A at \in {"renames", "clear", "list"} : [job EXCEPT !.at = at] \in Jobs
         /\ \A q : [job EXCEPT !.pairs = @ \ {q}] \in Jobs /\ [job EXCEPT !.lone = @ \ {q}] \in Jobs
         /\ [job EXCEPT !.at = "clear", !.want = "none"] \in Jobs
         /\ job.all \in PathSets /\ job.pairs \in PathSets /\ job.lone \in PathSets /\ job.want \in Wants
<1>1. job \in Passing \cup Renaming \cup Forgetting  BY JobClasses DEF Shape
<1>2. CASE job \in Passing  BY <1>2 DEF Passing, Jobs, PathSets, Wants
<1>3. CASE job \in Renaming  BY <1>3 DEF Renaming, Jobs, PathSets, Wants
<1>4. CASE job \in Forgetting  BY <1>4 DEF Forgetting, Jobs, PathSets, Wants
<1> QED  BY <1>1, <1>2, <1>3, <1>4

LEMMA PublicationMoves ==
  ASSUME Shape, job.at \in {"publish", "await", "confirmed"}
  PROVE  /\ job.p \in Paths /\ job.want \in Wants
         /\ \A at \in {"await", "confirmed"} : [job EXCEPT !.at = at] \in Jobs
         /\ job.kind = "upload" =>
              /\ job.exp \in Nat /\ job.s \in Nat
              /\ \A n \in Nat : [job EXCEPT !.at = "await", !.s = n] \in Jobs
         /\ "old" \in DOMAIN job =>
              /\ [job EXCEPT !.at = "renames"] \in Jobs
              /\ job.kind = "upload" => [job EXCEPT !.at = "old name"] \in Jobs
         /\ "old" \notin DOMAIN job /\ job.want # "none" =>
              job.kind = "upload" /\ job.want \in {"keep-local", "keep-remote"}
<1>1. job \in Renaming \cup Forgetting \cup Carrying \cup Keeping  BY JobClasses DEF Shape
<1>2. CASE job \in Renaming
  <2>1. "old" \in DOMAIN job  BY <1>2, JobClasses DEF Shape
  <2>2. \A at \in {"await", "confirmed", "renames", "old name"} : [job EXCEPT !.at = at] \in Renaming
    BY <1>2 DEF Renaming
  <2>3. \A n \in Nat : [job EXCEPT !.at = "await", !.s = n] \in Renaming  BY <1>2 DEF Renaming
  <2>4. job.p \in Paths /\ job.want \in Wants /\ job.exp \in Nat /\ job.s \in Nat
    BY <1>2 DEF Renaming, Wants
  <2> QED  BY <2>1, <2>2, <2>3, <2>4 DEF Jobs
<1>3. CASE job \in Forgetting
  <2>1. "old" \in DOMAIN job  BY <1>3, JobClasses DEF Shape
  <2>2. \A at \in {"await", "confirmed", "renames"} : [job EXCEPT !.at = at] \in Forgetting
    BY <1>3 DEF Forgetting
  <2>3. job.p \in Paths /\ job.want \in Wants /\ job.kind = "delete"  BY <1>3 DEF Forgetting, Wants
  <2> QED  BY <2>1, <2>2, <2>3 DEF Jobs
<1>4. CASE job \in Carrying
  <2>1. "old" \notin DOMAIN job  BY <1>4, JobClasses DEF Shape
  <2>2. \A at \in {"await", "confirmed"} : [job EXCEPT !.at = at] \in Carrying  BY <1>4 DEF Carrying
  <2>3. \A n \in Nat : [job EXCEPT !.at = "await", !.s = n] \in Carrying  BY <1>4 DEF Carrying
  <2>4. job.p \in Paths /\ job.want = "none" /\ job.exp \in Nat /\ job.s \in Nat  BY <1>4 DEF Carrying
  <2> QED  BY <2>1, <2>2, <2>3, <2>4 DEF Jobs, Wants
<1>5. CASE job \in Keeping
  <2>1. "old" \notin DOMAIN job  BY <1>5, JobClasses DEF Shape
  <2>2. \A at \in {"await", "confirmed"} : [job EXCEPT !.at = at] \in Keeping  BY <1>5 DEF Keeping
  <2>3. \A n \in Nat : [job EXCEPT !.at = "await", !.s = n] \in Keeping  BY <1>5 DEF Keeping
  <2>4. /\ job.p \in Paths /\ job.want = "keep-local" /\ job.exp \in Nat /\ job.s \in Nat
        /\ job.kind = "upload"
    BY <1>5 DEF Keeping
  <2> QED  BY <2>1, <2>2, <2>3, <2>4 DEF Jobs, Wants
<1> QED  BY <1>1, <1>2, <1>3, <1>4, <1>5

(* The record a pass goes on with when it plans.                           *)
LEMMA PlannedJobs ==
  ASSUME Shape
  PROVE  /\ StartPass => job' \in Jobs
         /\ \A p \in Paths : PlanRename(p) => job' \in Jobs
         /\ RemoveOldName => job' \in Jobs
         /\ \A p \in Paths : PlanLoneRename(p) => job' \in Jobs
         /\ MoveFavorite => job' \in Jobs
         /\ ClearRenames => job' \in Jobs
         /\ List => job' \in Jobs
<1>1. Idle \in Jobs  BY DEF Idle, Jobs, Resting
<1>2. ASSUME StartPass PROVE job' \in Jobs
  <2>1. entry.want \in Wants  BY DEF Shape, TypeOK, Wants
  <2>2. job' \in Passing  BY <1>2, <2>1 DEF StartPass, Passing, PathSets, Shape, TypeOK
  <2> QED  BY <2>2 DEF Jobs
<1>3. ASSUME NEW p \in Paths, PlanRename(p) PROVE job' \in Jobs
  <2>1. job.at = "renames"  BY <1>3 DEF PlanRename
  <2>2. job.all \in PathSets /\ job.pairs \in PathSets /\ job.lone \in PathSets
        /\ [job EXCEPT !.pairs = @ \ {p}] \in Jobs
    BY <2>1, PassMoves
  <2>3. CASE job' = Idle \/ job' = [job EXCEPT !.pairs = @ \ {p}]  BY <1>1, <2>2, <2>3
  <2>4. CASE \E at \in {"old name", "publish"} :
               job' = [at |-> at, kind |-> "upload", p |-> Other(p), exp |-> doc[Other(p)],
                       rem |-> seen[Other(p)], s |-> 0, old |-> p, source |-> seen[p],
                       want |-> "none", all |-> job.all,
                       pairs |-> job.pairs \ {p}, lone |-> job.lone]
    <3>1. /\ doc[Other(p)] \in Nat /\ Other(p) \in Paths
          /\ seen[Other(p)] \in Entries /\ seen[p] \in Entries
      BY TwoPaths DEF Shape, TypeOK
    <3>2. PICK at \in {"old name", "publish"} :
               job' = [at |-> at, kind |-> "upload", p |-> Other(p), exp |-> doc[Other(p)],
                       rem |-> seen[Other(p)], s |-> 0, old |-> p, source |-> seen[p],
                       want |-> "none", all |-> job.all,
                       pairs |-> job.pairs \ {p}, lone |-> job.lone]
      BY <2>4
    <3>3. job.pairs \ {p} \in PathSets  BY <2>2 DEF PathSets
    <3>4. job' \in Renaming
      BY ONLY <2>2, <3>1, <3>2, <3>3, p \in Paths DEF Renaming
    <3> QED  BY <3>4 DEF Jobs
  <2> QED  BY <1>3, <2>3, <2>4 DEF PlanRename
<1>4. ASSUME RemoveOldName PROVE job' \in Jobs
  <2>1. job \in Renaming  BY <1>4, JobClasses DEF RemoveOldName, Shape
  <2>2. job' \in Renaming  BY <1>4, <2>1 DEF RemoveOldName, Renaming, Goto
  <2> QED  BY <2>2 DEF Jobs
<1>5. ASSUME NEW p \in Paths, PlanLoneRename(p) PROVE job' \in Jobs
  <2>1. job.at = "renames"  BY <1>5 DEF PlanLoneRename
  <2>2. job.all \in PathSets /\ job.lone \in PathSets /\ [job EXCEPT !.lone = @ \ {p}] \in Jobs
    BY <2>1, PassMoves
  <2>3. [job EXCEPT !.lone = @ \ {p}].lone \in PathSets
    <3>1. job \in Passing \cup Renaming \cup Forgetting  BY <2>1, JobClasses DEF Shape
    <3> QED  BY <3>1 DEF Passing, Renaming, Forgetting, PathSets
  <2>4. CASE job' = [job EXCEPT !.lone = @ \ {p}]  BY <2>2, <2>4
  <2>5. CASE job' = [at |-> "publish", kind |-> "delete", p |-> p, rem |-> seen[p], old |-> None,
                     want |-> "none", all |-> job.all, pairs |-> {},
                     lone |-> [job EXCEPT !.lone = @ \ {p}].lone]
    <3>0. seen[p] \in Entries  BY DEF Shape, TypeOK
    <3>1. job' \in Forgetting  BY <2>2, <2>3, <2>5, <3>0 DEF Forgetting, PathSets
    <3> QED  BY <3>1 DEF Jobs
  <2> QED  BY <1>5, <2>4, <2>5 DEF PlanLoneRename
<1>6. ASSUME MoveFavorite PROVE job' \in Jobs
  BY <1>6, PassMoves DEF MoveFavorite
<1>7. ASSUME ClearRenames PROVE job' \in Jobs
  BY <1>7, PassMoves DEF ClearRenames, Goto
<1>8. ASSUME List PROVE job' \in Jobs
  <2>1. job.want \in Wants  BY <1>8, PassMoves DEF List
  <2>2. seen[fav] \in Entries /\ base[fav] \in Baselines /\ fav \in Paths  BY DEF Shape, TypeOK
  <2>3. CASE job' = Idle  BY <1>1, <2>3
  <2>4. CASE job' = [at |-> "run", p |-> fav, cached |-> doc[fav] # 0, rem |-> seen[fav],
                     b |-> base[fav], want |-> job.want]
    <3>1. job' \in Planning  BY <2>1, <2>2, <2>4 DEF Planning
    <3> QED  BY <3>1 DEF Jobs
  <2> QED  BY <1>8, <2>3, <2>4 DEF List
<1> QED  BY <1>2, <1>3, <1>4, <1>5, <1>6, <1>7, <1>8

\* The copy a pass compares, and what it plans with it.
LocalCopy == IF job.cached THEN doc[job.p] ELSE 0
Plan == PlanSync(LocalCopy, job.rem, job.b)

(* What a pass does with what it read: the cases of RunCandidate.          *)
LEMMA RunCases ==
  ASSUME Shape, RunCandidate
  PROVE  /\ job \in Planning /\ job.at = "run" /\ LocalCopy \in Nat
         /\ \/ job' = Idle /\ (Save("error") \/ Save("none") \/ Save("conflict") \/ UNCHANGED entry)
            \/ job.want = "keep-local" /\ LocalCopy # 0 /\ Act("upload", LocalCopy)
            \/ job.want = "keep-remote" /\ job.rem # Gone /\ Act("download", LocalCopy)
            \/ job.want = "none" /\ Plan = "delete-remote" /\ Act("delete", 0)
            \/ job.want = "none" /\ Plan = "delete-local" /\ (job.cached => LocalCopy # 0)
                 /\ Act("delete-local", LocalCopy)
            \/ job.want = "none" /\ Plan = "upload" /\ Act("upload", LocalCopy)
            \/ job.want = "none" /\ Plan = "download" /\ Act("download", LocalCopy)
<1>1. job \in Planning /\ job.at = "run"  BY JobClasses DEF Shape, RunCandidate
<1>2. LocalCopy \in Nat  BY <1>1 DEF LocalCopy, Planning, Shape, TypeOK
<1>3. Plan \in {"unchanged", "download", "upload", "conflict", "delete-remote", "delete-local"}
  BY DEF Plan, PlanSync
<1>4. Fail => job' = Idle /\ (Save("error") \/ UNCHANGED entry)  BY Saving DEF Shape
<1>5. CASE Fail  BY <1>1, <1>2, <1>4, <1>5
<1>6. CASE ~Fail
  <2>1. \/ job.want = "keep-local" /\ LocalCopy # 0 /\ Act("upload", LocalCopy)
        \/ job.want = "keep-remote" /\ job.rem # Gone /\ Act("download", LocalCopy)
        \/ /\ job.want = "none" /\ (job.cached => LocalCopy # 0)
           /\ CASE Plan = "unchanged" -> Save("none") /\ job' = Idle
                [] Plan = "conflict" -> Save("conflict") /\ job' = Idle
                [] Plan = "delete-remote" -> Act("delete", 0)
                [] Plan = "delete-local" -> Act("delete-local", LocalCopy)
                [] OTHER -> Act(Plan, LocalCopy)
    BY <1>6 DEF RunCandidate, Plan, LocalCopy
  <2>2. Plan \in {"upload", "download"} /\ Act(Plan, LocalCopy) =>
          \/ Plan = "upload" /\ Act("upload", LocalCopy)
          \/ Plan = "download" /\ Act("download", LocalCopy)
    BY DEF Act
  <2> QED  BY <1>1, <1>2, <1>3, <2>1, <2>2
<1> QED  BY <1>5, <1>6

LEMMA RunsOn ==
  ASSUME Shape, RunCandidate
  PROVE  job' \in Jobs
<1>1. job \in Planning /\ LocalCopy \in Nat  BY RunCases
<1>2. Idle \in Jobs  BY DEF Idle, Jobs, Resting
<1>3. job.p \in Paths /\ job.rem \in Entries /\ job.rem.s \in Nat  BY <1>1 DEF Planning, Entries
<1>4. 0 \in Nat  OBVIOUS
<1>5. ASSUME NEW kind \in Kinds, NEW exp \in Nat, job.want = "none", Act(kind, exp)
      PROVE  job' \in Jobs
  <2>1. job' \in Carrying  BY <1>3, <1>5 DEF Act, Carrying, Kinds
  <2> QED  BY <2>1 DEF Jobs
<1>6. ASSUME job.want = "keep-local", Act("upload", LocalCopy) PROVE job' \in Jobs
  <2>1. job' \in Keeping  BY <1>1, <1>3, <1>6 DEF Act, Keeping
  <2> QED  BY <2>1 DEF Jobs
<1>7. ASSUME job.want = "keep-remote", Act("download", LocalCopy) PROVE job' \in Jobs
  <2>1. job' \in Taking  BY <1>1, <1>3, <1>7 DEF Act, Taking
  <2> QED  BY <2>1 DEF Jobs
<1> QED  BY <1>1, <1>2, <1>4, <1>5, <1>6, <1>7, RunCases DEF Kinds

(* Saved issues are issues; the resolution is one of the user's.           *)
LEMMA EntryStays ==
  ASSUME TypeOK
  PROVE  /\ \A issue \in {"none", "conflict", "error"} : Save(issue) =>
              entry' \in [issue : {"none", "conflict", "error"}, want : Wants]
         /\ \A p, issue : issue \in {"none", "conflict", "error"} /\ Report(p, issue) =>
              entry' \in [issue : {"none", "conflict", "error"}, want : Wants]
         /\ Fail => entry' \in [issue : {"none", "conflict", "error"}, want : Wants]
         /\ UNCHANGED entry => entry' \in [issue : {"none", "conflict", "error"}, want : Wants]
         /\ Synced \in [issue : {"none", "conflict", "error"}, want : Wants]
<1>1. UNCHANGED entry => entry' \in [issue : {"none", "conflict", "error"}, want : Wants]
  BY DEF TypeOK, Wants
<1> QED  BY <1>1, Saving DEF Synced, Wants

EntryTyped == entry \in [issue : {"none", "conflict", "error"}, want : Wants]

LEMMA EntryStep ==
  ASSUME Shape, Next
  PROVE  EntryTyped'
<1>1. TypeOK  BY DEF Shape
<1>2. CASE PassStep
  <2>1. ASSUME RunCandidate PROVE EntryTyped'
    <3>1. \E issue \in {"none", "conflict", "error"} : Save(issue) \/ UNCHANGED entry
      BY <2>1, RunCases DEF Act
    <3> QED  BY <1>1, <3>1, EntryStays DEF EntryTyped
  <2>2. CASE \E p \in Paths : PlanRename(p) \/ PlanLoneRename(p)
    BY <1>1, <2>2, EntryStays DEF EntryTyped, PlanRename, PlanLoneRename
  <2>3. CASE MoveFavorite \/ Consume
    BY <1>1, <2>3, EntryStays DEF EntryTyped, MoveFavorite, Consume
  <2>4. CASE StartPass \/ RemoveOldName \/ ClearRenames \/ List
    BY <1>1, <2>4, EntryStays DEF EntryTyped, StartPass, RemoveOldName, ClearRenames, List
  <2>5. CASE Publish \/ Confirm \/ TimesOut \/ Fetch \/ Commit
    BY <1>1, <2>5, EntryStays DEF EntryTyped, Publish, Confirm, TimesOut, Fetch, Commit
  <2>6. CASE Vouch \/ SaveDownloaded \/ RemoveLocal \/ ClearBaseline \/ MarkSynced
    BY <1>1, <2>6, EntryStays DEF EntryTyped, Vouch, SaveDownloaded, RemoveLocal, ClearBaseline, MarkSynced
  <2> QED  BY <1>2, <2>1, <2>2, <2>3, <2>4, <2>5, <2>6 DEF PassStep
<1>3. CASE UserStep
  <2>1. CASE \E p \in Paths : UserWrites(p) \/ UserRemoves(p) \/ UserRenames(p)
    BY <1>1, <2>1, EntryStays DEF EntryTyped, UserWrites, UserRemoves, UserRenames
  <2>2. CASE \E want \in {"keep-local", "keep-remote"} : UserResolves(want)
    BY <2>2 DEF EntryTyped, UserResolves, Wants
  <2> QED  BY <1>3, <2>1, <2>2 DEF UserStep
<1>4. CASE PeerStep \/ Network \/ SessionLost \/ Crash
  BY <1>1, <1>4, EntryStays DEF EntryTyped, PeerStep, PeerWrites, PeerRemoves, Network, PeerApplies,
     Deliver, SessionLost, Crash
<1> QED  BY <1>2, <1>3, <1>4 DEF Next

JobTyped == job \in Jobs

LEMMA JobStep ==
  ASSUME Shape, Next
  PROVE  JobTyped'
<1>1. /\ Idle \in Jobs
      /\ \A p \in Paths, c \in Nat, want \in {"keep-local", "keep-remote"} :
           [at |-> "consume", p |-> p, c |-> c, want |-> want] \in Jobs
  BY DEF Idle, Jobs, Resting, Finishing
<1>2. Fail => job' \in Jobs  BY <1>1 DEF Fail
<1>3. UNCHANGED job => job' \in Jobs  BY DEF Shape
<1>4. ASSUME job.at = "commit"
      PROVE  [job EXCEPT !.clean = FALSE] \in Jobs /\ [job EXCEPT !.at = "downloaded"] \in Jobs
  <2>1. job \in Loading  BY <1>4, JobClasses DEF Shape
  <2>2. [job EXCEPT !.clean = FALSE] \in Loading /\ [job EXCEPT !.at = "downloaded"] \in Loading
    BY <2>1 DEF Loading
  <2> QED  BY <2>2 DEF Jobs
<1>5. CASE PassStep
  <2>1. CASE \/ StartPass \/ RemoveOldName \/ MoveFavorite \/ ClearRenames \/ List
             \/ \E p \in Paths : PlanRename(p) \/ PlanLoneRename(p)
    BY <2>1, PlannedJobs DEF JobTyped
  <2>2. CASE RunCandidate  BY <2>2, RunsOn DEF JobTyped
  <2>3. CASE Publish
    <3>1. clock' = clock + 1 => clock' \in Nat  BY DEF Shape
    <3> QED  BY <1>2, <2>3, <3>1, PublicationMoves DEF JobTyped, Publish, Tick
  <2>4. CASE Confirm \/ TimesOut
    BY <1>2, <2>4, PublicationMoves DEF JobTyped, Confirm, TimesOut, Goto
  <2>5. CASE Vouch
    BY <1>1, <2>5, PublicationMoves DEF JobTyped, Vouch, Goto
  <2>6. CASE Fetch
    <3>1. CASE Fail  BY <1>2, <3>1 DEF JobTyped
    <3>2. CASE ~Fail
      <4>1. job \in Carrying \cup Taking  BY <2>6, JobClasses DEF Fetch, Shape
      <4>3. /\ job.p \in Paths /\ job.exp \in Nat /\ job.s \in Nat
            /\ job.want \in {"none", "keep-remote"}
        BY <4>1 DEF Carrying, Taking
      <4>2. seen[job.p].c \in Nat  BY <4>3 DEF Shape, TypeOK, Entries
      <4>4. job' = [at |-> "commit", p |-> job.p, exp |-> job.exp, c |-> seen[job.p].c,
                    s |-> job.s, want |-> job.want, clean |-> TRUE]
        BY <2>6, <3>2 DEF Fetch
      <4>5. job' \in Loading  BY ONLY <4>2, <4>3, <4>4 DEF Loading
      <4> QED  BY <4>5 DEF JobTyped, Jobs
    <3> QED  BY <3>1, <3>2
  <2>7. CASE Commit  BY <1>2, <1>4, <2>7 DEF JobTyped, Commit, Goto
  <2>8. CASE SaveDownloaded
    <3>1. job \in Loading  BY <2>8, JobClasses DEF Shape, SaveDownloaded
    <3>2. job.p \in Paths /\ job.c \in Nat /\ (job.want # "none" => job.want = "keep-remote")
      BY <3>1 DEF Loading
    <3> QED  BY <1>1, <2>8, <3>2 DEF JobTyped, SaveDownloaded
  <2>9. CASE RemoveLocal \/ ClearBaseline
    <3>1. job \in Carrying  BY <2>9, JobClasses DEF Shape, RemoveLocal, ClearBaseline
    <3>2. [job EXCEPT !.at = "removed"] \in Carrying /\ [job EXCEPT !.at = "cleared"] \in Carrying
      BY <3>1 DEF Carrying
    <3> QED  BY <2>9, <3>2 DEF JobTyped, RemoveLocal, ClearBaseline, Goto, Jobs
  <2>10. CASE MarkSynced \/ Consume  BY <1>1, <2>10 DEF JobTyped, MarkSynced, Consume
  <2> QED  BY <1>5, <2>1, <2>2, <2>3, <2>4, <2>5, <2>6, <2>7, <2>8,
            <2>9, <2>10 DEF PassStep
<1>6. CASE UserStep
  BY <1>3, <1>4, <1>6 DEF JobTyped, UserStep, UserWrites, UserRemoves, UserRenames, UserResolves, Touches
<1>7. CASE PeerStep \/ Network \/ SessionLost \/ Crash
  BY <1>1, <1>2, <1>3, <1>7 DEF JobTyped, PeerStep, PeerWrites, PeerRemoves, Network, PeerApplies,
     Deliver, SessionLost, Crash
<1> QED  BY <1>5, <1>6, <1>7 DEF Next

Times == live \subseteq 1..clock /\ clock \in Nat \ {0} /\ events \in Nat /\ failures \in Nat

LEMMA TimesStep ==
  ASSUME Shape, Next
  PROVE  Times' /\ clock' >= clock
<1>1. clock \in Nat \ {0} /\ events \in Nat /\ failures \in Nat /\ live \subseteq 1..clock  BY DEF Shape
<1>2. CASE PassStep
  <2>1. CASE Publish  BY <1>1, <2>1 DEF Publish, Tick, Times, ghostVars
  <2>2. CASE ~Publish
    <3>1. clock' = clock /\ events' = events /\ live' = live /\ (failures' = failures \/ Failure)
      BY <1>2, <2>2 DEF PassStep, ghostVars, StartPass, RemoveOldName, MoveFavorite, ClearRenames, List,
         PlanRename, PlanLoneRename, RunCandidate, Confirm, TimesOut, Vouch, Fetch, Commit, SaveDownloaded,
         RemoveLocal, ClearBaseline, MarkSynced, Consume
    <3> QED  BY <1>1, <3>1 DEF Times, Failure
  <2> QED  BY <2>1, <2>2
<1>3. CASE UserStep
  BY <1>1, <1>3 DEF ghostVars, Times, UserStep, UserWrites, UserRemoves, UserRenames, UserResolves, Event, Tick
<1>4. CASE PeerStep \/ Network \/ SessionLost \/ Crash
  BY <1>1, <1>4 DEF ghostVars, Times, PeerStep, PeerWrites, PeerRemoves, Network, PeerApplies,
     Deliver, SessionLost, Crash, Event, Failure, Tick
<1> QED  BY <1>2, <1>3, <1>4 DEF Next

Copies ==
  /\ doc \in [Paths -> Nat] /\ peer \in [Paths -> Entries] /\ seen \in [Paths -> Entries]
  /\ base \in [Paths -> Baselines]
  /\ fav \in Paths /\ renames \subseteq Paths /\ stale \subseteq Paths

PublicationFits == out # None => out \in Publications

(* What is noted when a pass is cut off names a path.                      *)
LEMMA CutsOff ==
  ASSUME Shape, CutOff
  PROVE  stale' \subseteq Paths
<1>1. stale \subseteq Paths  BY DEF Shape, TypeOK
<1>2. CASE job.at \in {"await", "confirmed"}
  BY <1>1, <1>2, PublicationMoves DEF CutOff
<1>3. CASE job.at \in {"downloaded", "removed"}
  <2>1. job \in Loading \cup Carrying  BY <1>3, JobClasses DEF Shape
  <2>2. job.p \in Paths  BY <2>1 DEF Loading, Carrying
  <2> QED  BY <1>1, <1>3, <2>2 DEF CutOff
<1> QED  BY <1>1, <1>2, <1>3 DEF CutOff

LEMMA CopiesStep ==
  ASSUME Shape, Next
  PROVE  Copies' /\ PublicationFits'
<1>1. Copies /\ PublicationFits /\ clock \in Nat  BY DEF Shape, TypeOK, Copies, PublicationFits
<1>2. Gone \in Entries  BY DEF Gone, Entries
<1>3. \A p \in Paths : Other(p) \in Paths  BY TwoPaths
<1>4. CASE PassStep
  <2>1. CASE Publish
    <3>1. CASE Fail /\ UNCHANGED <<seen, out, clock>>
      BY <1>1, <2>1, <3>1 DEF Copies, PublicationFits, Publish, peerVars, ghostVars
    <3>2. CASE ~(Fail /\ UNCHANGED <<seen, out, clock>>)
      <4> DEFINE val == IF job.kind = "upload" THEN [c |-> job.exp, s |-> clock'] ELSE Gone
                 blind == seen[job.p] # job.rem \/ job.want = "keep-local"
      <4>1. job.p \in Paths /\ val \in Entries /\ blind \in BOOLEAN
        <5>1. job.p \in Paths /\ (job.kind = "upload" => job.exp \in Nat)
          BY <2>1, PublicationMoves DEF Publish
        <5>2. clock' \in Nat  BY <2>1, <3>2, <1>1 DEF Publish, Tick
        <5> QED  BY <1>2, <5>1, <5>2 DEF Entries
      <4>2. /\ out' = [p |-> job.p, val |-> val, from |-> seen[job.p], blind |-> blind]
            /\ seen' = [seen EXCEPT ![job.p] = val]
            /\ UNCHANGED <<doc, base, peer, fav, renames, stale>>
        BY <2>1, <3>2 DEF Publish, peerVars, ghostVars
      <4> HIDE DEF val, blind
      <4>3. Copies'  BY <1>1, <4>1, <4>2 DEF Copies
      <4>4. out' \in Publications  BY <1>1, <4>1, <4>2 DEF Copies, Publications
      <4> QED  BY <4>3, <4>4 DEF PublicationFits
    <3> QED  BY <3>1, <3>2
  <2>2. CASE Confirm
    <3>1. job.p \in Paths  BY <2>2, PublicationMoves DEF Confirm
    <3>2. Published \in Entries
      BY <1>2, <2>2, PublicationMoves DEF Confirm, Published, Entries
    <3> QED  BY <1>1, <2>2, <3>1, <3>2 DEF Copies, PublicationFits, Confirm, peerVars, ghostVars
  <2>3. CASE TimesOut
    <3>1. stale' \subseteq Paths  BY <2>3, CutsOff DEF TimesOut
    <3>2. PublicationFits'
      <4>1. CASE out = None  BY <2>3, <4>1 DEF TimesOut, PublicationFits
      <4>2. CASE out # None
        <5>1. out \in Publications /\ out' = [out EXCEPT !.blind = TRUE]
          BY <1>1, <2>3, <4>2 DEF TimesOut, PublicationFits
        <5>2. out' \in Publications  BY <5>1 DEF Publications
        <5> QED  BY <5>2 DEF PublicationFits
      <4> QED  BY <4>1, <4>2
    <3> QED  BY <1>1, <2>3, <3>1, <3>2 DEF Copies, TimesOut, peerVars
  <2>4. CASE Vouch
    <3>1. job.p \in Paths  BY <2>4, PublicationMoves DEF Vouch
    <3>2. (IF job.kind = "upload" THEN Published ELSE None) \in Baselines
      BY <2>4, PublicationMoves DEF Vouch, Published, Baselines, Entries
    <3> QED  BY <1>1, <2>4, <3>1, <3>2 DEF Copies, PublicationFits, Vouch, peerVars
  <2>5. CASE Commit \/ SaveDownloaded
    <3>1. job \in Loading  BY <2>5, JobClasses DEF Shape, Commit, SaveDownloaded
    <3>2. job.p \in Paths /\ job.c \in Nat /\ [c |-> job.c, s |-> job.s] \in Baselines
      BY <3>1 DEF Loading, Baselines, Entries
    <3>3. CASE Commit  BY <1>1, <3>2, <3>3 DEF Copies, PublicationFits, Commit, peerVars, ghostVars
    <3>4. CASE SaveDownloaded
      BY <1>1, <3>2, <3>4 DEF Copies, PublicationFits, SaveDownloaded, peerVars
    <3> QED  BY <2>5, <3>3, <3>4
  <2>6. CASE RemoveLocal \/ ClearBaseline
    <3>1. job.p \in Paths  BY <2>6, JobClasses DEF Shape, RemoveLocal, ClearBaseline, Carrying
    <3> QED
      BY <1>1, <2>6, <3>1 DEF Copies, PublicationFits, RemoveLocal, ClearBaseline, peerVars, ghostVars,
         Baselines
  <2>7. CASE RemoveOldName
    BY <1>1, <2>7 DEF Copies, PublicationFits, RemoveOldName, peerVars, Baselines
  <2>8. CASE StartPass \/ MoveFavorite \/ ClearRenames \/ List \/ Consume \/ MarkSynced
    BY <1>1, <1>3, <2>8 DEF Copies, PublicationFits, StartPass, MoveFavorite, ClearRenames, List, Consume,
       MarkSynced, peerVars, ghostVars
  <2>9. CASE RunCandidate \/ Fetch \/ \E p \in Paths : PlanRename(p) \/ PlanLoneRename(p)
    BY <1>1, <2>9 DEF Copies, PublicationFits, RunCandidate, Fetch, PlanRename, PlanLoneRename, peerVars,
       ghostVars
  <2> QED  BY <1>4, <2>1, <2>2, <2>3, <2>4, <2>5, <2>6, <2>7, <2>8, <2>9 DEF PassStep
<1>5. CASE UserStep
  <2>1. ASSUME NEW p \in Paths, UserWrites(p) \/ UserRemoves(p) \/ UserRenames(p)
        PROVE  Copies' /\ PublicationFits'
    BY <1>1, <1>3, <2>1 DEF Copies, PublicationFits, UserWrites, UserRemoves, UserRenames, Tick, peerVars,
       ghostVars
  <2>2. ASSUME NEW want \in {"keep-local", "keep-remote"}, UserResolves(want)
        PROVE  Copies' /\ PublicationFits'
    BY <1>1, <2>2 DEF Copies, PublicationFits, UserResolves, peerVars
  <2> QED  BY <1>5, <2>1, <2>2 DEF UserStep
<1>6. CASE PeerStep
  <2>1. ASSUME NEW p \in Paths, PeerWrites(p) PROVE Copies' /\ PublicationFits'
    <3>1. [c |-> clock', s |-> clock'] \in Entries  BY <1>1, <2>1 DEF PeerWrites, Tick, Entries
    <3> QED  BY <1>1, <2>1, <3>1 DEF Copies, PublicationFits, PeerWrites
  <2>2. ASSUME NEW p \in Paths, PeerRemoves(p) PROVE Copies' /\ PublicationFits'
    BY <1>1, <1>2, <2>2 DEF Copies, PublicationFits, PeerRemoves
  <2> QED  BY <1>6, <2>1, <2>2 DEF PeerStep
<1>7. CASE Network
  <2>1. CASE PeerApplies
    BY <1>1, <2>1 DEF Copies, PublicationFits, PeerApplies, Publications, peerVars, ghostVars
  <2>2. CASE \E p \in Paths : Deliver(p)
    BY <1>1, <2>2 DEF Copies, PublicationFits, Deliver, peerVars, ghostVars
  <2> QED  BY <1>7, <2>1, <2>2 DEF Network
<1>8. CASE SessionLost
  BY <1>1, <1>8, CutsOff DEF Copies, PublicationFits, SessionLost, peerVars
<1>9. CASE Crash
  BY <1>1, <1>3, <1>9, CutsOff DEF Copies, PublicationFits, Crash, peerVars
<1> QED  BY <1>4, <1>5, <1>6, <1>7, <1>8, <1>9 DEF Next

LEMMA ShapeStep ==
  Shape /\ [Next]_vars => Shape'
<1>1. CASE UNCHANGED vars
  BY <1>1 DEF vars, peerVars, ghostVars, Shape, TypeOK, Jobs
<1>2. ASSUME Shape, Next PROVE Shape'
  <2>1. JobTyped' /\ EntryTyped' /\ Times' /\ Copies' /\ PublicationFits'
    BY <1>2, JobStep, EntryStep, TimesStep, CopiesStep
  <2> QED
    BY <2>1 DEF Shape, TypeOK, JobTyped, EntryTyped, Times, Copies, PublicationFits, Baselines, Wants
<1> QED  BY <1>1, <1>2

LEMMA ShapeInit ==
  ASSUME Init
  PROVE  Shape
  BY DEF Init, Shape, TypeOK, Baselines, Entries, Gone, Synced, Paths, Idle, Jobs, Resting

(* The documents, the peer's entries, the baselines and the favourite's    *)
(* entry stay in their ranges, whatever is interleaved with the passes.    *)
THEOREM TypeCorrect == Spec => []TypeOK
<1>1. Shape => TypeOK  BY DEF Shape
<1> QED  BY <1>1, ShapeInit, ShapeStep, PTL DEF Spec

-----------------------------------------------------------------------------

-----------------------------------------------------------------------------
(* Resolutions                                                             *)

LEMMA JobHasPlace ==
  ASSUME job \in Jobs
  PROVE  /\ "at" \in DOMAIN job
         /\ \A at : [job EXCEPT !.at = at].at = at
<1>1. "at" \in DOMAIN job
  BY DEF Jobs, Resting, Finishing, Passing, Renaming, Forgetting, Planning, Carrying, Keeping, Taking, Loading
<1> QED  BY <1>1

LEMMA RenamePlaces ==
  ASSUME Shape, NEW p \in Paths, PlanRename(p) \/ PlanLoneRename(p)
  PROVE  job'.at \in {"idle", "renames", "old name", "publish"}
<1>1. job.at = "renames"  BY DEF PlanRename, PlanLoneRename
<1>2. job \in Passing \cup Renaming \cup Forgetting  BY <1>1, JobClasses DEF Shape
<1>3. [job EXCEPT !.pairs = @ \ {p}].at = job.at /\ [job EXCEPT !.lone = @ \ {p}].at = job.at
  BY <1>2 DEF Passing, Renaming, Forgetting
<1>4. ASSUME PlanRename(p) PROVE job'.at \in {"idle", "renames", "old name", "publish"}
  <2>1. CASE job' = Idle  BY <2>1 DEF Idle
  <2>2. CASE job' = [job EXCEPT !.pairs = @ \ {p}]  BY <1>1, <1>3, <2>2
  <2>3. CASE job' # Idle /\ job' # [job EXCEPT !.pairs = @ \ {p}]
    <3>1. PICK place \in {"old name", "publish"} :
            job' = [at |-> place, kind |-> "upload", p |-> Other(p), exp |-> doc[Other(p)],
                    rem |-> seen[Other(p)], s |-> 0, old |-> p, source |-> seen[p],
                    want |-> "none", all |-> job.all,
                    pairs |-> job.pairs \ {p}, lone |-> job.lone]
      BY <1>4, <2>3 DEF PlanRename
    <3>2. job'.at = place  BY <3>1
    <3> QED  BY <3>2
  <2> QED  BY <2>1, <2>2, <2>3
<1>5. ASSUME PlanLoneRename(p) PROVE job'.at \in {"idle", "renames", "old name", "publish"}
  <2>1. CASE job' = [job EXCEPT !.lone = @ \ {p}]  BY <1>1, <1>3, <2>1
  <2>2. CASE job' # [job EXCEPT !.lone = @ \ {p}]
    <3>1. job'.at = "publish"  BY <1>5, <2>2 DEF PlanLoneRename
    <3> QED  BY <3>1
  <2> QED  BY <2>1, <2>2
<1> QED  BY <1>4, <1>5

(* A pass waits to consume a resolution only once its outcome is saved, and *)
(* does nothing else until then.                                           *)
LEMMA DoneStep ==
  ASSUME Shape, Done, Next
  PROVE  Done'
<1>1. job \in Jobs /\ base \in [Paths -> Baselines]  BY DEF Shape
<1>2. UNCHANGED <<job, base>> => Done'  BY DEF Done
<1>3. job'.at # "consume" => Done'  BY DEF Done
<1>4. Idle.at # "consume"  BY DEF Idle
<1>5. Fail => job'.at # "consume"  BY <1>4 DEF Fail
<1>6. \A at : Goto(at) /\ at # "consume" => job'.at # "consume"  BY <1>1, JobHasPlace DEF Goto
<1>7. CASE PassStep
  <2>1. CASE StartPass \/ ClearRenames \/ List \/ Consume \/ MarkSynced
    <3>1. job'.at # "consume"
      BY <1>4, <1>6, <2>1 DEF StartPass, ClearRenames, List, Consume, MarkSynced
    <3> QED  BY <1>3, <3>1
  <2>2. CASE RemoveOldName \/ MoveFavorite
    <3>1. CASE MoveFavorite
      <4>1. job \in Passing \cup Renaming \cup Forgetting  BY <3>1, JobClasses DEF MoveFavorite, Shape
      <4>2. job'.at = "clear"
        BY <3>1, <4>1 DEF MoveFavorite, Passing, Renaming, Forgetting
      <4> QED  BY <1>3, <4>2
    <3>2. CASE RemoveOldName
      <4>1. job \in Renaming  BY <3>2, JobClasses DEF RemoveOldName, Shape
      <4>2. job'.at \in {"publish", "renames"}  BY <3>2, <4>1 DEF RemoveOldName, Renaming, Goto
      <4> QED  BY <1>3, <4>2
    <3> QED  BY <2>2, <3>1, <3>2
  <2>3. CASE RunCandidate
    <3>1. \A kind, exp : Act(kind, exp) => job'.at # "consume"  BY DEF Act
    <3>2. job'.at # "consume"  BY <1>4, <2>3, <3>1, RunCases
    <3> QED  BY <1>3, <3>2
  <2>4. ASSUME NEW p \in Paths, PlanRename(p) \/ PlanLoneRename(p) PROVE Done'
    <3>1. job'.at \in {"idle", "renames", "old name", "publish"}  BY <2>4, RenamePlaces
    <3> QED  BY <1>3, <3>1
  <2>5. CASE Publish
    <3>1. job.at = "publish"  BY <2>5 DEF Publish
    <3>2. job \in Renaming \cup Forgetting \cup Carrying \cup Keeping  BY <3>1, JobClasses DEF Shape
    <3>3. \A n : [job EXCEPT !.at = "await", !.s = n].at = "await"
      BY <3>2 DEF Renaming, Forgetting, Carrying, Keeping
    <3>4. [job EXCEPT !.at = "await"].at = "await"  BY <1>1, JobHasPlace
    <3>5. job'.at # "consume"  BY <1>5, <2>5, <3>3, <3>4 DEF Publish
    <3> QED  BY <1>3, <3>5
  <2>6. CASE Confirm \/ TimesOut \/ RemoveLocal \/ ClearBaseline
    <3>1. job'.at # "consume"
      BY <1>5, <1>6, <2>6 DEF Confirm, TimesOut, RemoveLocal, ClearBaseline
    <3> QED  BY <1>3, <3>1
  <2>7. CASE Fetch \/ Commit
    <3>1. job'.at # "consume"  BY <1>5, <1>6, <2>7 DEF Fetch, Commit
    <3> QED  BY <1>3, <3>1
  <2>8. CASE Vouch
    <3>1. CASE job'.at # "consume"  BY <1>3, <3>1
    <3>2. CASE job'.at = "consume"
      <4>1. "old" \notin DOMAIN job /\ job.want # "none"
            /\ job' = [at |-> "consume", p |-> job.p, c |-> job.exp, want |-> job.want]
        BY <1>4, <1>6, <2>8, <3>2 DEF Vouch
      <4>2. job.kind = "upload" /\ job.p \in Paths /\ job.exp \in Nat /\ job.s \in Nat
        BY <2>8, <4>1, PublicationMoves DEF Vouch
      <4>3. base' = [base EXCEPT ![job.p] = [c |-> job.exp, s |-> job.s]]
        BY <2>8, <4>2 DEF Vouch, Published
      <4>4. base'[job.p] = [c |-> job.exp, s |-> job.s]  BY <1>1, <4>2, <4>3
      <4>5. [c |-> job.exp, s |-> job.s] # None  BY <4>2, FavoriteConstants
      <4> QED  BY <4>1, <4>4, <4>5 DEF Done
    <3> QED  BY <3>1, <3>2
  <2>9. CASE SaveDownloaded
    <3>1. CASE job'.at # "consume"  BY <1>3, <3>1
    <3>2. CASE job'.at = "consume"
      <4>1. job' = [at |-> "consume", p |-> job.p, c |-> job.c, want |-> job.want]
        BY <1>4, <2>9, <3>2 DEF SaveDownloaded
      <4>2. job \in Loading  BY <2>9, JobClasses DEF SaveDownloaded, Shape
      <4>3. job.p \in Paths /\ job.c \in Nat /\ job.s \in Nat  BY <4>2 DEF Loading
      <4>4. base'[job.p] = [c |-> job.c, s |-> job.s]  BY <1>1, <2>9, <4>3 DEF SaveDownloaded
      <4>5. [c |-> job.c, s |-> job.s] # None  BY <4>3, FavoriteConstants
      <4> QED  BY <4>1, <4>4, <4>5 DEF Done
    <3> QED  BY <3>1, <3>2
  <2> QED  BY <1>7, <2>1, <2>2, <2>3, <2>4, <2>5, <2>6, <2>7, <2>8, <2>9 DEF PassStep
<1>8. CASE UserStep
  <2>1. ASSUME job.at = "commit" PROVE [job EXCEPT !.clean = FALSE].at # "consume"
    <3>1. job \in Loading  BY <2>1, JobClasses DEF Shape
    <3> QED  BY <2>1, <3>1 DEF Loading
  <2>2. UNCHANGED base /\ (UNCHANGED job \/ (job.at = "commit" /\ job' = [job EXCEPT !.clean = FALSE]))
    BY <1>8 DEF UserStep, UserWrites, UserRemoves, UserRenames, UserResolves, Touches
  <2> QED  BY <1>2, <1>3, <2>1, <2>2
<1>9. CASE PeerStep \/ Network
  BY <1>2, <1>9 DEF PeerStep, PeerWrites, PeerRemoves, Network, PeerApplies, Deliver
<1>10. CASE SessionLost \/ Crash
  BY <1>2, <1>3, <1>4, <1>5, <1>10 DEF SessionLost, Crash
<1> QED  BY <1>7, <1>8, <1>9, <1>10 DEF Next

(* A resolution the user recorded stays until a pass has carried one out,  *)
(* with the outcome in the baseline, or the selection has moved to another *)
(* path.  What is recorded while a pass carries out another goes with it.  *)
THEOREM ResolutionsSurvive == Spec => ResolutionSurvives
<1> DEFINE Keeps == entry.want # "none" /\ entry'.want = "none" => CarriedOut \/ fav' # fav
<1>1. ASSUME Shape, Done, Next PROVE Keeps
  <2>1. TypeOK  BY <1>1 DEF Shape
  <2>2. UNCHANGED entry => Keeps  OBVIOUS
  <2>3. \A issue \in {"none", "conflict", "error"} : Save(issue) => Keeps  BY <2>1, Saving
  <2>4. \A p, issue : issue \in {"none", "conflict", "error"} /\ Report(p, issue) => Keeps
    BY <2>2, <2>3 DEF Report
  <2>5. Fail => Keeps  BY <2>4 DEF Fail
  <2> HIDE DEF Keeps
  <2>6. CASE PassStep
    <3>1. ASSUME RunCandidate PROVE Keeps
      <4>1. \E issue \in {"none", "conflict", "error"} : Save(issue) \/ UNCHANGED entry
        BY <1>1, <3>1, RunCases DEF Act
      <4> QED  BY <2>2, <2>3, <4>1
    <3>2. CASE \E p \in Paths : PlanRename(p) \/ PlanLoneRename(p)
      BY <2>2, <2>4, <3>2 DEF PlanRename, PlanLoneRename
    <3>3. CASE MoveFavorite
      <4>1. fav \in Paths  BY <2>1 DEF TypeOK
      <4>2. CASE fav \in job.all
        <5>1. fav' # fav  BY <3>3, <4>1, <4>2, TwoPaths DEF MoveFavorite
        <5> QED  BY <5>1 DEF Keeps
      <4>3. CASE fav \notin job.all  BY <2>2, <3>3, <4>3 DEF MoveFavorite
      <4> QED  BY <4>2, <4>3
    <3>4. CASE Consume
      <4>1. job \in Finishing  BY <1>1, <3>4, JobClasses DEF Consume, Shape
      <4>2. CarriedOut  BY <1>1, <3>4, <4>1 DEF Consume, Done, CarriedOut, Finishing
      <4> QED  BY <4>2 DEF Keeps
    <3>5. CASE StartPass \/ RemoveOldName \/ ClearRenames \/ List
      BY <2>2, <3>5 DEF StartPass, RemoveOldName, ClearRenames, List
    <3>6. CASE Publish \/ Confirm \/ TimesOut \/ Fetch \/ Commit
      BY <2>2, <2>5, <3>6 DEF Publish, Confirm, TimesOut, Fetch, Commit
    <3>7. CASE Vouch \/ SaveDownloaded \/ RemoveLocal \/ ClearBaseline \/ MarkSynced
      BY <2>2, <2>3, <3>7 DEF Vouch, SaveDownloaded, RemoveLocal, ClearBaseline, MarkSynced
    <3> QED  BY <2>6, <3>1, <3>2, <3>3, <3>4, <3>5, <3>6, <3>7 DEF PassStep
  <2>7. CASE UserStep
    <3>1. CASE \E p \in Paths : UserWrites(p) \/ UserRemoves(p) \/ UserRenames(p)
      BY <2>2, <3>1 DEF UserWrites, UserRemoves, UserRenames
    <3>2. CASE \E want \in {"keep-local", "keep-remote"} : UserResolves(want)
      BY <3>2 DEF UserResolves, Keeps
    <3> QED  BY <2>7, <3>1, <3>2 DEF UserStep
  <2>8. CASE PeerStep \/ Network \/ SessionLost \/ Crash
    BY <2>2, <2>5, <2>8 DEF PeerStep, PeerWrites, PeerRemoves, Network, PeerApplies, Deliver, SessionLost, Crash
  <2> QED  BY <1>1, <2>6, <2>7, <2>8 DEF Next
<1>2. Shape /\ Done /\ [Next]_vars => [Keeps]_vars  BY <1>1 DEF Keeps
<1>3. Init => Done  BY DEF Init, Idle, Done
<1>4. Shape /\ Done /\ [Next]_vars => Done'
  <2>1. CASE UNCHANGED vars  BY <2>1 DEF vars, Done
  <2> QED  BY <2>1, DoneStep
<1> QED  BY <1>2, <1>3, <1>4, ShapeInit, ShapeStep, PTL DEF Spec, ResolutionSurvives

-----------------------------------------------------------------------------
(* Downloads                                                               *)

LEMMA DownloadStep ==
  ASSUME Shape, DownloadsFit, Next
  PROVE  DownloadsFit'
<1>1. job \in Jobs /\ doc \in [Paths -> Nat]  BY DEF Shape, TypeOK
<1>2. UNCHANGED <<job, doc>> => DownloadsFit'  BY DEF DownloadsFit
<1>3. job'.at \notin {"commit", "downloaded"} => DownloadsFit'  BY DEF DownloadsFit
<1>4. Idle.at = "idle"  BY DEF Idle
<1>5. Fail => job'.at = "idle"  BY <1>4 DEF Fail
<1>6. \A at : Goto(at) => job'.at = at  BY <1>1, JobHasPlace DEF Goto
<1>7. CASE PassStep
  <2>1. CASE \/ StartPass \/ ClearRenames \/ List \/ Consume \/ MarkSynced \/ SaveDownloaded
             \/ Confirm \/ TimesOut \/ Vouch \/ RemoveLocal \/ ClearBaseline
    <3>1. CASE StartPass \/ ClearRenames \/ List \/ Consume \/ MarkSynced
      <4>1. job'.at \notin {"commit", "downloaded"}
        BY <1>4, <1>6, <3>1 DEF StartPass, ClearRenames, List, Consume, MarkSynced
      <4> QED  BY <1>3, <4>1
    <3>2. CASE SaveDownloaded
      <4>1. job'.at \notin {"commit", "downloaded"}  BY <1>4, <3>2 DEF SaveDownloaded
      <4> QED  BY <1>3, <4>1
    <3>3. CASE Confirm \/ TimesOut \/ RemoveLocal \/ ClearBaseline
      <4>1. job'.at \notin {"commit", "downloaded"}
        BY <1>5, <1>6, <3>3 DEF Confirm, TimesOut, RemoveLocal, ClearBaseline
      <4> QED  BY <1>3, <4>1
    <3>4. CASE Vouch
      <4>1. CASE "old" \in DOMAIN job
        <5>1. job'.at \in {"old name", "renames"}  BY <1>6, <3>4, <4>1 DEF Vouch
        <5> QED  BY <1>3, <5>1
      <4>2. CASE "old" \notin DOMAIN job
        <5>1. job'.at \in {"idle", "consume"}  BY <1>4, <3>4, <4>2 DEF Vouch
        <5> QED  BY <1>3, <5>1
      <4> QED  BY <4>1, <4>2
    <3> QED  BY <2>1, <3>1, <3>2, <3>3, <3>4
  <2>2. CASE RemoveOldName
    <3>1. job \in Renaming  BY <2>2, JobClasses DEF RemoveOldName, Shape
    <3>2. job'.at \in {"publish", "renames"}  BY <2>2, <3>1 DEF RemoveOldName, Renaming, Goto
    <3> QED  BY <1>3, <3>2
  <2>3. CASE MoveFavorite
    <3>1. job \in Passing \cup Renaming \cup Forgetting  BY <2>3, JobClasses DEF MoveFavorite, Shape
    <3>2. job'.at = "clear"  BY <2>3, <3>1 DEF MoveFavorite, Passing, Renaming, Forgetting
    <3> QED  BY <1>3, <3>2
  <2>4. CASE RunCandidate
    <3>1. \A kind, exp : Act(kind, exp) => job'.at \notin {"commit", "downloaded"}  BY DEF Act
    <3>2. job'.at \notin {"commit", "downloaded"}  BY <1>4, <2>4, <3>1, RunCases
    <3> QED  BY <1>3, <3>2
  <2>5. ASSUME NEW p \in Paths, PlanRename(p) \/ PlanLoneRename(p) PROVE DownloadsFit'
    <3>1. job'.at \in {"idle", "renames", "old name", "publish"}  BY <2>5, RenamePlaces
    <3> QED  BY <1>3, <3>1
  <2>6. CASE Publish
    <3>1. job.at = "publish"  BY <2>6 DEF Publish
    <3>2. job \in Renaming \cup Forgetting \cup Carrying \cup Keeping  BY <3>1, JobClasses DEF Shape
    <3>3. \A n : [job EXCEPT !.at = "await", !.s = n].at = "await"
      BY <3>2 DEF Renaming, Forgetting, Carrying, Keeping
    <3>4. [job EXCEPT !.at = "await"].at = "await"  BY <1>1, JobHasPlace
    <3>5. job'.at \in {"idle", "await"}
      <4>1. CASE Fail  BY <1>5, <4>1
      <4>2. CASE ~Fail
        <5>1. job' = [job EXCEPT !.at = "await", !.s = clock'] \/ job' = [job EXCEPT !.at = "await"]
          BY <2>6, <4>2 DEF Publish
        <5> QED  BY <3>3, <3>4, <5>1
      <4> QED  BY <4>1, <4>2
    <3> QED  BY <1>3, <3>5
  <2>7. CASE Fetch
    <3>1. CASE Fail  BY <1>3, <1>5, <3>1
    <3>2. CASE ~Fail
      <4>1. /\ doc[job.p] = job.exp /\ doc' = doc
            /\ job' = [at |-> "commit", p |-> job.p, exp |-> job.exp, c |-> seen[job.p].c,
                       s |-> job.s, want |-> job.want, clean |-> TRUE]
        BY <2>7, <3>2 DEF Fetch
      <4> QED  BY <4>1 DEF DownloadsFit
    <3> QED  BY <3>1, <3>2
  <2>8. CASE Commit
    <3>1. CASE Fail  BY <1>3, <1>5, <3>1
    <3>2. CASE ~Fail
      <4>1. job \in Loading  BY <2>8, JobClasses DEF Commit, Shape
      <4>2. doc' = [doc EXCEPT ![job.p] = job.c] /\ job' = [job EXCEPT !.at = "downloaded"]
        BY <2>8, <3>2 DEF Commit, Goto
      <4>3. job'.at = "downloaded" /\ job'.p = job.p /\ job'.c = job.c /\ job.p \in Paths
        BY <4>1, <4>2 DEF Loading
      <4>4. doc'[job.p] = job.c  BY <1>1, <4>2, <4>3
      <4> QED  BY <4>3, <4>4 DEF DownloadsFit
    <3> QED  BY <3>1, <3>2
  <2> QED  BY <1>7, <2>1, <2>2, <2>3, <2>4, <2>5, <2>6, <2>7, <2>8 DEF PassStep
<1>8. CASE UserStep
  <2>1. CASE \E want \in {"keep-local", "keep-remote"} : UserResolves(want)
    BY <1>2, <2>1 DEF UserResolves
  <2>2. ASSUME NEW p \in Paths, UserWrites(p) \/ UserRemoves(p) \/ UserRenames(p)
        PROVE  DownloadsFit'
    <3>1. job.at # "downloaded"  BY <2>2 DEF UserWrites, UserRemoves, UserRenames, Queue
    <3>2. CASE job.at = "commit"
      <4>1. job \in Loading  BY <3>2, JobClasses DEF Shape
      <4>2. CASE job' = [job EXCEPT !.clean = FALSE]
        <5>1. job'.at = "commit" /\ ~job'.clean  BY <3>2, <4>1, <4>2 DEF Loading
        <5> QED  BY <5>1 DEF DownloadsFit
      <4>3. CASE job' # [job EXCEPT !.clean = FALSE]
        <5>1. job.p # p /\ job' = job /\ (UserWrites(p) \/ UserRemoves(p))
          BY <2>2, <3>2, <4>3 DEF UserWrites, UserRemoves, UserRenames, Touches
        <5>2. job.p \in Paths  BY <4>1 DEF Loading
        <5>3. doc'[job.p] = doc[job.p]  BY <1>1, <5>1, <5>2 DEF UserWrites, UserRemoves
        <5> QED  BY <3>1, <5>1, <5>3 DEF DownloadsFit
      <4> QED  BY <4>2, <4>3
    <3>3. CASE job.at # "commit"
      <4>1. job' = job  BY <2>2, <3>3 DEF UserWrites, UserRemoves, UserRenames, Touches
      <4> QED  BY <1>3, <3>1, <3>3, <4>1
    <3> QED  BY <3>2, <3>3
  <2> QED  BY <1>8, <2>1, <2>2 DEF UserStep
<1>9. CASE PeerStep \/ Network
  BY <1>2, <1>9 DEF PeerStep, PeerWrites, PeerRemoves, Network, PeerApplies, Deliver
<1>10. CASE SessionLost
  BY <1>2, <1>3, <1>5, <1>10 DEF SessionLost
<1>11. CASE Crash
  BY <1>3, <1>4, <1>11 DEF Crash
<1> QED  BY <1>7, <1>8, <1>9, <1>10, <1>11 DEF Next

(* What a download replaces is the document whose hash was compared, however *)
(* the user writes, removes and renames beside it; and what is saved as the  *)
(* baseline after it is the document.                                        *)
THEOREM DownloadsReplaceWhatTheyRead == Spec => []DownloadsFit
<1>1. Init => DownloadsFit  BY DEF Init, Idle, DownloadsFit
<1>2. Shape /\ DownloadsFit /\ [Next]_vars => DownloadsFit'
  <2>1. CASE UNCHANGED vars  BY <2>1 DEF vars, DownloadsFit
  <2> QED  BY <2>1, DownloadStep
<1> QED  BY <1>1, <1>2, ShapeInit, ShapeStep, PTL DEF Spec
=============================================================================
