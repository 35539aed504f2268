---------------------------- MODULE FavoriteSync ----------------------------
(***************************************************************************)
(* The passes that keep a favourite document and the peer's copy of it the *)
(* same (serviceFavoriteSync.ts): each plans from the local copy, from the *)
(* peer's index and from the baseline, the last content both had, and then *)
(* transfers, deletes, renames or reports a conflict.  Passes follow one   *)
(* another, but at every await of a pass the user edits, removes and       *)
(* renames documents, the peer changes its own and its index arrives.      *)
(*                                                                         *)
(* One favourite, of one folder, and the two names it may have.  A content *)
(* is the time it was written, 0 if there is none; a peer's entry is a     *)
(* content and a stamp (its size and modification time).  The passes       *)
(* leave files of other names alone.  The peer is external: it takes a     *)
(* publication that continues its version and settles one that does not   *)
(* by keeping either, with the other in a conflict copy, and a deletion    *)
(* never wins over a change.                                               *)
(***************************************************************************)
EXTENDS Integers, FiniteSets

CONSTANTS None,
          MaxEvents,   \* bound: what the user and the peer do
          MaxFailures  \* bound: sessions lost, late messages and stops of the process

ASSUME FavoriteConstants ==
  {MaxEvents, MaxFailures} \subseteq Nat /\ None \notin [c : Nat, s : Nat]

VARIABLES doc,      \* doc[p]: the content of the local document
          base,     \* base[p]: the saved baseline
          peer,     \* peer[p]: the peer's entry
          seen,     \* seen[p]: the same, in the index the session has
          out,      \* the publication on its way to the peer: one at a time
          fav,      \* the path that is selected
          renames,  \* the recorded renames, each by its old path
          entry,    \* the favourite's saved entry: its issue and resolution
          job,      \* where the pass is and what it has read
          live,     \* contents nobody has replaced or deleted on purpose
          stale,    \* paths of a baseline whose replacement was cut off
          kept,     \* contents in the peer's conflict copies
          clock, events, failures

vars == <<doc, base, peer, seen, out, fav, renames, entry, job, live, stale, kept,
          clock, events, failures>>
ghostVars == <<live, stale>>
peerVars == <<peer, kept>>

Paths == {"a", "b"}
Other(p) == IF p = "a" THEN "b" ELSE "a"
Gone == [c |-> 0, s |-> 0]
Idle == [at |-> "idle"]
Synced == [issue |-> "none", want |-> "none"]

Init ==
  /\ doc = [p \in Paths |-> IF p = "a" THEN 1 ELSE 0]
  /\ peer = [p \in Paths |-> IF p = "a" THEN [c |-> 1, s |-> 1] ELSE Gone]
  /\ seen = peer
  /\ base = [p \in Paths |-> IF p = "a" THEN peer[p] ELSE None]
  /\ out = None /\ fav = "a" /\ renames = {} /\ entry = Synced /\ job = Idle
  /\ live = {1} /\ stale = {} /\ kept = {}
  /\ clock = 1 /\ events = 0 /\ failures = 0

Tick == clock' = clock + 1
Failure == failures < MaxFailures /\ failures' = failures + 1
Goto(at) == job' = [job EXCEPT !.at = at]

-----------------------------------------------------------------------------
(* The decisions, of favoriteSyncPlan.ts.                                  *)

\* The time or the size differs: of two contents under one stamp, one listed and
\* another downloaded, the sizes are taken to differ.
RemoteChanged(remote, b) == remote.s # b.s \/ remote.c # b.c

\* Wrong on purpose: a local deletion against a changed copy is passed over.
PlanSyncSilently(local, remote, b) ==
  LET here  == local # 0
      there == remote # Gone
      localChanged == local # b.c
      peerChanged  == RemoteChanged(remote, b)
  IN CASE ~here /\ ~there -> "unchanged"
       [] b = None /\ ~here /\ there -> "download"
       [] b = None /\ here /\ ~there -> "upload"
       [] b = None /\ here /\ there -> "conflict"
       [] b # None /\ ~here /\ there -> IF peerChanged THEN "unchanged" ELSE "delete-remote"
       [] b # None /\ here /\ ~there -> IF localChanged THEN "conflict" ELSE "delete-local"
       [] b # None /\ here /\ there /\ localChanged -> IF peerChanged THEN "conflict" ELSE "upload"
       [] b # None /\ here /\ there /\ ~localChanged -> IF peerChanged THEN "download" ELSE "unchanged"

\* planFavoriteSync, with 0 and Gone for a copy that is missing.
PlanSync(local, remote, b) ==
  LET here  == local # 0
      there == remote # Gone
      localChanged == local # b.c
      peerChanged  == RemoteChanged(remote, b)
  IN CASE ~here /\ ~there -> "unchanged"
       [] b = None /\ ~here /\ there -> "download"
       [] b = None /\ here /\ ~there -> "upload"
       [] b = None /\ here /\ there -> "conflict"
       [] b # None /\ ~here /\ there -> IF peerChanged THEN "conflict" ELSE "delete-remote"
       [] b # None /\ here /\ ~there -> IF localChanged THEN "conflict" ELSE "delete-local"
       [] b # None /\ here /\ there /\ localChanged -> IF peerChanged THEN "conflict" ELSE "upload"
       [] b # None /\ here /\ there /\ ~localChanged -> IF peerChanged THEN "download" ELSE "unchanged"

\* planFavoriteRename: whether the local name may be published for the old one.
\* What was published under the new name may be taken up if it is as long as the
\* document is by now.
RenameConflicts(source, target, b, published, asLong) ==
  \/ b = None
  \/ target # Gone /\ ~(published /\ asLong)
  \/ b # None /\ source # Gone /\ RemoteChanged(source, b)

-----------------------------------------------------------------------------
(* Entries.  Saving one keeps a resolution the app has recorded meanwhile; *)
(* the backoff after an issue only delays the next attempt.                *)

\* Wrong on purpose: the pass writes the entry as it has it.
SaveOver(issue) ==
  entry' = [issue |-> issue, want |-> "none"]

Save(issue) ==
  entry' = [entry EXCEPT !.issue = issue]

\* recordIssue, of the favourite or of another name a rename is about.
Report(p, issue) == IF p = fav THEN Save(issue) ELSE UNCHANGED entry

Fail == Report(IF "old" \in DOMAIN job THEN job.old ELSE job.p, "error") /\ job' = Idle

-----------------------------------------------------------------------------
(* A pass: the renames that were recorded, then the favourite.             *)

StartPass ==
  /\ job = Idle
  /\ job' = [at |-> IF renames = {} THEN "list" ELSE "renames",
             want |-> entry.want, all |-> renames,
             pairs |-> {p \in renames : doc[Other(p)] # 0},
             lone |-> {p \in renames : doc[Other(p)] = 0}]
  /\ UNCHANGED <<doc, base, peerVars, seen, out, fav, renames, entry, ghostVars, clock, events,
                 failures>>

\* renameFavorite up to its first publication.  A failed one ends the pass (in
\* the code after the others were tried).  Two contents may be as long as each other.
PlanRename(p) == \E asLong \in BOOLEAN :
  LET to == Other(p)
      published == base[to] # None /\ seen[to] # Gone /\ ~RemoteChanged(seen[to], base[to])
      conflict == RenameConflicts(seen[p], seen[to], base[p], published, asLong)
  IN
  /\ job.at = "renames" /\ p \in job.pairs
  /\ doc[to] = seen[to].c => asLong
  /\ \/ /\ doc[to] = 0 /\ Report(p, "error") /\ job' = Idle
     \/ /\ doc[to] # 0 /\ conflict
        /\ Report(p, "conflict") /\ job' = [job EXCEPT !.pairs = @ \ {p}]
     \/ /\ doc[to] # 0 /\ ~conflict
        /\ job' = [at |-> IF published THEN "old name" ELSE "publish", kind |-> "upload",
                   p |-> to, exp |-> doc[to], rem |-> seen[to], s |-> 0,
                   old |-> p, source |-> seen[p], want |-> "none",
                   all |-> job.all, pairs |-> job.pairs \ {p}, lone |-> job.lone]
        /\ UNCHANGED entry
  /\ UNCHANGED <<doc, base, peerVars, seen, out, fav, renames, ghostVars, clock, events, failures>>

\* The new name is there: the old one is taken from the peer.
RemoveOldName ==
  /\ job.at = "old name"
  /\ \/ /\ job.source # Gone
        /\ job' = [job EXCEPT !.at = "publish", !.kind = "delete", !.p = job.old,
                                !.rem = job.source]
        /\ UNCHANGED <<base, stale>>
     \/ /\ job.source = Gone
        /\ base' = [base EXCEPT ![job.old] = None] /\ stale' = stale \ {job.old}
        /\ Goto("renames")
  /\ UNCHANGED <<doc, peerVars, seen, out, fav, renames, entry, live, clock, events, failures>>

\* A renamed favourite without a document at its new name: as if deleted.
PlanLoneRename(p) ==
  LET plan == PlanSync(0, seen[p], base[p])
      rest == [job EXCEPT !.lone = @ \ {p}]
  IN
  /\ job.at = "renames" /\ job.pairs = {} /\ p \in job.lone
  /\ \/ /\ plan = "delete-remote"
        /\ job' = [at |-> "publish", kind |-> "delete", p |-> p, rem |-> seen[p], old |-> None,
                   want |-> "none", all |-> job.all, pairs |-> {}, lone |-> rest.lone]
        /\ UNCHANGED entry
     \/ plan = "conflict" /\ Report(p, "conflict") /\ job' = rest
     \/ plan \notin {"delete-remote", "conflict"} /\ job' = rest /\ UNCHANGED entry
  /\ UNCHANGED <<doc, base, peerVars, seen, out, fav, renames, ghostVars, clock, events, failures>>

\* Wrong on purpose: the selection stays at the old name.
KeepFavorite ==
  /\ job.at = "renames" /\ job.pairs = {} /\ job.lone = {}
  /\ job' = [job EXCEPT !.at = "clear", !.want = "none"]
  /\ UNCHANGED <<doc, base, peerVars, seen, out, fav, entry, renames, ghostVars, clock, events,
                 failures>>

\* updateFavoritePaths: the selection follows, with the entry of its new path.
MoveFavorite ==
  /\ job.at = "renames" /\ job.pairs = {} /\ job.lone = {}
  /\ IF fav \in job.all
     THEN fav' = Other(fav) /\ entry' = Synced
     ELSE UNCHANGED <<fav, entry>>
  /\ job' = [job EXCEPT !.at = "clear", !.want = "none"]
  /\ UNCHANGED <<doc, base, peerVars, seen, out, renames, ghostVars, clock, events, failures>>

\* clearFavoriteRenames drops every record that names one of the paths: with
\* two paths, also one that was made since the pass began.
ClearRenames ==
  /\ job.at = "clear"
  /\ renames' = {}
  /\ Goto("list")
  /\ UNCHANGED <<doc, base, peerVars, seen, out, fav, entry, ghostVars, clock, events, failures>>

\* What is listed is used for as long as the candidates before take.
List ==
  /\ job.at = "list"
  /\ job' = IF doc[fav] = 0 /\ seen[fav] = Gone THEN Idle
            ELSE [at |-> "run", p |-> fav, cached |-> doc[fav] # 0, rem |-> seen[fav],
                  b |-> base[fav], want |-> job.want]
  /\ UNCHANGED <<doc, base, peerVars, seen, out, fav, renames, entry, ghostVars, clock, events,
                 failures>>

Act(kind, exp) ==
  /\ Save("none")
  /\ job' = [at |-> CASE kind \in {"upload", "delete"} -> "publish"
                     [] kind = "download" -> "fetch"
                     [] OTHER -> "remove",
             kind |-> kind, p |-> job.p, exp |-> exp, rem |-> job.rem, s |-> job.rem.s,
             want |-> job.want]

\* planAndRunCandidate and runResolution, up to the operation they choose.
RunCandidate ==
  LET local == IF job.cached THEN doc[job.p] ELSE 0
      plan == PlanSync(local, job.rem, job.b)
  IN
  /\ job.at = "run"
  /\ \/ job.cached /\ local = 0 /\ Fail
     \/ job.want = "keep-local" /\ ~job.cached /\ Fail
     \/ job.want = "keep-local" /\ local # 0 /\ Act("upload", local)
     \/ job.want = "keep-remote" /\ job.rem = Gone /\ local # 0 /\ Fail
     \/ /\ job.want = "keep-remote" /\ job.rem # Gone /\ (job.cached => local # 0)
        /\ Act("download", local)
     \/ /\ job.want = "none" /\ (job.cached => local # 0)
        /\ CASE plan = "unchanged" -> Save("none") /\ job' = Idle
             [] plan = "conflict" -> Save("conflict") /\ job' = Idle
             [] plan = "delete-remote" -> Act("delete", 0)
             [] plan = "delete-local" -> Act("delete-local", local)
             [] OTHER -> Act(plan, local)
  /\ UNCHANGED <<doc, base, peerVars, seen, out, fav, renames, ghostVars, clock, events, failures>>

-----------------------------------------------------------------------------
(* Publications: a file whose content still has the expected hash, or a    *)
(* deletion, under a version that continues the one the index has now.     *)

\* The pass is cut off: what it did is not yet in the baseline.
CutOff ==
  stale' = IF job.at \in {"await", "confirmed", "downloaded", "removed"}
           THEN stale \cup {job.p} ELSE stale

\* `blind` is of the properties: what is replaced is not what the pass has compared,
\* a resolution replaces it whatever it is, or the pass no longer waits.
Publish ==
  /\ job.at = "publish" /\ out = None
  /\ \/ job.kind = "upload" /\ doc[job.p] # job.exp /\ Fail /\ UNCHANGED <<seen, out, clock>>
     \/ /\ job.kind = "upload" => doc[job.p] = job.exp
        /\ Tick
        /\ LET val == IF job.kind = "upload" THEN [c |-> job.exp, s |-> clock'] ELSE Gone
           IN /\ out' = [p |-> job.p, val |-> val, from |-> seen[job.p],
                         blind |-> seen[job.p] # job.rem \/ job.want = "keep-local"]
              /\ seen' = [seen EXCEPT ![job.p] = val]
              /\ job' = IF job.kind = "upload" THEN [job EXCEPT !.at = "await", !.s = clock']
                                               ELSE [job EXCEPT !.at = "await"]
        /\ UNCHANGED entry
  /\ UNCHANGED <<doc, base, peerVars, fav, renames, ghostVars, events, failures>>

PeerApplies ==
  /\ out # None
  /\ \/ peer' = [peer EXCEPT ![out.p] = out.val] /\ peer[out.p] = out.from /\ UNCHANGED kept
     \/ /\ peer[out.p] # out.from /\ out.val # Gone
        /\ peer' = [peer EXCEPT ![out.p] = out.val]
        /\ kept' = kept \cup {peer[out.p].c}
     \/ peer[out.p] # out.from /\ UNCHANGED peerVars
  /\ out' = None
  /\ UNCHANGED <<doc, base, seen, fav, renames, entry, job, ghostVars, clock, events, failures>>

Published ==
  IF job.kind = "upload" THEN [c |-> job.exp, s |-> job.s] ELSE Gone

\* The peer's index shows what was published; any other entry never confirms it.
Confirm ==
  /\ job.at = "await" /\ out = None
  /\ peer[job.p] = Published
  /\ seen' = [seen EXCEPT ![job.p] = Published]
  /\ Goto("confirmed")
  /\ UNCHANGED <<doc, base, peerVars, out, fav, renames, entry, ghostVars, clock, events, failures>>

\* No confirmation in time: the peer has settled otherwise, or messages are late
\* and the publication may still be on its way.
TimesOut ==
  /\ job.at = "await"
  /\ \/ /\ out = None /\ peer[job.p] # Published /\ seen[job.p] = peer[job.p]
        /\ UNCHANGED failures
     \/ Failure
  /\ CutOff /\ Fail
  /\ out' = IF out = None THEN None ELSE [out EXCEPT !.blind = TRUE]
  /\ UNCHANGED <<doc, base, peerVars, seen, fav, renames, live, clock, events>>

\* Wrong on purpose: the baseline has no stamp.
VouchContent ==
  /\ job.at = "confirmed"
  /\ base' = [base EXCEPT ![job.p] = IF job.kind = "upload" THEN [c |-> job.exp] ELSE None]
  /\ Save("none") /\ job' = Idle
  /\ UNCHANGED <<doc, peerVars, seen, out, fav, renames, ghostVars, clock, events, failures>>

\* setSyncBaseline of what was published, or clearSyncBaseline, and what the pass
\* does next.
Vouch ==
  /\ job.at = "confirmed"
  /\ base' = [base EXCEPT ![job.p] = IF job.kind = "upload" THEN Published ELSE None]
  /\ stale' = stale \ {job.p}
  /\ IF "old" \in DOMAIN job
     THEN Goto(IF job.kind = "upload" THEN "old name" ELSE "renames") /\ UNCHANGED entry
     ELSE /\ Save("none")
          /\ job' = IF job.want = "none" THEN Idle
                    ELSE [at |-> "consume", p |-> job.p, c |-> job.exp, want |-> job.want]
  /\ UNCHANGED <<doc, peerVars, seen, out, fav, renames, live, clock, events, failures>>

-----------------------------------------------------------------------------
(* Downloads and local deletions.                                          *)

\* beginDownload checks the local hash; the blocks are those of the index.
Fetch ==
  /\ job.at = "fetch"
  /\ \/ /\ doc[job.p] = job.exp /\ seen[job.p] = peer[job.p] /\ seen[job.p] # Gone
        /\ job' = [at |-> "commit", p |-> job.p, exp |-> job.exp, c |-> seen[job.p].c,
                   s |-> job.s, want |-> job.want, clean |-> TRUE]
        /\ UNCHANGED entry
     \/ ~(doc[job.p] = job.exp /\ seen[job.p] = peer[job.p] /\ seen[job.p] # Gone) /\ Fail
  /\ UNCHANGED <<doc, base, peerVars, seen, out, fav, renames, ghostVars, clock, events, failures>>

\* Wrong on purpose: the draft replaces the document as it has become.
CommitAnyway ==
  /\ job.at = "commit"
  /\ doc' = [doc EXCEPT ![job.p] = job.c]
  /\ Goto("downloaded")
  /\ UNCHANGED <<base, peerVars, seen, out, fav, renames, entry, ghostVars, clock, events, failures>>

\* finishDownload publishes the draft if the document is as it was.
Commit ==
  /\ job.at = "commit"
  /\ \/ /\ job.clean
        /\ doc' = [doc EXCEPT ![job.p] = job.c]
        /\ Goto("downloaded") /\ UNCHANGED entry
     \/ ~job.clean /\ Fail /\ UNCHANGED doc
  /\ UNCHANGED <<base, peerVars, seen, out, fav, renames, ghostVars, clock, events, failures>>

SaveDownloaded ==
  /\ job.at = "downloaded"
  /\ base' = [base EXCEPT ![job.p] = [c |-> job.c, s |-> job.s]] /\ stale' = stale \ {job.p}
  /\ Save("none")
  /\ job' = IF job.want = "none" THEN Idle
            ELSE [at |-> "consume", p |-> job.p, c |-> job.c, want |-> job.want]
  /\ UNCHANGED <<doc, peerVars, seen, out, fav, renames, live, clock, events, failures>>

\* runDeleteLocal: three operations.  The first removes whatever the document has
\* become.
RemoveLocal ==
  /\ job.at = "remove"
  /\ doc' = [doc EXCEPT ![job.p] = 0]
  /\ Goto("removed")
  /\ UNCHANGED <<base, peerVars, seen, out, fav, renames, entry, ghostVars, clock, events, failures>>

ClearBaseline ==
  /\ job.at = "removed"
  /\ base' = [base EXCEPT ![job.p] = None] /\ stale' = stale \ {job.p}
  /\ Goto("cleared")
  /\ UNCHANGED <<doc, peerVars, seen, out, fav, renames, entry, live, clock, events, failures>>

MarkSynced ==
  /\ job.at = "cleared"
  /\ Save("none") /\ job' = Idle
  /\ UNCHANGED <<doc, base, peerVars, seen, out, fav, renames, ghostVars, clock, events, failures>>

\* clearFavoriteSyncEntry: the resolution was carried out, and whatever is recorded
\* by now goes.
Consume ==
  /\ job.at = "consume"
  /\ entry' = Synced /\ job' = Idle
  /\ UNCHANGED <<doc, base, peerVars, seen, out, fav, renames, ghostVars, clock, events, failures>>

-----------------------------------------------------------------------------
(* The user, between the steps of the pass.                                *)

Event == events < MaxEvents /\ events' = events + 1

\* No operation on documents comes between a download and its baseline.
Queue == job.at # "downloaded"

Touches(p) ==
  job' = IF job.at = "commit" /\ job.p = p THEN [job EXCEPT !.clean = FALSE] ELSE job

UserWrites(p) ==
  /\ Event /\ Queue /\ Tick
  /\ doc' = [doc EXCEPT ![p] = clock']
  /\ live' = (live \ {doc[p]}) \cup {clock'}
  /\ Touches(p)
  /\ UNCHANGED <<base, peerVars, seen, out, fav, renames, entry, stale, failures>>

UserRemoves(p) ==
  /\ Event /\ Queue /\ doc[p] # 0
  /\ doc' = [doc EXCEPT ![p] = 0]
  /\ live' = live \ {doc[p]}
  /\ Touches(p)
  /\ UNCHANGED <<base, peerVars, seen, out, fav, renames, entry, stale, clock, failures>>

\* renameDocument; the record is made if the old path is selected.
UserRenames(p) ==
  /\ Event /\ Queue /\ doc[p] # 0 /\ doc[Other(p)] = 0
  /\ doc' = [doc EXCEPT ![p] = 0, ![Other(p)] = doc[p]]
  /\ renames' = IF p = fav THEN renames \cup {p} ELSE renames
  /\ job' = IF job.at = "commit" THEN [job EXCEPT !.clean = FALSE] ELSE job
  /\ UNCHANGED <<base, peerVars, seen, out, fav, entry, ghostVars, clock, failures>>

\* recordFavoriteResolution: the user gives up the other copy, as it is by now.
UserResolves(want) ==
  /\ Event /\ Queue
  /\ entry' = [issue |-> "conflict", want |-> want]
  /\ live' = IF doc[fav] = seen[fav].c THEN live
             ELSE live \ {IF want = "keep-local" THEN seen[fav].c ELSE doc[fav]}
  /\ UNCHANGED <<doc, base, peerVars, seen, out, fav, renames, job, stale, clock, failures>>

-----------------------------------------------------------------------------
(* The peer, the session and stops.                                        *)

PeerWrites(p) ==
  /\ Event /\ Tick
  /\ peer' = [peer EXCEPT ![p] = [c |-> clock', s |-> clock']]
  /\ live' = (live \ {peer[p].c}) \cup {clock'}
  /\ UNCHANGED <<doc, base, kept, seen, out, fav, renames, entry, job, stale, failures>>

PeerRemoves(p) ==
  /\ Event /\ peer[p] # Gone
  /\ peer' = [peer EXCEPT ![p] = Gone]
  /\ live' = live \ {peer[p].c}
  /\ UNCHANGED <<doc, base, kept, seen, out, fav, renames, entry, job, stale, clock, failures>>

\* An index message, in the place of whatever the index has; while a publication is
\* on its way, one about a change the peer made before.
Deliver(p) ==
  /\ seen[p] # peer[p]
  /\ out # None /\ out.p = p => peer[p] # out.from
  /\ seen' = [seen EXCEPT ![p] = peer[p]]
  /\ UNCHANGED <<doc, base, peerVars, out, fav, renames, entry, job, ghostVars, clock, events,
                 failures>>

SessionLost ==
  /\ Failure /\ job.at \in {"idle", "publish", "await", "fetch", "commit"}
  /\ out' = None /\ seen' = peer
  /\ CutOff
  /\ IF job = Idle THEN UNCHANGED <<entry, job>> ELSE Fail
  /\ UNCHANGED <<doc, base, peerVars, fav, renames, live, clock, events>>

\* A stop; one in the middle of a rename leaves both names or no record.
Crash ==
  /\ Failure
  /\ \/ UNCHANGED doc
     \/ \E p \in Paths :
          /\ job.at # "downloaded" /\ doc[p] # 0 /\ doc[Other(p)] = 0
          /\ doc' \in {[doc EXCEPT ![Other(p)] = doc[p]],
                       [doc EXCEPT ![p] = 0, ![Other(p)] = doc[p]]}
  /\ out' = None /\ seen' = peer /\ job' = Idle
  /\ CutOff
  /\ UNCHANGED <<base, peerVars, fav, renames, entry, live, clock, events>>

-----------------------------------------------------------------------------
PassStep ==
  \/ StartPass \/ RemoveOldName \/ MoveFavorite \/ ClearRenames \/ List \/ RunCandidate
  \/ Publish \/ Confirm \/ TimesOut \/ Vouch \/ Fetch \/ Commit \/ SaveDownloaded
  \/ RemoveLocal \/ ClearBaseline \/ MarkSynced \/ Consume
  \/ \E p \in Paths : PlanRename(p) \/ PlanLoneRename(p)

UserStep ==
  \/ \E p \in Paths : UserWrites(p) \/ UserRemoves(p) \/ UserRenames(p)
  \/ \E want \in {"keep-local", "keep-remote"} : UserResolves(want)

PeerStep == \E p \in Paths : PeerWrites(p) \/ PeerRemoves(p)
Network == PeerApplies \/ \E p \in Paths : Deliver(p)

Next == PassStep \/ UserStep \/ PeerStep \/ Network \/ SessionLost \/ Crash

\* Passes are made again and again, and messages arrive.
Fairness == WF_vars(PassStep) /\ WF_vars(Network)

Spec == Init /\ [][Next]_vars /\ Fairness

-----------------------------------------------------------------------------
Entries == [c : Nat, s : Nat]

\* Type invariant: documents are contents, entries and baselines are contents with
\* stamps, and what is selected, renamed and recorded is of its kind.
TypeOK ==
  /\ doc \in [Paths -> Nat] /\ peer \in [Paths -> Entries] /\ seen \in [Paths -> Entries]
  /\ \A p \in Paths : base[p] # None => base[p] \in Entries
  /\ fav \in Paths /\ renames \subseteq Paths /\ stale \subseteq Paths
  /\ entry \in [issue : {"none", "conflict", "error"},
                want : {"none", "keep-local", "keep-remote"}]

Somewhere == {doc[p] : p \in Paths} \cup {peer[p].c : p \in Paths} \cup kept

\* The steps that are known to lose a content: the removal of a document that has
\* changed since it was compared; a publication over an entry that came since then,
\* or that the pass has stopped waiting for; a resolution carried out on what is
\* newer than it; and a removal or a download that goes by a baseline whose
\* replacement was cut off.
KnownGap(c) ==
  \/ job.at = "remove" /\ doc[job.p] = c /\ (c # job.exp \/ job.p \in stale)
  \/ job.at = "commit" /\ job.exp = c /\ (job.want = "keep-remote" \/ job.p \in stale)
  \/ out # None /\ out.from.c = c /\ out.blind

\* No step but those takes away the last copy, in the folder, at the peer or in a
\* conflict copy, of a content that nobody replaced or deleted on purpose.
NothingLost ==
  [][\A c \in Somewhere : c \in live' => c \in Somewhere' \/ KnownGap(c)]_vars

\* The pass has carried out the resolution it read: the content is the baseline.
CarriedOut ==
  job.at = "consume" /\ job.want # "none" /\ base[job.p] # None /\ base[job.p].c = job.c

\* A resolution stays recorded until a pass has carried one out, or its path is no
\* longer selected.  (Not always the one that is recorded: what the user records
\* instead of the one a pass is carrying out goes with it.)
ResolutionSurvives ==
  [][entry.want # "none" /\ entry'.want = "none" => CarriedOut \/ fav' # fav]_vars

\* The rename of a selected document that is on record between two passes is
\* followed by the selection, and records do not stay.  (One that is made while a
\* pass follows others may be dropped with them, and one that was undone by a second
\* rename is followed all the same, to a name that is gone.)
RenamesFollowed ==
  /\ \A p \in Paths : job = Idle /\ p \in renames ~> fav = Other(p)
  /\ renames # {} ~> renames = {}

\* When users and peer are done, the favourite is the same on both sides, or
\* what keeps it from that is on record for the user.
InSync == doc[fav] = peer[fav].c
Settles == <>[](InSync \/ entry.issue = "conflict" \/ entry.want # "none")
=============================================================================
