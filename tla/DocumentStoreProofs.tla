------------------------ MODULE DocumentStoreProofs ------------------------
(***************************************************************************)
(* What holds of the document store for every number of drafts, writes,    *)
(* locks and stops.                                                        *)
(***************************************************************************)
EXTENDS DocumentStore, TLAPS

-----------------------------------------------------------------------------
(* Who is at work when.                                                    *)

\* The vault and the release are what they can be.
Phases ==
  /\ vault \in {"locked", "opening", "open", "closing", "releasing"}
  /\ release \in {"none", "pending", "done"}
  /\ running \in BOOLEAN /\ receiving \in BOOLEAN /\ storage \in BOOLEAN

\* The controller admits work only over an open storage, from the end of an
\* opening to the next close.
Admission ==
  /\ running => storage /\ vault \in {"open", "closing", "releasing"}
  /\ receiving => storage
  /\ vault = "locked" => ~storage
  /\ vault = "opening" => (storage <=> release = "none")
  /\ todo # {} => vault = "opening" /\ release = "none"

\* Without the controller only the recovery of a draft works on the folder.
Closes == op.at = "discard" \/ (op.at = "clean" /\ op.closes)
Work ==
  /\ \A d \in Drafts : held[d] # None => running
  /\ op # Idle => running \/ (vault = "opening" /\ storage /\ Closes)

\* Once a release is committed nothing is open or under way.
Released ==
  release # "none" =>
    /\ op = Idle
    /\ \A d \in Drafts : held[d] = None
    /\ vault # "releasing" => ~running

Control == Phases /\ Admission /\ Work /\ Released

\* The folder is open at first, with nobody at work.
LEMMA ControlInit == Init => Control
  BY DEF Init, Control, Phases, Admission, Work, Released, Idle

\* Opening a draft and taking a download up again.
LEMMA OpeningKeepsControl ==
  ASSUME Control,
         \/ \E d \in Drafts, mode \in {"edit", "truncate", "download"} : Open(d, mode)
         \/ CopyBase \/ FirstHead \/ \E d \in Drafts : ResumeDownload(d)
  PROVE  Control'
<1> USE DEF Control, Phases, Admission, Work, Released
<1>1. CASE \E d \in Drafts, mode \in {"edit", "truncate", "download"} : Open(d, mode)
  BY <1>1 DEF Open, Ready, folderVars, vaultVars, ghostVars
<1>2. CASE CopyBase
  BY <1>2 DEF CopyBase, Goto, Idle, Closes, folderVars, vaultVars, ghostVars
<1>3. CASE FirstHead
  BY <1>3 DEF FirstHead, SaveHead, Idle, Closes, folderVars, vaultVars, ghostVars
<1>4. CASE \E d \in Drafts : ResumeDownload(d)
  BY <1>4 DEF ResumeDownload, Ready, folderVars, vaultVars, ghostVars
<1> QED BY <1>1, <1>2, <1>3, <1>4

\* The steps of writing, of publishing and of giving a draft up.
LEMMA EditingKeepsControl ==
  ASSUME Control,
         \/ \E d \in Drafts, i \in Blocks : BeginWrite(d, i)
         \/ Writing
         \/ \E d \in Drafts, closes \in BOOLEAN : Flush(d, closes)
         \/ SaveClean \/ Discard
         \/ \E d \in Drafts : \/ FinishDownload(d) \/ SuspendDownload(d)
                            \/ Abort(d) \/ ReleaseClean(d)
  PROVE  Control'
<1> USE DEF Control, Phases, Admission, Work, Released, folderVars, vaultVars, ghostVars
<1>1. CASE \E d \in Drafts, i \in Blocks : BeginWrite(d, i)
  BY <1>1 DEF BeginWrite, Ready
<1>2. CASE MarkDirty
  BY <1>2 DEF MarkDirty, Goto, Idle, Closes
<1>3. CASE WriteChunk
  BY <1>3 DEF WriteChunk, Goto, Idle, Closes
<1>4. CASE Acknowledge
  BY <1>4 DEF Acknowledge, Idle, Closes
<1>5. CASE \E d \in Drafts, closes \in BOOLEAN : Flush(d, closes)
  <2>1. PICK d \in Drafts, closes \in BOOLEAN : Flush(d, closes) BY <1>5
  <2>2. running /\ release = "none"
    BY <2>1 DEF Flush, Ready
  <2>3. \A e \in Drafts : held'[e] # None => running
    BY <2>2
  <2>4. UNCHANGED <<vault, todo, running, receiving, storage, release>>
    BY <2>1 DEF Flush
  <2> QED BY <2>2, <2>3, <2>4
<1>6. CASE SaveClean
  BY <1>6 DEF SaveClean, Idle, Closes
<1>7. CASE Discard
  BY <1>7 DEF Discard, Idle
<1>8. CASE \E d \in Drafts : FinishDownload(d)
  <2>1. PICK d \in Drafts : FinishDownload(d) BY <1>8
  <2>2. running /\ release = "none"
    BY <2>1 DEF FinishDownload, Ready
  <2>3. UNCHANGED <<held, vault, todo, running, receiving, storage, release>>
    BY <2>1 DEF FinishDownload
  <2> QED BY <2>2, <2>3
<1>9. CASE \E d \in Drafts : SuspendDownload(d) \/ Abort(d) \/ ReleaseClean(d)
  BY <1>9 DEF SuspendDownload, Abort, ReleaseClean, Ready
<1> QED BY <1>1, <1>2, <1>3, <1>4, <1>5, <1>6, <1>7, <1>8, <1>9 DEF Writing

\* The lock and the unlock.
LEMMA LockingKeepsControl ==
  ASSUME Control, Lock \/ Closing \/ Unlocking
  PROVE  Control'
<1> USE DEF Control, Phases, Admission, Work, Released, folderVars, vaultVars, ghostVars
<1>1. CASE Lock
  BY <1>1 DEF Lock, Ready
<1>2. CASE \E d \in Drafts : CloseHandle(d)
  BY <1>2 DEF CloseHandle
<1>3. CASE StopController
  BY <1>3 DEF StopController
<1>4. CASE CloseStorage
  BY <1>4 DEF CloseStorage, Drained
<1>5. CASE Unlock
  BY <1>5 DEF Unlock
<1>6. CASE \E d \in Drafts : Recover(d)
  <2> PICK d \in Drafts : Recover(d) BY <1>6
  <2>1. release = "none" /\ vault = "opening" /\ storage
    BY DEF Recover
  <2>2. (op' = op /\ op = Idle) \/ Closes'
    BY DEF Recover, RecoverDirty, Cleaned, Closes
  <2>3. UNCHANGED <<held, vault, running, receiving, storage, release>> /\ todo' \subseteq todo
    BY DEF Recover
  <2> QED BY <2>1, <2>2, <2>3
<1>7. CASE FinishOpening
  BY <1>7 DEF FinishOpening
<1> QED BY <1>1, <1>2, <1>3, <1>4, <1>5, <1>6, <1>7 DEF Closing, Unlocking

\* The release, the peer's session and a stop.
LEMMA OthersKeepControl ==
  ASSUME Control, ReleaseLocalCopy \/ Releasing \/ StartReceive \/ EndReceive \/ Crash
  PROVE  Control'
<1> USE DEF Control, Phases, Admission, Work, Released, folderVars, vaultVars, ghostVars
<1>1. CASE ReleaseLocalCopy
  BY <1>1 DEF ReleaseLocalCopy, Ready
<1>2. CASE Releasing
  BY <1>2 DEF Releasing, PurgeVisible, PurgeDraft, CompleteRelease, Purging
<1>3. CASE StartReceive \/ EndReceive
  <2>1. CASE StartReceive BY <2>1 DEF StartReceive, Closes
  <2>2. CASE EndReceive BY <2>2 DEF EndReceive, Closes
  <2> QED BY <1>3, <2>1, <2>2
<1>4. CASE Crash
  BY <1>4 DEF Crash
<1> QED BY <1>1, <1>2, <1>3, <1>4

\* A step of nobody changes none of it.
LEMMA StuttersKeepControl == Control /\ UNCHANGED vars => Control'
  BY DEF Control, Phases, Admission, Work, Released, Closes, vars

\* Every step keeps who may be at work.
LEMMA NextKeepsControl == Control /\ [Next]_vars => Control'
  BY OpeningKeepsControl, EditingKeepsControl, LockingKeepsControl, OthersKeepControl,
     StuttersKeepControl
  DEF Next, SystemStep, UserStep, Opening

\* Nobody is at work that may not be, throughout (documentFilesystem.ts, the
\* queue; replicaControl.ts, the admission of work).
THEOREM ControlHolds == Spec => []Control
  BY ControlInit, NextKeepsControl, PTL DEF Spec

\* The storage is closed only under nobody: neither a receive of the peer's
\* session nor an operation on a draft finds it closed.
THEOREM NobodyOnClosedStorage == Spec => []NoWorkOnClosedStorage
<1>1. Control => NoWorkOnClosedStorage
  BY DEF Control, Admission, Work, NoWorkOnClosedStorage
<1> QED BY <1>1, ControlHolds, PTL

\* A folder whose copy was released is not opened again: neither the peer nor
\* a handle gets at what is being purged.
THEOREM ReleasedIsNotReopened == Spec => []ReleasedStaysClosed
<1>1. Control => ReleasedStaysClosed
  BY DEF Control, Released, ReleasedStaysClosed
<1> QED BY <1>1, ControlHolds, PTL
=============================================================================
