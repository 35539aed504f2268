------------------------ MODULE DocumentWritesProofs ------------------------
(***************************************************************************)
(* The shape of the drafts, for every number of drafts, writes, locks and  *)
(* stops: what each file and handle holds, and what an operation under way *)
(* may rely on.  On it rests that no acknowledged write is lost, and what  *)
(* a draft publishes and where.                                            *)
(***************************************************************************)
EXTENDS DocumentStoreProofs

-----------------------------------------------------------------------------
(* The ranges of the variables, as sets.                                   *)

\* A download has no base, and a draft never shrinks below its base.
DraftHeads == {h \in Heads : h.base <= h.size /\ (h.dl => h.base = 0)}
Contents == UNION {[1..n -> Nat] : n \in 0..2}
Chunks == UNION {[S -> Nat] : S \in SUBSET Blocks}
DraftFiles == [made : BOOLEAN, base : Contents, chunks : Chunks, head : DraftHeads \cup {None}]
Records == [ver : Nat, live : BOOLEAN, content : Contents]
Operations ==
  {Idle} \cup [at : {"copy", "first"}, d : Drafts, head : DraftHeads]
         \cup [at : {"mark", "chunk", "head"}, d : Drafts, i : Blocks, token : Nat]
         \cup [at : {"clean"}, d : Drafts, closes : BOOLEAN, head : DraftHeads]
         \cup [at : {"discard"}, d : Drafts]

Types ==
  /\ file \in Records /\ copies \in [Drafts -> Records]
  /\ disk \in [Drafts -> DraftFiles] /\ held \in [Drafts -> DraftHeads \cup {None}]
  /\ op \in Operations
  /\ owed \in [Drafts -> [Blocks -> Nat]]
  /\ clock \in Nat /\ opened \in Nat

\* The handle of a draft holds in memory the head that is on disk; what was
\* not opened yet is empty.
Handle(d) ==
  /\ disk[d].made \/ disk[d] = NoDraft
  /\ held[d] # None => disk[d].made /\ disk[d].head = held[d] /\ Usable(disk[d])
  /\ d > opened => disk[d] = NoDraft /\ held[d] = None /\ owed[d] = Nothing

\* The operation under way is on an open draft, or on one only it knows.
InHand ==
  op # Idle =>
    /\ op.d <= opened /\ disk[op.d].made
    /\ op.at \in {"copy", "first"} => disk[op.d].head = None
    /\ op.at \in {"copy", "first", "discard"} => held[op.d] = None
    /\ op.at \in {"mark", "chunk", "head"} => held[op.d] # None
    /\ op.at = "clean" => Usable([disk[op.d] EXCEPT !.head = op.head])

Shape == Types /\ (\A d \in Drafts : Handle(d)) /\ InHand

\* What an operation carries, by its step.
LEMMA OperationCarries ==
  ASSUME op \in Operations
  PROVE  /\ op # Idle => op.d \in Drafts
         /\ op.at = "idle" <=> op = Idle
         /\ op.at \in {"copy", "first"} => op \in [at : {"copy", "first"}, d : Drafts, head : DraftHeads]
         /\ op.at \in {"mark", "chunk", "head"} =>
              op \in [at : {"mark", "chunk", "head"}, d : Drafts, i : Blocks, token : Nat]
         /\ op.at = "clean" => op \in [at : {"clean"}, d : Drafts, closes : BOOLEAN, head : DraftHeads]
         /\ op.at = "discard" => op \in [at : {"discard"}, d : Drafts]
  BY DEF Operations, Idle

\* A content has at most two blocks, and its length is its last block.
LEMMA ContentLengths ==
  ASSUME NEW c \in Contents
  PROVE  c \in Seq(Nat) /\ Len(c) \in 0..2 /\ c \in [1..Len(c) -> Nat]
<1>1. PICK n \in 0..2 : c \in [1..n -> Nat] BY DEF Contents
<1>2. c \in Seq(Nat) /\ Len(c) = n BY <1>1
<1> QED BY <1>1, <1>2

\* A head's content is a content, if the base is there.
LEMMA ContentOfDraft ==
  ASSUME NEW k \in DraftFiles, NEW h \in DraftHeads, h.base > 0 => Len(k.base) = h.base
  PROVE  Content(k, h) \in Contents
<1>1. k.base \in Contents /\ k.chunks \in Chunks /\ h.size \in 0..2 /\ h.base \in 0..2
  BY DEF DraftFiles, DraftHeads, Heads
<1>2. PICK S \in SUBSET Blocks : k.chunks \in [S -> Nat]
  BY <1>1 DEF Chunks
<1>3. k.base \in [1..Len(k.base) -> Nat]
  BY <1>1, ContentLengths
<1>4. \A i \in 1..h.size : i <= h.base => k.base[i] \in Nat
  BY <1>1, <1>3
<1>5. Content(k, h) \in [1..h.size -> Nat]
  BY <1>1, <1>2, <1>4 DEF Content, Hole
<1> QED BY <1>1, <1>5 DEF Contents

\* A document that is not there and an empty draft are in their ranges.
LEMMA EmptyFiles == NoFile \in Records /\ NoDraft \in DraftFiles
<1>1. <<>> \in Contents
  <2>1. <<>> \in [1..0 -> Nat] OBVIOUS
  <2> QED BY <2>1 DEF Contents
<1>2. <<>> \in Chunks
  <2>1. <<>> \in [{} -> Nat] OBVIOUS
  <2> QED BY <2>1 DEF Chunks
<1> QED BY <1>1, <1>2 DEF NoFile, NoDraft, Records, DraftFiles

\* Nothing was opened yet, and the document has a content.
LEMMA ShapeInit == Init => Shape
<1> SUFFICES ASSUME Init PROVE Shape OBVIOUS
<1>1. <<1, 1>> \in Contents
  <2>1. <<1, 1>> \in [1..2 -> Nat] OBVIOUS
  <2> QED BY <2>1 DEF Contents
<1>2. Types
  BY <1>1, EmptyFiles DEF Init, Types, Records, Operations, Nothing, Hole
<1>3. (\A d \in Drafts : Handle(d)) /\ InHand
  BY StoreConstants DEF Init, Handle, InHand, NoDraft, Drafts
<1> QED BY <1>2, <1>3 DEF Shape

\* Saving a head, copying a base and writing a block each change one part of
\* one draft.
LEMMA OneHead ==
  ASSUME NEW d \in Drafts, NEW h \in DraftHeads \cup {None}, disk \in [Drafts -> DraftFiles],
         SaveHead(d, h)
  PROVE  /\ disk' \in [Drafts -> DraftFiles]
         /\ disk' = [disk EXCEPT ![d] = [@ EXCEPT !.head = h]]
         /\ disk'[d] = [disk[d] EXCEPT !.head = h]
         /\ disk'[d].made = disk[d].made /\ disk'[d].base = disk[d].base
         /\ disk'[d].chunks = disk[d].chunks /\ disk'[d].head = h
         /\ \A e \in Drafts : e # d => disk'[e] = disk[e]
<1>1. disk' = [disk EXCEPT ![d] = [@ EXCEPT !.head = h]]
  BY DEF SaveHead
<1>2. disk[d] \in DraftFiles OBVIOUS
<1>3. [disk[d] EXCEPT !.head = h] \in DraftFiles
  BY <1>2 DEF DraftFiles
<1>4. disk'[d] = [disk[d] EXCEPT !.head = h]
  BY <1>1
<1>5. disk' \in [Drafts -> DraftFiles]
  BY <1>1, <1>3
<1>6. \A e \in Drafts : e # d => disk'[e] = disk[e]
  BY <1>1
<1>7. /\ disk'[d].made = disk[d].made /\ disk'[d].base = disk[d].base
      /\ disk'[d].chunks = disk[d].chunks /\ disk'[d].head = h
  BY <1>2, <1>4 DEF DraftFiles
<1> QED BY <1>1, <1>4, <1>5, <1>6, <1>7

\* A step on one draft leaves the handles of the others as they were.
LEMMA OtherHandles ==
  ASSUME Shape, NEW d \in Drafts, opened' \in Nat, opened' >= opened, Handle(d)',
         \A e \in Drafts : e # d => disk'[e] = disk[e] /\ held'[e] = held[e] /\ owed'[e] = owed[e]
  PROVE  \A e \in Drafts : Handle(e)'
  BY DEF Shape, Types, Handle, Usable, Drafts

\* Opening a draft keeps the shape: its directory, base and head come in turn.
LEMMA OpenKeepsShape ==
  ASSUME Shape, NEW d \in Drafts, NEW mode \in {"edit", "truncate", "download"}, Open(d, mode)
  PROVE  Shape'
<1> DEFINE size == IF mode = "edit" THEN Len(file.content) ELSE 0
<1>1. size \in 0..2
  BY ContentLengths DEF Shape, Types, Records
<1>2. op'.head \in DraftHeads /\ op' \in Operations /\ op'.d = d /\ op'.at \in {"copy", "first"}
  <2> DEFINE head == [dirty |-> mode # "edit", ver |-> file.ver, base |-> size, size |-> size,
                      dl |-> mode = "download", ranges |-> {}]
  <2>1. head \in Heads
    BY <1>1 DEF Heads, Shape, Types, Records
  <2>2. head \in DraftHeads
    <3>1. head.base = size /\ head.size = size /\ (head.dl <=> mode = "download")
      OBVIOUS
    <3>2. size <= size /\ (mode = "download" => size = 0)
      BY <1>1
    <3> HIDE DEF head, size
    <3> QED BY <2>1, <3>1, <3>2 DEF DraftHeads
  <2>3. op' = [at |-> IF size > 0 THEN "copy" ELSE "first", d |-> d, head |-> head]
    BY DEF Open
  <2> HIDE DEF head
  <2>4. op'.head = head /\ op'.d = d /\ op'.at \in {"copy", "first"}
    BY <2>3
  <2> QED BY <2>2, <2>3, <2>4 DEF Operations
<1>3. d > opened /\ opened' = d
  BY DEF Open, Shape, Types
<1>4. disk[d] = NoDraft /\ held[d] = None /\ owed[d] = Nothing
  BY <1>3 DEF Shape, Handle
<1>5. disk' = [disk EXCEPT ![d] = [NoDraft EXCEPT !.made = TRUE]]
  BY <1>4 DEF Open
<1>6. [NoDraft EXCEPT !.made = TRUE] \in DraftFiles
  <2>1. NoDraft \in DraftFiles BY <1>4 DEF Shape, Types
  <2> QED BY <2>1 DEF DraftFiles
<1>7. disk' \in [Drafts -> DraftFiles] /\ disk'[d].made /\ disk'[d].head = None
  <2> disk \in [Drafts -> DraftFiles] BY DEF Shape, Types
  <2> QED BY <1>5, <1>6 DEF NoDraft
<1>8. UNCHANGED <<file, copies, held, owed, clock>>
  BY DEF Open, folderVars, ghostVars
<1>9. Types'
  BY <1>2, <1>3, <1>7, <1>8 DEF Shape, Types, Drafts
<1>10. \A e \in Drafts : Handle(e)'
  <2>1. Handle(d)' BY <1>3, <1>4, <1>7, <1>8 DEF Handle, Drafts
  <2>2. \A e \in Drafts : e # d => disk'[e] = disk[e] BY <1>5 DEF Shape, Types
  <2> QED BY <1>3, <1>8, <2>1, <2>2, OtherHandles DEF Drafts, Shape, Types
<1>11. InHand'
  BY <1>2, <1>3, <1>4, <1>7, <1>8 DEF InHand, Drafts
<1> QED BY <1>9, <1>10, <1>11 DEF Shape

\* The base and the first head of a draft keep the shape, and so does taking
\* up a download again.
LEMMA OpeningKeepsShape ==
  ASSUME Shape, Opening \/ \E d \in Drafts : ResumeDownload(d)
  PROVE  Shape'
<1> USE DEF Shape, Types
<1>1. CASE CopyBase
  <2>1. op \in [at : {"copy", "first"}, d : Drafts, head : DraftHeads] /\ op.at = "copy" /\ op # Idle
    BY <1>1, OperationCarries DEF CopyBase, Idle
  <2> PICK d \in Drafts : d = op.d BY <2>1
  <2>2. UNCHANGED <<file, copies, held, owed, clock, opened>>
    BY <1>1 DEF CopyBase, folderVars, ghostVars
  <2>3. disk[op.d] \in DraftFiles /\ op.d <= opened /\ disk[op.d].made
        /\ disk[op.d].head = None /\ held[op.d] = None
    BY <2>1 DEF InHand
  <2>4. CASE file.live
    <3>1. disk' = [disk EXCEPT ![op.d] = [@ EXCEPT !.base = file.content]]
          /\ op' = [op EXCEPT !.at = "first"]
      BY <1>1, <2>4 DEF CopyBase, Goto
    <3>2. [disk[op.d] EXCEPT !.base = file.content] \in DraftFiles
      BY <2>3 DEF DraftFiles, Records
    <3>3. disk' \in [Drafts -> DraftFiles] /\ disk'[op.d].made /\ disk'[op.d].head = None
      BY <2>1, <2>3, <3>1, <3>2 DEF DraftFiles
    <3>4. op' \in [at : {"first"}, d : Drafts, head : DraftHeads] /\ op'.d = op.d
      BY <2>1, <3>1
    <3>5. op' \in Operations
      BY <3>4 DEF Operations
    <3>6. Handle(d)'
      BY <2>1, <2>2, <2>3, <3>3 DEF Handle, Drafts
    <3>7. \A e \in Drafts : e # d => disk'[e] = disk[e]
      BY <3>1
    <3>8. \A e \in Drafts : Handle(e)'
      BY <2>1, <2>2, <3>6, <3>7, OtherHandles
    <3>9. InHand'
      BY <2>2, <2>3, <3>3, <3>4 DEF InHand
    <3> QED BY <2>2, <3>3, <3>5, <3>8, <3>9
  <2>5. CASE ~file.live
    <3>1. UNCHANGED disk /\ op' = Idle
      BY <1>1, <2>5 DEF CopyBase
    <3> QED BY <2>2, <3>1 DEF Handle, InHand, Operations
  <2> QED BY <2>4, <2>5
<1>2. CASE FirstHead
  <2>1. op \in [at : {"copy", "first"}, d : Drafts, head : DraftHeads] /\ op.at = "first" /\ op # Idle
    BY <1>2, OperationCarries DEF FirstHead, Idle
  <2> PICK d \in Drafts : d = op.d BY <2>1
  <2>2. UNCHANGED <<file, copies, owed, clock, opened>> /\ op' = Idle
    BY <1>2 DEF FirstHead, folderVars, ghostVars
  <2>3. op.d <= opened /\ disk[op.d].made
    BY <2>1 DEF InHand
  <2>4. SaveHead(op.d, op.head) /\ op.head \in DraftHeads
    BY <1>2, <2>1 DEF FirstHead
  <2>5. /\ disk' \in [Drafts -> DraftFiles] /\ disk'[op.d].made
        /\ disk'[op.d] = [disk[op.d] EXCEPT !.head = op.head] /\ disk'[op.d].head = op.head
        /\ \A e \in Drafts : e # d => disk'[e] = disk[e]
    BY <2>1, <2>3, <2>4, OneHead
  <2>6. \/ held' = [held EXCEPT ![op.d] = op.head] /\ Usable(disk'[op.d])
        \/ held' = [held EXCEPT ![op.d] = None]
    BY <1>2, <2>5 DEF FirstHead
  <2>7. held' \in [Drafts -> DraftHeads \cup {None}] /\ (\A e \in Drafts : e # d => held'[e] = held[e])
        /\ (held'[d] = None \/ (held'[d] = op.head /\ Usable(disk'[d])))
    BY <2>4, <2>6
  <2>8. Handle(d)'
    BY <2>2, <2>3, <2>5, <2>7 DEF Handle, Drafts
  <2>9. \A e \in Drafts : Handle(e)'
    BY <2>1, <2>2, <2>5, <2>7, <2>8, OtherHandles
  <2> QED BY <2>2, <2>5, <2>7, <2>9 DEF InHand, Operations
<1>3. CASE \E d \in Drafts : ResumeDownload(d)
  <2>1. PICK d \in Drafts : ResumeDownload(d) BY <1>3
  <2>2. UNCHANGED <<file, copies, disk, op, owed, clock, opened>> /\ op = Idle
    BY <2>1 DEF ResumeDownload, folderVars, ghostVars, Ready
  <2>3. held' = [held EXCEPT ![d] = disk[d].head] /\ disk[d].made /\ disk[d].head \in DraftHeads
        /\ disk[d].head.dl
    BY <2>1 DEF ResumeDownload, DraftFiles
  <2>4. held' \in [Drafts -> DraftHeads \cup {None}]
    BY <2>3
  <2>5. Usable(disk[d])
    BY <2>3, NoneAssumption DEF Usable, DraftHeads
  <2>6. Handle(d)'
    BY <2>2, <2>3, <2>5 DEF Handle, NoDraft
  <2>7. \A e \in Drafts : Handle(e)'
    BY <2>2, <2>3, <2>6, OtherHandles
  <2> QED BY <2>2, <2>4, <2>7 DEF InHand
<1> QED BY <1>1, <1>2, <1>3 DEF Opening

\* A block that is written stays a block of the draft.
LEMMA OneChunk ==
  ASSUME NEW k \in DraftFiles, op.i \in Blocks, op.token \in Nat
  PROVE  /\ Chunk(k) \in DraftFiles
         /\ Chunk(k).made = k.made /\ Chunk(k).base = k.base /\ Chunk(k).head = k.head
         /\ DOMAIN Chunk(k).chunks = DOMAIN k.chunks \cup {op.i}
         /\ Chunk(k).chunks[op.i] = op.token
         /\ \A i \in DOMAIN k.chunks : i # op.i => Chunk(k).chunks[i] = k.chunks[i]
<1>1. PICK S \in SUBSET Blocks : k.chunks \in [S -> Nat]
  BY DEF DraftFiles, Chunks
<1> DEFINE written == [i \in DOMAIN k.chunks \cup {op.i} |->
                         IF i = op.i THEN op.token ELSE k.chunks[i]]
<1>2. written \in [S \cup {op.i} -> Nat] /\ S \cup {op.i} \in SUBSET Blocks
  BY <1>1
<1>3. written \in Chunks
  BY <1>2 DEF Chunks
<1>4. Chunk(k) = [k EXCEPT !.chunks = written]
  BY DEF Chunk
<1>5. Chunk(k).chunks = written
  BY <1>4 DEF DraftFiles
<1>6. Chunk(k) \in DraftFiles
      /\ Chunk(k).made = k.made /\ Chunk(k).base = k.base /\ Chunk(k).head = k.head
  BY <1>3, <1>4 DEF DraftFiles
<1> QED BY <1>1, <1>5, <1>6

\* The head that acknowledges a write covers its block.
LEMMA NextHeads ==
  ASSUME NEW h \in DraftHeads, op.i \in Blocks
  PROVE  /\ NextHead(h) \in DraftHeads
         /\ NextHead(h).dirty = h.dirty /\ NextHead(h).ver = h.ver /\ NextHead(h).dl = h.dl
         /\ NextHead(h).base = h.base
         /\ NextHead(h).size >= h.size /\ NextHead(h).size >= op.i
<1> DEFINE size == IF op.i > h.size THEN op.i ELSE h.size
           ranges == IF h.dl THEN h.ranges \cup {op.i} ELSE h.ranges
<1>1. h \in Heads /\ h.base <= h.size /\ (h.dl => h.base = 0) BY DEF DraftHeads
<1>2. size \in 0..2 /\ size >= h.size /\ size >= op.i /\ h.base <= size
  BY <1>1 DEF Heads, Blocks
<1>3. ranges \in SUBSET Blocks
  BY <1>1 DEF Heads
<1>4. NextHead(h) = [h EXCEPT !.size = size, !.ranges = ranges]
  BY DEF NextHead
<1> HIDE DEF size, ranges
<1> QED BY <1>1, <1>2, <1>3, <1>4 DEF Heads, DraftHeads

\* Starting a write only notes it.
LEMMA BeginWriteKeepsShape ==
  ASSUME Shape, NEW d \in Drafts, NEW i \in Blocks, BeginWrite(d, i)
  PROVE  Shape'
<1> USE DEF Shape, Types
<1>1. UNCHANGED <<file, copies, disk, held, owed, opened>> /\ held[d] # None /\ clock' \in Nat
  BY DEF BeginWrite, folderVars, ghostVars, Tick
<1>2. op' \in [at : {"mark", "chunk", "head"}, d : Drafts, i : Blocks, token : Nat] /\ op'.d = d
  BY <1>1 DEF BeginWrite, Blocks, Fetched
<1>3. op' \in Operations
  BY <1>2 DEF Operations
<1>4. d <= opened /\ disk[d].made
  BY <1>1 DEF Handle, Drafts
<1>5. \A e \in Drafts : Handle(e)'
  BY <1>1 DEF Handle
<1>6. InHand'
  BY <1>1, <1>2, <1>4 DEF InHand
<1> QED BY <1>1, <1>3, <1>5, <1>6

\* The steps of a write keep the shape.
LEMMA WritingKeepsShape ==
  ASSUME Shape, Writing
  PROVE  Shape'
<1> USE DEF Shape, Types
<1>1. op \in [at : {"mark", "chunk", "head"}, d : Drafts, i : Blocks, token : Nat] /\ op # Idle
  BY OperationCarries DEF Writing, MarkDirty, WriteChunk, Acknowledge, Idle
<1> PICK d \in Drafts : d = op.d BY <1>1
<1>2. d <= opened /\ disk[d].made /\ held[d] # None
  BY <1>1 DEF InHand
<1>3. held[d] \in DraftHeads /\ disk[d] \in DraftFiles /\ disk[d].head = held[d] /\ Usable(disk[d])
  BY <1>2 DEF Handle
<1>4. CASE MarkDirty
  <2>1. UNCHANGED <<file, copies, owed, clock, opened>>
    BY <1>4 DEF MarkDirty, folderVars, ghostVars
  <2>2. held' = [held EXCEPT ![d] = [held[d] EXCEPT !.dirty = TRUE]] /\ SaveHead(d, held'[d])
    BY <1>4 DEF MarkDirty
  <2>3. [held[d] EXCEPT !.dirty = TRUE] \in DraftHeads
        /\ [held[d] EXCEPT !.dirty = TRUE].base = held[d].base
    BY <1>3 DEF DraftHeads, Heads
  <2>4. /\ held' \in [Drafts -> DraftHeads \cup {None}] /\ held'[d] # None
        /\ held'[d].base = held[d].base
        /\ \A e \in Drafts : e # d => held'[e] = held[e]
    BY <2>2, <2>3, NoneAssumption DEF DraftHeads
  <2>5. /\ disk' \in [Drafts -> DraftFiles] /\ disk'[d].made /\ disk'[d].base = disk[d].base
        /\ disk'[d].head = held'[d]
        /\ \A e \in Drafts : e # d => disk'[e] = disk[e]
    <3>1. held'[d] \in DraftHeads \cup {None} /\ disk \in [Drafts -> DraftFiles] /\ disk[d].made
      BY <1>2, <2>4
    <3> HIDE DEF Shape, Types
    <3> PICK h \in DraftHeads \cup {None} : h = held'[d] BY <3>1
    <3>2. SaveHead(d, h) BY <2>2
    <3> QED BY <3>1, <3>2, OneHead
  <2>6. Usable(disk'[d])
    BY <1>3, <2>4, <2>5 DEF Usable
  <2>7. Handle(d)'
    BY <1>2, <2>1, <2>4, <2>5, <2>6 DEF Handle, Drafts
  <2>8. \A e \in Drafts : Handle(e)'
    BY <2>1, <2>4, <2>5, <2>7, OtherHandles
  <2>9. op' = [op EXCEPT !.at = "chunk"]
    BY <1>4 DEF MarkDirty, Goto
  <2>10. op' \in [at : {"mark", "chunk", "head"}, d : Drafts, i : Blocks, token : Nat] /\ op'.d = d
    BY <1>1, <2>9
  <2>11. op' \in Operations /\ InHand'
    BY <1>2, <2>1, <2>4, <2>5, <2>10 DEF Operations, InHand
  <2> QED BY <2>1, <2>4, <2>5, <2>8, <2>11
<1>5. CASE WriteChunk
  <2>1. UNCHANGED <<file, copies, held, owed, clock, opened>>
    BY <1>5 DEF WriteChunk, folderVars, ghostVars
  <2>2. disk' = [disk EXCEPT ![d] = Chunk(disk[d])]
    BY <1>5 DEF WriteChunk
  <2>3. Chunk(disk[d]) \in DraftFiles /\ Chunk(disk[d]).made
        /\ Chunk(disk[d]).base = disk[d].base /\ Chunk(disk[d]).head = disk[d].head
    BY <1>1, <1>2, <1>3, OneChunk
  <2>4. disk' \in [Drafts -> DraftFiles] /\ disk'[d] = Chunk(disk[d])
        /\ \A e \in Drafts : e # d => disk'[e] = disk[e]
    BY <2>2, <2>3
  <2>5. Usable(disk'[d])
    BY <1>3, <2>3, <2>4 DEF Usable
  <2>6. Handle(d)'
    BY <1>2, <1>3, <2>1, <2>3, <2>4, <2>5 DEF Handle, Drafts
  <2>7. \A e \in Drafts : Handle(e)'
    BY <2>1, <2>4, <2>6, OtherHandles
  <2>8. op' = [op EXCEPT !.at = "head"]
    BY <1>5 DEF WriteChunk, Goto
  <2>9. op' \in [at : {"mark", "chunk", "head"}, d : Drafts, i : Blocks, token : Nat] /\ op'.d = d
    BY <1>1, <2>8
  <2>10. op' \in Operations /\ InHand'
    BY <1>2, <2>1, <2>3, <2>4, <2>9 DEF Operations, InHand
  <2> QED BY <2>1, <2>4, <2>7, <2>10
<1>6. CASE Acknowledge
  <2>1. UNCHANGED <<file, copies, clock, opened>> /\ op' = Idle
    BY <1>6 DEF Acknowledge, folderVars
  <2>2. held' = [held EXCEPT ![d] = NextHead(held[d])] /\ SaveHead(d, held'[d])
        /\ owed' = [owed EXCEPT ![d] = [owed[d] EXCEPT ![op.i] = op.token]]
    BY <1>6 DEF Acknowledge
  <2>3. NextHead(held[d]) \in DraftHeads /\ NextHead(held[d]).base = held[d].base
    BY <1>1, <1>3, NextHeads
  <2> PICK h \in DraftHeads : h = NextHead(held[d]) BY <2>3
  <2>4. /\ held' \in [Drafts -> DraftHeads \cup {None}] /\ held'[d] = h /\ h # None
        /\ h.base = held[d].base
        /\ \A e \in Drafts : e # d => held'[e] = held[e]
    BY <2>2, <2>3, NoneAssumption DEF DraftHeads
  <2>5. /\ disk' \in [Drafts -> DraftFiles] /\ disk'[d].made /\ disk'[d].base = disk[d].base
        /\ disk'[d].head = h
        /\ \A e \in Drafts : e # d => disk'[e] = disk[e]
    <3>1. disk \in [Drafts -> DraftFiles] /\ disk[d].made
      BY <1>2
    <3> HIDE DEF Shape, Types
    <3> QED BY <2>2, <2>4, <3>1, SaveHead(d, h), OneHead
  <2>6. Usable(disk'[d])
    BY <1>3, <2>4, <2>5 DEF Usable
  <2>7. owed' \in [Drafts -> [Blocks -> Nat]] /\ \A e \in Drafts : e # d => owed'[e] = owed[e]
    BY <1>1, <2>2
  <2>8. Handle(d)'
    BY <1>2, <2>1, <2>4, <2>5, <2>6 DEF Handle, Drafts
  <2>9. \A e \in Drafts : Handle(e)'
    BY <2>1, <2>4, <2>5, <2>7, <2>8, OtherHandles
  <2> QED BY <2>1, <2>4, <2>5, <2>7, <2>9 DEF Operations, InHand
<1> QED BY <1>4, <1>5, <1>6 DEF Writing

\* What is published or found pays for what it has of the acknowledged writes.
LEMMA Pays ==
  ASSUME owed \in [Drafts -> [Blocks -> Nat]], NEW d \in Drafts, NEW c, Paid(d, c)
  PROVE  /\ owed' \in [Drafts -> [Blocks -> Nat]]
         /\ \A e \in Drafts : e # d => owed'[e] = owed[e]
         /\ \A i \in Blocks :
              owed'[d][i] = IF Written(c)[i] >= owed[d][i] THEN Hole ELSE owed[d][i]
<1> DEFINE left == [i \in Blocks |-> IF Written(c)[i] >= owed[d][i] THEN Hole ELSE owed[d][i]]
<1>1. owed' = [owed EXCEPT ![d] = left]
  BY DEF Paid
<1>2. left \in [Blocks -> Nat]
  BY DEF Hole
<1> QED BY <1>1, <1>2

\* A cleaned head differs from the dirty one in its version only.
LEMMA Cleans ==
  ASSUME NEW d \in Drafts, NEW h \in DraftHeads, NEW ver \in Nat, NEW closes \in BOOLEAN,
         Cleaned(d, h, ver, closes)
  PROVE  /\ op' \in Operations /\ op'.at = "clean" /\ op'.d = d
         /\ op'.head \in DraftHeads
         /\ op'.head.dirty = FALSE /\ op'.head.ver = ver /\ op'.head.base = h.base
         /\ op'.head.size = h.size /\ op'.head.dl = h.dl
<1> DEFINE c == [h EXCEPT !.dirty = FALSE, !.ver = ver]
<1>1. h \in Heads /\ (h.dl => h.base = 0)
  BY DEF DraftHeads
<1>2. c \in Heads /\ c.dirty = FALSE /\ c.ver = ver /\ c.base = h.base /\ c.size = h.size /\ c.dl = h.dl
  BY <1>1 DEF Heads
<1>3. c \in DraftHeads
  BY <1>1, <1>2 DEF DraftHeads
<1>4. op' = [at |-> "clean", d |-> d, closes |-> closes, head |-> c]
  BY DEF Cleaned
<1> HIDE DEF c
<1> QED BY <1>2, <1>3, <1>4 DEF Operations

\* What is published is a record, a version younger than all others.
LEMMA Publication1 ==
  ASSUME Shape, NEW d \in Drafts, NEW h \in DraftHeads, disk[d].head = h, Usable(disk[d]),
         Publishes(d, h)
  PROVE  /\ file' \in Records /\ UNCHANGED copies
         /\ clock' = clock + 1 /\ file'.ver = clock' /\ file'.content = Content(disk[d], h)
         /\ Paid(d, file'.content)
<1>1. Content(disk[d], h) \in Contents
  BY ContentOfDraft DEF Shape, Types, Usable
<1>2. clock' = clock + 1
      /\ file' = [ver |-> clock', live |-> TRUE, content |-> Content(disk[d], h)]
  BY DEF Publishes, Tick, Record
<1> QED BY <1>1, <1>2 DEF Publishes, Records, Shape, Types

\* A step that only notes that a draft was published keeps the shape.
LEMMA CleaningKeepsShape ==
  ASSUME Shape, NEW d \in Drafts, d <= opened, disk[d].made, Usable(disk[d]),
         op' \in Operations, op'.at = "clean", op'.d = d,
         op'.head \in DraftHeads, op'.head.base = disk[d].head.base,
         UNCHANGED <<disk, held, opened>>, file' \in Records, copies' \in [Drafts -> Records],
         clock' \in Nat, owed' \in [Drafts -> [Blocks -> Nat]],
         \A e \in Drafts : e # d => owed'[e] = owed[e]
  PROVE  Shape'
<1> USE DEF Shape, Types
<1>1. Handle(d)'
  BY DEF Handle, Drafts
<1>2. \A e \in Drafts : Handle(e)'
  BY <1>1, OtherHandles
<1>3. disk[d] \in DraftFiles
  OBVIOUS
<1>4. Usable([disk[d] EXCEPT !.head = op'.head])
  BY <1>3, NoneAssumption DEF Usable, DraftFiles, DraftHeads
<1>5. InHand'
  BY <1>4 DEF InHand
<1> QED BY <1>2, <1>5

\* Publishing by a flush or by the end of a download keeps the shape.
LEMMA PublishingKeepsShape ==
  ASSUME Shape, NEW d \in Drafts,
         (\E closes \in BOOLEAN : Flush(d, closes)) \/ FinishDownload(d)
  PROVE  Shape'
<1> USE DEF Shape, Types
<1>1. held[d] # None /\ UNCHANGED <<disk, opened>> /\ op = Idle
  BY DEF Flush, FinishDownload, Ready
<1>2. held[d] \in DraftHeads /\ disk[d].made /\ disk[d].head = held[d] /\ Usable(disk[d])
      /\ d <= opened
  BY <1>1 DEF Handle, Drafts
<1>3. CASE UNCHANGED held
           /\ \E closes \in BOOLEAN : Publishes(d, held[d]) /\ Cleaned(d, held[d], clock', closes)
  <2>1. PICK closes \in BOOLEAN : Publishes(d, held[d]) /\ Cleaned(d, held[d], clock', closes)
    BY <1>3
  <2>2. /\ file' \in Records /\ UNCHANGED copies
        /\ clock' = clock + 1 /\ Paid(d, file'.content)
    BY <1>2, <2>1, Publication1
  <2>3. owed' \in [Drafts -> [Blocks -> Nat]] /\ \A e \in Drafts : e # d => owed'[e] = owed[e]
    BY <2>2, Pays
  <2>4. clock' \in Nat BY <2>2
  <2>5. /\ op' \in Operations /\ op'.at = "clean" /\ op'.d = d
        /\ op'.head \in DraftHeads /\ op'.head.base = held[d].base
    <3> HIDE DEF Shape, Types
    <3> QED BY <1>2, <2>1, <2>4, Cleans
  <2> QED BY <1>1, <1>2, <1>3, <2>2, <2>3, <2>4, <2>5, CleaningKeepsShape
<1>4. CASE held' = [held EXCEPT ![d] = None] /\ UNCHANGED <<file, copies, op, owed, clock>>
  <2>1. Handle(d)'
    BY <1>1, <1>2, <1>4 DEF Handle, Drafts
  <2>2. \A e \in Drafts : Handle(e)'
    BY <1>1, <1>4, <2>1, OtherHandles
  <2> QED BY <1>1, <1>4, <2>2 DEF InHand
<1> QED BY <1>3, <1>4 DEF Flush, FinishDownload, folderVars

\* The recovery of a draft keeps the shape.
LEMMA RecoveryKeepsShape ==
  ASSUME Shape, Control, NEW d \in Drafts, Recover(d)
  PROVE  Shape'
<1> USE DEF Shape, Types
<1>1. UNCHANGED <<disk, held, opened>> /\ op = Idle
  BY DEF Recover
<1>2. CASE Recoverable(disk[d]) /\ disk[d].head.dirty /\ RecoverDirty(d, disk[d].head)
  <2> PICK h \in DraftHeads : h = disk[d].head
    BY <1>2 DEF Recoverable, Usable, DraftFiles
  <2>1. Usable(disk[d]) /\ disk[d].made /\ d <= opened
    BY <1>2 DEF Recoverable, Usable, Handle, NoDraft, Drafts
  <2>2. RecoverDirty(d, h)
    BY <1>2
  <2>3. /\ file' \in Records /\ copies' \in [Drafts -> Records] /\ clock' \in Nat
        /\ \E c : Paid(d, c)
        /\ \E ver \in Nat : Cleaned(d, h, ver, TRUE)
    <3>1. CASE Publishes(d, h) /\ Cleaned(d, h, clock', TRUE)
      <4>1. file' \in Records /\ UNCHANGED copies /\ clock' = clock + 1 /\ Paid(d, file'.content)
        BY <2>1, <3>1, Publication1
      <4>2. clock' \in Nat
        BY <4>1
      <4>3. \E c : Paid(d, c)
        BY <4>1
      <4>4. \E ver \in Nat : Cleaned(d, h, ver, TRUE)
        BY <3>1, <4>2, Zenon
      <4> QED BY <4>1, <4>2, <4>3, <4>4
    <3>2. CASE UNCHANGED <<folderVars, clock>> /\ Paid(d, file.content)
               /\ Cleaned(d, h, file.ver, TRUE)
      BY <3>2 DEF folderVars, Records
    <3>3. CASE UNCHANGED <<folderVars, clock>> /\ Paid(d, copies[d].content)
               /\ Cleaned(d, h, h.ver, TRUE)
      BY <3>3 DEF folderVars, DraftHeads, Heads
    <3>4. CASE /\ Tick /\ UNCHANGED file
               /\ copies' = [copies EXCEPT ![d] = Record(Content(disk[d], h))]
               /\ Paid(d, copies'[d].content) /\ Cleaned(d, h, clock', TRUE)
      <4>1. clock' \in Nat
        BY <3>4 DEF Tick
      <4>2. Record(Content(disk[d], h)) \in Records
        BY <2>1, <4>1, ContentOfDraft DEF Record, Records, Usable
      <4> QED BY <3>4, <4>1, <4>2
    <3> QED BY <2>2, <3>1, <3>2, <3>3, <3>4 DEF RecoverDirty
  <2>4. owed' \in [Drafts -> [Blocks -> Nat]] /\ \A e \in Drafts : e # d => owed'[e] = owed[e]
    BY <2>3, Pays
  <2>5. /\ op' \in Operations /\ op'.at = "clean" /\ op'.d = d
        /\ op'.head \in DraftHeads /\ op'.head.base = h.base
    BY <2>3, Cleans
  <2> QED BY <1>1, <2>1, <2>3, <2>4, <2>5, CleaningKeepsShape
<1>3. CASE /\ Recoverable(disk[d]) /\ ~disk[d].head.dirty
           /\ op' = [at |-> "discard", d |-> d]
           /\ UNCHANGED <<folderVars, owed, clock>>
  <2>1. d <= opened /\ disk[d].made
    BY <1>3 DEF Recoverable, Usable, Handle, NoDraft, Drafts
  <2>2. held[d] = None
    BY DEF Recover, Control, Admission, Work
  <2>3. op' \in Operations /\ InHand'
    BY <1>1, <1>3, <2>1, <2>2 DEF Operations, InHand
  <2> QED BY <1>1, <1>3, <2>3 DEF Handle, folderVars
<1>4. CASE UNCHANGED <<folderVars, op, owed, clock>>
  BY <1>1, <1>4 DEF Handle, InHand, folderVars
<1> QED BY <1>2, <1>3, <1>4 DEF Recover

\* Saving the clean head and removing the draft keep the shape.
LEMMA EndingKeepsShape ==
  ASSUME Shape, SaveClean \/ Discard
  PROVE  Shape'
<1> USE DEF Shape, Types
<1>1. CASE SaveClean
  <2>1. op \in [at : {"clean"}, d : Drafts, closes : BOOLEAN, head : DraftHeads] /\ op # Idle
    BY <1>1, OperationCarries DEF SaveClean, Idle
  <2> PICK d \in Drafts : d = op.d BY <2>1
  <2> PICK h \in DraftHeads : h = op.head BY <2>1
  <2>2. UNCHANGED <<file, copies, owed, clock, opened>>
    BY <1>1 DEF SaveClean, folderVars, ghostVars
  <2>3. d <= opened /\ disk[d].made /\ Usable([disk[d] EXCEPT !.head = h])
    BY <1>1, <2>1 DEF SaveClean, InHand
  <2>4. SaveHead(d, h)
    BY <1>1 DEF SaveClean
  <2>5. /\ disk' \in [Drafts -> DraftFiles] /\ disk'[d].made /\ Usable(disk'[d]) /\ disk'[d].head = h
        /\ \A e \in Drafts : e # d => disk'[e] = disk[e]
    BY <2>3, <2>4, OneHead
  <2>6. /\ held' \in [Drafts -> DraftHeads \cup {None}] /\ held'[d] \in {None, h}
        /\ \A e \in Drafts : e # d => held'[e] = held[e]
        /\ op' # Idle => held'[d] = None
    BY <1>1 DEF SaveClean
  <2>7. Handle(d)'
    BY <2>2, <2>3, <2>5, <2>6 DEF Handle, Drafts
  <2>8. \A e \in Drafts : Handle(e)'
    BY <2>2, <2>5, <2>6, <2>7, OtherHandles
  <2>9. op' = Idle \/ op' = [at |-> "discard", d |-> d]
    BY <1>1 DEF SaveClean
  <2>10. op' \in Operations /\ InHand'
    BY <2>2, <2>3, <2>5, <2>6, <2>9 DEF Operations, InHand
  <2> QED BY <2>2, <2>5, <2>6, <2>8, <2>10
<1>2. CASE Discard
  <2>1. op \in [at : {"discard"}, d : Drafts] /\ op # Idle
    BY <1>2, OperationCarries DEF Discard, Idle
  <2> PICK d \in Drafts : d = op.d BY <2>1
  <2>2. UNCHANGED <<file, copies, held, owed, clock, opened>> /\ op' = Idle
    BY <1>2 DEF Discard, folderVars
  <2>3. disk' = [disk EXCEPT ![d] = NoDraft] /\ held[d] = None /\ d <= opened
    BY <1>2, <2>1 DEF Discard, InHand
  <2>6. disk' \in [Drafts -> DraftFiles] /\ disk'[d] = NoDraft
        /\ \A e \in Drafts : e # d => disk'[e] = disk[e]
    BY <2>3, EmptyFiles
  <2>7. Handle(d)'
    BY <2>2, <2>3, <2>6 DEF Handle, Drafts
  <2>8. \A e \in Drafts : Handle(e)'
    BY <2>2, <2>6, <2>7, OtherHandles
  <2> QED BY <2>2, <2>6, <2>8 DEF Operations, InHand
<1> QED BY <1>1, <1>2

\* Giving a draft up, closing it and suspending a download keep the shape.
LEMMA ClosingHandleKeepsShape ==
  ASSUME Shape, NEW d \in Drafts,
         Abort(d) \/ ReleaseClean(d) \/ SuspendDownload(d) \/ CloseHandle(d)
  PROVE  Shape'
<1> USE DEF Shape, Types
<1>1. /\ UNCHANGED <<file, copies, disk, opened, clock>> /\ op = Idle /\ held[d] # None
      /\ held' = [held EXCEPT ![d] = None]
      /\ op' = Idle \/ op' = [at |-> "discard", d |-> d]
      /\ owed' = owed \/ owed' = [owed EXCEPT ![d] = Nothing]
  BY DEF Abort, ReleaseClean, SuspendDownload, CloseHandle, Ready, folderVars, ghostVars
<1>2. disk[d].made /\ d <= opened
  BY <1>1 DEF Handle, Drafts
<1>3. Nothing \in [Blocks -> Nat]
  BY DEF Nothing, Hole
<1>4. Types'
  BY <1>1, <1>3 DEF Operations
<1>5. Handle(d)'
  BY <1>1, <1>2 DEF Handle, Drafts
<1>6. \A e \in Drafts : Handle(e)'
  BY <1>1, <1>5, OtherHandles
<1>7. InHand'
  BY <1>1, <1>2 DEF InHand
<1> QED BY <1>4, <1>6, <1>7

\* The lock, the unlock, the release and the peer's updates touch no draft.
LEMMA RestKeepsShape ==
  ASSUME Shape,
         \/ Lock \/ StopController \/ CloseStorage \/ Unlock \/ FinishOpening
         \/ ReleaseLocalCopy \/ CompleteRelease \/ PurgeVisible \/ StartReceive \/ EndReceive
         \/ UNCHANGED vars
  PROVE  Shape'
<1> USE DEF Shape, Types
<1>1. UNCHANGED <<disk, held, op, owed, opened>>
  BY DEF Lock, StopController, CloseStorage, Unlock, FinishOpening, ReleaseLocalCopy,
         CompleteRelease, PurgeVisible, StartReceive, EndReceive, ghostVars, vars
<1>2. file' \in Records /\ copies' \in [Drafts -> Records] /\ clock' \in Nat
  <2>1. CASE PurgeVisible
    BY <2>1, EmptyFiles DEF PurgeVisible
  <2>2. CASE EndReceive
    <3>1. clock' \in Nat /\ UNCHANGED copies
      BY <2>2 DEF EndReceive, Tick
    <3>2. <<clock'>> \in Contents /\ <<clock', clock'>> \in Contents /\ <<>> \in Contents
      <4>1. <<clock'>> \in [1..1 -> Nat] /\ <<clock', clock'>> \in [1..2 -> Nat]
        BY <3>1
      <4>2. <<>> \in Contents
        BY EmptyFiles DEF NoFile, Records
      <4> QED BY <4>1, <4>2 DEF Contents
    <3>3. \E c \in Contents, live \in BOOLEAN :
            file' = [ver |-> clock', live |-> live, content |-> c]
      <4>1. CASE file' = Record(<<clock'>>) \/ file' = Record(<<clock', clock'>>)
        BY <3>2, <4>1 DEF Record
      <4>2. CASE file' = [ver |-> clock', live |-> FALSE, content |-> <<>>]
        BY <3>2, <4>2
      <4> QED BY <2>2, <4>1, <4>2 DEF EndReceive
    <3>4. file' \in Records
      BY <3>1, <3>3 DEF Records
    <3> QED BY <3>1, <3>4
  <2>3. CASE ~PurgeVisible /\ ~EndReceive
    BY <2>3 DEF Lock, StopController, CloseStorage, Unlock, FinishOpening, ReleaseLocalCopy,
                CompleteRelease, StartReceive, folderVars, vars
  <2> QED BY <2>1, <2>2, <2>3
<1>3. \A d \in Drafts : Handle(d)'
  BY <1>1 DEF Handle
<1>4. InHand'
  BY <1>1 DEF InHand
<1> QED BY <1>1, <1>2, <1>3, <1>4

\* The purge of a draft keeps the shape: nothing is open any more.
LEMMA PurgeKeepsShape ==
  ASSUME Shape, Control, NEW d \in Drafts, PurgeDraft(d)
  PROVE  Shape'
<1> USE DEF Shape, Types
<1>1. UNCHANGED <<file, copies, held, op, owed, clock, opened>> /\ op = Idle
      /\ disk' = [disk EXCEPT ![d] = NoDraft]
  BY DEF PurgeDraft, Purging, folderVars, ghostVars
<1>2. held[d] = None
  BY DEF PurgeDraft, Purging, Control, Released
<1>3. disk' \in [Drafts -> DraftFiles] /\ disk'[d] = NoDraft
      /\ \A e \in Drafts : e # d => disk'[e] = disk[e]
  BY <1>1, EmptyFiles
<1>4. Handle(d)'
  BY <1>1, <1>2, <1>3 DEF Handle
<1>5. \A e \in Drafts : Handle(e)'
  BY <1>1, <1>3, <1>4, OtherHandles
<1> QED BY <1>1, <1>3, <1>5 DEF InHand

\* What a stop leaves of a removal is part of the draft.
LEMMA RemnantIsDraft ==
  ASSUME NEW k \in DraftFiles, NEW l \in Remnants(k)
  PROVE  l \in DraftFiles /\ l.made = k.made /\ l.head \in {None, k.head}
         /\ DOMAIN l.chunks \subseteq DOMAIN k.chunks
<1>1. PICK h \in {None, k.head}, b \in {<<>>, k.base}, left \in SUBSET DOMAIN k.chunks :
        l = Remnant(k, h, b, left)
  BY DEF Remnants
<1>2. PICK S \in SUBSET Blocks : k.chunks \in [S -> Nat]
  BY DEF DraftFiles, Chunks
<1> DEFINE chunks == [i \in left |-> k.chunks[i]]
<1>3. chunks \in [left -> Nat] /\ left \in SUBSET Blocks
  BY <1>2
<1>4. chunks \in Chunks /\ DOMAIN chunks = left
  BY <1>3 DEF Chunks
<1>5. b \in Contents
  BY EmptyFiles DEF NoDraft, DraftFiles
<1>6. l = [k EXCEPT !.head = h, !.base = b, !.chunks = chunks]
  BY <1>1 DEF Remnant
<1> HIDE DEF chunks
<1> QED BY <1>4, <1>5, <1>6 DEF DraftFiles

\* A stop keeps the shape: at most the draft in hand changes.
LEMMA CrashKeepsShape ==
  ASSUME Shape, Crash
  PROVE  Shape'
<1> USE DEF Shape, Types
<1>1. UNCHANGED <<file, copies, owed, clock, opened>> /\ op' = Idle
      /\ held' = [d \in Drafts |-> None]
  BY DEF Crash, folderVars, ghostVars
<1>2. \/ disk' = disk
      \/ \E d \in Drafts, k \in DraftFiles :
           d <= opened /\ k.made /\ disk' = [disk EXCEPT ![d] = k]
  <2>1. CASE op.at = "chunk" /\ disk' = [disk EXCEPT ![op.d] = Chunk(@)]
    <3>1. op \in [at : {"mark", "chunk", "head"}, d : Drafts, i : Blocks, token : Nat] /\ op # Idle
      BY <2>1, OperationCarries DEF Idle
    <3>2. Chunk(disk[op.d]) \in DraftFiles /\ Chunk(disk[op.d]).made = disk[op.d].made
      BY <3>1, OneChunk
    <3>3. disk[op.d].made /\ op.d <= opened
      BY <3>1 DEF InHand
    <3> QED BY <2>1, <3>1, <3>2, <3>3
  <2>2. CASE op.at = "discard" /\ \E k \in Remnants(disk[op.d]) : disk' = [disk EXCEPT ![op.d] = k]
    <3>1. op \in [at : {"discard"}, d : Drafts] /\ op # Idle
      BY <2>2, OperationCarries DEF Idle
    <3>2. PICK k \in Remnants(disk[op.d]) : disk' = [disk EXCEPT ![op.d] = k]
      BY <2>2
    <3>3. disk[op.d].made /\ op.d <= opened
      BY <3>1 DEF InHand
    <3>4. k \in DraftFiles /\ k.made
      BY <3>1, <3>3, RemnantIsDraft
    <3> QED BY <3>1, <3>2, <3>3, <3>4
  <2> QED BY <2>1, <2>2 DEF Crash
<1>3. disk' \in [Drafts -> DraftFiles]
      /\ \A e \in Drafts : disk'[e] = disk[e] \/ (e <= opened /\ disk'[e].made)
  BY <1>2
<1>4. \A e \in Drafts : Handle(e)'
  BY <1>1, <1>3 DEF Handle, Drafts
<1> QED BY <1>1, <1>3, <1>4 DEF Operations, InHand

\* Every step keeps the shape.
LEMMA NextKeepsShape == Shape /\ Control /\ [Next]_vars => Shape'
  BY OpenKeepsShape, OpeningKeepsShape, BeginWriteKeepsShape, WritingKeepsShape,
     PublishingKeepsShape, RecoveryKeepsShape, EndingKeepsShape, ClosingHandleKeepsShape,
     RestKeepsShape, PurgeKeepsShape, CrashKeepsShape
  DEF Next, SystemStep, UserStep, Closing, Unlocking, Releasing

\* The shape of the drafts holds throughout.
THEOREM ShapeHolds == Spec => []Shape
  BY ShapeInit, NextKeepsShape, ControlHolds, PTL DEF Spec

\* Every variable stays in its range, whatever the number of drafts.
THEOREM TypeCorrect == Spec => []TypeOK
<1>1. Shape /\ Control => TypeOK
  <2> SUFFICES ASSUME Shape, Control PROVE TypeOK OBVIOUS
  <2>1. \A c \in Contents : IsContent(c)
    BY DEF Contents, IsContent
  <2>2. \A f \in Records : IsRecord(f)
    BY <2>1 DEF Records, IsRecord
  <2>3. \A k \in Chunks : DOMAIN k \subseteq Blocks
    BY DEF Chunks
  <2>4. \A d \in Drafts :
          /\ IsContent(disk[d].base) /\ disk[d].made \in BOOLEAN
          /\ DOMAIN disk[d].chunks \subseteq Blocks
          /\ \A h \in {disk[d].head, held[d]} \ {None} : h \in Heads
          /\ owed[d] \in [Blocks -> Nat]
          /\ held[d] # None \/ disk[d] # NoDraft => disk[d].made
    BY <2>1, <2>3 DEF Shape, Types, DraftFiles, DraftHeads, Handle
  <2> QED BY <2>2, <2>4 DEF Shape, Types, Control, Phases, TypeOK
<1> QED BY <1>1, ShapeHolds, ControlHolds, PTL

-----------------------------------------------------------------------------
(* Acknowledged writes                                                     *)

PaidUp(d) == \A i \in Blocks : owed[d][i] = Hole

\* An acknowledged block that is not published yet is on disk, within the size
\* of a dirty head, as it was written or written again since.
Safe(d) ==
  \A i \in Blocks : owed[d][i] # Hole =>
    /\ Usable(disk[d]) /\ disk[d].head.dirty /\ i <= disk[d].head.size
    /\ i \in DOMAIN disk[d].chunks /\ disk[d].chunks[i] >= owed[d][i]
    /\ IF disk[d].head.dl THEN owed[d][i] = Fetched(i) ELSE owed[d][i] <= clock

\* A write carries a block as young as any acknowledged before; whatever else
\* is under way is on a draft that owes nothing.
Carried ==
  /\ op.at \in {"copy", "first", "clean", "discard"} => PaidUp(op.d)
  /\ op.at \in {"mark", "chunk", "head"} =>
       /\ op.token >= owed[op.d][op.i]
       /\ IF held[op.d].dl THEN op.token = Fetched(op.i) ELSE op.token <= clock
       /\ op.at # "mark" => held[op.d].dirty
       /\ op.at = "head" =>
            op.i \in DOMAIN disk[op.d].chunks /\ disk[op.d].chunks[op.i] = op.token

Kept == release = "none" => (\A d \in Drafts : Safe(d)) /\ Carried

\* In the beginning nothing was written.
LEMMA KeptInit == Init => Kept
  BY DEF Init, Kept, Safe, Carried, Idle, Nothing, Hole

\* A draft that a step does not touch stays safe, and so does one that owes
\* nothing.
LEMMA StaysSafe ==
  ASSUME Shape, Shape', NEW d \in Drafts,
         \/ PaidUp(d)'
         \/ Safe(d) /\ disk'[d] = disk[d] /\ owed'[d] = owed[d] /\ clock' >= clock
  PROVE  Safe(d)'
<1>1. CASE PaidUp(d)'
  BY <1>1 DEF PaidUp, Safe
<1>2. CASE Safe(d) /\ disk'[d] = disk[d] /\ owed'[d] = owed[d] /\ clock' >= clock
  BY <1>2 DEF Safe, Shape, Types
<1> QED BY <1>1, <1>2

\* A draft without a dirty head owes nothing.
LEMMA CleanOwesNothing ==
  ASSUME NEW d \in Drafts, Safe(d), ~(Usable(disk[d]) /\ disk[d].head.dirty)
  PROVE  PaidUp(d)
  BY DEF Safe, PaidUp

\* The content of a draft pays for everything it owes.
LEMMA ContentPays ==
  ASSUME Shape, NEW d \in Drafts, Safe(d), Paid(d, Content(disk[d], disk[d].head))
  PROVE  PaidUp(d)'
<1> DEFINE c == Content(disk[d], disk[d].head)
<1>1. \A i \in Blocks : owed[d][i] # Hole => Written(c)[i] >= owed[d][i]
  <2> SUFFICES ASSUME NEW i \in Blocks, owed[d][i] # Hole PROVE Written(c)[i] >= owed[d][i]
    OBVIOUS
  <2>1. /\ Usable(disk[d]) /\ i <= disk[d].head.size
        /\ i \in DOMAIN disk[d].chunks /\ disk[d].chunks[i] >= owed[d][i]
    BY DEF Safe
  <2>2. disk[d].head.size \in 0..2
    BY <2>1 DEF Shape, Types, DraftFiles, DraftHeads, Heads, Usable
  <2>3. i \in 1..disk[d].head.size
    BY <2>1, <2>2 DEF Blocks
  <2>4. i \in DOMAIN c /\ c[i] = disk[d].chunks[i]
    BY <2>1, <2>3 DEF Content
  <2> QED BY <2>1, <2>4 DEF Written
<1> HIDE DEF c
<1>2. \A i \in Blocks :
        owed'[d][i] = IF Written(c)[i] >= owed[d][i] THEN Hole ELSE owed[d][i]
  BY Pays DEF c, Shape, Types
<1> QED BY <1>1, <1>2 DEF PaidUp

\* Steps that touch neither a draft nor what it owes.
LEMMA QuietKeepsKept ==
  ASSUME Shape, Shape', Kept, release' = "none" => release = "none",
         UNCHANGED <<disk, owed>>, clock' >= clock,
         op' = Idle \/ (op' = op /\ held' = held)
  PROVE  Kept'
<1> SUFFICES ASSUME release = "none" PROVE (\A d \in Drafts : Safe(d)') /\ Carried'
  BY DEF Kept
<1>1. \A d \in Drafts : Safe(d)'
  BY StaysSafe DEF Kept
<1>2. ASSUME op' = Idle PROVE Carried'
  BY <1>2 DEF Carried, Idle
<1>3. ASSUME op' = op /\ held' = held PROVE Carried'
  <2>1. PaidUp(op.d) => PaidUp(op.d)'
    BY <1>3 DEF PaidUp
  <2>2. op.at \in {"mark", "chunk", "head"} => op.token \in Nat
    BY OperationCarries DEF Shape, Types
  <2> QED BY <1>3, <2>1, <2>2 DEF Carried, Kept, Shape, Types
<1> QED BY <1>1, <1>2, <1>3

\* Steps of an operation on a draft that owes nothing.
LEMMA PaidUpKeepsKept ==
  ASSUME Shape, Shape', Kept, release' = "none" => release = "none", NEW d \in Drafts,
         PaidUp(d)', clock' >= clock,
         \A e \in Drafts : e # d => disk'[e] = disk[e] /\ owed'[e] = owed[e],
         op' = Idle \/ (op'.at \in {"copy", "first", "clean", "discard"} /\ op'.d = d)
  PROVE  Kept'
<1> SUFFICES ASSUME release = "none" PROVE (\A e \in Drafts : Safe(e)') /\ Carried'
  BY DEF Kept
<1>1. \A e \in Drafts : Safe(e)'
  BY StaysSafe DEF Kept
<1>2. Carried'
  BY DEF Carried, Idle, PaidUp
<1> QED BY <1>1, <1>2

\* Opening a draft and resuming a download.
LEMMA OpeningKeepsKept ==
  ASSUME Shape, Shape', Kept,
         \/ \E d \in Drafts, mode \in {"edit", "truncate", "download"} : Open(d, mode)
         \/ Opening
  PROVE  Kept'
<1>1. release' = release /\ clock' = clock /\ clock \in Nat /\ UNCHANGED owed
  BY DEF Opening, Open, CopyBase, FirstHead, vaultVars, ghostVars, Shape, Types
<1>2. CASE \E d \in Drafts, mode \in {"edit", "truncate", "download"} : Open(d, mode)
  <2>1. PICK d \in Drafts, mode \in {"edit", "truncate", "download"} : Open(d, mode) BY <1>2
  <2>2. owed[d] = Nothing
    BY <2>1 DEF Open, Shape, Types, Handle
  <2>3. PaidUp(d)'
    BY <1>1, <2>2 DEF PaidUp, Nothing
  <2>4. op'.at \in {"copy", "first"} /\ op'.d = d
    BY <2>1 DEF Open
  <2>5. \A e \in Drafts : e # d => disk'[e] = disk[e]
    BY <2>1 DEF Open, Shape, Types
  <2> QED BY <1>1, <2>3, <2>4, <2>5, PaidUpKeepsKept
<1>3. CASE Opening
  <2>1. op \in [at : {"copy", "first"}, d : Drafts, head : DraftHeads] /\ op.at \in {"copy", "first"}
    BY <1>3, OperationCarries DEF Opening, CopyBase, FirstHead, Shape, Types
  <2> PICK d \in Drafts : d = op.d BY <2>1
  <2> SUFFICES ASSUME release = "none" PROVE Kept'
    BY <1>1 DEF Kept
  <2>2. PaidUp(d)'
    BY <1>1, <2>1 DEF PaidUp, Kept, Carried
  <2>3. \A e \in Drafts : e # d => disk'[e] = disk[e]
    BY <1>3 DEF Opening, CopyBase, FirstHead, SaveHead, Shape, Types
  <2>4. op' = Idle \/ (op'.at \in {"copy", "first", "clean", "discard"} /\ op'.d = d)
    BY <1>3, <2>1 DEF Opening, CopyBase, FirstHead, Goto
  <2> QED BY <1>1, <2>2, <2>3, <2>4, PaidUpKeepsKept
<1> QED BY <1>2, <1>3

\* A write is younger than what the draft owes.
LEMMA BeginWriteKeepsKept ==
  ASSUME Shape, Shape', Kept, NEW d \in Drafts, NEW i \in Blocks, BeginWrite(d, i)
  PROVE  Kept'
<1> USE DEF Shape, Types
<1>1. UNCHANGED <<disk, held, owed, release>> /\ held[d] # None
  BY DEF BeginWrite, folderVars, vaultVars, ghostVars
<1> SUFFICES ASSUME release = "none" PROVE (\A e \in Drafts : Safe(e)') /\ Carried'
  BY <1>1 DEF Kept
<1>2. held[d] \in DraftHeads /\ disk[d].head = held[d]
  BY <1>1 DEF Handle
<1>3. /\ op'.at \in {"mark", "chunk"} /\ op'.d = d /\ op'.i = i
      /\ op'.token = IF held[d].dl THEN Fetched(i) ELSE clock'
      /\ op'.at # "mark" => held[d].dirty
  BY DEF BeginWrite
<1>4. clock' \in Nat /\ clock' >= clock
  BY DEF BeginWrite, Tick
<1>5. owed[d][i] = Hole
      \/ IF held[d].dl THEN owed[d][i] = Fetched(i) ELSE owed[d][i] <= clock
  BY <1>2 DEF Kept, Safe
<1>6. op'.token >= owed[d][i]
  BY <1>3, <1>4, <1>5 DEF Hole, Fetched, Blocks
<1>7. Carried'
  BY <1>1, <1>3, <1>4, <1>6 DEF Carried
<1>8. \A e \in Drafts : Safe(e)'
  BY <1>1, <1>4, StaysSafe DEF Kept
<1> QED BY <1>7, <1>8

\* A head marked dirty is otherwise the same.
LEMMA DirtyHeads ==
  ASSUME NEW h \in DraftHeads
  PROVE  LET m == [h EXCEPT !.dirty = TRUE]
         IN m \in DraftHeads /\ m.dirty /\ m.size = h.size /\ m.dl = h.dl /\ m.base = h.base
  BY DEF DraftHeads, Heads

\* Marking the head, writing the block and saving the head, in this order,
\* leave every write that was acknowledged on disk under a dirty head.
LEMMA WritingKeepsKept ==
  ASSUME Shape, Shape', Kept, Writing
  PROVE  Kept'
<1> USE DEF Shape, Types
<1>1. op \in [at : {"mark", "chunk", "head"}, d : Drafts, i : Blocks, token : Nat] /\ op # Idle
  BY OperationCarries DEF Writing, MarkDirty, WriteChunk, Acknowledge, Idle
<1> PICK d \in Drafts : d = op.d BY <1>1
<1> PICK i \in Blocks : i = op.i BY <1>1
<1>2. held[d] # None /\ held[d] \in DraftHeads /\ disk[d].head = held[d]
      /\ Usable(disk[d]) /\ disk[d] \in DraftFiles
  BY <1>1 DEF InHand, Handle
<1>3. UNCHANGED <<clock, release>>
  BY DEF Writing, MarkDirty, WriteChunk, Acknowledge, vaultVars
<1> SUFFICES ASSUME release = "none" PROVE (\A e \in Drafts : Safe(e)') /\ Carried'
  BY <1>3 DEF Kept
<1>4. Safe(d) /\ op.token >= owed[d][i]
      /\ (IF held[d].dl THEN op.token = Fetched(i) ELSE op.token <= clock)
      /\ (op.at # "mark" => held[d].dirty)
      /\ (op.at = "head" => i \in DOMAIN disk[d].chunks /\ disk[d].chunks[i] = op.token)
  BY <1>1 DEF Kept, Carried
<1>5. CASE MarkDirty
  <2> PICK h \in DraftHeads : /\ h = [held[d] EXCEPT !.dirty = TRUE]
                              /\ h.dirty /\ h.size = held[d].size /\ h.dl = held[d].dl
                              /\ h.base = held[d].base
    BY <1>2, DirtyHeads
  <2>1. held' = [held EXCEPT ![d] = h] /\ SaveHead(d, h) /\ UNCHANGED owed
    BY <1>5 DEF MarkDirty, ghostVars
  <2>2. /\ disk'[d].chunks = disk[d].chunks /\ disk'[d].base = disk[d].base /\ disk'[d].head = h
        /\ \A e \in Drafts : e # d => disk'[e] = disk[e]
    BY <2>1, OneHead
  <2>3. held'[d] = h /\ h # None
    BY <2>1, NoneAssumption DEF DraftHeads
  <2>4. Usable(disk'[d])
    BY <1>2, <2>2, <2>3 DEF Usable
  <2>5. Safe(d)'
    BY <1>2, <1>3, <1>4, <2>1, <2>2, <2>4 DEF Safe
  <2>6. \A e \in Drafts : Safe(e)'
    BY <1>3, <2>1, <2>2, <2>5, StaysSafe DEF Kept
  <2>7. op' = [op EXCEPT !.at = "chunk"]
    BY <1>5 DEF MarkDirty, Goto
  <2>8. Carried'
    BY <1>1, <1>3, <1>4, <2>1, <2>3, <2>7 DEF Carried
  <2> QED BY <2>6, <2>8
<1>6. CASE WriteChunk
  <2>1. disk' = [disk EXCEPT ![d] = Chunk(disk[d])] /\ UNCHANGED <<held, owed>>
        /\ op' = [op EXCEPT !.at = "head"] /\ op.at = "chunk"
    BY <1>6 DEF WriteChunk, Goto, ghostVars
  <2>2. disk'[d] = Chunk(disk[d]) /\ \A e \in Drafts : e # d => disk'[e] = disk[e]
    BY <2>1
  <2>3. /\ Chunk(disk[d]).base = disk[d].base /\ Chunk(disk[d]).head = disk[d].head
        /\ DOMAIN Chunk(disk[d]).chunks = DOMAIN disk[d].chunks \cup {i}
        /\ Chunk(disk[d]).chunks[i] = op.token
        /\ \A j \in DOMAIN disk[d].chunks : j # i => Chunk(disk[d]).chunks[j] = disk[d].chunks[j]
    BY <1>1, <1>2, OneChunk
  <2>4. Usable(disk'[d])
    BY <1>2, <2>2, <2>3 DEF Usable
  <2>5. Safe(d)'
    BY <1>2, <1>3, <1>4, <2>1, <2>2, <2>3, <2>4 DEF Safe
  <2>6. \A e \in Drafts : Safe(e)'
    BY <1>3, <2>1, <2>2, <2>5, StaysSafe DEF Kept
  <2>7. Carried'
    BY <1>1, <1>3, <1>4, <2>1, <2>2, <2>3 DEF Carried
  <2> QED BY <2>6, <2>7
<1>7. CASE Acknowledge
  <2> PICK h \in DraftHeads : /\ h = NextHead(held[d])
                              /\ h.dirty = held[d].dirty /\ h.dl = held[d].dl
                              /\ h.base = held[d].base /\ h.size >= held[d].size /\ h.size >= i
    BY <1>1, <1>2, NextHeads
  <2>1. SaveHead(d, h) /\ op' = Idle /\ op.at = "head"
        /\ owed' = [owed EXCEPT ![d] = [owed[d] EXCEPT ![i] = op.token]]
    BY <1>7 DEF Acknowledge
  <2>2. /\ disk'[d].chunks = disk[d].chunks /\ disk'[d].base = disk[d].base /\ disk'[d].head = h
        /\ \A e \in Drafts : e # d => disk'[e] = disk[e]
    BY <2>1, OneHead
  <2>3. Usable(disk'[d])
    BY <1>2, <2>2, NoneAssumption DEF Usable, DraftHeads
  <2>4. /\ owed'[d][i] = op.token /\ \A j \in Blocks : j # i => owed'[d][j] = owed[d][j]
        /\ \A e \in Drafts : e # d => owed'[e] = owed[e]
    BY <2>1
  <2>5. h.size \in Int /\ held[d].size \in Int
    BY <1>2 DEF DraftHeads, Heads
  <2>6. Safe(d)'
    <3> SUFFICES ASSUME NEW j \in Blocks, owed'[d][j] # Hole
                 PROVE  /\ Usable(disk'[d]) /\ disk'[d].head.dirty /\ j <= disk'[d].head.size
                        /\ j \in DOMAIN disk'[d].chunks /\ disk'[d].chunks[j] >= owed'[d][j]
                        /\ IF disk'[d].head.dl THEN owed'[d][j] = Fetched(j) ELSE owed'[d][j] <= clock'
      BY DEF Safe
    <3>1. CASE j = i
      BY <1>1, <1>3, <1>4, <2>1, <2>2, <2>3, <2>4, <3>1
    <3>2. CASE j # i
      BY <1>2, <1>3, <1>4, <2>2, <2>3, <2>4, <2>5, <3>2 DEF Safe, Blocks
    <3> QED BY <3>1, <3>2
  <2>7. \A e \in Drafts : Safe(e)'
    BY <1>3, <2>2, <2>4, <2>6, StaysSafe DEF Kept
  <2> QED BY <2>1, <2>7 DEF Carried, Idle
<1> QED BY <1>5, <1>6, <1>7 DEF Writing

\* What a flush or a finished download publishes pays for the whole draft.
LEMMA PublishingKeepsKept ==
  ASSUME Shape, Shape', Kept, NEW d \in Drafts,
         (\E closes \in BOOLEAN : Flush(d, closes)) \/ FinishDownload(d)
  PROVE  Kept'
<1>1. UNCHANGED <<disk, release>> /\ held[d] # None /\ op = Idle
  BY DEF Flush, FinishDownload, Ready, vaultVars
<1> SUFFICES ASSUME release = "none" PROVE Kept'
  BY <1>1 DEF Kept
<1>2. CASE \E closes \in BOOLEAN : Publishes(d, held[d]) /\ Cleaned(d, held[d], clock', closes)
  <2>1. PICK closes \in BOOLEAN : Publishes(d, held[d]) /\ Cleaned(d, held[d], clock', closes)
    BY <1>2
  <2>2. held[d] \in DraftHeads /\ disk[d].head = held[d] /\ Usable(disk[d])
    BY <1>1 DEF Shape, Types, Handle
  <2>3. clock' = clock + 1 /\ clock \in Nat /\ Paid(d, Content(disk[d], held[d]))
    BY <2>1, <2>2, Publication1 DEF Shape, Types
  <2>4. PaidUp(d)'
    BY <2>2, <2>3, ContentPays DEF Kept
  <2>5. \A e \in Drafts : e # d => owed'[e] = owed[e]
    BY <2>3, Pays DEF Shape, Types
  <2>6. op'.at = "clean" /\ op'.d = d
    BY <2>1 DEF Cleaned
  <2> QED BY <1>1, <2>3, <2>4, <2>5, <2>6, PaidUpKeepsKept
<1>3. CASE UNCHANGED <<owed, clock>> /\ op' = op
  <2>1. clock' >= clock /\ op' = Idle
    BY <1>1, <1>3 DEF Shape, Types
  <2> QED BY <1>1, <1>3, <2>1, QuietKeepsKept
<1> QED BY <1>2, <1>3 DEF Flush, FinishDownload

\* The recovery publishes the whole draft, finds it published, or leaves it.
LEMMA RecoveryKeepsKept ==
  ASSUME Shape, Shape', Kept, NEW d \in Drafts, Recover(d)
  PROVE  Kept'
<1>1. UNCHANGED <<disk, release>> /\ op = Idle
  BY DEF Recover
<1> SUFFICES ASSUME release = "none" PROVE Kept'
  BY <1>1 DEF Kept
<1>2. CASE Recoverable(disk[d]) /\ disk[d].head.dirty /\ RecoverDirty(d, disk[d].head)
  <2> PICK h \in DraftHeads : h = disk[d].head
    BY <1>2 DEF Recoverable, Usable, Shape, Types, DraftFiles
  <2>1. RecoverDirty(d, h) /\ Usable(disk[d])
    BY <1>2 DEF Recoverable
  <2>2. clock' \in {clock, clock + 1} /\ Paid(d, Content(disk[d], h)) /\ op'.at = "clean" /\ op'.d = d
    <3>1. CASE Publishes(d, h) /\ Cleaned(d, h, clock', TRUE)
      BY <2>1, <3>1, Publication1 DEF Cleaned
    <3>2. CASE UNCHANGED clock /\ Matches(file, d) /\ Paid(d, file.content)
               /\ Cleaned(d, h, file.ver, TRUE)
      BY <3>2 DEF Matches, Cleaned
    <3>3. CASE UNCHANGED clock /\ Matches(copies[d], d) /\ Paid(d, copies[d].content)
               /\ Cleaned(d, h, h.ver, TRUE)
      BY <3>3 DEF Matches, Cleaned
    <3>4. CASE Tick /\ copies' = [copies EXCEPT ![d] = Record(Content(disk[d], h))]
               /\ Paid(d, copies'[d].content) /\ Cleaned(d, h, clock', TRUE)
      <4>1. copies'[d].content = Content(disk[d], h)
        BY <3>4 DEF Record, Shape, Types
      <4> QED BY <3>4, <4>1 DEF Tick, Cleaned
    <3> QED BY <2>1, <3>1, <3>2, <3>3, <3>4 DEF RecoverDirty
  <2>3. PaidUp(d)'
    BY <2>2, ContentPays DEF Kept
  <2>4. \A e \in Drafts : e # d => owed'[e] = owed[e]
    BY <2>2, Pays DEF Shape, Types
  <2>5. clock' >= clock
    BY <2>2 DEF Shape, Types
  <2> QED BY <1>1, <2>2, <2>3, <2>4, <2>5, PaidUpKeepsKept
<1>3. CASE /\ Recoverable(disk[d]) /\ ~disk[d].head.dirty
           /\ op' = [at |-> "discard", d |-> d]
           /\ UNCHANGED <<folderVars, owed, clock>>
  <2>1. PaidUp(d)
    BY <1>3, CleanOwesNothing DEF Kept
  <2>2. PaidUp(d)' /\ clock' >= clock
    BY <1>3, <2>1 DEF PaidUp, Shape, Types
  <2> QED BY <1>1, <1>3, <2>2, PaidUpKeepsKept
<1>4. CASE UNCHANGED <<folderVars, op, owed, clock>>
  <2>1. clock' >= clock /\ op' = Idle
    BY <1>1, <1>4 DEF Shape, Types
  <2> QED BY <1>1, <1>4, <2>1, QuietKeepsKept
<1> QED BY <1>2, <1>3, <1>4 DEF Recover

\* Only a draft that owes nothing is saved clean or removed.
LEMMA EndingKeepsKept ==
  ASSUME Shape, Shape', Kept, SaveClean \/ Discard
  PROVE  Kept'
<1>1. UNCHANGED <<owed, clock, release>> /\ clock' >= clock
  BY DEF SaveClean, Discard, vaultVars, ghostVars, Shape, Types
<1> SUFFICES ASSUME release = "none" PROVE Kept'
  BY <1>1 DEF Kept
<1>2. op.d \in Drafts /\ op.at \in {"clean", "discard"}
  BY OperationCarries DEF SaveClean, Discard, Shape, Types, Idle
<1> PICK d \in Drafts : d = op.d BY <1>2
<1>3. PaidUp(d)'
  BY <1>1, <1>2 DEF Kept, Carried, PaidUp
<1>4. \A e \in Drafts : e # d => disk'[e] = disk[e]
  BY DEF SaveClean, Discard, SaveHead, Shape, Types
<1>5. op' = Idle \/ (op'.at = "discard" /\ op'.d = d)
  BY DEF SaveClean, Discard
<1> QED BY <1>1, <1>3, <1>4, <1>5, PaidUpKeepsKept

\* A draft that is given up owes nothing any more; a clean one owed nothing;
\* a dirty one is left as it is.
LEMMA ClosingHandleKeepsKept ==
  ASSUME Shape, Shape', Kept, NEW d \in Drafts,
         Abort(d) \/ ReleaseClean(d) \/ SuspendDownload(d) \/ CloseHandle(d)
  PROVE  Kept'
<1>1. /\ UNCHANGED <<disk, clock, release>> /\ op = Idle /\ held[d] # None /\ clock' >= clock
  BY DEF Abort, ReleaseClean, SuspendDownload, CloseHandle, Ready, vaultVars, Shape, Types
<1> SUFFICES ASSUME release = "none" PROVE Kept'
  BY <1>1 DEF Kept
<1>2. disk[d].head = held[d]
  BY <1>1 DEF Shape, Handle
<1>3. CASE Abort(d)
  <2>1. owed' = [owed EXCEPT ![d] = Nothing] /\ op'.at = "discard" /\ op'.d = d
    BY <1>3 DEF Abort
  <2>2. PaidUp(d)' /\ \A e \in Drafts : e # d => owed'[e] = owed[e]
    BY <2>1 DEF PaidUp, Nothing, Shape, Types
  <2> QED BY <1>1, <2>1, <2>2, PaidUpKeepsKept
<1>4. CASE /\ ~held[d].dirty /\ op' = [at |-> "discard", d |-> d] /\ UNCHANGED owed
  <2>1. PaidUp(d)
    BY <1>2, <1>4, CleanOwesNothing DEF Kept
  <2>2. PaidUp(d)'
    BY <1>4, <2>1 DEF PaidUp
  <2> QED BY <1>1, <1>4, <2>2, PaidUpKeepsKept
<1>5. CASE op' = Idle /\ UNCHANGED owed
  BY <1>1, <1>5, QuietKeepsKept
<1> QED BY <1>1, <1>3, <1>4, <1>5
     DEF ReleaseClean, SuspendDownload, CloseHandle, ghostVars

\* The lock, the unlock, the release and the peer's updates touch no draft.
LEMMA RestKeepsKept ==
  ASSUME Shape, Shape', Kept,
         \/ Lock \/ StopController \/ CloseStorage \/ Unlock \/ FinishOpening
         \/ ReleaseLocalCopy \/ Releasing \/ StartReceive \/ EndReceive
         \/ \E d \in Drafts : ResumeDownload(d)
         \/ UNCHANGED vars
  PROVE  Kept'
<1>1. CASE ReleaseLocalCopy \/ Releasing
  BY <1>1 DEF ReleaseLocalCopy, Releasing, PurgeVisible, PurgeDraft, CompleteRelease, Purging,
              vaultVars, Kept
<1>2. CASE \/ Lock \/ StopController \/ CloseStorage \/ Unlock \/ FinishOpening
           \/ StartReceive \/ EndReceive \/ UNCHANGED vars
  <2>1. UNCHANGED <<disk, held, op, owed, release>>
    BY <1>2 DEF Lock, StopController, CloseStorage, Unlock, FinishOpening,
                StartReceive, EndReceive, vaultVars, ghostVars, vars
  <2>2. clock' \in {clock, clock + 1}
    BY <1>2 DEF Lock, StopController, CloseStorage, Unlock, FinishOpening,
                StartReceive, EndReceive, Tick, vars
  <2>3. clock' >= clock
    BY <2>2 DEF Shape, Types
  <2> QED BY <2>1, <2>3, QuietKeepsKept
<1>3. CASE \E d \in Drafts : ResumeDownload(d)
  <2>1. UNCHANGED <<disk, owed, release, clock>> /\ op' = Idle /\ clock' >= clock
    BY <1>3 DEF ResumeDownload, Ready, vaultVars, ghostVars, Shape, Types
  <2> QED BY <2>1, QuietKeepsKept
<1> QED BY <1>1, <1>2, <1>3

\* A stop keeps what is on disk; it may keep a block that was being written,
\* and cuts short only the removal of a draft that owes nothing.
LEMMA CrashKeepsKept ==
  ASSUME Shape, Shape', Kept, Crash
  PROVE  Kept'
<1>1. UNCHANGED <<owed, clock, release>> /\ op' = Idle /\ clock' >= clock
  BY DEF Crash, ghostVars, Shape, Types
<1> SUFFICES ASSUME release = "none" PROVE Kept'
  BY <1>1 DEF Kept
<1>2. CASE UNCHANGED disk
  BY <1>1, <1>2, QuietKeepsKept
<1>3. CASE op.at = "chunk" /\ disk' = [disk EXCEPT ![op.d] = Chunk(@)]
  <2>1. op \in [at : {"mark", "chunk", "head"}, d : Drafts, i : Blocks, token : Nat]
    BY <1>3, OperationCarries DEF Shape, Types
  <2> PICK d \in Drafts : d = op.d BY <2>1
  <2>2. disk'[d] = Chunk(disk[d]) /\ disk[d] \in DraftFiles
        /\ \A e \in Drafts : e # d => disk'[e] = disk[e]
    BY <1>3 DEF Shape, Types
  <2>3. /\ Chunk(disk[d]).base = disk[d].base /\ Chunk(disk[d]).head = disk[d].head
        /\ DOMAIN Chunk(disk[d]).chunks = DOMAIN disk[d].chunks \cup {op.i}
        /\ Chunk(disk[d]).chunks[op.i] = op.token
        /\ \A j \in DOMAIN disk[d].chunks :
             j # op.i => Chunk(disk[d]).chunks[j] = disk[d].chunks[j]
    BY <2>1, <2>2, OneChunk
  <2>4. Safe(d) /\ op.token >= owed[d][op.i]
    BY <1>3 DEF Kept, Carried
  <2>5. Usable(disk[d]) => Usable(disk'[d])
    BY <2>2, <2>3 DEF Usable
  <2>6. Safe(d)'
    BY <1>1, <2>2, <2>3, <2>4, <2>5 DEF Safe
  <2>7. \A e \in Drafts : Safe(e)'
    BY <1>1, <2>2, <2>6, StaysSafe DEF Kept
  <2> QED BY <1>1, <2>7 DEF Kept, Carried, Idle
<1>4. CASE op.at = "discard" /\ \E k \in Remnants(disk[op.d]) : disk' = [disk EXCEPT ![op.d] = k]
  <2>1. op.d \in Drafts
    BY <1>4, OperationCarries DEF Shape, Types
  <2> PICK d \in Drafts : d = op.d BY <2>1
  <2>2. PaidUp(d)'
    BY <1>1, <1>4 DEF Kept, Carried, PaidUp
  <2>3. \A e \in Drafts : e # d => disk'[e] = disk[e]
    BY <1>4 DEF Shape, Types
  <2> QED BY <1>1, <2>2, <2>3, PaidUpKeepsKept
<1> QED BY <1>2, <1>3, <1>4 DEF Crash

\* Every step keeps what is owed.
LEMMA NextKeepsKept == Shape /\ Shape' /\ Kept /\ [Next]_vars => Kept'
  BY OpeningKeepsKept, BeginWriteKeepsKept, WritingKeepsKept, PublishingKeepsKept,
     RecoveryKeepsKept, EndingKeepsKept, ClosingHandleKeepsKept, RestKeepsKept, CrashKeepsKept
  DEF Next, SystemStep, UserStep, Closing, Unlocking

\* What drafts owe is on disk, throughout.
THEOREM KeptHolds == Spec => []Kept
<1>1. Shape /\ [Next]_vars /\ Kept /\ Shape' => Kept'
  BY NextKeepsKept
<1> QED BY <1>1, KeptInit, ShapeHolds, PTL DEF Spec

\* A write that was acknowledged is published, or waits in a draft that the
\* next unlock recovers, unless its user gave it up or released the copy.
THEOREM WritesSurvive == Spec => []AcknowledgedWritesSurvive
<1>1. Shape /\ Kept => AcknowledgedWritesSurvive
  <2> SUFFICES ASSUME Shape, Kept, release = "none",
                      NEW d \in Drafts, NEW i \in Blocks, owed[d][i] # Hole
               PROVE  /\ Usable(disk[d]) /\ disk[d].head.dirty
                      /\ Written(Content(disk[d], disk[d].head))[i] >= owed[d][i]
    BY DEF AcknowledgedWritesSurvive
  <2>1. /\ Usable(disk[d]) /\ disk[d].head.dirty /\ i <= disk[d].head.size
        /\ i \in DOMAIN disk[d].chunks /\ disk[d].chunks[i] >= owed[d][i]
    BY DEF Kept, Safe
  <2>2. disk[d].head.size \in 0..2
    BY <2>1 DEF Shape, Types, DraftFiles, DraftHeads, Heads, Usable
  <2>3. i \in 1..disk[d].head.size
    BY <2>1, <2>2 DEF Blocks
  <2>4. Written(Content(disk[d], disk[d].head))[i] = disk[d].chunks[i]
    BY <2>1, <2>3 DEF Content, Written
  <2> QED BY <2>1, <2>4
<1> QED BY <1>1, ShapeHolds, KeptHolds, PTL

-----------------------------------------------------------------------------
(* A draft follows its document: the version in its head is the document's, *)
(* or somebody else changed the document after the draft was opened, or the *)
(* draft was published and its head not saved yet.                         *)

Following(d, h) == file.ver = h.ver \/ d \in rivals

JustPublished(d) ==
  /\ disk[d].head.dirty /\ Matches(file, d)
  /\ held[d] # None => op.at = "clean" /\ op.d = d
  /\ op.at = "discard" => op.d # d

Linked ==
  release = "none" =>
    /\ \A d \in Drafts : disk[d].head # None /\ ~disk[d].head.dl =>
         Following(d, disk[d].head) \/ JustPublished(d)
    /\ op.at \in {"copy", "first", "clean"} => op.head.dl \/ Following(op.d, op.head)

\* In the beginning there is no draft.
LEMMA LinkedInit == Init => Linked
  BY DEF Init, Linked, NoDraft, Idle

\* A draft that a step does not touch follows its document as before, if the
\* step notes whose document it changed.
LEMMA StaysLinked ==
  ASSUME NEW d \in Drafts, disk'[d] = disk[d],
         Following(d, disk[d].head) \/ JustPublished(d),
         \/ d \in rivals'
         \/ /\ file' = file /\ (d \in rivals => d \in rivals')
            /\ held'[d] # None => held[d] # None /\ op' = op
            /\ op'.at = "discard" => op'.d # d \/ op' = op
  PROVE  Following(d, disk[d].head)' \/ JustPublished(d)'
  BY DEF Following, JustPublished, Matches

\* A draft with an open handle, or with an operation other than the end of a
\* publication under way, follows its document.
LEMMA HandlesFollow ==
  ASSUME Linked, release = "none", NEW d \in Drafts,
         disk[d].head # None, ~disk[d].head.dl,
         \/ ~disk[d].head.dirty
         \/ held[d] # None /\ ~(op.at = "clean" /\ op.d = d)
         \/ op.at = "discard" /\ op.d = d
  PROVE  Following(d, disk[d].head)
  BY DEF Linked, JustPublished

\* Steps on one draft: the others follow their document as before, if the
\* step changes no document or notes whose.
LEMMA OneDraftKeepsLinked ==
  ASSUME Linked, release' = "none" => release = "none", NEW d \in Drafts,
         \A e \in Drafts : e # d =>
            disk'[e] = disk[e] /\ (held'[e] # None => held[e] # None /\ (op' = op \/ ~JustPublished(e))),
         \/ \A e \in Drafts : e # d /\ disk[e].head # None => e \in rivals'
         \/ file' = file /\ \A e \in Drafts : e # d /\ e \in rivals => e \in rivals',
         op'.at = "discard" => op'.d = d,
         disk'[d].head # None /\ ~disk'[d].head.dl =>
            Following(d, disk[d].head)' \/ JustPublished(d)',
         op'.at \in {"copy", "first", "clean"} => op'.head.dl \/ Following(op.d, op.head)'
  PROVE  Linked'
<1> SUFFICES ASSUME release = "none", NEW e \in Drafts, e # d,
                    disk[e].head # None, ~disk[e].head.dl
             PROVE  Following(e, disk[e].head)' \/ JustPublished(e)'
  BY DEF Linked
<1>1. Following(e, disk[e].head) \/ JustPublished(e)
  BY DEF Linked
<1> QED BY <1>1, StaysLinked DEF Following, JustPublished, Matches

\* Opening a draft: its head carries the version the document had.
LEMMA OpeningKeepsLinked ==
  ASSUME Shape, Shape', Linked,
         \/ \E d \in Drafts, mode \in {"edit", "truncate", "download"} : Open(d, mode)
         \/ Opening
  PROVE  Linked'
<1>1. UNCHANGED <<file, release, rivals>>
  BY DEF Opening, Open, CopyBase, FirstHead, folderVars, vaultVars, ghostVars
<1>2. CASE \E d \in Drafts, mode \in {"edit", "truncate", "download"} : Open(d, mode)
  <2>1. PICK d \in Drafts, mode \in {"edit", "truncate", "download"} : Open(d, mode) BY <1>2
  <2>2. op'.at \in {"copy", "first"} /\ op'.d = d /\ op'.head.ver = file.ver
        /\ op = Idle /\ UNCHANGED held
    BY <2>1 DEF Open, Ready, ghostVars
  <2>3. \A e \in Drafts : e # d => disk'[e] = disk[e]
    BY <2>1 DEF Open, Shape, Types
  <2>4. disk'[d].head = None
    BY <2>2 DEF Shape, InHand, Idle
  <2>5. \A e \in Drafts : held[e] # None => ~JustPublished(e)
    BY <2>2 DEF JustPublished, Idle
  <2>6. Following(op.d, op.head)'
    BY <1>1, <2>2 DEF Following
  <2> QED BY <1>1, <2>2, <2>3, <2>4, <2>5, <2>6, OneDraftKeepsLinked
<1>3. CASE Opening
  <2>1. op \in [at : {"copy", "first"}, d : Drafts, head : DraftHeads]
        /\ op.at \in {"copy", "first"} /\ op # Idle
    BY <1>3, OperationCarries DEF Opening, CopyBase, FirstHead, Shape, Types, Idle
  <2> PICK d \in Drafts : d = op.d BY <2>1
  <2>2. \A e \in Drafts : e # d => disk'[e] = disk[e] /\ held'[e] = held[e]
    BY <1>3 DEF Opening, CopyBase, FirstHead, SaveHead, Shape, Types, ghostVars
  <2>3. \A e \in Drafts : held[e] # None => ~JustPublished(e)
    BY <2>1 DEF JustPublished
  <2> SUFFICES ASSUME release = "none" PROVE Linked'
    BY <1>1 DEF Linked
  <2>4. op.head.dl \/ Following(d, op.head)
    BY <2>1 DEF Linked
  <2>5. CASE CopyBase
    <3>1. op' = Idle \/ (op'.at = "first" /\ op'.d = op.d /\ op'.head = op.head)
      BY <2>1, <2>5 DEF CopyBase, Goto
    <3>2. disk'[d].head = None
      <4>1. disk[d].head = None /\ disk[d] \in DraftFiles
        BY <2>1 DEF Shape, Types, InHand
      <4>2. disk' = disk \/ disk' = [disk EXCEPT ![d] = [@ EXCEPT !.base = file.content]]
        BY <2>5 DEF CopyBase
      <4> QED BY <4>1, <4>2 DEF Shape, Types, DraftFiles
    <3>3. op'.at \in {"copy", "first", "clean"} => op'.head.dl \/ Following(op.d, op.head)'
      BY <1>1, <2>4, <3>1 DEF Following, Idle
    <3> QED BY <1>1, <2>2, <2>3, <3>1, <3>2, <3>3, OneDraftKeepsLinked DEF Idle
  <2>6. CASE FirstHead
    <3>1. op' = Idle /\ SaveHead(d, op.head) /\ op.head \in DraftHeads
      BY <2>1, <2>6 DEF FirstHead
    <3>2. disk'[d].head = op.head
      BY <3>1, OneHead DEF Shape, Types
    <3>3. ~disk'[d].head.dl => Following(d, disk[d].head)'
      BY <1>1, <2>4, <3>2 DEF Following
    <3> QED BY <1>1, <2>2, <2>3, <3>1, <3>3, OneDraftKeepsLinked DEF Idle
  <2> QED BY <1>3, <2>5, <2>6 DEF Opening
<1> QED BY <1>2, <1>3

\* A write keeps the version of the head.
LEMMA WritingKeepsLinked ==
  ASSUME Shape, Shape', Linked,
         (\E d \in Drafts, i \in Blocks : BeginWrite(d, i)) \/ Writing
  PROVE  Linked'
<1>1. UNCHANGED <<file, release, rivals>>
  BY DEF Writing, BeginWrite, MarkDirty, WriteChunk, Acknowledge, folderVars, vaultVars, ghostVars
<1> SUFFICES ASSUME release = "none" PROVE Linked'
  BY <1>1 DEF Linked
<1>2. CASE \E d \in Drafts, i \in Blocks : BeginWrite(d, i)
  <2>1. PICK d \in Drafts, i \in Blocks : BeginWrite(d, i) BY <1>2
  <2>2. UNCHANGED <<disk, held>> /\ op = Idle /\ op'.at \in {"mark", "chunk"} /\ held[d] # None
    BY <2>1 DEF BeginWrite, Ready, ghostVars
  <2>3. \A e \in Drafts : held[e] # None => ~JustPublished(e)
    BY <2>2 DEF JustPublished, Idle
  <2>4. disk[d].head # None /\ ~disk[d].head.dl => Following(d, disk[d].head)'
    BY <1>1, <2>2, HandlesFollow DEF Idle, Following
  <2> QED BY <1>1, <2>2, <2>3, <2>4, OneDraftKeepsLinked
<1>3. CASE Writing
  <2>1. op \in [at : {"mark", "chunk", "head"}, d : Drafts, i : Blocks, token : Nat] /\ op # Idle
        /\ op.at \in {"mark", "chunk", "head"}
    BY <1>3, OperationCarries DEF Writing, MarkDirty, WriteChunk, Acknowledge, Idle, Shape, Types
  <2> PICK d \in Drafts : d = op.d BY <2>1
  <2>2. held[d] # None /\ held[d] \in DraftHeads /\ disk[d].head = held[d] /\ disk[d] \in DraftFiles
    BY <2>1 DEF Shape, Types, InHand, Handle
  <2>3. \A e \in Drafts : held[e] # None => ~JustPublished(e)
    BY <2>1 DEF JustPublished
  <2>4. op' = Idle \/ op'.at \in {"chunk", "head"}
    BY <1>3, <2>1 DEF Writing, MarkDirty, WriteChunk, Acknowledge, Goto
  <2>5. ~held[d].dl => Following(d, held[d])
    BY <2>1, <2>2, HandlesFollow
  <2>6. /\ disk'[d].head.ver = held[d].ver /\ disk'[d].head.dl = held[d].dl
        /\ \A e \in Drafts : e # d => disk'[e] = disk[e] /\ held'[e] = held[e]
    <3>1. CASE MarkDirty \/ Acknowledge
      <4>1. PICK h \in DraftHeads : /\ h.ver = held[d].ver /\ h.dl = held[d].dl
                                    /\ held' = [held EXCEPT ![d] = h] /\ SaveHead(d, h)
        <5>1. CASE MarkDirty
          <6>1. [held[d] EXCEPT !.dirty = TRUE] \in DraftHeads
                /\ [held[d] EXCEPT !.dirty = TRUE].ver = held[d].ver
                /\ [held[d] EXCEPT !.dirty = TRUE].dl = held[d].dl
            BY <2>2, DirtyHeads DEF DraftHeads, Heads
          <6>2. held' = [held EXCEPT ![d] = [held[d] EXCEPT !.dirty = TRUE]]
                /\ SaveHead(d, [held[d] EXCEPT !.dirty = TRUE])
            BY <5>1 DEF MarkDirty, Shape, Types
          <6> QED BY <6>1, <6>2
        <5>2. CASE Acknowledge
          <6>1. NextHead(held[d]) \in DraftHeads /\ NextHead(held[d]).ver = held[d].ver
                /\ NextHead(held[d]).dl = held[d].dl
            BY <2>1, <2>2, NextHeads
          <6>2. held' = [held EXCEPT ![d] = NextHead(held[d])] /\ SaveHead(d, NextHead(held[d]))
            BY <5>2 DEF Acknowledge, Shape, Types
          <6> QED BY <6>1, <6>2
        <5> QED BY <3>1, <5>1, <5>2
      <4>2. disk'[d].head = h /\ \A e \in Drafts : e # d => disk'[e] = disk[e]
        BY <4>1, OneHead DEF Shape, Types
      <4> QED BY <4>1, <4>2 DEF Shape, Types
    <3>2. CASE WriteChunk
      <4>1. disk' = [disk EXCEPT ![d] = Chunk(disk[d])] /\ UNCHANGED held
        BY <3>2 DEF WriteChunk
      <4>2. Chunk(disk[d]).head = disk[d].head
        BY <2>1, <2>2, OneChunk
      <4> QED BY <2>2, <4>1, <4>2 DEF Shape, Types
    <3> QED BY <1>3, <3>1, <3>2 DEF Writing
  <2>7. ~disk'[d].head.dl => Following(d, disk[d].head)'
    BY <1>1, <2>5, <2>6 DEF Following
  <2> QED BY <1>1, <2>3, <2>4, <2>6, <2>7, OneDraftKeepsLinked DEF Idle
<1> QED BY <1>2, <1>3

\* Who publishes changes the document of all others, and has the version it
\* published in its clean head.
LEMMA PublicationLinks ==
  ASSUME Shape, Linked, release' = "none" => release = "none",
         NEW d \in Drafts, NEW closes \in BOOLEAN,
         disk[d].head \in DraftHeads, disk[d].head.dirty, Usable(disk[d]), op = Idle,
         Publishes(d, disk[d].head), Cleaned(d, disk[d].head, clock', closes),
         UNCHANGED <<disk, held>>
  PROVE  Linked'
<1> PICK h \in DraftHeads : h = disk[d].head OBVIOUS
<1>1. /\ file' = [ver |-> clock', live |-> TRUE, content |-> Content(disk[d], h)]
      /\ rivals' = rivals \cup (1..opened \ {d}) /\ clock' \in Nat
  BY DEF Publishes, Record, Tick, Shape, Types
<1>2. op'.at = "clean" /\ op'.d = d /\ op'.head.ver = clock'
  BY <1>1, Cleans
<1>3. Matches(file, d)'
  BY <1>1 DEF Matches
<1>4. JustPublished(d)'
  BY <1>2, <1>3 DEF JustPublished
<1>5. Following(op.d, op.head)'
  BY <1>1, <1>2 DEF Following
<1>6. \A e \in Drafts : e # d /\ disk[e].head # None => e \in rivals'
  BY <1>1 DEF Shape, Types, Handle, NoDraft, Drafts
<1>7. \A e \in Drafts : held[e] # None => ~JustPublished(e)
  BY DEF JustPublished, Idle
<1> QED BY <1>2, <1>4, <1>5, <1>6, <1>7, OneDraftKeepsLinked

\* A flush and the end of a download.
LEMMA PublishingKeepsLinked ==
  ASSUME Shape, Shape', Linked, NEW d \in Drafts,
         (\E closes \in BOOLEAN : Flush(d, closes)) \/ FinishDownload(d)
  PROVE  Linked'
<1>1. UNCHANGED <<disk, release>> /\ held[d] # None /\ op = Idle /\ held[d].dirty
  BY DEF Flush, FinishDownload, Ready, vaultVars
<1>2. held[d] \in DraftHeads /\ disk[d].head = held[d] /\ Usable(disk[d])
  BY <1>1 DEF Shape, Types, Handle
<1> SUFFICES ASSUME release = "none" PROVE Linked'
  BY <1>1 DEF Linked
<1>3. CASE UNCHANGED held
           /\ \E closes \in BOOLEAN : Publishes(d, held[d]) /\ Cleaned(d, held[d], clock', closes)
  BY <1>1, <1>2, <1>3, PublicationLinks
<1>4. CASE held' = [held EXCEPT ![d] = None] /\ UNCHANGED <<file, op, rivals>>
  <2>1. disk[d].head # None /\ ~disk[d].head.dl => Following(d, disk[d].head)'
    BY <1>1, <1>4, HandlesFollow DEF Following, Idle
  <2> QED BY <1>1, <1>4, <2>1, OneDraftKeepsLinked DEF Shape, Types, Idle
<1> QED BY <1>3, <1>4 DEF Flush, FinishDownload, folderVars

\* The recovery of a dirty draft, by its cases.
LEMMA RecoveryCases ==
  ASSUME Shape, NEW d \in Drafts, Recover(d), op' # op, disk[d].head.dirty
  PROVE  /\ disk[d].head \in DraftHeads /\ ~disk[d].head.dl /\ Usable(disk[d])
         /\ RecoverDirty(d, disk[d].head)
  BY DEF Recover, Recoverable, Usable, Shape, Types, DraftFiles

\* The recovery publishes a draft, or finds it published, or sets it aside;
\* its clean head then has the version of what was found.
LEMMA RecoveryKeepsLinked ==
  ASSUME Shape, Shape', Linked, NEW d \in Drafts, Recover(d)
  PROVE  Linked'
<1>1. UNCHANGED <<disk, held, release>> /\ op = Idle
  BY DEF Recover
<1> SUFFICES ASSUME release = "none" PROVE Linked'
  BY <1>1 DEF Linked
<1>2. \A e \in Drafts : held[e] # None => ~JustPublished(e)
  BY <1>1 DEF JustPublished, Idle
<1>3. CASE op' # op /\ disk[d].head.dirty
  <2> PICK h \in DraftHeads : h = disk[d].head
    BY <1>3, RecoveryCases
  <2>1. ~h.dl /\ Usable(disk[d]) /\ RecoverDirty(d, h)
    BY <1>3, RecoveryCases
  <2>2. Following(d, h) \/ JustPublished(d)
    BY <2>1 DEF Linked, Usable
  <2>3. CASE Publishes(d, h) /\ Cleaned(d, h, clock', TRUE)
    BY <1>1, <1>3, <2>1, <2>3, PublicationLinks
  <2>4. CASE UNCHANGED <<file, rivals>> /\ file.ver # h.ver
             /\ \E ver \in Nat : Cleaned(d, h, ver, TRUE) /\ (ver = file.ver \/ ~Matches(file, d))
    <3>1. PICK ver \in Nat : Cleaned(d, h, ver, TRUE) /\ (ver = file.ver \/ ~Matches(file, d))
      BY <2>4
    <3>2. op'.at = "clean" /\ op'.d = d /\ op'.head.ver = ver
      BY <3>1, Cleans
    <3>3. ver = file.ver \/ d \in rivals
      BY <2>2, <2>4, <3>1 DEF Following, JustPublished
    <3>4. Following(op.d, op.head)'
      BY <2>4, <3>2, <3>3 DEF Following
    <3>5. Following(d, disk[d].head)' \/ JustPublished(d)'
      BY <1>1, <2>2, <2>4, <3>2 DEF Following, JustPublished, Matches, Idle
    <3> QED BY <1>1, <1>2, <2>4, <3>2, <3>4, <3>5, OneDraftKeepsLinked
  <2>5. file.ver \in Nat /\ h.ver \in Nat /\ (Tick => clock' \in Nat)
    BY DEF Shape, Types, Records, DraftHeads, Heads, Tick
  <2> QED BY <2>1, <2>3, <2>4, <2>5 DEF RecoverDirty, folderVars
<1>4. CASE op' # op /\ ~disk[d].head.dirty
  <2>1. UNCHANGED <<file, rivals>> /\ op' = [at |-> "discard", d |-> d]
    BY <1>4 DEF Recover, folderVars
  <2>2. disk[d].head # None /\ ~disk[d].head.dl => Following(d, disk[d].head)'
    BY <1>1, <1>4, <2>1, HandlesFollow DEF Following
  <2> QED BY <1>1, <1>2, <2>1, <2>2, OneDraftKeepsLinked
<1>5. CASE op' = op
  <2>1. ~(\E ver, closes : Cleaned(d, disk[d].head, ver, closes)) /\ op' # [at |-> "discard", d |-> d]
    BY <1>1, <1>5 DEF Cleaned, Idle
  <2>2. UNCHANGED <<file, rivals>>
    BY <2>1 DEF Recover, RecoverDirty, folderVars
  <2>3. disk[d].head # None /\ ~disk[d].head.dl => Following(d, disk[d].head)' \/ JustPublished(d)'
    BY <1>1, <1>5, <2>2 DEF Linked, Following, JustPublished, Matches
  <2> QED BY <1>1, <1>5, <2>2, <2>3, OneDraftKeepsLinked DEF Idle
<1> QED BY <1>3, <1>4, <1>5

\* A draft saved clean has the version it was published as; a removed one is
\* gone; one that is given up or closed has followed its document.
LEMMA EndingKeepsLinked ==
  ASSUME Shape, Shape', Linked,
         \/ SaveClean \/ Discard
         \/ \E d \in Drafts : \/ Abort(d) \/ ReleaseClean(d) \/ SuspendDownload(d)
                            \/ CloseHandle(d) \/ ResumeDownload(d)
  PROVE  Linked'
<1>1. UNCHANGED <<file, release>>
  BY DEF SaveClean, Discard, Abort, ReleaseClean, SuspendDownload, CloseHandle, ResumeDownload,
         folderVars, vaultVars
<1> SUFFICES ASSUME release = "none" PROVE Linked'
  BY <1>1 DEF Linked
<1>2. CASE SaveClean
  <2>1. op \in [at : {"clean"}, d : Drafts, closes : BOOLEAN, head : DraftHeads] /\ op.at = "clean"
    BY <1>2, OperationCarries DEF SaveClean, Shape, Types
  <2> PICK d \in Drafts : d = op.d BY <2>1
  <2>2. SaveHead(d, op.head) /\ UNCHANGED rivals
        /\ (op' = Idle \/ op' = [at |-> "discard", d |-> d])
        /\ \A e \in Drafts : e # d => held'[e] = held[e]
    BY <1>2 DEF SaveClean, ghostVars, Shape, Types
  <2>3. disk'[d].head = op.head /\ \A e \in Drafts : e # d => disk'[e] = disk[e]
    BY <2>1, <2>2, OneHead DEF Shape, Types
  <2>4. op.head.dl \/ Following(d, op.head)
    BY <2>1 DEF Linked
  <2>5. ~disk'[d].head.dl => Following(d, disk[d].head)'
    BY <1>1, <2>2, <2>3, <2>4 DEF Following
  <2>6. \A e \in Drafts : e # d /\ held[e] # None => ~JustPublished(e)
    BY <2>1 DEF JustPublished
  <2> QED BY <1>1, <2>2, <2>3, <2>5, <2>6, OneDraftKeepsLinked DEF Idle
<1>3. CASE Discard
  <2>1. op.d \in Drafts /\ op.at = "discard"
    BY <1>3, OperationCarries DEF Discard, Shape, Types, Idle
  <2> PICK d \in Drafts : d = op.d BY <2>1
  <2>2. /\ disk'[d] = NoDraft /\ \A e \in Drafts : e # d => disk'[e] = disk[e]
        /\ rivals' = rivals \ {d} /\ UNCHANGED held /\ op' = Idle
    BY <1>3 DEF Discard, Shape, Types
  <2>3. \A e \in Drafts : held[e] # None => ~JustPublished(e)
    BY <2>1 DEF JustPublished
  <2> QED BY <1>1, <2>2, <2>3, OneDraftKeepsLinked DEF Idle, NoDraft
<1>4. CASE \E d \in Drafts : ResumeDownload(d)
  <2>1. PICK d \in Drafts : ResumeDownload(d) BY <1>4
  <2>2. UNCHANGED <<disk, op, rivals>> /\ disk[d].head.dl /\ op = Idle
        /\ \A e \in Drafts : e # d => held'[e] = held[e]
    BY <2>1 DEF ResumeDownload, Ready, ghostVars, Shape, Types
  <2> QED BY <1>1, <2>2, OneDraftKeepsLinked DEF Idle
<1>5. CASE \E d \in Drafts : Abort(d) \/ ReleaseClean(d) \/ SuspendDownload(d) \/ CloseHandle(d)
  <2>1. PICK d \in Drafts : Abort(d) \/ ReleaseClean(d) \/ SuspendDownload(d) \/ CloseHandle(d)
    BY <1>5
  <2>2. /\ UNCHANGED <<disk, rivals>> /\ op = Idle /\ held[d] # None
        /\ op' = Idle \/ op' = [at |-> "discard", d |-> d]
        /\ \A e \in Drafts : e # d => held'[e] = held[e]
    BY <2>1 DEF Abort, ReleaseClean, SuspendDownload, CloseHandle, Ready, ghostVars, Shape, Types
  <2>3. disk[d].head # None /\ ~disk[d].head.dl => Following(d, disk[d].head)'
    BY <1>1, <2>2, HandlesFollow DEF Following, Idle
  <2>4. \A e \in Drafts : held[e] # None => ~JustPublished(e)
    BY <2>2 DEF JustPublished, Idle
  <2> QED BY <1>1, <2>2, <2>3, <2>4, OneDraftKeepsLinked DEF Idle
<1> QED BY <1>2, <1>3, <1>4, <1>5

\* The lock, the unlock and the release touch no draft; a peer's update
\* changes the document of every draft.
LEMMA RestKeepsLinked ==
  ASSUME Shape, Shape', Linked,
         \/ Lock \/ StopController \/ CloseStorage \/ Unlock \/ FinishOpening
         \/ ReleaseLocalCopy \/ Releasing \/ StartReceive \/ EndReceive \/ UNCHANGED vars
  PROVE  Linked'
<1>1. CASE ReleaseLocalCopy \/ Releasing
  BY <1>1 DEF ReleaseLocalCopy, Releasing, PurgeVisible, PurgeDraft, CompleteRelease, Purging,
              vaultVars, Linked
<1>2. CASE \/ Lock \/ StopController \/ CloseStorage \/ Unlock \/ FinishOpening
           \/ StartReceive \/ UNCHANGED vars
  <2>1. UNCHANGED <<file, disk, held, op, release, rivals>>
    BY <1>2 DEF Lock, StopController, CloseStorage, Unlock, FinishOpening, StartReceive,
                folderVars, vaultVars, ghostVars, vars
  <2> QED BY <2>1 DEF Linked, Following, JustPublished, Matches
<1>3. CASE EndReceive
  <2>1. UNCHANGED <<disk, held, op, release, opened>> /\ rivals' = 1..opened
    BY <1>3 DEF EndReceive, vaultVars
  <2>2. \A d \in Drafts : disk[d].head # None => d \in rivals'
    BY <2>1 DEF Shape, Types, Handle, NoDraft, Drafts
  <2>3. op # Idle => op.d \in rivals'
    BY <2>1, OperationCarries DEF Shape, Types, InHand, Drafts
  <2> QED BY <2>1, <2>2, <2>3 DEF Linked, Following, Idle
<1> QED BY <1>1, <1>2, <1>3

\* A stop closes the handles; the draft in hand has followed its document.
LEMMA CrashKeepsLinked ==
  ASSUME Shape, Shape', Linked, Crash
  PROVE  Linked'
<1>1. UNCHANGED <<file, rivals, release>> /\ op' = Idle /\ held' = [d \in Drafts |-> None]
  BY DEF Crash, folderVars, ghostVars
<1> SUFFICES ASSUME release = "none" PROVE Linked'
  BY <1>1 DEF Linked
<1>2. CASE UNCHANGED disk
  <2>1. \A d \in Drafts : JustPublished(d) => JustPublished(d)'
    BY <1>1, <1>2 DEF JustPublished, Matches, Idle
  <2> QED BY <1>1, <1>2, <2>1 DEF Linked, Following, Idle
<1>3. CASE op.at \in {"chunk", "discard"}
           /\ \E k : disk' = [disk EXCEPT ![op.d] = k] /\ k.head \in {None, disk[op.d].head}
  <2>1. op.d \in Drafts /\ op # Idle
    BY <1>3, OperationCarries DEF Shape, Types, Idle
  <2> PICK d \in Drafts : d = op.d BY <2>1
  <2>2. disk'[d].head \in {None, disk[d].head} /\ \A e \in Drafts : e # d => disk'[e] = disk[e]
    BY <1>3 DEF Shape, Types
  <2>3. op.at = "chunk" => held[d] # None
    BY <2>1 DEF Shape, InHand
  <2>4. disk[d].head # None /\ ~disk[d].head.dl => Following(d, disk[d].head)
    BY <1>3, <2>3, HandlesFollow
  <2>5. disk'[d].head # None /\ ~disk'[d].head.dl => Following(d, disk[d].head)'
    BY <1>1, <2>2, <2>4 DEF Following
  <2>6. \A e \in Drafts : held'[e] = None
    BY <1>1
  <2> QED BY <1>1, <2>2, <2>5, <2>6, OneDraftKeepsLinked DEF Idle
<1>4. CASE op.at = "chunk" /\ disk' = [disk EXCEPT ![op.d] = Chunk(@)]
  <2>1. op \in [at : {"mark", "chunk", "head"}, d : Drafts, i : Blocks, token : Nat]
    BY <1>4, OperationCarries DEF Shape, Types
  <2>2. Chunk(disk[op.d]).head = disk[op.d].head
    BY <2>1, OneChunk DEF Shape, Types
  <2> QED BY <1>3, <1>4, <2>2
<1>5. CASE op.at = "discard" /\ \E k \in Remnants(disk[op.d]) : disk' = [disk EXCEPT ![op.d] = k]
  <2>1. op.d \in Drafts
    BY <1>5, OperationCarries DEF Shape, Types, Idle
  <2>2. \A k \in Remnants(disk[op.d]) : k.head \in {None, disk[op.d].head}
    BY <2>1, RemnantIsDraft DEF Shape, Types
  <2> QED BY <1>3, <1>5, <2>2
<1> QED BY <1>2, <1>4, <1>5 DEF Crash

\* Every step keeps the drafts linked to their document.
LEMMA NextKeepsLinked == Shape /\ Shape' /\ Linked /\ [Next]_vars => Linked'
  BY OpeningKeepsLinked, WritingKeepsLinked, PublishingKeepsLinked, RecoveryKeepsLinked,
     EndingKeepsLinked, RestKeepsLinked, CrashKeepsLinked
  DEF Next, SystemStep, UserStep, Closing, Unlocking

\* Drafts are linked to their document throughout.
THEOREM LinkedHolds == Spec => []Linked
<1>1. Shape /\ [Next]_vars /\ Linked /\ Shape' => Linked'
  BY NextKeepsLinked
<1> QED BY <1>1, LinkedInit, ShapeHolds, PTL DEF Spec

\* Only the recovery writes conflict copies, and only the one of its draft.
LEMMA WhoMakesCopies ==
  ASSUME Shape, [Next]_vars, NEW d \in Drafts, copies'[d].ver > copies[d].ver
  PROVE  /\ Recover(d) /\ disk[d].head.dirty /\ op' # op
         /\ file.ver # disk[d].head.ver /\ ~Matches(file, d)
<1>1. copies' # copies
  BY DEF Shape, Types, Records
<1>2. CASE PurgeVisible
  <2>1. copies'[d].ver = 0
    BY <1>2 DEF PurgeVisible, NoFile
  <2> QED BY <2>1 DEF Shape, Types, Records
<1>3. CASE ~PurgeVisible
  <2>1. PICK e \in Drafts : Recover(e)
    BY <1>1, <1>3
    DEF Next, SystemStep, UserStep, Opening, Writing, Closing, Unlocking, Releasing, vars, folderVars,
        Open, CopyBase, FirstHead, ResumeDownload, BeginWrite, MarkDirty, WriteChunk, Acknowledge,
        Publishes, Flush, FinishDownload, SaveClean, Abort, ReleaseClean, SuspendDownload, Discard,
        Lock, CloseHandle, StopController, CloseStorage, Unlock, FinishOpening, ReleaseLocalCopy,
        PurgeDraft, CompleteRelease, StartReceive, EndReceive, Crash
  <2>2. Recoverable(disk[e]) /\ disk[e].head.dirty /\ RecoverDirty(e, disk[e].head)
    BY <1>1, <2>1 DEF Recover, folderVars
  <2>3. /\ copies' = [copies EXCEPT ![e] = Record(Content(disk[e], disk[e].head))]
        /\ file.ver # disk[e].head.ver /\ ~Matches(file, e)
        /\ Cleaned(e, disk[e].head, clock', TRUE)
    BY <1>1, <2>2 DEF RecoverDirty, Publishes, folderVars
  <2>4. d = e
    BY <2>3 DEF Shape, Types, Records
  <2>5. op' # op
    BY <2>1, <2>3 DEF Recover, Cleaned, Idle
  <2> QED BY <2>1, <2>2, <2>3, <2>4, <2>5
<1> QED BY <1>2, <1>3

\* A conflict copy is made only of a draft whose document somebody else
\* changed after the draft was opened.
THEOREM CopiesHaveRivals == Spec => ConflictNeedsRival
<1>1. Shape /\ Control /\ Linked /\ [Next]_vars =>
        [\A d \in Drafts : copies'[d].ver > copies[d].ver => d \in rivals]_vars
  <2> SUFFICES ASSUME Shape, Control, Linked, [Next]_vars,
                      NEW d \in Drafts, copies'[d].ver > copies[d].ver
               PROVE  d \in rivals
    OBVIOUS
  <2>1. /\ Recover(d) /\ disk[d].head.dirty /\ op' # op
        /\ file.ver # disk[d].head.ver /\ ~Matches(file, d)
    BY WhoMakesCopies
  <2>2. disk[d].head # None /\ ~disk[d].head.dl
    BY <2>1, RecoveryCases, NoneAssumption DEF DraftHeads
  <2>3. release = "none"
    BY <2>1 DEF Recover, Control, Admission
  <2> QED BY <2>1, <2>2, <2>3 DEF Linked, Following, JustPublished
<1> QED BY <1>1, ShapeHolds, ControlHolds, LinkedHolds, PTL DEF Spec, ConflictNeedsRival

-----------------------------------------------------------------------------
(* A draft is based on its document: while the version in its head is the  *)
(* document's, the blocks that were not written are the document's.        *)

BasedOn(k, h) ==
  file.ver = h.ver =>
    \A i \in 1..h.base : i \in DOMAIN k.chunks \/ k.base[i] = Written(file.content)[i]

\* Of a draft, its head on disk; a clean one nobody holds is only removed.
Based(d) ==
  disk[d].head # None =>
    /\ disk[d].head.ver <= clock
    /\ Usable(disk[d]) /\ (disk[d].head.dirty \/ held[d] # None) =>
         BasedOn(disk[d], disk[d].head)

\* Of the operation under way, the head it will save.
SavesBased ==
  /\ op.at \in {"copy", "first", "clean"} => op.head.ver <= clock
  /\ op.at \in {"first", "clean"} /\ Usable([disk[op.d] EXCEPT !.head = op.head]) =>
       BasedOn(disk[op.d], op.head)
  /\ op.at = "clean" => ~op.head.dirty
  /\ op.at = "discard" =>
       disk[op.d].head = None \/ ~disk[op.d].head.dirty \/ disk[op.d].head.dl

Grounded ==
  release = "none" => file.ver <= clock /\ (\A d \in Drafts : Based(d)) /\ SavesBased

\* In the beginning there is no draft.
LEMMA GroundedInit == Init => Grounded
  BY DEF Init, Grounded, Based, SavesBased, NoDraft, Idle

\* A draft that a step does not touch stays based on its document, which keeps
\* its version or gets one that no head has.
LEMMA OneDraftKeepsGrounded ==
  ASSUME Shape, Shape', Grounded, release' = "none" => release = "none", NEW d \in Drafts,
         \A e \in Drafts : e # d => disk'[e] = disk[e] /\ (held'[e] # None => held[e] # None),
         clock' >= clock, file' = file \/ (file'.ver > clock /\ file'.ver <= clock'),
         Based(d)', SavesBased'
  PROVE  Grounded'
<1> SUFFICES ASSUME release = "none" PROVE file'.ver <= clock' /\ \A e \in Drafts : Based(e)'
  BY DEF Grounded
<1>1. clock \in Nat /\ clock' \in Nat /\ file.ver \in Nat /\ file'.ver \in Nat /\ file.ver <= clock
  BY DEF Grounded, Shape, Types, Records
<1>2. ASSUME NEW e \in Drafts, e # d, disk[e].head # None PROVE Based(e)'
  <2>1. disk[e].head.ver \in Nat /\ disk[e].head.ver <= clock
        /\ (Usable(disk[e]) /\ (disk[e].head.dirty \/ held[e] # None) =>
              BasedOn(disk[e], disk[e].head))
    BY <1>2 DEF Grounded, Based, Shape, Types, DraftFiles, DraftHeads, Heads
  <2>2. CASE file' = file
    BY <1>1, <1>2, <2>1, <2>2 DEF Based, BasedOn
  <2>3. CASE file'.ver > clock
    BY <1>1, <1>2, <2>1, <2>3 DEF Based, BasedOn
  <2> QED BY <2>2, <2>3
<1>3. \A e \in Drafts : e # d /\ disk[e].head = None => Based(e)'
  BY DEF Based
<1> QED BY <1>1, <1>2, <1>3

\* A base that was just copied is the document's content, and a draft without
\* one is based on nothing.
LEMMA OpeningKeepsGrounded ==
  ASSUME Shape, Shape', Grounded,
         \/ \E d \in Drafts, mode \in {"edit", "truncate", "download"} : Open(d, mode)
         \/ Opening
  PROVE  Grounded'
<1>1. UNCHANGED <<file, release, clock>> /\ clock' >= clock
  BY DEF Opening, Open, CopyBase, FirstHead, folderVars, vaultVars, Shape, Types
<1> SUFFICES ASSUME release = "none" PROVE Grounded'
  BY <1>1 DEF Grounded
<1>2. CASE \E d \in Drafts, mode \in {"edit", "truncate", "download"} : Open(d, mode)
  <2>1. PICK d \in Drafts, mode \in {"edit", "truncate", "download"} : Open(d, mode) BY <1>2
  <2> DEFINE size == IF mode = "edit" THEN Len(file.content) ELSE 0
  <2>2. op'.at = (IF size > 0 THEN "copy" ELSE "first") /\ op'.d = d
        /\ op'.head.ver = file.ver /\ op'.head.base = size /\ UNCHANGED held
    BY <2>1 DEF Open, ghostVars
  <2>3. \A e \in Drafts : e # d => disk'[e] = disk[e]
    BY <2>1 DEF Open, Shape, Types
  <2>4. size \in 0..2
    BY ContentLengths DEF Shape, Types, Records
  <2>5. BasedOn(disk[op.d], op.head)' \/ op'.at = "copy"
    BY <2>2, <2>4 DEF BasedOn
  <2>6. SavesBased'
    BY <1>1, <2>2, <2>5 DEF SavesBased, Grounded
  <2>7. Based(d)'
    BY <2>2 DEF Based, Shape, InHand, Idle
  <2> QED BY <1>1, <2>2, <2>3, <2>6, <2>7, OneDraftKeepsGrounded
<1>3. CASE Opening
  <2>1. op \in [at : {"copy", "first"}, d : Drafts, head : DraftHeads]
        /\ op.at \in {"copy", "first"} /\ op # Idle
    BY <1>3, OperationCarries DEF Opening, CopyBase, FirstHead, Shape, Types, Idle
  <2> PICK d \in Drafts : d = op.d BY <2>1
  <2>2. \A e \in Drafts : e # d => disk'[e] = disk[e] /\ held'[e] = held[e]
    BY <1>3 DEF Opening, CopyBase, FirstHead, SaveHead, Shape, Types, ghostVars
  <2>3. op.head.ver <= clock
    BY <2>1 DEF Grounded, SavesBased
  <2>4. disk[d].head = None /\ disk[d] \in DraftFiles
    BY <2>1 DEF Shape, Types, InHand
  <2>5. CASE CopyBase /\ file.live
    <3>1. /\ op' = [op EXCEPT !.at = "first"]
          /\ disk' = [disk EXCEPT ![d] = [disk[d] EXCEPT !.base = file.content]]
      BY <2>5 DEF CopyBase, Goto
    <3>2. disk'[d].base = file.content /\ disk'[d].head = None
      BY <2>4, <3>1 DEF DraftFiles, Shape, Types
    <3>3. op'.at = "first" /\ op'.d = d /\ op'.head = op.head
      BY <2>1, <3>1
    <3>4. ASSUME Usable([disk[d] EXCEPT !.head = op.head])' PROVE BasedOn(disk[d], op.head)'
      <4>1. op.head.base \in 0..2 /\ (op.head.base > 0 => Len(file.content) = op.head.base)
        <5>1. disk'[d] \in DraftFiles BY DEF Shape, Types
        <5> QED BY <2>1, <3>2, <3>3, <3>4, <5>1 DEF Usable, DraftFiles, DraftHeads, Heads
      <4>2. file.content \in [1..Len(file.content) -> Nat]
        BY ContentLengths DEF Shape, Types, Records
      <4>3. \A i \in 1..op.head.base : file.content[i] = Written(file.content)[i]
        BY <4>1, <4>2 DEF Written, Blocks
      <4> QED BY <1>1, <3>2, <3>3, <4>3 DEF BasedOn
    <3>5. SavesBased'
      BY <1>1, <2>3, <3>3, <3>4 DEF SavesBased
    <3>6. Based(d)'
      BY <3>2 DEF Based
    <3> QED BY <1>1, <2>2, <3>5, <3>6, OneDraftKeepsGrounded
  <2>6. CASE CopyBase /\ ~file.live
    <3>1. UNCHANGED <<disk, held>> /\ op' = Idle
      BY <2>6 DEF CopyBase, ghostVars
    <3> QED BY <1>1, <2>4, <3>1, OneDraftKeepsGrounded DEF Based, SavesBased, Idle
  <2>7. CASE FirstHead
    <3>1. op' = Idle /\ SaveHead(d, op.head) /\ op.head \in DraftHeads /\ op.at = "first"
      BY <2>1, <2>7 DEF FirstHead
    <3>2. disk'[d].head = op.head /\ disk'[d] = [disk[d] EXCEPT !.head = op.head]
          /\ disk'[d].base = disk[d].base /\ disk'[d].chunks = disk[d].chunks
      BY <3>1, OneHead DEF Shape, Types
    <3>3. Usable([disk[d] EXCEPT !.head = op.head]) => BasedOn(disk[d], op.head)
      BY <3>1 DEF Grounded, SavesBased
    <3>4. Based(d)'
      BY <1>1, <2>3, <3>2, <3>3 DEF Based, BasedOn
    <3> QED BY <1>1, <2>2, <3>1, <3>4, OneDraftKeepsGrounded DEF SavesBased, Idle
  <2> QED BY <1>3, <2>5, <2>6, <2>7 DEF Opening
<1> QED BY <1>2, <1>3

\* A write leaves the version and the base of the draft, and only adds blocks.
LEMMA WritingKeepsGrounded ==
  ASSUME Shape, Shape', Grounded,
         (\E d \in Drafts, i \in Blocks : BeginWrite(d, i)) \/ Writing
  PROVE  Grounded'
<1>1. UNCHANGED <<file, release>> /\ clock' \in {clock, clock + 1}
  BY DEF Writing, BeginWrite, MarkDirty, WriteChunk, Acknowledge, folderVars, vaultVars, Tick
<1>2. clock' >= clock
  BY <1>1 DEF Shape, Types
<1> SUFFICES ASSUME release = "none" PROVE Grounded'
  BY <1>1 DEF Grounded
<1>3. CASE \E d \in Drafts, i \in Blocks : BeginWrite(d, i)
  <2>1. PICK d \in Drafts, i \in Blocks : BeginWrite(d, i) BY <1>3
  <2>2. UNCHANGED <<disk, held>> /\ op'.at \in {"mark", "chunk"}
    BY <2>1 DEF BeginWrite, ghostVars
  <2>3. Based(d)'
    <3>1. disk[d].head # None => disk[d].head.ver \in Nat
      BY DEF Shape, Types, DraftFiles, DraftHeads, Heads
    <3> QED BY <1>1, <1>2, <2>2, <3>1 DEF Grounded, Based, BasedOn, Shape, Types
  <2>4. SavesBased'
    BY <2>2 DEF SavesBased
  <2> QED BY <1>1, <1>2, <2>2, <2>3, <2>4, OneDraftKeepsGrounded
<1>4. CASE Writing
  <2>1. op \in [at : {"mark", "chunk", "head"}, d : Drafts, i : Blocks, token : Nat] /\ op # Idle
        /\ op.at \in {"mark", "chunk", "head"}
    BY <1>4, OperationCarries DEF Writing, MarkDirty, WriteChunk, Acknowledge, Idle, Shape, Types
  <2> PICK d \in Drafts : d = op.d BY <2>1
  <2>2. held[d] # None /\ held[d] \in DraftHeads /\ disk[d].head = held[d] /\ disk[d] \in DraftFiles
        /\ Usable(disk[d])
    BY <2>1 DEF Shape, Types, InHand, Handle
  <2>3. BasedOn(disk[d], held[d]) /\ held[d].ver <= clock /\ clock' = clock
    BY <1>4, <2>2 DEF Grounded, Based, Writing, MarkDirty, WriteChunk, Acknowledge
  <2>4. op' = Idle \/ op'.at \in {"chunk", "head"}
    BY <1>4, <2>1 DEF Writing, MarkDirty, WriteChunk, Acknowledge, Goto
  <2>5. /\ disk'[d].head.ver = held[d].ver /\ disk'[d].head.base = held[d].base
        /\ disk'[d].base = disk[d].base /\ DOMAIN disk[d].chunks \subseteq DOMAIN disk'[d].chunks
        /\ \A e \in Drafts : e # d => disk'[e] = disk[e] /\ held'[e] = held[e]
    <3>1. CASE MarkDirty \/ Acknowledge
      <4>1. PICK h \in DraftHeads : /\ h.ver = held[d].ver /\ h.base = held[d].base
                                    /\ held' = [held EXCEPT ![d] = h] /\ SaveHead(d, h)
        <5>1. CASE MarkDirty
          <6>1. [held[d] EXCEPT !.dirty = TRUE] \in DraftHeads
                /\ [held[d] EXCEPT !.dirty = TRUE].ver = held[d].ver
                /\ [held[d] EXCEPT !.dirty = TRUE].base = held[d].base
            BY <2>2, DirtyHeads DEF DraftHeads, Heads
          <6>2. held' = [held EXCEPT ![d] = [held[d] EXCEPT !.dirty = TRUE]]
                /\ SaveHead(d, [held[d] EXCEPT !.dirty = TRUE])
            BY <5>1 DEF MarkDirty, Shape, Types
          <6> QED BY <6>1, <6>2
        <5>2. CASE Acknowledge
          <6>1. NextHead(held[d]) \in DraftHeads /\ NextHead(held[d]).ver = held[d].ver
                /\ NextHead(held[d]).base = held[d].base
            BY <2>1, <2>2, NextHeads
          <6>2. held' = [held EXCEPT ![d] = NextHead(held[d])] /\ SaveHead(d, NextHead(held[d]))
            BY <5>2 DEF Acknowledge, Shape, Types
          <6> QED BY <6>1, <6>2
        <5> QED BY <3>1, <5>1, <5>2
      <4>2. disk'[d].head = h /\ disk'[d].base = disk[d].base /\ disk'[d].chunks = disk[d].chunks
            /\ \A e \in Drafts : e # d => disk'[e] = disk[e]
        BY <4>1, OneHead DEF Shape, Types
      <4> QED BY <4>1, <4>2 DEF Shape, Types
    <3>2. CASE WriteChunk
      <4>1. disk' = [disk EXCEPT ![d] = Chunk(disk[d])] /\ UNCHANGED held
        BY <3>2 DEF WriteChunk
      <4>2. Chunk(disk[d]).head = disk[d].head /\ Chunk(disk[d]).base = disk[d].base
            /\ DOMAIN Chunk(disk[d]).chunks = DOMAIN disk[d].chunks \cup {op.i}
        BY <2>1, <2>2, OneChunk
      <4> QED BY <2>2, <4>1, <4>2 DEF Shape, Types
    <3> QED BY <1>4, <3>1, <3>2 DEF Writing
  <2>6. Based(d)'
    BY <1>1, <2>3, <2>5 DEF Based, BasedOn
  <2>7. SavesBased'
    BY <2>4 DEF SavesBased, Idle
  <2> QED BY <1>1, <1>2, <2>5, <2>6, <2>7, OneDraftKeepsGrounded
<1> QED BY <1>3, <1>4

\* The content of a draft has the blocks of its base that were not written.
LEMMA ContentKeepsBase ==
  ASSUME NEW k \in DraftFiles, NEW h \in DraftHeads
  PROVE  \A i \in 1..h.base : i \in DOMAIN k.chunks \/ k.base[i] = Written(Content(k, h))[i]
<1> SUFFICES ASSUME NEW i \in 1..h.base, i \notin DOMAIN k.chunks
             PROVE  k.base[i] = Written(Content(k, h))[i]
  OBVIOUS
<1>1. h.base \in 0..2 /\ h.size \in 0..2 /\ h.base <= h.size
  BY DEF DraftHeads, Heads
<1>2. i \in Blocks /\ i \in 1..h.size /\ i <= h.base
  BY <1>1 DEF Blocks
<1>3. i \in DOMAIN Content(k, h) /\ Content(k, h)[i] = k.base[i]
  BY <1>2 DEF Content
<1> QED BY <1>2, <1>3 DEF Written

\* A clean head of the version that was just published, or found, is based on
\* the document; so is one of any other version.
LEMMA CleaningKeepsGrounded ==
  ASSUME Shape, Shape', Grounded, release' = release, NEW d \in Drafts, NEW ver \in Nat,
         NEW closes \in BOOLEAN, disk[d].head \in DraftHeads,
         Cleaned(d, disk[d].head, ver, closes), UNCHANGED <<disk, held>>,
         clock' >= clock, file' = file \/ (file'.ver > clock /\ file'.ver <= clock'),
         ver <= clock', file'.ver = ver => file'.content = Content(disk[d], disk[d].head)
  PROVE  Grounded'
<1> SUFFICES ASSUME release = "none" PROVE Grounded'
  BY DEF Grounded
<1> PICK h \in DraftHeads : h = disk[d].head OBVIOUS
<1>1. /\ op'.at = "clean" /\ op'.d = d /\ ~op'.head.dirty
      /\ op'.head.ver = ver /\ op'.head.base = h.base
  <2>1. op' = [at |-> "clean", d |-> d, closes |-> closes,
               head |-> [h EXCEPT !.dirty = FALSE, !.ver = ver]]
    BY DEF Cleaned
  <2>2. h \in Heads
    BY DEF DraftHeads
  <2> QED BY <2>1, <2>2 DEF Heads
<1>2. \A i \in 1..h.base : i \in DOMAIN disk[d].chunks
                           \/ disk[d].base[i] = Written(Content(disk[d], h))[i]
  BY ContentKeepsBase DEF Shape, Types
<1>3. BasedOn(disk[d], op.head)'
  BY <1>1, <1>2 DEF BasedOn
<1>4. SavesBased'
  BY <1>1, <1>3 DEF SavesBased
<1>5. clock \in Nat /\ clock' \in Nat /\ h.ver \in Nat /\ h.ver <= clock
  BY NoneAssumption DEF Shape, Types, DraftHeads, Heads, Grounded, Based
<1>6. Based(d)'
  <2>1. CASE file' = file
    BY <1>5, <2>1 DEF Grounded, Based, BasedOn
  <2>2. CASE file'.ver > clock
    BY <1>5, <2>2 DEF Based, BasedOn, Shape, Types, Records
  <2> QED BY <2>1, <2>2
<1> QED BY <1>4, <1>6, OneDraftKeepsGrounded

\* A flush and the end of a download.
LEMMA PublishingKeepsGrounded ==
  ASSUME Shape, Shape', Grounded, NEW d \in Drafts,
         (\E closes \in BOOLEAN : Flush(d, closes)) \/ FinishDownload(d)
  PROVE  Grounded'
<1>1. UNCHANGED <<disk, release>> /\ held[d] # None /\ op = Idle
  BY DEF Flush, FinishDownload, Ready, vaultVars
<1>2. held[d] \in DraftHeads /\ disk[d].head = held[d] /\ Usable(disk[d])
  BY <1>1 DEF Shape, Types, Handle
<1>3. CASE UNCHANGED held
           /\ \E closes \in BOOLEAN : Publishes(d, held[d]) /\ Cleaned(d, held[d], clock', closes)
  <2>1. PICK closes \in BOOLEAN : Publishes(d, held[d]) /\ Cleaned(d, held[d], clock', closes)
    BY <1>3
  <2>2. clock' = clock + 1 /\ file'.ver = clock' /\ file'.content = Content(disk[d], held[d])
    BY <1>2, <2>1, Publication1
  <2>3. clock' \in Nat /\ clock' > clock /\ clock' >= clock /\ clock' <= clock'
    BY <2>2 DEF Shape, Types
  <2> QED BY <1>1, <1>2, <1>3, <2>1, <2>2, <2>3, CleaningKeepsGrounded
<1>4. CASE held' = [held EXCEPT ![d] = None] /\ UNCHANGED <<file, op, clock>>
  <2>1. clock' >= clock
    BY <1>4 DEF Shape, Types
  <2>2. release = "none" => Based(d)'
    BY <1>1, <1>2, <1>4 DEF Grounded, Based, BasedOn
  <2>3. SavesBased'
    BY <1>1, <1>4 DEF SavesBased, Idle
  <2>4. CASE release = "none"
    BY <1>1, <1>4, <2>1, <2>2, <2>3, <2>4, OneDraftKeepsGrounded DEF Shape, Types
  <2> QED BY <1>1, <2>4 DEF Grounded
<1> QED BY <1>3, <1>4 DEF Flush, FinishDownload, folderVars

\* The recovery.
LEMMA RecoveryKeepsGrounded ==
  ASSUME Shape, Shape', Grounded, NEW d \in Drafts, Recover(d)
  PROVE  Grounded'
<1>1. UNCHANGED <<disk, held, release>> /\ op = Idle
  BY DEF Recover
<1> SUFFICES ASSUME release = "none" PROVE Grounded'
  BY <1>1 DEF Grounded
<1>2. clock \in Nat /\ file.ver \in Nat /\ file.ver <= clock
  BY DEF Grounded, Shape, Types, Records
<1>3. CASE op' # op /\ disk[d].head.dirty
  <2> PICK h \in DraftHeads : h = disk[d].head
    BY <1>3, RecoveryCases
  <2>1. Usable(disk[d]) /\ RecoverDirty(d, h)
    BY <1>3, RecoveryCases
  <2>2. h.ver \in Nat /\ h.ver <= clock
    BY NoneAssumption DEF DraftHeads, Heads, Grounded, Based
  <2>3. CASE Publishes(d, h) /\ Cleaned(d, h, clock', TRUE)
    <3>1. clock' = clock + 1 /\ file'.ver = clock' /\ file'.content = Content(disk[d], h)
      BY <2>1, <2>3, Publication1
    <3>2. clock' \in Nat /\ clock' > clock /\ clock' >= clock /\ clock' <= clock'
      BY <1>2, <3>1
    <3> QED BY <1>1, <2>3, <3>1, <3>2, CleaningKeepsGrounded
  <2>4. CASE /\ UNCHANGED <<file, clock>> /\ file.ver # h.ver
             /\ \/ Matches(file, d) /\ Cleaned(d, h, file.ver, TRUE)
                \/ Cleaned(d, h, h.ver, TRUE)
    <3>1. clock' >= clock
      BY <1>2, <2>4
    <3>2. CASE Matches(file, d) /\ Cleaned(d, h, file.ver, TRUE)
      <4>1. file'.content = Content(disk[d], h)
        BY <2>4, <3>2 DEF Matches
      <4> QED BY <1>1, <1>2, <2>4, <3>1, <3>2, <4>1, CleaningKeepsGrounded
    <3>3. CASE Cleaned(d, h, h.ver, TRUE)
      BY <1>1, <2>2, <2>4, <3>1, <3>3, CleaningKeepsGrounded
    <3> QED BY <2>4, <3>2, <3>3
  <2>5. CASE Tick /\ UNCHANGED file /\ Cleaned(d, h, clock', TRUE)
    <3>1. clock' \in Nat /\ clock' >= clock /\ clock' <= clock' /\ file'.ver # clock'
      BY <1>2, <2>5 DEF Tick
    <3> QED BY <1>1, <2>5, <3>1, CleaningKeepsGrounded
  <2> QED BY <2>1, <2>3, <2>4, <2>5 DEF RecoverDirty, folderVars
<1>4. CASE UNCHANGED <<file, clock>> /\ (op' = op \/ op' = [at |-> "discard", d |-> d])
           /\ (op' # op => ~disk[d].head.dirty)
  <2>1. clock' >= clock
    BY <1>2, <1>4
  <2>2. Based(d)'
    BY <1>1, <1>4 DEF Grounded, Based, BasedOn
  <2>3. SavesBased'
    BY <1>1, <1>4 DEF SavesBased, Idle
  <2> QED BY <1>1, <1>4, <2>1, <2>2, <2>3, OneDraftKeepsGrounded
<1>5. CASE op' # op /\ ~disk[d].head.dirty
  BY <1>4, <1>5 DEF Recover, folderVars
<1>6. CASE op' = op
  <2>1. ~(\E ver, closes : Cleaned(d, disk[d].head, ver, closes)) /\ op' # [at |-> "discard", d |-> d]
    BY <1>1, <1>6 DEF Cleaned, Idle
  <2>2. UNCHANGED <<file, clock>>
    BY <2>1 DEF Recover, RecoverDirty, folderVars
  <2> QED BY <1>4, <1>6, <2>2
<1> QED BY <1>3, <1>5, <1>6

\* A draft saved clean is based on what it was published as; one that is
\* closed stays as it is, and one that is removed is clean or a download.
LEMMA EndingKeepsGrounded ==
  ASSUME Shape, Shape', Grounded, ~AbortsEdits,
         \/ SaveClean \/ Discard
         \/ \E d \in Drafts : \/ Abort(d) \/ ReleaseClean(d) \/ SuspendDownload(d)
                            \/ CloseHandle(d) \/ ResumeDownload(d)
  PROVE  Grounded'
<1>1. UNCHANGED <<file, release, clock>> /\ clock' >= clock
  BY DEF SaveClean, Discard, Abort, ReleaseClean, SuspendDownload, CloseHandle, ResumeDownload,
         folderVars, vaultVars, Shape, Types
<1> SUFFICES ASSUME release = "none" PROVE Grounded'
  BY <1>1 DEF Grounded
<1>2. CASE SaveClean
  <2>1. op \in [at : {"clean"}, d : Drafts, closes : BOOLEAN, head : DraftHeads] /\ op.at = "clean"
    BY <1>2, OperationCarries DEF SaveClean, Shape, Types
  <2> PICK d \in Drafts : d = op.d BY <2>1
  <2>2. SaveHead(d, op.head) /\ (op' = Idle \/ op' = [at |-> "discard", d |-> d])
        /\ \A e \in Drafts : e # d => held'[e] = held[e]
    BY <1>2 DEF SaveClean, Shape, Types
  <2>3. /\ disk'[d] = [disk[d] EXCEPT !.head = op.head] /\ disk'[d].head = op.head
        /\ disk'[d].base = disk[d].base /\ disk'[d].chunks = disk[d].chunks
        /\ \A e \in Drafts : e # d => disk'[e] = disk[e]
    BY <2>1, <2>2, OneHead DEF Shape, Types
  <2>4. ~op.head.dirty /\ op.head.ver <= clock
        /\ (Usable([disk[d] EXCEPT !.head = op.head]) => BasedOn(disk[d], op.head))
    BY <2>1 DEF Grounded, SavesBased
  <2>5. Based(d)'
    BY <1>1, <2>3, <2>4 DEF Based, BasedOn
  <2>6. SavesBased'
    <3>1. op'.at \in {"idle", "discard"} /\ (op'.at = "discard" => op'.d = d)
      BY <2>2 DEF Idle
    <3>2. op'.at = "discard" => ~disk'[op'.d].head.dirty
      BY <2>3, <2>4, <3>1
    <3> QED BY <3>1, <3>2 DEF SavesBased
  <2> QED BY <1>1, <2>2, <2>3, <2>5, <2>6, OneDraftKeepsGrounded
<1>3. CASE Discard
  <2>1. op.d \in Drafts
    BY <1>3, OperationCarries DEF Discard, Shape, Types, Idle
  <2> PICK d \in Drafts : d = op.d BY <2>1
  <2>2. /\ disk'[d] = NoDraft /\ \A e \in Drafts : e # d => disk'[e] = disk[e]
        /\ UNCHANGED held /\ op' = Idle
    BY <1>3 DEF Discard, Shape, Types
  <2>3. Based(d)' /\ SavesBased'
    BY <2>2 DEF Based, SavesBased, NoDraft, Idle
  <2> QED BY <1>1, <2>2, <2>3, OneDraftKeepsGrounded
<1>4. CASE \E d \in Drafts : ResumeDownload(d)
  <2>1. PICK d \in Drafts : ResumeDownload(d) BY <1>4
  <2>2. UNCHANGED <<disk, op>> /\ disk[d].head.dl /\ op = Idle /\ held[d] = None
        /\ held' = [held EXCEPT ![d] = disk[d].head]
        /\ \A e \in Drafts : e # d => held'[e] = held[e]
    BY <2>1 DEF ResumeDownload, Ready, Shape, Types
  <2>3. held'[d] = disk[d].head
    BY <2>2 DEF Shape, Types
  <2>4. disk[d].head # None => disk[d].head.base = 0
    BY <2>2 DEF Shape, Types, DraftFiles, DraftHeads
  <2>5. Based(d)'
    BY <1>1, <2>2, <2>4 DEF Grounded, Based, BasedOn
  <2>6. SavesBased'
    BY <2>2 DEF SavesBased, Idle
  <2> QED BY <1>1, <2>2, <2>5, <2>6, OneDraftKeepsGrounded
<1>5. CASE \E d \in Drafts : Abort(d) \/ ReleaseClean(d) \/ SuspendDownload(d) \/ CloseHandle(d)
  <2>1. PICK d \in Drafts : Abort(d) \/ ReleaseClean(d) \/ SuspendDownload(d) \/ CloseHandle(d)
    BY <1>5
  <2>2. /\ UNCHANGED disk /\ op = Idle /\ held[d] # None
        /\ op' = Idle \/ (op' = [at |-> "discard", d |-> d] /\ (held[d].dl \/ ~held[d].dirty))
        /\ \A e \in Drafts : e # d => held'[e] = held[e]
    BY <2>1 DEF Abort, ReleaseClean, SuspendDownload, CloseHandle, Ready, Shape, Types
  <2>3. disk[d].head = held[d]
    BY <2>2 DEF Shape, Handle
  <2>4. Based(d)'
    BY <1>1, <2>2 DEF Grounded, Based, BasedOn
  <2>5. SavesBased'
    BY <2>2, <2>3 DEF SavesBased, Idle
  <2> QED BY <1>1, <2>2, <2>4, <2>5, OneDraftKeepsGrounded
<1> QED BY <1>2, <1>3, <1>4, <1>5

\* The lock, the unlock and the release touch no draft; a peer's update is a
\* version that no head has.
LEMMA RestKeepsGrounded ==
  ASSUME Shape, Shape', Grounded,
         \/ Lock \/ StopController \/ CloseStorage \/ Unlock \/ FinishOpening
         \/ ReleaseLocalCopy \/ Releasing \/ StartReceive \/ EndReceive \/ UNCHANGED vars
  PROVE  Grounded'
<1>1. CASE ReleaseLocalCopy \/ Releasing
  BY <1>1 DEF ReleaseLocalCopy, Releasing, PurgeVisible, PurgeDraft, CompleteRelease, Purging,
              vaultVars, Grounded
<1>2. CASE \/ Lock \/ StopController \/ CloseStorage \/ Unlock \/ FinishOpening
           \/ StartReceive \/ UNCHANGED vars
  <2>1. UNCHANGED <<file, disk, held, op, release, clock>>
    BY <1>2 DEF Lock, StopController, CloseStorage, Unlock, FinishOpening, StartReceive,
                folderVars, vaultVars, vars
  <2> QED BY <2>1 DEF Grounded, Based, BasedOn, SavesBased
<1>3. CASE EndReceive
  <2> SUFFICES ASSUME release = "none" PROVE Grounded'
    BY <1>3 DEF EndReceive, vaultVars, Grounded
  <2>1. UNCHANGED <<disk, held, op, release>> /\ clock' = clock + 1 /\ file'.ver = clock'
    BY <1>3 DEF EndReceive, vaultVars, Tick, Record
  <2>2. clock \in Nat
    BY DEF Shape, Types
  <2>3. ASSUME NEW d \in Drafts, disk[d].head # None PROVE Based(d)'
    <3>1. disk[d].head.ver \in Nat /\ disk[d].head.ver <= clock
      BY <2>3 DEF Grounded, Based, Shape, Types, DraftFiles, DraftHeads, Heads
    <3> QED BY <2>1, <2>2, <3>1 DEF Based, BasedOn
  <2>4. \A d \in Drafts : disk[d].head = None => Based(d)'
    BY <2>1 DEF Based
  <2>5. op.at \in {"copy", "first", "clean"} => op.head.ver \in Nat /\ op.head.ver <= clock
    BY OperationCarries DEF Grounded, SavesBased, Shape, Types, DraftHeads, Heads
  <2>6. SavesBased'
    BY <2>1, <2>2, <2>5 DEF Grounded, SavesBased, BasedOn
  <2> QED BY <2>1, <2>2, <2>3, <2>4, <2>6 DEF Grounded
<1> QED BY <1>1, <1>2, <1>3

\* A stop may keep a block that was being written, and cuts short only the
\* removal of a draft that nobody will publish.
LEMMA CrashKeepsGrounded ==
  ASSUME Shape, Shape', Grounded, Crash
  PROVE  Grounded'
<1>1. UNCHANGED <<file, release, clock>> /\ op' = Idle /\ held' = [d \in Drafts |-> None]
      /\ clock' >= clock
  BY DEF Crash, folderVars, Shape, Types
<1> SUFFICES ASSUME release = "none" PROVE Grounded'
  BY <1>1 DEF Grounded
<1>2. SavesBased' /\ \A e \in Drafts : held'[e] = None
  BY <1>1 DEF SavesBased, Idle
<1>3. CASE UNCHANGED disk
  BY <1>1, <1>2, <1>3 DEF Grounded, Based, BasedOn
<1>4. CASE op.at = "chunk" /\ disk' = [disk EXCEPT ![op.d] = Chunk(@)]
  <2>1. op \in [at : {"mark", "chunk", "head"}, d : Drafts, i : Blocks, token : Nat] /\ op # Idle
    BY <1>4, OperationCarries DEF Shape, Types, Idle
  <2> PICK d \in Drafts : d = op.d BY <2>1
  <2>2. held[d] # None /\ disk[d].head = held[d] /\ Usable(disk[d]) /\ disk[d] \in DraftFiles
    BY <1>4, <2>1 DEF Shape, Types, InHand, Handle
  <2>3. disk'[d] = Chunk(disk[d]) /\ \A e \in Drafts : e # d => disk'[e] = disk[e]
    BY <1>4 DEF Shape, Types
  <2>4. /\ Chunk(disk[d]).base = disk[d].base /\ Chunk(disk[d]).head = disk[d].head
        /\ DOMAIN disk[d].chunks \subseteq DOMAIN Chunk(disk[d]).chunks
    BY <2>1, <2>2, OneChunk
  <2>5. Based(d)'
    BY <1>1, <2>2, <2>3, <2>4 DEF Grounded, Based, BasedOn
  <2> QED BY <1>1, <1>2, <2>3, <2>5, OneDraftKeepsGrounded
<1>5. CASE op.at = "discard" /\ \E k \in Remnants(disk[op.d]) : disk' = [disk EXCEPT ![op.d] = k]
  <2>1. op.d \in Drafts
    BY <1>5, OperationCarries DEF Shape, Types, Idle
  <2> PICK d \in Drafts : d = op.d BY <2>1
  <2>2. disk'[d] \in Remnants(disk[d]) /\ \A e \in Drafts : e # d => disk'[e] = disk[e]
    BY <1>5 DEF Shape, Types
  <2>3. disk'[d].head \in {None, disk[d].head} /\ disk[d] \in DraftFiles
    BY <2>2, RemnantIsDraft DEF Shape, Types
  <2>4. \/ disk[d].head = None
        \/ disk[d].head.ver <= clock /\ (~disk[d].head.dirty \/ disk[d].head.base = 0)
    BY <1>5, <2>3 DEF Grounded, Based, SavesBased, DraftFiles, DraftHeads
  <2>5. Based(d)'
    BY <1>1, <1>2, <2>3, <2>4 DEF Based, BasedOn
  <2> QED BY <1>1, <1>2, <2>2, <2>5, OneDraftKeepsGrounded
<1> QED BY <1>3, <1>4, <1>5 DEF Crash

\* Every step keeps the drafts based on their document.
LEMMA NextKeepsGrounded ==
  ~AbortsEdits /\ Shape /\ Shape' /\ Grounded /\ [Next]_vars => Grounded'
  BY OpeningKeepsGrounded, WritingKeepsGrounded, PublishingKeepsGrounded, RecoveryKeepsGrounded,
     EndingKeepsGrounded, RestKeepsGrounded, CrashKeepsGrounded
  DEF Next, SystemStep, UserStep, Closing, Unlocking

\* Drafts are based on their document throughout, unless edits are aborted.
THEOREM GroundedHolds == ASSUME ~AbortsEdits PROVE Spec => []Grounded
<1>1. Shape /\ [Next]_vars /\ Grounded /\ Shape' => Grounded'
  BY NextKeepsGrounded
<1> QED BY <1>1, GroundedInit, ShapeHolds, PTL DEF Spec

\* Without aborted edits nothing is ever given up but downloads.
LEMMA NothingAborted == ASSUME ~AbortsEdits PROVE Spec => [](aborted = {})
<1>1. Init => aborted = {}
  BY DEF Init
<1>2. aborted = {} /\ [Next]_vars => (aborted = {})'
  <2> SUFFICES ASSUME aborted = {}, [Next]_vars PROVE aborted' = {} OBVIOUS
  <2>1. CASE \E d \in Drafts : Abort(d)
    BY <2>1 DEF Abort
  <2>2. CASE ~(\E d \in Drafts : Abort(d))
    BY <2>2
    DEF Next, SystemStep, UserStep, Opening, Writing, Closing, Unlocking, Releasing, vars, ghostVars,
        Open, CopyBase, FirstHead, ResumeDownload, BeginWrite, MarkDirty, WriteChunk, Acknowledge,
        Flush, FinishDownload, SaveClean, ReleaseClean, SuspendDownload, Discard, Lock, CloseHandle,
        StopController, CloseStorage, Unlock, Recover, FinishOpening, ReleaseLocalCopy, PurgeVisible,
        PurgeDraft, CompleteRelease, StartReceive, EndReceive, Crash
  <2> QED BY <2>1, <2>2
<1> QED BY <1>1, <1>2, PTL DEF Spec

\* Only a flush, the end of a download and the recovery publish.
LEMMA WhoPublishes ==
  ASSUME Shape, [Next]_vars, op.at # "clean", op'.at = "clean"
  PROVE  \E d \in Drafts : \/ \E closes \in BOOLEAN : Flush(d, closes)
                          \/ FinishDownload(d) \/ Recover(d)
<1> SUFFICES ASSUME \A d \in Drafts : /\ ~FinishDownload(d) /\ ~Recover(d)
                                     /\ \A closes \in BOOLEAN : ~Flush(d, closes)
             PROVE  FALSE
  OBVIOUS
<1>1. op' # op
  OBVIOUS
<1>2. CASE \E d \in Drafts, mode \in {"edit", "truncate", "download"} : Open(d, mode)
  BY <1>2 DEF Open
<1>3. CASE Opening \/ Writing
  BY <1>3, <1>1, OperationCarries
  DEF Opening, Writing, CopyBase, FirstHead, MarkDirty, WriteChunk, Acknowledge, Goto, Shape, Types, Idle
<1>4. CASE \E d \in Drafts, i \in Blocks : BeginWrite(d, i)
  BY <1>4 DEF BeginWrite
<1>5. CASE SaveClean \/ Discard \/ Crash
  BY <1>5 DEF SaveClean, Discard, Crash, Idle
<1>6. CASE \E d \in Drafts : Abort(d) \/ ReleaseClean(d) \/ CloseHandle(d)
  BY <1>6 DEF Abort, ReleaseClean, CloseHandle, Ready, Idle
<1> QED BY <1>1, <1>2, <1>3, <1>4, <1>5, <1>6
  DEF Next, SystemStep, UserStep, Closing, Unlocking, Releasing, vars, ResumeDownload,
      SuspendDownload, Lock, StopController, CloseStorage, Unlock, FinishOpening, ReleaseLocalCopy,
      PurgeVisible, PurgeDraft, CompleteRelease, StartReceive, EndReceive

\* A draft's content has every block that was acknowledged, and elsewhere the
\* blocks of the document it is based on, or holes.
LEMMA ContentIsWhole ==
  ASSUME Shape, Kept, Grounded, release = "none", NEW d \in Drafts, Usable(disk[d]),
         disk[d].head.dirty \/ held[d] # None, NEW i \in Blocks
  PROVE  LET c == Written(Content(disk[d], disk[d].head))[i]
         IN /\ c >= owed[d][i]
            /\ file.ver = disk[d].head.ver /\ i \notin DOMAIN disk[d].chunks =>
                 c \in {Hole, Written(file.content)[i]}
<1> DEFINE k == disk[d]
<1> DEFINE h == disk[d].head
<1>1. k \in DraftFiles /\ h \in DraftHeads /\ h.base \in 0..2 /\ h.size \in 0..2
      /\ owed[d][i] \in Nat /\ i \in 1..2
  BY DEF Shape, Types, DraftFiles, DraftHeads, Heads, Usable, Blocks
<1>2. Content(k, h) \in Contents
  BY <1>1, ContentOfDraft DEF Usable
<1>3. Written(Content(k, h))[i] \in Nat
  BY <1>2 DEF Contents, Written, Hole
<1>4. CASE i \in DOMAIN k.chunks /\ i <= h.size
  <2>1. Written(Content(k, h))[i] = k.chunks[i]
    BY <1>1, <1>4 DEF Content, Written
  <2>2. owed[d][i] # Hole => k.chunks[i] >= owed[d][i]
    BY DEF Kept, Safe
  <2> QED BY <1>1, <1>3, <1>4, <2>1, <2>2 DEF Hole
<1>5. CASE ~(i \in DOMAIN k.chunks /\ i <= h.size)
  <2>1. owed[d][i] = Hole
    BY <1>5 DEF Kept, Safe
  <2>2. CASE i <= h.base /\ i <= h.size /\ i \notin DOMAIN k.chunks
    <3>1. i \in DOMAIN Content(k, h) /\ Content(k, h)[i] = k.base[i]
      BY <1>1, <2>2 DEF Content
    <3>2. file.ver = h.ver => k.base[i] = Written(file.content)[i]
      BY <1>1, <2>2 DEF Grounded, Based, BasedOn, Usable
    <3> QED BY <1>1, <1>3, <2>1, <3>1, <3>2 DEF Written, Hole
  <2>3. CASE ~(i <= h.base /\ i <= h.size)
    <3>1. i \notin DOMAIN k.chunks => Written(Content(k, h))[i] = Hole
      BY <1>1, <2>3 DEF Content, Written, Hole
    <3> QED BY <1>1, <1>3, <2>1, <3>1 DEF Hole
  <2>4. CASE i \in DOMAIN k.chunks
    BY <1>1, <1>3, <2>1, <2>4 DEF Hole
  <2> QED BY <1>5, <2>2, <2>3, <2>4
<1> QED BY <1>4, <1>5

\* What a draft publishes has every block that was acknowledged, around them
\* only blocks of the very version it replaces, and nothing that was aborted.
THEOREM PublicationsAreWhole == ASSUME ~AbortsEdits PROVE Spec => PublishedDraftsAreWhole
<1>1. Shape /\ Control /\ Kept /\ Grounded /\ aborted = {} /\ [Next]_vars =>
        [op.at # "clean" /\ op'.at = "clean" =>
           /\ Publication(op'.d, file, file')
           /\ Publication(op'.d, copies[op'.d], copies'[op'.d])]_vars
  <2> SUFFICES ASSUME Shape, Control, Kept, Grounded, aborted = {}, [Next]_vars,
                      op.at # "clean", op'.at = "clean"
               PROVE  /\ Publication(op'.d, file, file')
                      /\ Publication(op'.d, copies[op'.d], copies'[op'.d])
    OBVIOUS
  <2>1. PICK d \in Drafts : \/ \E closes \in BOOLEAN : Flush(d, closes)
                           \/ FinishDownload(d) \/ Recover(d)
    BY WhoPublishes
  <2> DEFINE Content1(f) == f.content = Content(disk[d], disk[d].head)
  <2>2. /\ op'.d = d /\ release = "none" /\ Usable(disk[d])
        /\ disk[d].head.dirty \/ held[d] # None
        /\ file' # file => Content1(file') /\ file.ver = disk[d].head.ver
        /\ copies'[d] # copies[d] => Content1(copies'[d]) /\ copies[d].ver = 0
    <3>1. CASE (\E closes \in BOOLEAN : Flush(d, closes)) \/ FinishDownload(d)
      <4>1. PICK closes \in BOOLEAN : /\ held[d] # None /\ file.ver = held[d].ver
                                      /\ Publishes(d, held[d]) /\ Cleaned(d, held[d], clock', closes)
        BY <3>1 DEF Flush, FinishDownload
      <4>2. held[d] \in DraftHeads /\ disk[d].head = held[d] /\ Usable(disk[d])
        BY <4>1 DEF Shape, Types, Handle
      <4>3. file'.content = Content(disk[d], held[d]) /\ UNCHANGED copies
        BY <4>1, <4>2, Publication1
      <4>4. release = "none"
        BY <3>1, <4>1 DEF Flush, FinishDownload, Ready, Control, Admission, Released
      <4>5. op'.d = d
        BY <4>1 DEF Cleaned
      <4> QED BY <4>1, <4>2, <4>3, <4>4, <4>5
    <3>2. CASE Recover(d)
      <4>1. op' # op /\ op' # [at |-> "discard", d |-> d] /\ release = "none"
        BY <3>2 DEF Recover, Control, Admission
      <4> PICK h \in DraftHeads : h = disk[d].head
        BY <3>2, <4>1, RecoveryCases DEF Recover
      <4>2. Usable(disk[d]) /\ h.dirty /\ RecoverDirty(d, h)
        BY <3>2, <4>1 DEF Recover, Recoverable
      <4>3. op'.d = d
        BY <4>2 DEF RecoverDirty, Cleaned
      <4>4. CASE file.ver = h.ver /\ Publishes(d, h)
        BY <4>1, <4>2, <4>3, <4>4, Publication1
      <4>5. CASE UNCHANGED folderVars
        BY <4>1, <4>2, <4>3, <4>5 DEF folderVars
      <4>6. CASE /\ copies[d].ver = 0 /\ UNCHANGED file
                 /\ copies' = [copies EXCEPT ![d] = Record(Content(disk[d], h))]
        <5>1. copies'[d].content = Content(disk[d], h)
          BY <4>6 DEF Record, Shape, Types
        <5> QED BY <4>1, <4>2, <4>3, <4>6, <5>1
      <4> QED BY <4>2, <4>4, <4>5, <4>6 DEF RecoverDirty
    <3> QED BY <2>1, <3>1, <3>2
  <2>3. \A i \in Blocks :
          LET c == Written(Content(disk[d], disk[d].head))[i]
          IN /\ c >= owed[d][i]
             /\ file.ver = disk[d].head.ver /\ i \notin DOMAIN disk[d].chunks =>
                  c \in {Hole, Written(file.content)[i]}
    BY <2>2, ContentIsWhole
  <2>4. Publication(d, file, file')
    BY <2>2, <2>3 DEF Publication
  <2>5. Publication(d, copies[d], copies'[d])
    BY <2>2, <2>3 DEF Publication
  <2> QED BY <2>2, <2>4, <2>5
<1> QED BY <1>1, ShapeHolds, ControlHolds, KeptHolds, GroundedHolds, NothingAborted,
           PTL DEF Spec, PublishedDraftsAreWhole
=============================================================================
