------------------------ MODULE PrefaultGrow_proofs ------------------------
(***************************************************************************)
(* The writer and its helper both set the length of the file they write,   *)
(* each from a length it remembers.  What is proved here, for any number   *)
(* of segments and regions and any bound of the queues, is that no such    *)
(* length is ever old enough to truncate the file, that every region in    *)
(* use is inside its file, and that what the writer leaves is released in  *)
(* time and counted exactly.                                               *)
(***************************************************************************)
EXTENDS PrefaultGrow, TLAPS

RollPcs == {"rolled", "index", "index_worker", "sequence", "sequence_worker", "retire",
            "retire_worker"}
WriterPcs == {"idle", "map", "move", "moved", "position"} \cup RollPcs
AheadPcs == {"offset", "ahead", "grow", "map"}
HelperPcs == {"top", "drain", "close", "look", "look_index", "header", "exited"} \cup AheadPcs

SegmentType == [seq : Seqs, len : Nat]
PositionType == [seq : Seqs, idx : Nat]
WriterType == [pc : WriterPcs, seq : Seqs, idx : Nat, len : Nat]
SharedType ==
  [segment : SegmentType, handoff : SegmentType \cup {Nothing}, curSeq : Seqs, curIdx : Nat,
   next : PositionType \cup {Nothing}, regions : [Seqs -> Nat], files : Nat, queued : Nat,
   queuedFiles : Nat, stopped : BOOLEAN]
HelperType ==
  [pc : HelperPcs, seq : Seqs, idx : Nat, header : Seqs \cup {None}, closing : Nat]

\* Every variable has the shape the code gives it.
TypeOK ==
  /\ flen \in [Seqs -> Nat] /\ wpos \in [Seqs -> Nat]
  /\ unmap \in {"Immediate", "AtFileRoll"}
  /\ w \in WriterType /\ shared \in SharedType /\ h \in HelperType

\* The helper is on the writer's segment or an earlier one, and looks no further ahead.
SegmentsOK ==
  /\ shared.segment.seq <= w.seq
  /\ shared.handoff # Nothing =>
       /\ shared.segment.seq < shared.handoff.seq
       /\ shared.handoff.seq <= w.seq
       /\ shared.handoff.len = 1
  /\ h.header <= shared.segment.seq
  /\ h.pc \in AheadPcs => h.header = h.seq
  /\ shared.next # Nothing => shared.next.seq <= shared.segment.seq
  /\ shared.curSeq <= w.seq /\ h.seq <= w.seq
  /\ w.pc \in {"idle", "map", "move", "moved", "position", "retire", "retire_worker"} =>
       shared.curSeq = w.seq
  /\ w.pc \in RollPcs => w.seq >= 1 /\ w.idx = 0

\* The writer's region is in its file, and write_position follows the region it writes.
WriterOK ==
  /\ \A s \in Seqs : s > w.seq => flen[s] = 0 /\ wpos[s] = 0
  /\ \A s \in Seqs : s <= w.seq => 1 <= flen[s]
  /\ w.idx < flen[w.seq] /\ w.len <= flen[w.seq]
  /\ w.pc \in {"map", "move"} => w.idx + 1 < flen[w.seq]
  /\ IF w.pc \in {"moved", "position"} THEN w.idx = wpos[w.seq] + 1 ELSE wpos[w.seq] = w.idx

\* A file the helper has never been given is known to the writer, and ends with the region after
\* the one written at the latest.
AloneOK ==
  /\ \A s \in Seqs : shared.segment.seq < s /\ s < w.seq => flen[s] <= wpos[s] + 2
  /\ shared.segment.seq < w.seq =>
       /\ flen[w.seq] = w.len /\ w.len <= w.idx + 2
       /\ w.pc \in {"moved", "position", "rolled"} => w.len = w.idx + 1

\* The length handed over with a segment may be older than the file's; then the writer has not
\* grown the file since, and what the helper is about to ask for is no shorter.
BehindOK ==
  LET seg == shared.segment
  IN /\ seg.len <= flen[seg.seq]
     /\ seg.len < flen[seg.seq] =>
          /\ seg.len = 1
          /\ flen[seg.seq] <= wpos[seg.seq] + 2
          /\ h.pc \in {"ahead", "grow"} /\ h.seq = seg.seq => flen[seg.seq] <= h.idx + 2
          /\ seg.seq = w.seq => flen[w.seq] = w.idx + 1 /\ w.pc \notin {"map", "move", "moved"}

\* The region the helper maps, or has left for the writer, is in its file.
AheadOK ==
  /\ h.pc = "map" => h.idx + 1 < flen[h.seq]
  /\ shared.next # Nothing => shared.next.idx < flen[shared.next.seq]

\* The queue: its counts, and under AtFileRoll the mappings of the segment being written.
QueueOK ==
  /\ shared.queuedFiles = shared.files + h.closing /\ shared.queuedFiles <= FileBound
  /\ h.pc # "close" => h.closing = 0
  /\ shared.stopped => h.pc = "exited"
  /\ unmap = "Immediate" => shared.queued <= Bound
  /\ unmap = "AtFileRoll" =>
       /\ \A s \in Seqs : s > w.seq => shared.regions[s] = 0
       /\ IF w.pc = "moved" THEN w.idx = shared.regions[w.seq] + 1
                            ELSE shared.regions[w.seq] = w.idx

IInv == TypeOK /\ SegmentsOK /\ WriterOK /\ AloneOK /\ BehindOK /\ AheadOK /\ QueueOK

-----------------------------------------------------------------------------
(* The types of the parts, and what the helpers of the model return *)

\* The types of the writer's and the helper's fields.
LEMMA Fields ==
  ASSUME TypeOK
  PROVE  /\ w.pc \in WriterPcs /\ w.seq \in Seqs /\ w.idx \in Nat /\ w.len \in Nat
         /\ h.pc \in HelperPcs /\ h.seq \in Seqs /\ h.idx \in Nat /\ h.closing \in Nat
         /\ h.header \in Seqs \cup {None}
         /\ shared.segment \in SegmentType /\ shared.segment.seq \in Seqs
         /\ shared.segment.len \in Nat
         /\ shared.handoff \in SegmentType \cup {Nothing}
         /\ shared.handoff # Nothing => /\ shared.handoff \in SegmentType
                                       /\ shared.handoff.seq \in Seqs
                                       /\ shared.handoff.len \in Nat
         /\ shared.curSeq \in Seqs /\ shared.curIdx \in Nat
         /\ shared.next \in PositionType \cup {Nothing}
         /\ shared.next # Nothing => shared.next.seq \in Seqs /\ shared.next.idx \in Nat
         /\ shared.regions \in [Seqs -> Nat] /\ shared.files \in Nat /\ shared.queued \in Nat
         /\ shared.queuedFiles \in Nat /\ shared.stopped \in BOOLEAN
<1>1. /\ w.pc \in WriterPcs /\ w.seq \in Seqs /\ w.idx \in Nat /\ w.len \in Nat
      /\ h.pc \in HelperPcs /\ h.seq \in Seqs /\ h.idx \in Nat /\ h.closing \in Nat
      /\ h.header \in Seqs \cup {None}
  BY DEF TypeOK, WriterType, HelperType
<1>2. /\ shared.segment \in SegmentType
      /\ shared.handoff \in SegmentType \cup {Nothing}
      /\ shared.curSeq \in Seqs /\ shared.curIdx \in Nat
      /\ shared.next \in PositionType \cup {Nothing}
      /\ shared.regions \in [Seqs -> Nat] /\ shared.files \in Nat /\ shared.queued \in Nat
      /\ shared.queuedFiles \in Nat /\ shared.stopped \in BOOLEAN
  BY DEF TypeOK, SharedType
<1>3. QED
  BY <1>1, <1>2 DEF SegmentType, PositionType

\* Sequence numbers and the values of the constants are numbers, and None is below them.
LEMMA SeqFacts ==
  /\ MaxSeq \in Nat /\ MaxIndex \in Nat /\ RetireBound \in Nat /\ FileBound \in Nat
  /\ \A s \in Seqs : s \in Nat /\ s # None /\ s + 0 = s
  /\ None = -1 /\ None \notin Seqs
  /\ \A s \in Nat : s <= MaxSeq => s \in Seqs
  /\ \A s \in Seqs : s <= MaxSeq
  /\ 0 \in Seqs
  BY GrowAssumption DEF Seqs, None

\* The fields of Shared that retire and the drains leave alone.
SameButQueue(a, b) ==
  /\ a.segment = b.segment /\ a.handoff = b.handoff /\ a.curSeq = b.curSeq
  /\ a.curIdx = b.curIdx /\ a.next = b.next /\ a.stopped = b.stopped

\* The queue's own bounds.
QueueFits(sh) ==
  sh.queuedFiles <= FileBound /\ (unmap = "Immediate" => sh.queued <= Bound)

\* The arithmetic of a push to a bounded queue.
LEMMA TakenFits ==
  ASSUME NEW b \in Nat, NEW q \in Nat, q <= b, NEW n \in Nat, NEW x \in Nat
  PROVE  /\ Smaller(n, b - q) \in Nat
         /\ Smaller(Smaller(n, b - q) + x, b - q) - Smaller(n, b - q) \in 0..x
         /\ q + Smaller(n, b - q) + (Smaller(Smaller(n, b - q) + x, b - q) - Smaller(n, b - q)) <= b
  BY DEF Smaller

\* retire counts every descriptor it queues, never passes a bound, and without one (usize::MAX)
\* queues every mapping.
LEMMA RetireFacts ==
  ASSUME NEW sh \in SharedType, unmap \in {"Immediate", "AtFileRoll"}, QueueFits(sh),
         NEW s \in Seqs, NEW n \in Nat, NEW m \in Nat
  PROVE  /\ Retire(sh, s, n, m) \in SharedType
         /\ SameButQueue(Retire(sh, s, n, m), sh)
         /\ QueueFits(Retire(sh, s, n, m))
         /\ Retire(sh, s, n, m).queuedFiles - Retire(sh, s, n, m).files
              = sh.queuedFiles - sh.files
         /\ unmap = "AtFileRoll" =>
              Retire(sh, s, n, m).regions = [sh.regions EXCEPT ![s] = @ + n]
<1> DEFINE x == Smaller(m, FileBound - sh.queuedFiles)
           kept == Taken(sh, n)
           open == Taken(sh, kept + x) - kept
<1>1. /\ sh.queued \in Nat /\ sh.queuedFiles \in Nat /\ sh.files \in Nat
      /\ sh.regions \in [Seqs -> Nat] /\ Bound \in Nat /\ FileBound \in Nat
  BY SeqFacts DEF SharedType, Bound
<1>2. x \in Nat /\ x <= FileBound - sh.queuedFiles
  BY <1>1 DEF QueueFits, Smaller
<1>3. kept \in Nat /\ open \in Nat /\ open <= x
      /\ (unmap = "Immediate" => sh.queued + kept + open <= Bound)
      /\ (unmap = "AtFileRoll" => kept = n)
  <2>1. CASE unmap = "Immediate"
    <3>1. sh.queued <= Bound
      BY <2>1 DEF QueueFits
    <3>2. /\ kept = Smaller(n, Bound - sh.queued)
          /\ open = Smaller(kept + x, Bound - sh.queued) - kept
      BY <2>1 DEF Taken
    <3> HIDE DEF x, kept, open
    <3>3. kept \in Nat /\ open \in 0..x /\ sh.queued + kept + open <= Bound
      BY <1>1, <1>2, <3>1, <3>2, TakenFits
    <3>4. QED
      BY <1>2, <2>1, <3>3
  <2>2. CASE unmap = "AtFileRoll"
    BY <1>1, <1>2, <2>2 DEF Taken
  <2>3. QED
    BY <2>1, <2>2
<1>4. Retire(sh, s, n, m) =
        [sh EXCEPT !.regions[s] = @ + kept, !.files = @ + open, !.queuedFiles = @ + open,
                   !.queued = IF unmap = "Immediate" THEN @ + kept + open ELSE @]
  BY DEF Retire
<1> HIDE DEF x, kept, open
<1> DEFINE r == Retire(sh, s, n, m)
<1>5. /\ r.regions = [sh.regions EXCEPT ![s] = @ + kept]
      /\ r.files = sh.files + open /\ r.queuedFiles = sh.queuedFiles + open
      /\ r.queued = IF unmap = "Immediate" THEN sh.queued + kept + open ELSE sh.queued
      /\ SameButQueue(r, sh)
  BY <1>4 DEF SharedType, SameButQueue
<1>6. r \in SharedType
  <2>1. r.regions \in [Seqs -> Nat]
    BY <1>1, <1>3, <1>5
  <2>2. r.files \in Nat /\ r.queuedFiles \in Nat /\ r.queued \in Nat
    BY <1>1, <1>3, <1>5
  <2>3. QED
    BY <1>4, <2>1, <2>2 DEF SharedType
<1>7. QueueFits(r) /\ r.queuedFiles - r.files = sh.queuedFiles - sh.files
  BY <1>1, <1>2, <1>3, <1>5 DEF QueueFits
<1>8. QED
  BY <1>3, <1>5, <1>6, <1>7

\* A drain empties the queue but for what AtFileRoll holds.
LEMMA DrainFacts ==
  ASSUME NEW sh \in SharedType, NEW current \in Seqs
  PROVE  LET d == Drained(sh, current)
         IN /\ d \in SharedType /\ SameButQueue(d, sh)
            /\ d.files = 0 /\ d.queued = 0 /\ d.queuedFiles = sh.queuedFiles
            /\ unmap = "AtFileRoll" =>
                 \A s \in Seqs : d.regions[s] = IF s >= current THEN sh.regions[s] ELSE 0
<1> DEFINE d == Drained(sh, current)
           rest == [s \in Seqs |-> IF Held(s, current) THEN sh.regions[s] ELSE 0]
<1>1. d = [sh EXCEPT !.regions = rest, !.files = 0, !.queued = 0]
  BY DEF Drained
<1>2. rest \in [Seqs -> Nat]
  BY DEF SharedType
<1>3. unmap = "AtFileRoll" => \A s \in Seqs : rest[s] = IF s >= current THEN sh.regions[s] ELSE 0
  BY DEF Held
<1> HIDE DEF rest, d
<1>4. d \in SharedType
  BY <1>1, <1>2 DEF SharedType
<1>5. /\ d.regions = rest /\ d.files = 0 /\ d.queued = 0
      /\ d.queuedFiles = sh.queuedFiles /\ SameButQueue(d, sh)
  BY <1>1 DEF SharedType, SameButQueue
<1>6. QED
  BY <1>3, <1>4, <1>5 DEF d

\* What release_if_stopped changes once the thread has ended.
LEMMA ReleaseFacts ==
  ASSUME NEW sh \in SharedType, QueueFits(sh)
  PROVE  LET d == Released(sh)
         IN /\ d \in SharedType /\ SameButQueue(d, sh) /\ QueueFits(d)
            /\ IF sh.stopped THEN d.queuedFiles = 0 /\ d.files = 0
                             ELSE d.queuedFiles = sh.queuedFiles /\ d.files = sh.files
            /\ unmap = "AtFileRoll" =>
                 \A s \in Seqs : sh.curSeq <= s => d.regions[s] = sh.regions[s]
            /\ unmap = "AtFileRoll" =>
                 \A s \in Seqs : sh.regions[s] = 0 => d.regions[s] = 0
<1> DEFINE d == Released(sh)
<1>1. CASE ~sh.stopped
  BY <1>1 DEF Released, SameButQueue
<1>2. CASE sh.stopped
  <2> DEFINE e == Drained(sh, sh.curSeq)
  <2>1. sh.curSeq \in Seqs
    BY DEF SharedType
  <2>2. /\ e \in SharedType /\ SameButQueue(e, sh) /\ e.files = 0 /\ e.queued = 0
        /\ unmap = "AtFileRoll" =>
             \A s \in Seqs : e.regions[s] = IF s >= sh.curSeq THEN sh.regions[s] ELSE 0
    BY <2>1, DrainFacts
  <2>3. d = [e EXCEPT !.queuedFiles = 0]
    BY <1>2 DEF Released
  <2> HIDE DEF e, d
  <2>4. /\ d \in SharedType /\ SameButQueue(d, sh) /\ d.files = 0 /\ d.queued = 0
        /\ d.queuedFiles = 0 /\ d.regions = e.regions
    BY <2>2, <2>3 DEF SharedType, SameButQueue
  <2>5. QueueFits(d)
    BY <2>4, SeqFacts DEF QueueFits, Bound
  <2>6. \A s \in Seqs : s \in Nat /\ sh.curSeq \in Nat
    BY <2>1, SeqFacts
  <2>7. QED
    BY <1>2, <2>2, <2>4, <2>5, <2>6 DEF d
<1>3. QED
  BY <1>1, <1>2

-----------------------------------------------------------------------------
(* The helper's steps *)

\* The initial state satisfies the invariant.
LEMMA InitInv == Init => IInv
<1>1. SUFFICES ASSUME Init PROVE IInv
  OBVIOUS
<1>2. /\ w.pc = "idle" /\ w.seq = 0 /\ w.idx = 0 /\ w.len = 1 /\ w \in WriterType
  BY <1>1, SeqFacts DEF Init, WriterType, WriterPcs
<1>3. /\ h.pc = "top" /\ h.seq = 0 /\ h.idx = 0 /\ h.header = None /\ h.closing = 0
      /\ h \in HelperType
  BY <1>1, SeqFacts DEF Init, HelperType, HelperPcs
<1>4. /\ shared.segment = [seq |-> 0, len |-> 1] /\ shared.handoff = Nothing
      /\ shared.curSeq = 0 /\ shared.curIdx = 0 /\ shared.next = Nothing
      /\ shared.regions = [s \in Seqs |-> 0] /\ shared.files = 0 /\ shared.queued = 0
      /\ shared.queuedFiles = 0 /\ shared.stopped = FALSE
  BY <1>1 DEF Init
<1>5. shared \in SharedType
  <2>1. shared = [segment |-> [seq |-> 0, len |-> 1], handoff |-> Nothing, curSeq |-> 0,
               curIdx |-> 0, next |-> Nothing, regions |-> [s \in Seqs |-> 0], files |-> 0,
               queued |-> 0, queuedFiles |-> 0, stopped |-> FALSE]
    BY <1>1 DEF Init
  <2>2. [seq |-> 0, len |-> 1] \in SegmentType /\ [s \in Seqs |-> 0] \in [Seqs -> Nat]
    BY SeqFacts DEF SegmentType
  <2>3. QED
    BY <2>1, <2>2, SeqFacts DEF SharedType
<1>6. /\ flen \in [Seqs -> Nat] /\ wpos \in [Seqs -> Nat] /\ flen[0] = 1
      /\ \A s \in Seqs : wpos[s] = 0 /\ (s > 0 => flen[s] = 0)
      /\ unmap \in {"Immediate", "AtFileRoll"} /\ 0 \in Seqs
  BY <1>1, SeqFacts DEF Init
<1>7. TypeOK
  BY <1>2, <1>3, <1>5, <1>6 DEF TypeOK
<1>8. SegmentsOK /\ WriterOK /\ AloneOK /\ BehindOK /\ AheadOK
  BY <1>2, <1>3, <1>4, <1>6, SeqFacts
     DEF SegmentsOK, WriterOK, AloneOK, BehindOK, AheadOK, AheadPcs, RollPcs
<1>9. QueueOK
  BY <1>2, <1>3, <1>4, <1>6, SeqFacts DEF QueueOK, Bound
<1>10. QED
  BY <1>7, <1>8, <1>9 DEF IInv

\* What a step that only moves the helper has to show.
LEMMA HelperMoves ==
  ASSUME IInv, UNCHANGED <<flen, wpos, unmap, w, shared>>,
         h' \in HelperType, h'.header <= shared.segment.seq, h'.seq <= w.seq,
         h'.pc \in AheadPcs => h'.header = h'.seq,
         h'.pc \in {"ahead", "grow"} /\ h'.seq = shared.segment.seq
           /\ shared.segment.len < flen[shared.segment.seq] =>
              flen[shared.segment.seq] <= h'.idx + 2,
         h'.pc # "map", h'.closing = h.closing, h'.pc # "close" => h.closing = 0,
         shared.stopped => h'.pc = "exited"
  PROVE  IInv'
<1>1. TypeOK'
  BY DEF IInv, TypeOK
<1>2. SegmentsOK'
  BY DEF IInv, SegmentsOK
<1>3. WriterOK' /\ AloneOK'
  BY DEF IInv, WriterOK, AloneOK
<1>4. BehindOK'
  BY DEF IInv, BehindOK
<1>5. AheadOK'
  BY DEF IInv, AheadOK
<1>6. QueueOK'
  BY DEF IInv, QueueOK, Bound
<1>7. QED
  BY <1>1, <1>2, <1>3, <1>4, <1>5, <1>6 DEF IInv

\* Every step of the helper that only loads, checks or gives up keeps the invariant.
LEMMA LookingInv ==
  ASSUME IInv, \/ Top \/ LookSequence \/ LookIndex \/ MapHeader \/ Offset \/ Prepare \/ AheadFails
  PROVE  IInv'
<1>1. /\ UNCHANGED <<flen, wpos, unmap, w, shared>>
      /\ h.pc \notin {"close", "exited"} /\ h \in HelperType
  BY DEF Top, LookSequence, LookIndex, MapHeader, Offset, Prepare, AheadFails, IInv, TypeOK
<1>2. h.closing = 0 /\ ~shared.stopped
  BY <1>1 DEF IInv, QueueOK
<1>3. /\ h.header <= shared.segment.seq /\ h.seq <= w.seq /\ shared.curSeq <= w.seq
      /\ shared.segment.seq <= w.seq /\ (h.pc \in AheadPcs => h.header = h.seq)
      /\ (h.pc \in {"ahead", "grow"} /\ h.seq = shared.segment.seq
           /\ shared.segment.len < flen[shared.segment.seq] =>
              flen[shared.segment.seq] <= h.idx + 2)
  BY DEF IInv, SegmentsOK, BehindOK
<1>4. /\ h.seq \in Seqs /\ h.header \in Seqs \cup {None} /\ h.idx \in Nat
      /\ shared.segment.seq \in Seqs /\ shared.curSeq \in Seqs /\ shared.curIdx \in Nat
      /\ \A s \in Seqs : s \in Nat
      /\ None = -1 /\ wpos \in [Seqs -> Nat] /\ flen \in [Seqs -> Nat]
  BY Fields, SeqFacts DEF IInv, TypeOK
<1>5. CASE Top \/ LookSequence
  <2>1. /\ h' = [h EXCEPT !.pc = IF Top THEN "drain" ELSE "look_index", !.seq = shared.curSeq]
    BY <1>5 DEF Top, LookSequence
  <2>2. h' \in HelperType
    BY <1>1, <1>4, <2>1 DEF HelperType, HelperPcs
  <2>3. /\ h'.pc \in {"drain", "look_index"} /\ h'.seq = shared.curSeq /\ h'.header = h.header
        /\ h'.closing = 0
    BY <1>1, <1>2, <2>1 DEF HelperType
  <2>4. QED
    BY <1>1, <1>2, <1>3, <2>2, <2>3, HelperMoves DEF AheadPcs
<1>6. CASE LookIndex
  <2>1. h' = [h EXCEPT !.pc = "header", !.idx = shared.curIdx]
    BY <1>6 DEF LookIndex
  <2>2. h' \in HelperType
    BY <1>1, <1>4, <2>1 DEF HelperType, HelperPcs
  <2>3. /\ h'.pc = "header" /\ h'.seq = h.seq /\ h'.header = h.header /\ h'.closing = 0
    BY <1>1, <1>2, <2>1 DEF HelperType
  <2>4. QED
    BY <1>1, <1>2, <1>3, <2>2, <2>3, HelperMoves DEF AheadPcs
<1>7. CASE MapHeader
  <2>1. CASE h.seq \in {h.header, shared.segment.seq}
    <3>1. h' = [h EXCEPT !.pc = "offset", !.header = h.seq]
      BY <1>7, <2>1 DEF MapHeader
    <3>2. h' \in HelperType
      BY <1>1, <1>4, <3>1 DEF HelperType, HelperPcs, AheadPcs
    <3>3. /\ h'.pc = "offset" /\ h'.seq = h.seq /\ h'.header = h.seq /\ h'.closing = 0
      BY <1>1, <1>2, <3>1 DEF HelperType
    <3>4. h.seq <= shared.segment.seq
      BY <1>3, <1>4, <2>1
    <3>5. QED
      BY <1>1, <1>2, <1>3, <3>2, <3>3, <3>4, HelperMoves DEF AheadPcs
  <2>2. CASE h.seq \notin {h.header, shared.segment.seq}
    <3>1. h' = [h EXCEPT !.pc = "top", !.header = None]
      BY <1>7, <2>2 DEF MapHeader
    <3>2. h' \in HelperType
      BY <1>1, <1>4, <3>1 DEF HelperType, HelperPcs, AheadPcs
    <3>3. /\ h'.pc = "top" /\ h'.seq = h.seq /\ h'.header = None /\ h'.closing = 0
      BY <1>1, <1>2, <3>1 DEF HelperType
    <3>4. None <= shared.segment.seq
      BY <1>4
    <3>5. QED
      BY <1>1, <1>2, <1>3, <3>2, <3>3, <3>4, HelperMoves DEF AheadPcs
  <2>3. QED
    BY <2>1, <2>2
<1>8. CASE Offset \/ Prepare \/ AheadFails
  <2>1. PICK pc \in HelperPcs : h' = [h EXCEPT !.pc = pc]
    BY <1>8 DEF Offset, Prepare, AheadFails, HelperPcs, AheadPcs
  <2>2. h' \in HelperType
    BY <1>1, <2>1 DEF HelperType
  <2>3. /\ h'.pc = pc /\ h'.seq = h.seq /\ h'.header = h.header /\ h'.idx = h.idx
        /\ h'.closing = 0
    BY <1>1, <1>2, <2>1 DEF HelperType
  <2>4. /\ pc \in {"ahead", "top", "grow"}
        /\ h.pc \in {"offset", "ahead", "grow", "map"}
        /\ pc = "ahead" => wpos[h.seq] = h.idx
        /\ pc = "grow" => h.pc = "ahead"
    <3>1. CASE Offset
      BY <1>1, <2>3, <3>1 DEF Offset, HelperType
    <3>2. CASE Prepare
      BY <1>1, <2>3, <3>2 DEF Prepare, HelperType
    <3>3. CASE AheadFails
      BY <1>1, <2>3, <3>3 DEF AheadFails, HelperType
    <3>4. QED
      BY <1>8, <3>1, <3>2, <3>3
  <2>5. h.seq = shared.segment.seq /\ shared.segment.len < flen[shared.segment.seq] =>
          flen[shared.segment.seq] <= wpos[h.seq] + 2
    BY DEF IInv, BehindOK
  <2>6. QED
    BY <1>1, <1>2, <1>3, <2>2, <2>3, <2>4, <2>5, HelperMoves DEF AheadPcs
<1>9. QED
  BY <1>5, <1>6, <1>7, <1>8

\* The helper takes what it may release, closes it, and counts it.
LEMMA ReleasingInv ==
  ASSUME IInv, Drain \/ CloseFiles
  PROVE  IInv'
<1>1. /\ UNCHANGED <<flen, wpos, unmap, w>> /\ h \in HelperType /\ shared \in SharedType
      /\ ~shared.stopped /\ h.seq <= w.seq
  BY DEF Drain, CloseFiles, IInv, TypeOK, QueueOK, SegmentsOK
<1>2. /\ h'.pc \in {"close", "look"} /\ h'.seq = h.seq /\ h'.header = h.header /\ h'.idx = h.idx
      /\ SameButQueue(shared', shared)
  <2>1. CASE Drain
    BY <1>1, <2>1, DrainFacts, Fields DEF Drain, HelperType, IInv
  <2>2. CASE CloseFiles
    BY <1>1, <2>2 DEF CloseFiles, HelperType, SharedType, SameButQueue
  <2>3. QED
    BY <2>1, <2>2
<1>3. h' \in HelperType /\ shared' \in SharedType /\ QueueOK'
  <2>1. CASE Drain
    <3>1. /\ h' = [h EXCEPT !.pc = "close", !.closing = shared.files] /\ h.pc = "drain"
          /\ shared' = Drained(shared, h.seq)
      BY <2>1 DEF Drain
    <3>2. h' \in HelperType /\ h'.pc = "close" /\ h'.closing = shared.files
      BY <1>1, <3>1, Fields DEF HelperType, HelperPcs, IInv
    <3>3. /\ shared' \in SharedType /\ shared'.files = 0 /\ shared'.queued = 0
          /\ shared'.queuedFiles = shared.queuedFiles
          /\ unmap = "AtFileRoll" =>
               \A s \in Seqs : shared'.regions[s] = IF s >= h.seq THEN shared.regions[s] ELSE 0
      BY <1>1, <3>1, DrainFacts, Fields DEF IInv
    <3>4. h.closing = 0 /\ shared.queuedFiles = shared.files + h.closing
      BY <3>1 DEF IInv, QueueOK
    <3>5. h.seq \in Nat /\ w.seq \in Nat /\ w.seq \in Seqs /\ \A s \in Seqs : s \in Nat
      BY Fields, SeqFacts DEF IInv
    <3>6. shared'.queuedFiles = shared'.files + h'.closing /\ shared'.queuedFiles <= FileBound
      BY <3>2, <3>3, <3>4, Fields DEF IInv, QueueOK
    <3>7. unmap = "AtFileRoll" =>
            /\ \A s \in Seqs : s > w.seq => shared'.regions[s] = 0
            /\ IF w.pc = "moved" THEN w.idx = shared'.regions[w.seq] + 1
                                 ELSE shared'.regions[w.seq] = w.idx
      BY <1>1, <3>3, <3>5 DEF IInv, QueueOK
    <3>8. Bound \in Nat
      BY SeqFacts DEF Bound
    <3>9. QueueOK'
      BY <1>1, <1>2, <3>2, <3>3, <3>6, <3>7, <3>8 DEF QueueOK, SameButQueue, Bound
    <3>10. QED
      BY <3>2, <3>3, <3>9
  <2>2. CASE CloseFiles
    <3>1. /\ h' = [h EXCEPT !.pc = "look", !.closing = 0]
          /\ shared' = [shared EXCEPT !.queuedFiles = @ - h.closing]
      BY <2>2 DEF CloseFiles
    <3>2. h' \in HelperType /\ h'.pc = "look" /\ h'.closing = 0
      BY <1>1, <3>1 DEF HelperType, HelperPcs
    <3>3. shared.queuedFiles - h.closing = shared.files /\ shared.files <= FileBound
      <4>1. shared.queuedFiles = shared.files + h.closing /\ shared.queuedFiles <= FileBound
        BY DEF IInv, QueueOK
      <4>2. /\ shared.queuedFiles \in Nat /\ shared.files \in Nat /\ h.closing \in Nat
            /\ FileBound \in Nat
        BY Fields, SeqFacts DEF IInv
      <4>3. QED
        BY <4>1, <4>2
    <3>4. /\ shared' \in SharedType /\ shared'.files = shared.files
          /\ shared'.queued = shared.queued /\ shared'.queuedFiles = shared.files
          /\ shared'.regions = shared.regions
      BY <1>1, <3>1, <3>3, Fields DEF SharedType, IInv
    <3>5. QueueOK'
      BY <1>1, <1>2, <3>2, <3>3, <3>4, Fields DEF IInv, QueueOK, SameButQueue, Bound
    <3>6. QED
      BY <3>2, <3>4, <3>5
  <2>3. QED
    BY <2>1, <2>2
<1>4. TypeOK'
  BY <1>1, <1>3 DEF IInv, TypeOK
<1>5. SegmentsOK'
  BY <1>1, <1>2 DEF IInv, SegmentsOK, SameButQueue, AheadPcs
<1>6. WriterOK' /\ AloneOK' /\ BehindOK' /\ AheadOK'
  BY <1>1, <1>2 DEF IInv, WriterOK, AloneOK, BehindOK, AheadOK, SameButQueue
<1>7. QED
  BY <1>3, <1>4, <1>5, <1>6 DEF IInv

\* No file gets shorter in this step.
Longer == \A s \in Seqs : flen'[s] >= flen[s]

\* The helper grows the file only to a length it does not have yet.
LEMMA GrowInv ==
  ASSUME IInv, Grow
  PROVE  IInv' /\ Longer
<1> DEFINE needed == h.idx + 2
           seg == shared.segment
<1>1. /\ UNCHANGED <<wpos, unmap, w>> /\ h.pc = "grow" /\ h \in HelperType
      /\ shared \in SharedType /\ flen \in [Seqs -> Nat] /\ w \in WriterType
      /\ wpos \in [Seqs -> Nat] /\ unmap \in {"Immediate", "AtFileRoll"}
  BY DEF Grow, IInv, TypeOK
<1>2. /\ h.seq \in Seqs /\ h.idx \in Nat /\ w.seq \in Seqs /\ w.idx \in Nat /\ w.len \in Nat
      /\ seg \in SegmentType /\ seg.seq \in Seqs /\ seg.len \in Nat
      /\ \A s \in Seqs : s \in Nat /\ flen[s] \in Nat
  BY <1>1, Fields, SeqFacts DEF IInv
<1>3. /\ h.header = h.seq /\ h.header <= seg.seq /\ h.seq <= w.seq /\ seg.seq <= w.seq
      /\ h.closing = 0 /\ ~shared.stopped
  BY <1>1 DEF IInv, SegmentsOK, QueueOK, AheadPcs
<1>4. CASE seg.seq # h.seq
  <2>1. flen' = flen /\ shared' = shared /\ h' = [h EXCEPT !.pc = "top"]
    BY <1>4 DEF Grow
  <2>2. h' \in HelperType /\ h'.pc = "top" /\ h'.seq = h.seq /\ h'.header = h.header
        /\ h'.idx = h.idx /\ h'.closing = h.closing
    BY <1>1, <2>1 DEF HelperType, HelperPcs
  <2>3. IInv'
    BY <1>1, <1>3, <2>1, <2>2, HelperMoves DEF AheadPcs
  <2>4. QED
    BY <1>2, <2>1, <2>3 DEF Longer
<1>5. CASE seg.seq = h.seq
  <2>1. /\ h' = [h EXCEPT !.pc = "map"]
        /\ flen' = IF seg.len < needed THEN [flen EXCEPT ![h.seq] = needed] ELSE flen
        /\ shared' = IF seg.len < needed THEN [shared EXCEPT !.segment.len = needed] ELSE shared
    BY <1>5 DEF Grow
  <2>2. h' \in HelperType /\ h'.pc = "map" /\ h'.seq = h.seq /\ h'.header = h.header
        /\ h'.idx = h.idx /\ h'.closing = h.closing
    BY <1>1, <2>1 DEF HelperType, HelperPcs, AheadPcs
  <2>3. /\ shared'.segment = [seq |-> seg.seq, len |-> IF seg.len < needed THEN needed ELSE seg.len]
        /\ shared' \in SharedType
        /\ shared'.handoff = shared.handoff /\ shared'.next = shared.next
        /\ shared'.curSeq = shared.curSeq /\ shared'.curIdx = shared.curIdx
        /\ shared'.stopped = shared.stopped /\ shared'.regions = shared.regions
        /\ shared'.files = shared.files /\ shared'.queued = shared.queued
        /\ shared'.queuedFiles = shared.queuedFiles
    <3>1. CASE seg.len < needed
      <4>1. /\ shared' = [shared EXCEPT !.segment.len = needed] /\ needed \in Nat
        BY <1>2, <2>1, <3>1
      <4>2. shared'.segment = [seg EXCEPT !.len = needed]
        BY <1>1, <4>1 DEF SharedType
      <4>3. shared'.segment = [seq |-> seg.seq, len |-> needed] /\ shared'.segment \in SegmentType
        BY <1>2, <4>1, <4>2 DEF SegmentType
      <4>4. QED
        BY <1>1, <3>1, <4>1, <4>3 DEF SharedType
    <3>2. CASE ~(seg.len < needed)
      BY <1>1, <1>2, <2>1, <3>2 DEF SegmentType
    <3>3. QED
      BY <3>1, <3>2
  <2>4. flen[seg.seq] <= needed \/ ~(seg.len < needed)
    <3>1. seg.len < flen[seg.seq] => flen[seg.seq] <= needed
      BY <1>1, <1>5 DEF IInv, BehindOK
    <3>2. QED
      BY <1>2, <3>1
  <2>5. /\ flen' \in [Seqs -> Nat] /\ Longer
        /\ \A s \in Seqs \ {seg.seq} : flen'[s] = flen[s]
        /\ h.idx + 1 < flen'[h.seq]
        /\ seg.len < needed => flen'[seg.seq] = needed
        /\ ~(seg.len < needed) => flen'[seg.seq] = flen[seg.seq]
    <3>1. CASE seg.len < needed
      BY <1>1, <1>2, <1>5, <2>1, <2>4, <3>1 DEF Longer
    <3>2. CASE ~(seg.len < needed)
      <4>1. seg.len <= flen[seg.seq]
        BY DEF IInv, BehindOK
      <4>2. QED
        BY <1>1, <1>2, <1>5, <2>1, <3>2, <4>1 DEF Longer
    <3>3. QED
      BY <3>1, <3>2
  <2>6. TypeOK'
    BY <1>1, <2>2, <2>3, <2>5 DEF TypeOK
  <2>7. SegmentsOK'
    BY <1>1, <1>3, <2>2, <2>3 DEF IInv, SegmentsOK, AheadPcs
  <2>8. WriterOK'
    <3>1. \A s \in Seqs : s > w.seq => flen'[s] = flen[s]
      BY <1>2, <1>3, <2>5
    <3>2. flen'[w.seq] >= flen[w.seq] /\ flen'[w.seq] \in Nat
      BY <1>2, <2>5 DEF Longer
    <3>3. \A s \in Seqs : s <= w.seq => 1 <= flen'[s]
      <4>1. \A s \in Seqs : s <= w.seq => 1 <= flen[s]
        BY DEF IInv, WriterOK
      <4>2. QED
        BY <1>2, <2>5, <4>1 DEF Longer
    <3>4. QED
      BY <1>1, <1>2, <3>1, <3>2, <3>3 DEF IInv, WriterOK
  <2>9. AloneOK'
    BY <1>1, <1>2, <2>3, <2>5 DEF IInv, AloneOK
  <2>10. BehindOK'
    <3>1. CASE seg.len < needed
      BY <1>2, <2>3, <2>5, <3>1 DEF BehindOK
    <3>2. CASE ~(seg.len < needed)
      <4>1. shared'.segment.seq = seg.seq /\ shared'.segment.len = seg.len
            /\ flen'[seg.seq] = flen[seg.seq]
        BY <2>3, <2>5, <3>2
      <4>2. QED
        BY <1>1, <2>2, <4>1 DEF IInv, BehindOK
    <3>3. QED
      BY <3>1, <3>2
  <2>11. AheadOK'
    <3>1. shared.next # Nothing => /\ shared.next.seq \in Seqs /\ shared.next.idx \in Nat
                                   /\ shared.next.idx < flen[shared.next.seq]
      BY Fields DEF IInv, AheadOK
    <3>2. \A s \in Seqs, n \in Nat : n < flen[s] => n < flen'[s]
      BY <1>2, <2>5 DEF Longer
    <3>3. QED
      BY <2>2, <2>3, <2>5, <3>1, <3>2 DEF AheadOK
  <2>12. QueueOK'
    BY <1>1, <1>3, <2>2, <2>3 DEF IInv, QueueOK, Bound
  <2>13. QED
    BY <2>5, <2>6, <2>7, <2>8, <2>9, <2>10, <2>11, <2>12 DEF IInv
<1>6. QED
  BY <1>4, <1>5

\* The region mapped ahead is left in the slot; a failure ends the thread.
LEMMA AheadInv ==
  ASSUME IInv, MapAhead \/ Fail
  PROVE  IInv'
<1>1. /\ UNCHANGED <<flen, wpos, unmap, w>> /\ h \in HelperType /\ shared \in SharedType
      /\ h.pc \in {"map", "offset", "header"}
  BY DEF MapAhead, Fail, IInv, TypeOK
<1>2. h.closing = 0
  BY <1>1 DEF IInv, QueueOK
<1>3. /\ h' \in HelperType /\ h'.pc \in {"top", "exited"} /\ h'.seq = h.seq
      /\ h'.header = h.header /\ h'.idx = h.idx /\ h'.closing = 0
      /\ shared'.stopped => h'.pc = "exited"
  <2>1. CASE MapAhead
    <3>1. h' = [h EXCEPT !.pc = "top"] /\ shared'.stopped = shared.stopped /\ ~shared.stopped
      BY <1>1, <2>1 DEF MapAhead, SharedType, IInv, QueueOK
    <3>2. QED
      BY <1>1, <1>2, <3>1 DEF HelperType, HelperPcs
  <2>2. CASE Fail
    BY <1>1, <1>2, <2>2 DEF Fail, HelperType, HelperPcs
  <2>3. QED
    BY <2>1, <2>2
<1>4. /\ shared' \in SharedType /\ shared'.segment = shared.segment
      /\ shared'.handoff = shared.handoff /\ shared'.curSeq = shared.curSeq
      /\ shared'.curIdx = shared.curIdx /\ shared'.regions = shared.regions
      /\ shared'.files = shared.files /\ shared'.queued = shared.queued
      /\ shared'.queuedFiles = shared.queuedFiles
      /\ shared'.next # Nothing =>
           /\ shared'.next.seq <= shared.segment.seq
           /\ shared'.next.idx < flen[shared'.next.seq]
  <2>1. CASE MapAhead
    <3> DEFINE ahead == [seq |-> h.seq, idx |-> h.idx + 1]
    <3>1. shared' = [shared EXCEPT !.next = ahead] /\ h.pc = "map"
      BY <2>1 DEF MapAhead
    <3>2. ahead \in PositionType
      BY Fields DEF PositionType, IInv
    <3>3. ahead.seq <= shared.segment.seq /\ ahead.idx < flen[ahead.seq]
      BY <3>1 DEF IInv, SegmentsOK, AheadOK, AheadPcs
    <3> HIDE DEF ahead
    <3>4. QED
      BY <1>1, <3>1, <3>2, <3>3 DEF SharedType
  <2>2. CASE Fail
    <3>1. shared' = [shared EXCEPT !.stopped = TRUE]
      BY <2>2 DEF Fail
    <3>2. shared'.next = shared.next /\ shared' \in SharedType
      BY <1>1, <3>1 DEF SharedType
    <3>3. QED
      BY <1>1, <3>1, <3>2 DEF SharedType, IInv, SegmentsOK, AheadOK
  <2>3. QED
    BY <2>1, <2>2
<1>5. TypeOK'
  BY <1>1, <1>3, <1>4 DEF IInv, TypeOK
<1>6. SegmentsOK'
  BY <1>1, <1>3, <1>4 DEF IInv, SegmentsOK, AheadPcs
<1>7. WriterOK' /\ AloneOK' /\ BehindOK' /\ AheadOK'
  BY <1>1, <1>3, <1>4 DEF IInv, WriterOK, AloneOK, BehindOK, AheadOK
<1>8. QueueOK'
  BY <1>1, <1>2, <1>3, <1>4 DEF IInv, QueueOK, Bound
<1>9. QED
  BY <1>5, <1>6, <1>7, <1>8 DEF IInv

-----------------------------------------------------------------------------
(* The writer's steps on the regions of a segment *)

\* The facts the writer's steps start from.
LEMMA WriterFacts ==
  ASSUME IInv
  PROVE  /\ h \in HelperType /\ shared \in SharedType /\ flen \in [Seqs -> Nat]
         /\ w \in WriterType /\ wpos \in [Seqs -> Nat] /\ unmap \in {"Immediate", "AtFileRoll"}
         /\ w.seq \in Seqs /\ w.idx \in Nat /\ w.len \in Nat /\ w.seq <= MaxSeq
         /\ shared.segment \in SegmentType /\ shared.segment.seq \in Seqs
         /\ shared.segment.len \in Nat /\ shared.regions \in [Seqs -> Nat]
         /\ \A s \in Seqs : s \in Nat /\ flen[s] \in Nat /\ wpos[s] \in Nat
         /\ shared.segment.seq <= w.seq
<1>1. TypeOK /\ shared.segment.seq <= w.seq
  BY DEF IInv, SegmentsOK
<1>2. QED
  BY <1>1, Fields, SeqFacts DEF TypeOK

\* take: the region mapped ahead is in the file, and the helper's length is the file's.
LEMMA TakeRegionInv ==
  ASSUME IInv, TakeRegion
  PROVE  IInv' /\ Longer
<1>1. /\ UNCHANGED <<flen, wpos, unmap, h>> /\ w.pc = "idle"
      /\ shared.next = [seq |-> w.seq, idx |-> w.idx + 1]
      /\ shared' = [shared EXCEPT !.next = Nothing]
      /\ w' = [w EXCEPT !.pc = "move", !.len = Larger(@, w.idx + 2)]
  BY DEF TakeRegion
<1>2. /\ w' \in WriterType /\ w'.pc = "move" /\ w'.seq = w.seq /\ w'.idx = w.idx
      /\ w'.len = Larger(w.len, w.idx + 2)
  <2>1. PICK len \in Nat : len = Larger(w.len, w.idx + 2)
    BY WriterFacts DEF Larger
  <2>2. w' = [w EXCEPT !.pc = "move", !.len = len]
    BY <1>1, <2>1
  <2>3. QED
    BY <2>1, <2>2, WriterFacts DEF WriterType, WriterPcs
<1>3. /\ shared' \in SharedType /\ shared'.segment = shared.segment
      /\ shared'.handoff = shared.handoff /\ shared'.curSeq = shared.curSeq
      /\ shared'.next = Nothing /\ shared'.regions = shared.regions
      /\ shared'.files = shared.files /\ shared'.queued = shared.queued
      /\ shared'.queuedFiles = shared.queuedFiles /\ shared'.stopped = shared.stopped
  BY <1>1, WriterFacts DEF SharedType
<1>4. /\ shared.next # Nothing /\ shared.next.seq = w.seq /\ shared.next.idx = w.idx + 1
  BY <1>1 DEF Nothing
<1>5. shared.segment.seq = w.seq /\ w.idx + 1 < flen[w.seq]
  <2>1. w.seq <= shared.segment.seq /\ w.idx + 1 < flen[w.seq]
    BY <1>4 DEF IInv, SegmentsOK, AheadOK
  <2>2. QED
    BY <2>1, WriterFacts
<1>6. shared.segment.len = flen[w.seq]
  <2>1. /\ shared.segment.len <= flen[w.seq]
        /\ shared.segment.len < flen[w.seq] => flen[w.seq] = w.idx + 1
    BY <1>5 DEF IInv, BehindOK
  <2>2. QED
    BY <1>5, <2>1, WriterFacts
<1>7. w'.len <= flen[w.seq]
  <2>1. w.len <= flen[w.seq]
    BY DEF IInv, WriterOK
  <2>2. QED
    BY <1>2, <1>5, <2>1, WriterFacts DEF Larger
<1>8. TypeOK'
  BY <1>1, <1>2, <1>3 DEF IInv, TypeOK
<1>9. SegmentsOK'
  BY <1>1, <1>2, <1>3 DEF IInv, SegmentsOK, RollPcs
<1>10. WriterOK'
  BY <1>1, <1>2, <1>5, <1>7 DEF IInv, WriterOK
<1>11. AloneOK' /\ BehindOK'
  BY <1>1, <1>2, <1>3, <1>5, <1>6, WriterFacts DEF IInv, AloneOK, BehindOK
<1>12. AheadOK'
  BY <1>1, <1>3 DEF IInv, AheadOK
<1>13. QueueOK'
  BY <1>1, <1>2, <1>3 DEF IInv, QueueOK, Bound
<1>14. Longer
  BY <1>1, WriterFacts DEF Longer
<1>15. QED
  BY <1>8, <1>9, <1>10, <1>11, <1>12, <1>13, <1>14 DEF IInv

\* ensure_len never sets a length below the file's: the writer's own is exact while the helper has
\* no handle, and the helper's is at most one region old after that.
LEMMA GrowFileInv ==
  ASSUME IInv, GrowFile
  PROVE  IInv' /\ Longer
<1> DEFINE want == w.idx + 2
           seg == shared.segment
<1>1. UNCHANGED <<wpos, unmap, h>> /\ w.pc = "idle" /\ EnsureLen(want)
  BY DEF GrowFile
<1>2. /\ w.idx < flen[w.seq] /\ w.len <= flen[w.seq] /\ wpos[w.seq] = w.idx
      /\ shared.segment.len <= flen[shared.segment.seq]
  BY <1>1 DEF IInv, WriterOK, BehindOK
<1>3. PICK len \in Nat :
        /\ w' = [w EXCEPT !.pc = "map", !.len = len]
        /\ flen' \in [Seqs -> Nat] /\ \A s \in Seqs \ {w.seq} : flen'[s] = flen[s]
        /\ flen'[w.seq] >= flen[w.seq] /\ flen'[w.seq] >= want /\ len <= flen'[w.seq]
        /\ seg.seq # w.seq => flen'[w.seq] = len /\ len = want
        /\ shared' = IF seg.seq = w.seq THEN [shared EXCEPT !.segment.len = flen'[w.seq]] ELSE shared
  <2>1. CASE seg.seq = w.seq
    <3> DEFINE len == Larger(w.len, Larger(seg.len, want))
    <3>1. /\ flen' = [flen EXCEPT ![w.seq] = IF want > seg.len THEN want ELSE flen[w.seq]]
          /\ shared' = [shared EXCEPT !.segment.len = Larger(seg.len, want)]
          /\ w' = [w EXCEPT !.pc = "map", !.len = len]
      BY <1>1, <2>1 DEF EnsureLen
    <3>2. /\ len \in Nat /\ Larger(seg.len, want) \in Nat
      BY WriterFacts DEF Larger
    <3>3. seg.len < flen[w.seq] => seg.len = 1 /\ flen[w.seq] = w.idx + 1
      BY <2>1 DEF IInv, BehindOK
    <3>4. flen' \in [Seqs -> Nat] /\ \A s \in Seqs \ {w.seq} : flen'[s] = flen[s]
      BY <3>1, WriterFacts
    <3>5. flen'[w.seq] = IF want > seg.len THEN want ELSE flen[w.seq]
      BY <3>1, WriterFacts
    <3>6. flen'[w.seq] = Larger(seg.len, want) /\ flen'[w.seq] >= flen[w.seq]
      BY <1>2, <2>1, <3>3, <3>5, WriterFacts DEF Larger
    <3>7. len <= flen'[w.seq] /\ flen'[w.seq] >= want
      BY <1>2, <3>6, WriterFacts DEF Larger
    <3> HIDE DEF len
    <3>8. QED
      BY <2>1, <3>1, <3>2, <3>4, <3>6, <3>7
  <2>2. CASE seg.seq # w.seq
    <3>1. /\ flen' = [flen EXCEPT ![w.seq] = IF want > w.len THEN want ELSE flen[w.seq]]
          /\ shared' = shared
          /\ w' = [w EXCEPT !.pc = "map", !.len = Larger(w.len, want)]
      BY <1>1, <2>2 DEF EnsureLen
    <3>2. flen[w.seq] = w.len /\ w.len <= want
      BY <2>2, WriterFacts DEF IInv, AloneOK
    <3>3. /\ flen' \in [Seqs -> Nat] /\ \A s \in Seqs \ {w.seq} : flen'[s] = flen[s]
          /\ flen'[w.seq] = want
      BY <3>1, <3>2, WriterFacts
    <3>4. Larger(w.len, want) = want /\ want \in Nat
      BY <3>2, WriterFacts DEF Larger
    <3>5. flen'[w.seq] >= flen[w.seq] /\ flen'[w.seq] >= want /\ want <= flen'[w.seq]
      BY <3>2, <3>3, WriterFacts
    <3>6. w' = [w EXCEPT !.pc = "map", !.len = want]
      BY <3>1, <3>4
    <3> HIDE DEF want, seg
    <3>7. QED
      BY <2>2, <3>1, <3>3, <3>4, <3>5, <3>6
  <2>3. QED
    BY <2>1, <2>2
<1>4. /\ w' \in WriterType /\ w'.pc = "map" /\ w'.seq = w.seq /\ w'.idx = w.idx /\ w'.len = len
  BY <1>3, WriterFacts DEF WriterType, WriterPcs
<1>5. /\ shared' \in SharedType /\ shared'.segment.seq = seg.seq
      /\ shared'.segment.len = IF seg.seq = w.seq THEN flen'[w.seq] ELSE seg.len
      /\ shared'.handoff = shared.handoff /\ shared'.curSeq = shared.curSeq
      /\ shared'.next = shared.next /\ shared'.regions = shared.regions
      /\ shared'.files = shared.files /\ shared'.queued = shared.queued
      /\ shared'.queuedFiles = shared.queuedFiles /\ shared'.stopped = shared.stopped
  <2>1. CASE seg.seq = w.seq
    <3>1. shared' = [shared EXCEPT !.segment.len = flen'[w.seq]] /\ flen'[w.seq] \in Nat
      BY <1>3, <2>1, WriterFacts
    <3>2. shared'.segment = [seg EXCEPT !.len = flen'[w.seq]]
      BY <3>1, WriterFacts DEF SharedType
    <3>3. /\ shared'.segment.seq = seg.seq /\ shared'.segment.len = flen'[w.seq]
          /\ shared'.segment \in SegmentType
      BY <3>1, <3>2, WriterFacts DEF SegmentType
    <3>4. QED
      BY <2>1, <3>1, <3>3, WriterFacts DEF SharedType
  <2>2. CASE seg.seq # w.seq
    BY <1>3, <2>2, WriterFacts
  <2>3. QED
    BY <2>1, <2>2
<1>6. Longer
  BY <1>3, WriterFacts DEF Longer
<1>7. TypeOK'
  BY <1>1, <1>3, <1>4, <1>5 DEF IInv, TypeOK
<1>8. SegmentsOK'
  BY <1>1, <1>4, <1>5 DEF IInv, SegmentsOK, RollPcs
<1>9. WriterOK'
  <2>1. \A s \in Seqs : s > w.seq => flen'[s] = flen[s]
    BY <1>3, WriterFacts
  <2>2. w.idx + 1 < flen'[w.seq] /\ w.idx < flen'[w.seq]
    BY <1>3, WriterFacts
  <2>3. \A s \in Seqs : s <= w.seq => 1 <= flen'[s]
    <3>1. \A s \in Seqs : s <= w.seq => 1 <= flen[s]
      BY DEF IInv, WriterOK
    <3>2. QED
      BY <1>3, <1>6, <3>1, WriterFacts DEF Longer
  <2>4. QED
    BY <1>1, <1>2, <1>3, <1>4, <2>1, <2>2, <2>3 DEF IInv, WriterOK
<1>10. AloneOK'
  <2>1. \A s \in Seqs : seg.seq < s /\ s < w.seq => flen'[s] <= wpos[s] + 2
    BY <1>3, WriterFacts DEF IInv, AloneOK
  <2>2. seg.seq < w.seq => flen'[w.seq] = len /\ len <= w.idx + 2
    BY <1>3, WriterFacts
  <2>3. QED
    BY <1>1, <1>4, <1>5, <2>1, <2>2 DEF AloneOK
<1>11. BehindOK'
  <2>1. CASE seg.seq = w.seq
    BY <1>3, <1>5, <2>1, WriterFacts DEF BehindOK
  <2>2. CASE seg.seq # w.seq
    <3>1. flen'[seg.seq] = flen[seg.seq]
      BY <1>3, <2>2, WriterFacts
    <3>2. QED
      BY <1>1, <1>4, <1>5, <2>2, <3>1 DEF IInv, BehindOK
  <2>3. QED
    BY <2>1, <2>2
<1>12. AheadOK'
  <2>1. \A s \in Seqs, n \in Nat : n < flen[s] => n < flen'[s]
    BY <1>3, <1>6, WriterFacts DEF Longer
  <2>2. h.seq \in Seqs /\ h.idx + 1 \in Nat
        /\ (shared.next # Nothing => shared.next.seq \in Seqs /\ shared.next.idx \in Nat)
    BY Fields DEF IInv
  <2>3. QED
    BY <1>1, <1>5, <2>1, <2>2 DEF IInv, AheadOK
<1>13. QueueOK'
  BY <1>1, <1>4, <1>5 DEF IInv, QueueOK, Bound
<1>14. QED
  BY <1>6, <1>7, <1>8, <1>9, <1>10, <1>11, <1>12, <1>13 DEF IInv

\* Mapping the region, telling the helper of it and moving write_position keep the invariant.
LEMMA MovingInv ==
  ASSUME IInv, MapRegion \/ Move \/ Position
  PROVE  IInv'
<1>1. CASE MapRegion
  <2>1. PICK pc \in {"move", "idle"} : w' = [w EXCEPT !.pc = pc]
    BY <1>1 DEF MapRegion
  <2>2. UNCHANGED <<flen, wpos, unmap, shared, h>> /\ w.pc = "map"
    BY <1>1 DEF MapRegion
  <2>3. /\ w' \in WriterType /\ w'.pc \in {"move", "idle"} /\ w'.seq = w.seq /\ w'.idx = w.idx
        /\ w'.len = w.len
    BY <2>1, WriterFacts DEF WriterType, WriterPcs
  <2>4. TypeOK' /\ SegmentsOK' /\ QueueOK' /\ AheadOK'
    BY <2>2, <2>3 DEF IInv, TypeOK, SegmentsOK, QueueOK, AheadOK, RollPcs, Bound
  <2>5. WriterOK' /\ AloneOK'
    BY <2>2, <2>3 DEF IInv, WriterOK, AloneOK
  <2>6. BehindOK'
    BY <2>2, <2>3 DEF IInv, BehindOK
  <2>7. QED
    BY <2>4, <2>5, <2>6 DEF IInv
<1>2. CASE Move
  <2>1. /\ UNCHANGED <<flen, wpos, unmap, h>> /\ w.pc = "move"
        /\ w' = [w EXCEPT !.pc = "moved", !.idx = w.idx + 1]
        /\ shared' = [shared EXCEPT !.curIdx = w.idx + 1]
    BY <1>2 DEF Move
  <2>2. /\ w' \in WriterType /\ w'.pc = "moved" /\ w'.seq = w.seq /\ w'.idx = w.idx + 1
        /\ w'.len = w.len
    <3>1. PICK idx \in Nat : idx = w.idx + 1
      BY WriterFacts
    <3>2. w' = [w EXCEPT !.pc = "moved", !.idx = idx]
      BY <2>1, <3>1
    <3>3. QED
      BY <3>1, <3>2, WriterFacts DEF WriterType, WriterPcs
  <2>3. /\ shared' \in SharedType /\ shared'.segment = shared.segment
        /\ shared'.handoff = shared.handoff /\ shared'.curSeq = shared.curSeq
        /\ shared'.next = shared.next /\ shared'.regions = shared.regions
        /\ shared'.files = shared.files /\ shared'.queued = shared.queued
        /\ shared'.queuedFiles = shared.queuedFiles /\ shared'.stopped = shared.stopped
    BY <2>1, WriterFacts DEF SharedType
  <2>4. TypeOK' /\ AheadOK'
    BY <2>1, <2>2, <2>3 DEF IInv, TypeOK, AheadOK
  <2>5. SegmentsOK'
    BY <2>1, <2>2, <2>3 DEF IInv, SegmentsOK, RollPcs
  <2>6. WriterOK'
    BY <2>1, <2>2 DEF IInv, WriterOK
  <2>7. AloneOK'
    <3>1. w.idx + 1 < flen[w.seq]
      BY <2>1 DEF IInv, WriterOK
    <3>2. shared.segment.seq < w.seq => w.len = w.idx + 2 /\ flen[w.seq] = w.len
      BY <3>1, WriterFacts DEF IInv, AloneOK
    <3>3. shared.segment.seq < w.seq => w'.len <= w'.idx + 2 /\ w'.len = w'.idx + 1
      BY <2>2, <3>2, WriterFacts
    <3>4. QED
      BY <2>1, <2>2, <2>3, <3>2, <3>3 DEF IInv, AloneOK
  <2>8. BehindOK'
    BY <2>1, <2>2, <2>3 DEF IInv, BehindOK
  <2>9. QueueOK'
    BY <2>1, <2>2, <2>3 DEF IInv, QueueOK, Bound
  <2>10. QED
    BY <2>4, <2>5, <2>6, <2>7, <2>8, <2>9 DEF IInv
<1>3. CASE Position
  <2>1. /\ UNCHANGED <<flen, unmap, shared, h>> /\ w.pc = "position"
        /\ w' = [w EXCEPT !.pc = "idle"] /\ wpos' = [wpos EXCEPT ![w.seq] = w.idx]
    BY <1>3 DEF Position
  <2>2. /\ w' \in WriterType /\ w'.pc = "idle" /\ w'.seq = w.seq /\ w'.idx = w.idx
        /\ w'.len = w.len
    BY <2>1, WriterFacts DEF WriterType, WriterPcs
  <2>3. /\ wpos' \in [Seqs -> Nat] /\ wpos'[w.seq] = w.idx
        /\ \A s \in Seqs \ {w.seq} : wpos'[s] = wpos[s]
    BY <2>1, WriterFacts
  <2>4. TypeOK' /\ SegmentsOK' /\ QueueOK' /\ AheadOK'
    BY <2>1, <2>2, <2>3 DEF IInv, TypeOK, SegmentsOK, QueueOK, AheadOK, RollPcs, Bound
  <2>5. WriterOK'
    BY <2>1, <2>2, <2>3, WriterFacts DEF IInv, WriterOK
  <2>6. AloneOK'
    <3>1. \A s \in Seqs : s < w.seq => wpos'[s] = wpos[s]
      BY <2>3, WriterFacts
    <3>2. QED
      BY <2>1, <2>2, <3>1 DEF IInv, AloneOK
  <2>7. BehindOK'
    <3>1. shared.segment.seq # w.seq => wpos'[shared.segment.seq] = wpos[shared.segment.seq]
      BY <2>3, WriterFacts
    <3>2. CASE shared.segment.seq # w.seq
      BY <2>1, <2>2, <3>1, <3>2 DEF IInv, BehindOK
    <3>3. CASE shared.segment.seq = w.seq
      <4>1. shared.segment.len < flen[w.seq] => flen[w.seq] <= wpos'[w.seq] + 2
        BY <2>3, <3>3, WriterFacts DEF IInv, BehindOK
      <4>2. QED
        BY <2>1, <2>2, <3>3, <4>1 DEF IInv, BehindOK
    <3>4. QED
      BY <3>2, <3>3
  <2>8. QED
    BY <2>4, <2>5, <2>6, <2>7 DEF IInv
<1>4. QED
  BY <1>1, <1>2, <1>3

-----------------------------------------------------------------------------
(* The writer's steps that hand a segment over and roll *)

\* hand_off gives the helper the waiting segment whole, or does nothing.
LEMMA HandOffFacts ==
  ASSUME IInv, NEW done \in HandOff(shared)
  PROVE  /\ done[1] \in SharedType
         /\ \/ done = <<shared, 0>>
            \/ /\ shared.handoff # Nothing /\ done[2] = 1
               /\ done[1].segment = shared.handoff /\ done[1].handoff = Nothing
               /\ done[1].curSeq = shared.curSeq /\ done[1].next = shared.next
               /\ done[1].stopped = shared.stopped /\ done[1].regions = shared.regions
               /\ done[1].files = shared.files /\ done[1].queued = shared.queued
               /\ done[1].queuedFiles = shared.queuedFiles
<1>1. CASE done = <<shared, 0>>
  BY <1>1, WriterFacts
<1>2. CASE done # <<shared, 0>>
  <2> DEFINE given == [shared EXCEPT !.segment = shared.handoff, !.handoff = Nothing]
  <2>1. shared.handoff # Nothing /\ done = <<given, 1>>
    BY <1>2 DEF HandOff
  <2>2. shared.handoff \in SegmentType /\ shared \in SharedType
    BY <2>1, Fields, WriterFacts DEF IInv
  <2>3. /\ given \in SharedType /\ given.segment = shared.handoff /\ given.handoff = Nothing
        /\ given.curSeq = shared.curSeq /\ given.next = shared.next
        /\ given.stopped = shared.stopped /\ given.regions = shared.regions
        /\ given.files = shared.files /\ given.queued = shared.queued
        /\ given.queuedFiles = shared.queuedFiles
    BY <2>2 DEF SharedType
  <2> HIDE DEF given
  <2>4. QED
    BY <2>1, <2>3
<1>3. QED
  BY <1>1, <1>2

\* After the switch to a region or a segment, the segment waiting may be handed over: the length
\* it carries is old, and the file ends with the region the writer has just moved to.
LEMMA HandOverInv ==
  ASSUME IInv, UNCHANGED <<flen, wpos, unmap, h>>, NEW pc,
         w' = [w EXCEPT !.pc = pc],
         \/ w.pc = "moved" /\ pc = "position"
         \/ w.pc = "rolled" /\ pc \in {"index", "index_worker"},
         shared' \in SharedType, shared'.curSeq = shared.curSeq, shared'.next = shared.next,
         \/ shared'.segment = shared.segment /\ shared'.handoff = shared.handoff
         \/ /\ shared.handoff # Nothing
            /\ shared'.segment = shared.handoff /\ shared'.handoff = Nothing,
         QueueOK'
  PROVE  IInv'
<1>1. /\ w' \in WriterType /\ w'.pc = pc /\ w'.seq = w.seq /\ w'.idx = w.idx /\ w'.len = w.len
  BY WriterFacts DEF WriterType, WriterPcs, RollPcs
<1>2. TypeOK'
  BY <1>1 DEF IInv, TypeOK
<1>3. WriterOK'
  BY <1>1 DEF IInv, WriterOK
<1>4. AheadOK'
  BY <1>1 DEF IInv, AheadOK
<1>5. CASE shared'.segment = shared.segment /\ shared'.handoff = shared.handoff
  <2>1. SegmentsOK'
    BY <1>1, <1>5 DEF IInv, SegmentsOK, RollPcs
  <2>2. AloneOK' /\ BehindOK'
    BY <1>1, <1>5 DEF IInv, AloneOK, BehindOK
  <2>3. QED
    BY <1>2, <1>3, <1>4, <2>1, <2>2 DEF IInv
<1>6. CASE /\ shared.handoff # Nothing
           /\ shared'.segment = shared.handoff /\ shared'.handoff = Nothing
  <2> DEFINE new == shared.handoff.seq
  <2>1. /\ new \in Seqs /\ new \in Nat /\ shared.segment.seq < new /\ new <= w.seq
        /\ shared'.segment.seq = new /\ shared'.segment.len = 1
        /\ shared.segment.seq \in Nat /\ w.seq \in Nat
    BY <1>6, Fields, SeqFacts DEF IInv, SegmentsOK
  <2>2. /\ h.header \in Int /\ h.header <= shared.segment.seq /\ h.header < new
        /\ (h.pc \in AheadPcs => h.header = h.seq)
    BY <2>1, Fields, SeqFacts DEF IInv, SegmentsOK
  <2>3. SegmentsOK'
    <3>1. shared.next # Nothing => shared.next.seq <= new
      BY <2>1, Fields, SeqFacts DEF IInv, SegmentsOK
    <3>2. QED
      BY <1>1, <1>6, <2>1, <2>2, <3>1 DEF IInv, SegmentsOK, RollPcs
  <2>4. AloneOK'
    <3>1. \A s \in Seqs : new < s => shared.segment.seq < s
      BY <2>1, SeqFacts
    <3>2. QED
      BY <1>1, <2>1, <3>1 DEF IInv, AloneOK
  <2>5. flen[new] <= wpos[new] + 2 /\ (new = w.seq => flen[w.seq] = w.idx + 1)
    <3>1. CASE new = w.seq
      <4>1. flen[w.seq] = w.len /\ w.len = w.idx + 1
        BY <2>1, <3>1 DEF IInv, AloneOK
      <4>2. w.idx <= wpos[w.seq] + 1
        BY WriterFacts DEF IInv, WriterOK
      <4>3. QED
        BY <3>1, <4>1, <4>2, WriterFacts
    <3>2. CASE new # w.seq
      BY <2>1, <3>2 DEF IInv, AloneOK
    <3>3. QED
      BY <3>1, <3>2
  <2>6. 1 <= flen[new]
    BY <2>1 DEF IInv, WriterOK
  <2>7. BehindOK'
    <3>1. ~(h.pc \in {"ahead", "grow"} /\ h.seq = new)
      BY <2>1, <2>2 DEF AheadPcs
    <3>2. pc \notin {"map", "move", "moved"}
      OBVIOUS
    <3> HIDE DEF new
    <3>3. QED
      BY <1>1, <2>1, <2>5, <2>6, <3>1, <3>2 DEF BehindOK
  <2>8. QED
    BY <1>2, <1>3, <1>4, <2>3, <2>4, <2>7 DEF IInv
<1>7. QED
  BY <1>5, <1>6

\* What the queue is after the writer has left n mappings of segment s and m descriptors, and has
\* released them itself if the helper has stopped.
LEMMA LeaveFacts ==
  ASSUME IInv, UNCHANGED <<unmap, h>>,
         NEW sh \in SharedType, sh.curSeq = shared.curSeq, sh.stopped = shared.stopped,
         sh.files = shared.files, sh.queued = shared.queued,
         sh.queuedFiles = shared.queuedFiles, sh.regions = shared.regions,
         NEW s \in Seqs, NEW n \in Nat, NEW m \in Nat,
         shared' = Released(Retire(sh, s, n, m))
  PROVE  /\ shared' \in SharedType /\ SameButQueue(shared', sh)
         /\ shared'.queuedFiles = shared'.files + h.closing /\ shared'.queuedFiles <= FileBound
         /\ unmap = "Immediate" => shared'.queued <= Bound
         /\ unmap = "AtFileRoll" =>
              \A t \in Seqs : shared.curSeq <= t =>
                shared'.regions[t] = shared.regions[t] + (IF t = s THEN n ELSE 0)
<1>1. /\ QueueFits(sh) /\ unmap \in {"Immediate", "AtFileRoll"}
      /\ shared.queuedFiles = shared.files + h.closing
      /\ shared.stopped => h.closing = 0
      /\ shared.queuedFiles \in Nat /\ shared.files \in Nat /\ h.closing \in Nat
      /\ shared.regions \in [Seqs -> Nat]
  <2>1. TypeOK
    BY DEF IInv
  <2>2. /\ shared.queuedFiles = shared.files + h.closing
        /\ shared.queuedFiles <= FileBound /\ (unmap = "Immediate" => shared.queued <= Bound)
        /\ shared.stopped => h.closing = 0
    BY DEF IInv, QueueOK
  <2>3. QED
    BY <2>1, <2>2, Fields DEF QueueFits, TypeOK
<1>2. PICK r \in SharedType :
        /\ r = Retire(sh, s, n, m) /\ SameButQueue(r, sh) /\ QueueFits(r)
        /\ r.queuedFiles - r.files = sh.queuedFiles - sh.files
        /\ unmap = "AtFileRoll" => r.regions = [sh.regions EXCEPT ![s] = @ + n]
  BY <1>1, RetireFacts
<1>3. /\ shared' \in SharedType /\ SameButQueue(shared', r) /\ QueueFits(shared')
      /\ IF r.stopped THEN shared'.queuedFiles = 0 /\ shared'.files = 0
                      ELSE shared'.queuedFiles = r.queuedFiles /\ shared'.files = r.files
      /\ unmap = "AtFileRoll" =>
           \A t \in Seqs : r.curSeq <= t => shared'.regions[t] = r.regions[t]
  BY <1>2, ReleaseFacts
<1>4. SameButQueue(shared', sh) /\ r.stopped = shared.stopped /\ r.curSeq = shared.curSeq
  BY <1>2, <1>3 DEF SameButQueue
<1>5. r.queuedFiles \in Nat /\ r.files \in Nat
  BY <1>2 DEF SharedType
<1>6. shared'.queuedFiles = shared'.files + h.closing
  BY <1>1, <1>2, <1>3, <1>4, <1>5
<1>7. unmap = "AtFileRoll" =>
        \A t \in Seqs : shared.curSeq <= t =>
          shared'.regions[t] = shared.regions[t] + (IF t = s THEN n ELSE 0)
  BY <1>1, <1>2, <1>3, <1>4
<1>8. QED
  BY <1>3, <1>4, <1>6, <1>7 DEF QueueFits

\* The mapping left is queued, and a segment waiting is handed over.
LEMMA MovedInv ==
  ASSUME IInv, Moved
  PROVE  IInv'
<1>1. /\ UNCHANGED <<flen, wpos, unmap, h>> /\ w.pc = "moved"
      /\ w' = [w EXCEPT !.pc = "position"]
  BY DEF Moved
<1>2. PICK done \in HandOff(shared) :
        shared' = Released(Retire(done[1], shared.curSeq, 1, done[2]))
  BY DEF Moved
<1>3. /\ done[1] \in SharedType /\ done[2] \in Nat
      /\ done[1].curSeq = shared.curSeq /\ done[1].next = shared.next
      /\ done[1].stopped = shared.stopped /\ done[1].regions = shared.regions
      /\ done[1].files = shared.files /\ done[1].queued = shared.queued
      /\ done[1].queuedFiles = shared.queuedFiles
      /\ \/ done[1].segment = shared.segment /\ done[1].handoff = shared.handoff
         \/ /\ shared.handoff # Nothing
            /\ done[1].segment = shared.handoff /\ done[1].handoff = Nothing
  BY HandOffFacts
<1>4. shared.curSeq = w.seq /\ w.seq \in Seqs
  BY <1>1, WriterFacts DEF IInv, SegmentsOK
<1>5. /\ shared' \in SharedType /\ SameButQueue(shared', done[1])
      /\ shared'.queuedFiles = shared'.files + h.closing /\ shared'.queuedFiles <= FileBound
      /\ unmap = "Immediate" => shared'.queued <= Bound
      /\ unmap = "AtFileRoll" =>
           \A t \in Seqs : w.seq <= t =>
             shared'.regions[t] = shared.regions[t] + (IF t = w.seq THEN 1 ELSE 0)
  BY <1>1, <1>2, <1>3, <1>4, LeaveFacts
<1>6. QueueOK'
  <2>1. w'.pc = "position" /\ w'.seq = w.seq /\ w'.idx = w.idx
    BY <1>1, WriterFacts DEF WriterType
  <2>2. shared'.stopped = shared.stopped
    BY <1>3, <1>5 DEF SameButQueue
  <2>3. ASSUME unmap = "AtFileRoll"
        PROVE  /\ \A s \in Seqs : s > w.seq => shared'.regions[s] = 0
               /\ shared'.regions[w.seq] = w.idx
    <3>1. /\ \A s \in Seqs : s > w.seq => shared.regions[s] = 0
          /\ w.idx = shared.regions[w.seq] + 1
      BY <1>1, <2>3 DEF IInv, QueueOK
    <3>2. QED
      BY <1>5, <2>3, <3>1, WriterFacts
  <2>4. QED
    BY <1>1, <1>5, <2>1, <2>2, <2>3 DEF IInv, QueueOK, Bound
<1>7. /\ shared'.curSeq = shared.curSeq /\ shared'.next = shared.next
      /\ \/ shared'.segment = shared.segment /\ shared'.handoff = shared.handoff
         \/ /\ shared.handoff # Nothing
            /\ shared'.segment = shared.handoff /\ shared'.handoff = Nothing
  BY <1>3, <1>5 DEF SameButQueue
<1>8. QED
  BY <1>1, <1>5, <1>6, <1>7, HandOverInv

\* roll_file hands the new segment over at once if it can.
LEMMA RollHandOffInv ==
  ASSUME IInv, RollHandOff
  PROVE  IInv'
<1>1. /\ UNCHANGED <<flen, wpos, unmap, h>> /\ w.pc = "rolled"
  BY DEF RollHandOff
<1>2. PICK done \in IF shared.handoff.seq = w.seq THEN HandOff(shared) ELSE {<<shared, 0>>} :
        /\ shared' = done[1]
        /\ w' = [w EXCEPT !.pc = IF done[2] = 1 THEN "index_worker" ELSE "index"]
  BY DEF RollHandOff
<1>3. PICK pc \in {"index", "index_worker"} : w' = [w EXCEPT !.pc = pc]
  BY <1>2
<1>4. /\ shared' \in SharedType
      /\ shared'.curSeq = shared.curSeq /\ shared'.next = shared.next
      /\ shared'.stopped = shared.stopped /\ shared'.regions = shared.regions
      /\ shared'.files = shared.files /\ shared'.queued = shared.queued
      /\ shared'.queuedFiles = shared.queuedFiles
      /\ \/ shared'.segment = shared.segment /\ shared'.handoff = shared.handoff
         \/ /\ shared.handoff # Nothing
            /\ shared'.segment = shared.handoff /\ shared'.handoff = Nothing
  <2>1. CASE done \in HandOff(shared)
    BY <1>2, <2>1, HandOffFacts
  <2>2. CASE done = <<shared, 0>>
    BY <1>2, <2>2, WriterFacts
  <2>3. QED
    BY <1>2, <2>1, <2>2
<1>5. QueueOK'
  <2>1. w'.pc = pc /\ w'.seq = w.seq /\ w'.idx = w.idx
    BY <1>3, WriterFacts DEF WriterType
  <2>2. QED
    BY <1>1, <1>4, <2>1 DEF IInv, QueueOK, Bound
<1>6. QED
  BY <1>1, <1>3, <1>4, <1>5, HandOverInv

\* roll_file begins a file of one region, which the helper does not know yet.
LEMMA RollInv ==
  ASSUME IInv, Roll
  PROVE  IInv' /\ Longer
<1>1. /\ UNCHANGED <<wpos, unmap, h>> /\ w.pc = "idle" /\ w.seq < MaxSeq
      /\ w' = [pc |-> "rolled", seq |-> w.seq + 1, idx |-> 0, len |-> 1]
      /\ flen' = [flen EXCEPT ![w.seq + 1] = 1]
  BY DEF Roll
<1>2. PICK new \in Seqs : new = w.seq + 1
  BY <1>1, WriterFacts, SeqFacts DEF Seqs
<1>3. /\ w' \in WriterType /\ w'.pc = "rolled" /\ w'.seq = new /\ w'.idx = 0 /\ w'.len = 1
      /\ new \in Nat /\ w.seq < new /\ w.seq \in Nat /\ \A s \in Seqs : s < new <=> s <= w.seq
  <2>1. w' = [pc |-> "rolled", seq |-> new, idx |-> 0, len |-> 1]
    BY <1>1, <1>2
  <2>2. w' \in WriterType /\ w'.pc = "rolled" /\ w'.seq = new /\ w'.idx = 0 /\ w'.len = 1
    BY <2>1 DEF WriterType, WriterPcs, RollPcs
  <2>3. new \in Nat /\ w.seq \in Nat /\ \A s \in Seqs : s \in Nat
    BY WriterFacts
  <2>4. QED
    BY <1>2, <2>2, <2>3
<1>4. /\ flen' \in [Seqs -> Nat] /\ flen'[new] = 1 /\ \A s \in Seqs \ {new} : flen'[s] = flen[s]
      /\ flen[new] = 0 /\ wpos[new] = 0
  BY <1>1, <1>2, <1>3, WriterFacts DEF IInv, WriterOK
<1>5. /\ shared' \in SharedType /\ shared'.segment = shared.segment
      /\ shared'.curSeq = shared.curSeq /\ shared'.next = shared.next
      /\ shared'.stopped = shared.stopped /\ shared'.regions = shared.regions
      /\ shared'.files = shared.files /\ shared'.queued = shared.queued
      /\ shared'.queuedFiles = shared.queuedFiles
      /\ shared'.handoff \in {shared.handoff, [seq |-> new, len |-> 1]}
  <2>1. PICK cloned \in BOOLEAN :
          shared' = IF cloned THEN [shared EXCEPT !.handoff = [seq |-> new, len |-> 1]]
                              ELSE shared
    BY <1>2 DEF Roll
  <2>2. [seq |-> new, len |-> 1] \in SegmentType
    BY DEF SegmentType
  <2>3. QED
    BY <2>1, <2>2, WriterFacts DEF SharedType
<1>6. Longer
  BY <1>4, WriterFacts DEF Longer
<1>7. TypeOK'
  BY <1>1, <1>3, <1>4, <1>5 DEF IInv, TypeOK
<1>8. SegmentsOK'
  <2>1. /\ shared.segment.seq < new /\ shared.curSeq <= new /\ h.seq <= new
        /\ shared.segment.seq <= new /\ new >= 1
        /\ shared.handoff # Nothing => shared.handoff.seq <= new
    BY <1>3, Fields, SeqFacts DEF IInv, SegmentsOK
  <2>2. QED
    BY <1>1, <1>3, <1>5, <2>1 DEF IInv, SegmentsOK
<1>9. WriterOK'
  <2>1. \A s \in Seqs : s > new => s > w.seq /\ s # new
    BY <1>3, WriterFacts
  <2>2. \A s \in Seqs : s <= new => s = new \/ s <= w.seq
    BY <1>3, WriterFacts
  <2>3. QED
    BY <1>1, <1>3, <1>4, <2>1, <2>2 DEF IInv, WriterOK
<1>10. AloneOK'
  <2>1. ASSUME NEW s \in Seqs, shared.segment.seq < s, s < new
        PROVE  flen'[s] <= wpos[s] + 2
    <3>1. CASE s = w.seq
      <4>1. wpos[w.seq] = w.idx /\ flen[w.seq] <= w.idx + 2
        BY <1>1, <2>1, <3>1, WriterFacts DEF IInv, AloneOK, WriterOK
      <4>2. QED
        BY <1>3, <1>4, <3>1, <4>1
    <3>2. CASE s # w.seq
      <4>1. s < w.seq
        BY <1>3, <2>1, <3>2, WriterFacts
      <4>2. flen[s] <= wpos[s] + 2
        BY <2>1, <4>1 DEF IInv, AloneOK
      <4>3. QED
        BY <1>4, <2>1, <4>2, <1>3
    <3>3. QED
      BY <3>1, <3>2
  <2>2. QED
    BY <1>1, <1>3, <1>4, <1>5, <2>1 DEF AloneOK
<1>11. BehindOK'
  <2>1. shared.segment.seq # new /\ flen'[shared.segment.seq] = flen[shared.segment.seq]
    <3>1. shared.segment.seq \in Nat /\ shared.segment.seq \in Seqs /\ shared.segment.seq <= w.seq
      BY WriterFacts
    <3>2. QED
      BY <1>3, <1>4, <3>1
  <2>2. QED
    BY <1>1, <1>3, <1>5, <2>1 DEF IInv, BehindOK
<1>12. AheadOK'
  <2>1. \A s \in Seqs, n \in Nat : n < flen[s] => n < flen'[s]
    BY <1>4, WriterFacts
  <2>2. h.seq \in Seqs /\ h.idx + 1 \in Nat
        /\ (shared.next # Nothing => shared.next.seq \in Seqs /\ shared.next.idx \in Nat)
    BY Fields DEF IInv
  <2>3. QED
    BY <1>1, <1>5, <2>1, <2>2 DEF IInv, AheadOK
<1>13. QueueOK'
  <2>1. unmap = "AtFileRoll" =>
          /\ shared.regions[new] = 0
          /\ \A s \in Seqs : s > new => shared.regions[s] = 0
    <3>1. \A s \in Seqs : s > new => s > w.seq
      BY <1>3, SeqFacts
    <3>2. new > w.seq
      BY <1>3
    <3>3. QED
      BY <3>1, <3>2 DEF IInv, QueueOK
  <2>2. QED
    BY <1>1, <1>3, <1>5, <2>1 DEF IInv, QueueOK, Bound
<1>14. QED
  BY <1>6, <1>7, <1>8, <1>9, <1>10, <1>11, <1>12, <1>13 DEF IInv

\* The position of the new segment is published, index first.
LEMMA RollPositionInv ==
  ASSUME IInv, RollIndex \/ RollSequence
  PROVE  IInv'
<1>1. UNCHANGED <<flen, wpos, unmap, h>> /\ w.pc \in RollPcs \ {"rolled", "retire", "retire_worker"}
  BY DEF RollIndex, RollSequence, RollPcs
<1>2. PICK pc \in {"sequence", "sequence_worker", "retire", "retire_worker"} :
        w' = [w EXCEPT !.pc = pc]
  BY DEF RollIndex, RollSequence
<1>3. /\ w' \in WriterType /\ w'.pc = pc /\ w'.seq = w.seq /\ w'.idx = w.idx /\ w'.len = w.len
  BY <1>2, WriterFacts DEF WriterType, WriterPcs, RollPcs
<1>4. /\ shared' \in SharedType /\ shared'.segment = shared.segment
      /\ shared'.handoff = shared.handoff /\ shared'.next = shared.next
      /\ shared'.stopped = shared.stopped /\ shared'.regions = shared.regions
      /\ shared'.files = shared.files /\ shared'.queued = shared.queued
      /\ shared'.queuedFiles = shared.queuedFiles
      /\ shared'.curSeq <= w.seq /\ (pc \in {"retire", "retire_worker"} => shared'.curSeq = w.seq)
  <2>1. CASE RollIndex
    <3>1. shared' = [shared EXCEPT !.curIdx = 0] /\ w'.pc \in {"sequence", "sequence_worker"}
      BY <2>1, WriterFacts DEF RollIndex, WriterType
    <3>2. shared.curSeq <= w.seq
      BY DEF IInv, SegmentsOK
    <3>3. QED
      BY <1>3, <3>1, <3>2, WriterFacts DEF SharedType
  <2>2. CASE RollSequence
    <3>1. shared' = [shared EXCEPT !.curSeq = w.seq]
      BY <2>2 DEF RollSequence
    <3>2. w.seq <= w.seq
      BY WriterFacts
    <3>3. QED
      BY <3>1, <3>2, WriterFacts DEF SharedType
  <2>3. QED
    BY <2>1, <2>2
<1>5. TypeOK' /\ AheadOK'
  BY <1>1, <1>3, <1>4 DEF IInv, TypeOK, AheadOK
<1>6. SegmentsOK'
  BY <1>1, <1>3, <1>4 DEF IInv, SegmentsOK
<1>7. WriterOK' /\ AloneOK'
  BY <1>1, <1>3, <1>4 DEF IInv, WriterOK, AloneOK, RollPcs
<1>8. BehindOK' /\ QueueOK'
  BY <1>1, <1>3, <1>4 DEF IInv, BehindOK, QueueOK, Bound, RollPcs
<1>9. QED
  BY <1>5, <1>6, <1>7, <1>8 DEF IInv

\* What the roll leaves of the old segment is queued.
LEMMA RollRetireInv ==
  ASSUME IInv, RollRetire
  PROVE  IInv'
<1> DEFINE sh == [shared EXCEPT !.next = Nothing]
           old == w.seq - 1
<1>1. /\ UNCHANGED <<flen, wpos, unmap, h>> /\ w.pc \in {"retire", "retire_worker"}
      /\ w' = [w EXCEPT !.pc = "idle"]
  BY DEF RollRetire
<1>2. PICK n \in Nat, m \in Nat : shared' = Released(Retire(sh, old, n, m))
  <2> DEFINE stale == IF shared.next = Nothing THEN 0 ELSE 1
             worker == IF w.pc = "retire_worker" THEN 1 ELSE 0
  <2>1. shared' = Released(Retire(sh, old, 2 + stale, 1 + worker))
    BY DEF RollRetire
  <2>2. 2 + stale \in Nat /\ 1 + worker \in Nat
    OBVIOUS
  <2> HIDE DEF stale, worker
  <2>3. QED
    BY <2>1, <2>2
<1>3. /\ shared.curSeq = w.seq /\ w.seq >= 1 /\ w.seq \in Nat /\ old \in Seqs /\ old # w.seq
      /\ ~(w.seq <= old)
  <2>1. shared.curSeq = w.seq /\ w.seq >= 1
    BY <1>1 DEF IInv, SegmentsOK, RollPcs
  <2>2. w.seq \in Nat /\ w.seq <= MaxSeq
    BY WriterFacts
  <2>3. old \in Nat /\ old <= MaxSeq /\ old # w.seq /\ ~(w.seq <= old)
    BY <2>1, <2>2, SeqFacts
  <2>4. QED
    BY <2>1, <2>2, <2>3, SeqFacts
<1>4. /\ sh \in SharedType /\ sh.segment = shared.segment /\ sh.handoff = shared.handoff
      /\ sh.curSeq = shared.curSeq /\ sh.next = Nothing
      /\ sh.stopped = shared.stopped /\ sh.regions = shared.regions
      /\ sh.files = shared.files /\ sh.queued = shared.queued
      /\ sh.queuedFiles = shared.queuedFiles
  BY WriterFacts DEF SharedType
<1> HIDE DEF sh, old
<1>5. /\ shared' \in SharedType /\ SameButQueue(shared', sh)
      /\ shared'.queuedFiles = shared'.files + h.closing /\ shared'.queuedFiles <= FileBound
      /\ unmap = "Immediate" => shared'.queued <= Bound
      /\ unmap = "AtFileRoll" =>
           \A t \in Seqs : shared.curSeq <= t =>
             shared'.regions[t] = shared.regions[t] + (IF t = old THEN n ELSE 0)
  BY <1>1, <1>2, <1>3, <1>4, LeaveFacts
<1>6. /\ w' \in WriterType /\ w'.pc = "idle" /\ w'.seq = w.seq /\ w'.idx = w.idx /\ w'.len = w.len
  BY <1>1, WriterFacts DEF WriterType, WriterPcs
<1>7. /\ shared'.segment = shared.segment /\ shared'.handoff = shared.handoff
      /\ shared'.curSeq = w.seq /\ shared'.next = Nothing /\ shared'.stopped = shared.stopped
  BY <1>3, <1>4, <1>5 DEF SameButQueue
<1>8. TypeOK' /\ AheadOK'
  BY <1>1, <1>5, <1>6, <1>7 DEF IInv, TypeOK, AheadOK
<1>9. SegmentsOK'
  BY <1>1, <1>3, <1>6, <1>7 DEF IInv, SegmentsOK, RollPcs
<1>10. WriterOK' /\ AloneOK' /\ BehindOK'
  BY <1>1, <1>6, <1>7 DEF IInv, WriterOK, AloneOK, BehindOK
<1>11. QueueOK'
  <2>1. ASSUME unmap = "AtFileRoll"
        PROVE  /\ \A s \in Seqs : s > w.seq => shared'.regions[s] = 0
               /\ shared'.regions[w.seq] = w.idx
    <3>1. /\ \A s \in Seqs : s > w.seq => shared.regions[s] = 0
          /\ shared.regions[w.seq] = w.idx
      BY <1>1, <2>1 DEF IInv, QueueOK
    <3>2. \A t \in Seqs : w.seq <= t => shared'.regions[t] = shared.regions[t]
      BY <1>3, <1>5, <2>1, WriterFacts
    <3>3. QED
      BY <3>1, <3>2, WriterFacts
  <2>2. QED
    BY <1>1, <1>5, <1>6, <1>7, <2>1 DEF IInv, QueueOK, Bound
<1>12. QED
  BY <1>8, <1>9, <1>10, <1>11 DEF IInv

-----------------------------------------------------------------------------
(* The theorems *)

\* Every step keeps the invariant and shortens no file.
LEMMA StepInv ==
  ASSUME IInv, [Next]_vars
  PROVE  IInv' /\ Longer
<1>1. CASE UNCHANGED vars
  <2>1. IInv'
    BY <1>1 DEF vars, IInv, TypeOK, SegmentsOK, WriterOK, AloneOK, BehindOK, AheadOK, QueueOK, Bound
  <2>2. QED
    BY <1>1, <2>1, WriterFacts DEF vars, Longer
<1>2. CASE TakeRegion \/ GrowFile \/ Roll
  BY <1>2, TakeRegionInv, GrowFileInv, RollInv
<1>3. CASE WriterStep
  <2>1. IInv'
    BY <1>3, MovingInv, MovedInv, RollHandOffInv, RollPositionInv, RollRetireInv DEF WriterStep
  <2>2. flen' = flen
    BY <1>3 DEF WriterStep, MapRegion, Move, Moved, Position, RollHandOff, RollIndex,
                RollSequence, RollRetire
  <2>3. QED
    BY <2>1, <2>2, WriterFacts DEF Longer
<1>4. CASE Grow
  BY <1>4, GrowInv
<1>5. CASE HelperStep /\ ~Grow
  <2>1. IInv'
    BY <1>5, LookingInv, ReleasingInv, AheadInv DEF HelperStep
  <2>2. flen' = flen
    BY <1>5 DEF HelperStep, Top, Drain, CloseFiles, LookSequence, LookIndex, MapHeader, Offset,
                Prepare, MapAhead, AheadFails, Fail
  <2>3. QED
    BY <2>1, <2>2, WriterFacts DEF Longer
<1>6. QED
  BY <1>1, <1>2, <1>3, <1>4, <1>5 DEF Next

\* The lengths each thread remembers are related to the file's, as the parts of IInv say.
THEOREM GrowInvariant == Spec => []IInv
<1>1. IInv /\ [Next]_vars => IInv'
  BY StepInv
<1>2. QED
  BY <1>1, InitInv, PTL DEF Spec

\* Neither ensure_len on the writer nor prepare on the helper ever truncates a segment's file,
\* however late the segment was handed over.
THEOREM NoTruncation == Spec => NeverTruncates
<1>1. IInv /\ [Next]_vars => [\A s \in Seqs : flen'[s] >= flen[s]]_vars
  BY StepInv DEF Longer
<1>2. QED
  BY <1>1, GrowInvariant, PTL DEF Spec, NeverTruncates

\* The region being written, and the one mapped ahead for the writer, lie inside their files.
THEOREM RegionsInFile == Spec => []MappedInFile
<1>1. IInv => MappedInFile
  BY DEF IInv, WriterOK, AheadOK, MappedInFile
<1>2. QED
  BY <1>1, GrowInvariant, PTL

\* Under Unmap::AtFileRoll every region left since the roll is still mapped, whoever drains the
\* queue, and queued_files counts the descriptors queued or being closed.
THEOREM LeftReleasedInTime == Spec => []ReleasedInTime
<1>1. IInv => ReleasedInTime
  BY DEF IInv, QueueOK, ReleasedInTime
<1>2. QED
  BY <1>1, GrowInvariant, PTL
=============================================================================
