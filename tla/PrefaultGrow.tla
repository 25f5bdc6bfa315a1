---------------------------- MODULE PrefaultGrow ----------------------------
(* The writer and its helper thread on the regions of one segment after       *)
(* another, on a channel with no file_roll_size (the application calls        *)
(* roll_file): both grow the file and map its regions, the writer hands the   *)
(* segments it rolls to and the mappings it leaves to the helper.  Lengths    *)
(* and positions are in regions.  PrefaultRoll has the rest of prefault.rs.   *)
EXTENDS Integers

CONSTANTS
  MaxSeq, MaxIndex,  \* bounds: the last segment, and the last region of one
  RetireBound,       \* retire_bound of Unmap::Immediate
  FileBound          \* 2 * SMALL_QUEUE

ASSUME GrowAssumption ==
  {MaxSeq, MaxIndex, RetireBound, FileBound} \subseteq Nat

VARIABLES
  flen,    \* the length of each segment's file
  wpos,    \* the region its write_position is in
  unmap,   \* Unmap, as built
  w,       \* the writer: segment, region, the length it knows (file_len)
  shared,  \* struct Shared; queued is the length of its queue, where that is bounded
  h        \* the helper: the position it read, the segment whose header it mapped, the
           \* descriptors it is closing

vars == <<flen, wpos, unmap, w, shared, h>>

Seqs == 0..MaxSeq
None == -1
Nothing == [seq |-> None]
Larger(a, b) == IF a < b THEN b ELSE a
Smaller(a, b) == IF a < b THEN a ELSE b

\* A new file is one region long (preallocation_len).
Init ==
  /\ flen = [s \in Seqs |-> IF s = 0 THEN 1 ELSE 0]
  /\ wpos = [s \in Seqs |-> 0]
  /\ unmap \in {"Immediate", "AtFileRoll"}
  /\ w = [pc |-> "idle", seq |-> 0, idx |-> 0, len |-> 1]
  /\ shared = [segment |-> [seq |-> 0, len |-> 1], handoff |-> Nothing, curSeq |-> 0,
               curIdx |-> 0, next |-> Nothing, regions |-> [s \in Seqs |-> 0], files |-> 0,
               queued |-> 0, queuedFiles |-> 0, stopped |-> FALSE]
  /\ h = [pc |-> "top", seq |-> 0, idx |-> 0, header |-> None, closing |-> 0]

-----------------------------------------------------------------------------
(* What the writer leaves for the helper *)

\* The bound of the queue: retire_bound of Unmap::Immediate, and room for the descriptors.  That of
\* AtFileRoll without a file_roll_size is usize::MAX, which no queue reaches.
Bound == RetireBound + FileBound

\* Bounded::push: how many of n more items the queue takes.
Taken(sh, n) == IF unmap = "Immediate" THEN Smaller(n, Bound - sh.queued) ELSE n

\* retire: n mappings of segment s, then m descriptors; what does not fit is released here.
Retire(sh, s, n, m) ==
  LET kept == Taken(sh, n)
      open == Taken(sh, kept + Smaller(m, FileBound - sh.queuedFiles)) - kept
  IN [sh EXCEPT !.regions[s] = @ + kept, !.files = @ + open, !.queuedFiles = @ + open,
                !.queued = IF unmap = "Immediate" THEN @ + kept + open ELSE @]

\* Left::held: under AtFileRoll the mappings of the segment being written are kept.
Held(s, current) == unmap = "AtFileRoll" /\ s >= current

Drained(sh, current) ==
  [sh EXCEPT !.regions = [s \in Seqs |-> IF Held(s, current) THEN @[s] ELSE 0],
             !.files = 0, !.queued = 0]

\* Mutant: the count of descriptors is left as it was.
ReleasedUncounted(sh) == IF sh.stopped THEN Drained(sh, sh.curSeq) ELSE sh

\* release_if_stopped
Released(sh) ==
  IF sh.stopped THEN [Drained(sh, sh.curSeq) EXCEPT !.queuedFiles = 0] ELSE sh

\* The helper holds segment: hand_off's try_lock may miss it.
SegmentBusy == h.pc \in {"header", "grow"}

\* hand_off succeeds, or is left for later: the new state and the descriptor it leaves.
HandOff(sh) ==
  IF sh.handoff = Nothing THEN {<<sh, 0>>}
  ELSE {<<[sh EXCEPT !.segment = sh.handoff, !.handoff = Nothing], 1>>}
       \cup (IF SegmentBusy THEN {<<sh, 0>>} ELSE {})

-----------------------------------------------------------------------------
(* The writer: roll_over_region *)

\* region_at: the region mapped ahead ...
TakeRegion ==
  /\ w.pc = "idle" /\ shared.next = [seq |-> w.seq, idx |-> w.idx + 1]
  /\ w.idx < MaxIndex
  /\ shared' = [shared EXCEPT !.next = Nothing]
  /\ w' = [w EXCEPT !.pc = "move", !.len = Larger(@, w.idx + 2)]
  /\ UNCHANGED <<flen, wpos, unmap, h>>

\* ensure_len: through the helper's handle while it is on this segment; otherwise alone.
EnsureLen(want) ==
  IF shared.segment.seq = w.seq
  THEN /\ flen' = [flen EXCEPT ![w.seq] = IF want > shared.segment.len THEN want ELSE @]
       /\ shared' = [shared EXCEPT !.segment.len = Larger(@, want)]
       /\ w' = [w EXCEPT !.pc = "map", !.len = Larger(@, Larger(shared.segment.len, want))]
  ELSE /\ flen' = [flen EXCEPT ![w.seq] = IF want > w.len THEN want ELSE @]
       /\ w' = [w EXCEPT !.pc = "map", !.len = Larger(@, want)]
       /\ UNCHANGED shared

\* ... or grow the file to hold it ...
GrowFile ==
  /\ w.pc = "idle" /\ shared.next # [seq |-> w.seq, idx |-> w.idx + 1]
  /\ w.idx < MaxIndex
  /\ EnsureLen(w.idx + 2)
  /\ UNCHANGED <<wpos, unmap, h>>

\* ... and map it, which may fail.
MapRegion ==
  /\ w.pc = "map"
  /\ \E pc \in {"move", "idle"} : w' = [w EXCEPT !.pc = pc]
  /\ UNCHANGED <<flen, wpos, unmap, shared, h>>

\* switch_region: the helper learns of the region first ...
Move ==
  /\ w.pc = "move"
  /\ w' = [w EXCEPT !.pc = "moved", !.idx = @ + 1]
  /\ shared' = [shared EXCEPT !.curIdx = w.idx + 1]
  /\ UNCHANGED <<flen, wpos, unmap, h>>

\* ... then a segment waiting to be handed over is, and the mapping left is queued ...
Moved ==
  /\ w.pc = "moved"
  /\ w' = [w EXCEPT !.pc = "position"]
  /\ \E done \in HandOff(shared) :
       shared' = Released(Retire(done[1], shared.curSeq, 1, done[2]))
  /\ UNCHANGED <<flen, wpos, unmap, h>>

\* ... and only then does write_position follow.
Position ==
  /\ w.pc = "position"
  /\ w' = [w EXCEPT !.pc = "idle"]
  /\ wpos' = [wpos EXCEPT ![w.seq] = w.idx]
  /\ UNCHANGED <<flen, unmap, shared, h>>

-----------------------------------------------------------------------------
(* The writer: roll_file, its new segment made by the writer *)

\* The writer switches; with a handle on the segment for the helper, it waits in handoff with the
\* length it has now, and hand_off is tried at once.
Roll ==
  /\ w.pc = "idle" /\ w.seq < MaxSeq
  /\ w' = [pc |-> "rolled", seq |-> w.seq + 1, idx |-> 0, len |-> 1]
  /\ flen' = [flen EXCEPT ![w.seq + 1] = 1]
  /\ \E cloned \in BOOLEAN :
       shared' = IF cloned THEN [shared EXCEPT !.handoff = [seq |-> w.seq + 1, len |-> 1]]
                           ELSE shared
  /\ UNCHANGED <<wpos, unmap, h>>

RollHandOff ==
  /\ w.pc = "rolled"
  /\ \E done \in IF shared.handoff.seq = w.seq THEN HandOff(shared) ELSE {<<shared, 0>>} :
       /\ shared' = done[1]
       /\ w' = [w EXCEPT !.pc = IF done[2] = 1 THEN "index_worker" ELSE "index"]
  /\ UNCHANGED <<flen, wpos, unmap, h>>

\* current_index, then current_sequence: the helper loads them the other way round.
RollIndex ==
  /\ w.pc \in {"index", "index_worker"}
  /\ shared' = [shared EXCEPT !.curIdx = 0]
  /\ w' = [w EXCEPT !.pc = IF @ = "index" THEN "sequence" ELSE "sequence_worker"]
  /\ UNCHANGED <<flen, wpos, unmap, h>>

RollSequence ==
  /\ w.pc \in {"sequence", "sequence_worker"}
  /\ shared' = [shared EXCEPT !.curSeq = w.seq]
  /\ w' = [w EXCEPT !.pc = IF @ = "sequence" THEN "retire" ELSE "retire_worker"]
  /\ UNCHANGED <<flen, wpos, unmap, h>>

\* Both mappings of the old segment, a region prepared ahead in it, its descriptor and the
\* helper's are queued.
RollRetire ==
  LET stale == IF shared.next = Nothing THEN 0 ELSE 1
      worker == IF w.pc = "retire_worker" THEN 1 ELSE 0
      sh == [shared EXCEPT !.next = Nothing]
  IN /\ w.pc \in {"retire", "retire_worker"}
     /\ w' = [w EXCEPT !.pc = "idle"]
     /\ shared' = Released(Retire(sh, w.seq - 1, 2 + stale, 1 + worker))
     /\ UNCHANGED <<flen, wpos, unmap, h>>

-----------------------------------------------------------------------------
(* The helper: run *)

\* What to release is taken under the lock, by the segment current just before ...
Top ==
  /\ h.pc = "top"
  /\ h' = [h EXCEPT !.pc = "drain", !.seq = shared.curSeq]
  /\ UNCHANGED <<flen, wpos, unmap, w, shared>>

Drain ==
  /\ h.pc = "drain"
  /\ h' = [h EXCEPT !.pc = "close", !.closing = shared.files]
  /\ shared' = Drained(shared, h.seq)
  /\ UNCHANGED <<flen, wpos, unmap, w>>

\* ... and is unmapped and closed; then the count is.
CloseFiles ==
  /\ h.pc = "close"
  /\ h' = [h EXCEPT !.pc = "look", !.closing = 0]
  /\ shared' = [shared EXCEPT !.queuedFiles = @ - h.closing]
  /\ UNCHANGED <<flen, wpos, unmap, w>>

\* Where the writer is: the segment, then the region.
LookSequence ==
  /\ h.pc = "look"
  /\ h' = [h EXCEPT !.pc = "look_index", !.seq = shared.curSeq]
  /\ UNCHANGED <<flen, wpos, unmap, w, shared>>

LookIndex ==
  /\ h.pc = "look_index"
  /\ h' = [h EXCEPT !.pc = "header", !.idx = shared.curIdx]
  /\ UNCHANGED <<flen, wpos, unmap, w, shared>>

\* map_header
MapHeader ==
  /\ h.pc = "header"
  /\ h' = IF h.seq \in {h.header, shared.segment.seq}
          THEN [h EXCEPT !.pc = "offset", !.header = h.seq]
          ELSE [h EXCEPT !.pc = "top", !.header = None]
  /\ UNCHANGED <<flen, wpos, unmap, w, shared>>

\* Mutant: the offset is taken in whichever region write_position is.
OffsetAnyRegion ==
  /\ h.pc = "offset"
  /\ \E pc \in {"ahead", "top"} : h' = [h EXCEPT !.pc = pc]
  /\ UNCHANGED <<flen, wpos, unmap, w, shared>>

\* Past the middle of the region it was told of, the next is prepared; a write_position in
\* another region counts as its start.
Offset ==
  /\ h.pc = "offset"
  /\ \E pc \in IF wpos[h.seq] = h.idx THEN {"ahead", "top"} ELSE {"top"} :
       h' = [h EXCEPT !.pc = pc]
  /\ UNCHANGED <<flen, wpos, unmap, w, shared>>

\* prepare: nothing to do if it is there ...
Prepare ==
  /\ h.pc = "ahead"
  /\ h' = [h EXCEPT !.pc =
             IF shared.next = [seq |-> h.seq, idx |-> h.idx + 1] \/ h.idx = MaxIndex
             THEN "top" ELSE "grow"]
  /\ UNCHANGED <<flen, wpos, unmap, w, shared>>

\* Mutant: the length is set even when the file is longer.
GrowAlways ==
  LET needed == h.idx + 2
      seg == shared.segment
      grows == seg.seq = h.seq
  IN /\ h.pc = "grow"
     /\ h' = [h EXCEPT !.pc = IF seg.seq = h.seq THEN "map" ELSE "top"]
     /\ flen' = IF grows THEN [flen EXCEPT ![h.seq] = needed] ELSE flen
     /\ shared' = IF grows THEN [shared EXCEPT !.segment.len = needed] ELSE shared
     /\ UNCHANGED <<wpos, unmap, w>>

\* ... otherwise the file is grown under the lock, if it is still the one handed over ...
Grow ==
  LET needed == h.idx + 2
      seg == shared.segment
      grows == seg.seq = h.seq /\ seg.len < needed
  IN /\ h.pc = "grow"
     /\ h' = [h EXCEPT !.pc = IF seg.seq = h.seq THEN "map" ELSE "top"]
     /\ flen' = IF grows THEN [flen EXCEPT ![h.seq] = needed] ELSE flen
     /\ shared' = IF grows THEN [shared EXCEPT !.segment.len = needed] ELSE shared
     /\ UNCHANGED <<wpos, unmap, w>>

\* ... and the region is mapped and left for the writer, in place of any other.
MapAhead ==
  /\ h.pc = "map"
  /\ h' = [h EXCEPT !.pc = "top"]
  /\ shared' = [shared EXCEPT !.next = [seq |-> h.seq, idx |-> h.idx + 1]]
  /\ UNCHANGED <<flen, wpos, unmap, w>>

\* Growing or mapping ahead fails: it is left to the writer.
AheadFails ==
  /\ h.pc \in {"grow", "map"}
  /\ h' = [h EXCEPT !.pc = "top"]
  /\ UNCHANGED <<flen, wpos, unmap, w, shared>>

\* The header cannot be mapped, or madvise fails: the thread ends.
Fail ==
  /\ h.pc = "offset" \/ (h.pc = "header" /\ h.header # h.seq /\ shared.segment.seq = h.seq)
  /\ h' = [h EXCEPT !.pc = "exited"]
  /\ shared' = [shared EXCEPT !.stopped = TRUE]
  /\ UNCHANGED <<flen, wpos, unmap, w>>

-----------------------------------------------------------------------------

\* What roll_over_region or roll_file does once it has begun.
WriterStep ==
  \/ MapRegion \/ Move \/ Moved \/ Position
  \/ RollHandOff \/ RollIndex \/ RollSequence \/ RollRetire

HelperStep ==
  \/ Top \/ Drain \/ CloseFiles \/ LookSequence \/ LookIndex \/ MapHeader \/ Offset
  \/ Prepare \/ Grow \/ MapAhead \/ AheadFails \/ Fail

Next == TakeRegion \/ GrowFile \/ Roll \/ WriterStep \/ HelperStep

Spec == Init /\ [][Next]_vars

-----------------------------------------------------------------------------
(* Properties *)

\* Neither thread, however old its view of the file's length, ever truncates a segment.
NeverTruncates == [][\A s \in Seqs : flen'[s] >= flen[s]]_vars

\* Every region the writer writes to, or is about to be given, lies inside its file.
MappedInFile ==
  /\ w.idx < flen[w.seq]
  /\ shared.next # Nothing => shared.next.idx < flen[shared.next.seq]

\* Whoever drains the queue, under AtFileRoll every region left since the roll is still mapped;
\* and the count that bounds the queued descriptors is exact, so that it neither starves nor
\* wraps.
ReleasedInTime ==
  /\ unmap = "AtFileRoll" /\ w.pc = "idle" => shared.regions[w.seq] = w.idx
  /\ shared.queuedFiles = shared.files + h.closing
  /\ shared.queuedFiles <= FileBound
=============================================================================
