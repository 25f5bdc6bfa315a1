----------------------------- MODULE ReaderMaps -----------------------------
(* A reader's mappings: single reads, peeks and batches move it from region   *)
(* to region and from segment to segment (lib.rs), while its helper thread    *)
(* maps the region after its own and opens the next segment ahead of it       *)
(* (map_ahead.rs).  Writers commit records, crash and abandon a successor     *)
(* they had installed but not published.                                      *)
(*                                                                            *)
(* A position is a segment, a region of it and a record of that region; a     *)
(* file is a segment and the number of the attempt to create it.  What the    *)
(* reader has left is released by it or by the helper, out of sight.          *)
EXTENDS Integers, Sequences

CONSTANTS
  Layout,       \* what is written to each segment: for each of its regions the index of the
                \* record after the last of it
  Batches,      \* the limits of a batch
  FileRegions,  \* regions a segment's file has room for
  Unmap,        \* the reader's Unmap
  MaxSeq,       \* bound: the last segment
  MaxDiscards,  \* bound: successors discarded
  MaxFaults     \* bound: system calls that fail

Last(s) == s[Len(s)]

\* base_record_index, and the index of the first record of a region.
Base(s) == IF s = 0 THEN 0 ELSE Last(Layout[s - 1])
First(s, reg) == IF reg = 0 THEN Base(s) ELSE Layout[s][reg]

ASSUME LayoutAssumption ==
  /\ \A s \in 0..MaxSeq :
       /\ Layout[s] \in Seq(Nat) /\ Len(Layout[s]) \in 1..FileRegions
       /\ \A i \in DOMAIN Layout[s] : First(s, i - 1) <= Layout[s][i]
  /\ Batches \subseteq Nat \ {0}
  /\ Unmap \in {"Immediate", "AtFileRoll"}
  /\ {FileRegions, MaxSeq, MaxDiscards, MaxFaults} \subseteq Nat

VARIABLES
  wpos,    \* where the next record will be committed
  made,    \* attempts made at each segment: the last is the one its Roll names
  named,   \* the attempt under each segment's name, NoFile if there is none
  r,       \* the reader, and how many records its caller has been given
  shared,  \* struct Shared of the helper
  h,       \* the helper
  faults   \* failed calls so far

disk == <<wpos, made, named>>
vars == <<disk, r, shared, h, faults>>

Seqs == 0..MaxSeq
NoFile == 0
Nothing == [seq |-> -1]
Start(s) == [seq |-> s, reg |-> 0, off |-> 0]

-----------------------------------------------------------------------------
(* The records of the channel *)

\* The absolute index of the record at a position, and what is, or will be, there.
Index(p) == First(p.seq, p.reg) + p.off
Kind(p) ==
  IF Index(p) < Layout[p.seq][p.reg + 1] THEN "User"
  ELSE IF p.reg + 1 < Len(Layout[p.seq]) THEN "Skip" ELSE "Roll"

After(p) ==
  [User |-> [p EXCEPT !.off = @ + 1],
   Skip |-> [p EXCEPT !.reg = @ + 1, !.off = 0],
   Roll |-> Start(p.seq + 1)][Kind(p)]

Committed(p) ==
  \/ p.seq < wpos.seq
  \/ p.seq = wpos.seq /\ p.reg < wpos.reg
  \/ p.seq = wpos.seq /\ p.reg = wpos.reg /\ p.off < wpos.off

-----------------------------------------------------------------------------
(* The writers *)

\* commit, of a user record or of the Skip that ends a region.
Commit ==
  /\ Kind(wpos) # "Roll"
  /\ wpos.seq < MaxSeq \/ Kind(wpos) = "User"
  /\ wpos' = After(wpos)
  /\ UNCHANGED <<made, named, r, shared, h, faults>>

\* A successor is installed, by a roll or ahead of it.
InstallSuccessor ==
  LET s == wpos.seq + 1 IN
  /\ s <= MaxSeq /\ named[s] = NoFile
  /\ made' = [made EXCEPT ![s] = @ + 1]
  /\ named' = [named EXCEPT ![s] = made[s] + 1]
  /\ UNCHANGED <<wpos, r, shared, h, faults>>

\* Files made and no longer named.
Discards ==
  LET upTo[s \in Seqs] == made[s] - (IF named[s] = NoFile THEN 0 ELSE 1)
                           + (IF s = 0 THEN 0 ELSE upTo[s - 1])
  IN upTo[MaxSeq]

\* The writer crashes before it publishes it, and the next one discards it.
DiscardSuccessor ==
  LET s == wpos.seq + 1 IN
  /\ s <= MaxSeq /\ named[s] # NoFile
  /\ Discards < MaxDiscards
  /\ named' = [named EXCEPT ![s] = NoFile]
  /\ UNCHANGED <<wpos, made, r, shared, h, faults>>

\* The successor is published and the Roll that names it is committed.
RollFile ==
  /\ Kind(wpos) = "Roll" /\ wpos.seq < MaxSeq /\ named[wpos.seq + 1] # NoFile
  /\ wpos' = After(wpos)
  /\ UNCHANGED <<made, named, r, shared, h, faults>>

Fault == faults < MaxFaults /\ faults' = faults + 1

-----------------------------------------------------------------------------
(* The reader's mappings *)

Region(s, i, file) == [seq |-> s, reg |-> i, file |-> file]

\* Mutant: a region left is kept whichever segment it is of.
RetireAllButLastKeeps(x) ==
  LET left == {x.maps[i] : i \in 1..(Len(x.maps) - 1)} IN
  [x EXCEPT !.maps = <<Last(@)>>,
            !.held = @ \cup {m \in left : Unmap = "AtFileRoll"}]

\* retire_all_but_last: a region left is kept until the roll while its segment is being read.
RetireAllButLast(x) ==
  LET left == {x.maps[i] : i \in 1..(Len(x.maps) - 1)} IN
  [x EXCEPT !.maps = <<Last(@)>>,
            !.held = @ \cup {m \in left : Unmap = "AtFileRoll" /\ m.seq = x.at.seq}]

\* Between two calls: the locals of a call are gone.
Idle(x) ==
  [x EXCEPT !.pc = "idle", !.call = "", !.max = 0, !.scan = x.at, !.scanFile = x.file,
            !.scanPosition = x.position, !.crossed = FALSE, !.ahead = FALSE, !.tell = Nothing]

\* The position being read: a batch moves the reader only at its end.
At == IF r.call = "batch" THEN r.scan ELSE r.at

\* A read is called: what the last call lent is let go, and what it handed over is the caller's.
Call(call, max) ==
  /\ r.pc = "idle"
  /\ r' = [RetireAllButLast(r) EXCEPT !.pc = "scan", !.call = call, !.max = max,
             !.batch = <<>>, !.out = <<>>]
  /\ UNCHANGED <<disk, shared, h, faults>>

\* try_read, peek_header or read_owned_into, which differ at the records found; try_read_batch.
ReadCall == Call("single", 1)
BatchCall == \E max \in Batches : Call("batch", max)

\* A record lent: its place in maps and where it is.
Lent(p) == [map |-> Len(r.maps), pos |-> p]

\* MessageBatch::message_at: the region a lent record is read from.
MessageAt(m) == r.maps[m.map]

\* A record that owns a share of its region.
Owned(p) == [region |-> Last(r.maps), pos |-> p]

\* The end of a call: a batch of no records borrows nothing.
Returned(x) == Idle(IF x.batch = <<>> THEN RetireAllButLast(x) ELSE x)

\* try_read_batch commits the scan; if it crossed a Roll, the helper has to be told.
Finished(x) ==
  LET moved == [x EXCEPT !.at = x.scan, !.position = x.scanPosition, !.file = x.scanFile,
                         !.given = @ + Len(x.batch)]
  IN IF x.crossed THEN [moved EXCEPT !.pc = "tell"] ELSE Returned(moved)

\* The next header is not committed.
CaughtUp ==
  /\ r.pc = "scan" /\ ~Committed(At)
  /\ r' = IF r.call = "batch" THEN Finished(r) ELSE Idle(r)
  /\ UNCHANGED <<disk, shared, h, faults>>

\* A committed record of some kind is next.
Meets(kind) == r.pc = "scan" /\ Committed(At) /\ Kind(At) = kind

\* A user record is left where it is by a peek ...
PeekRecord ==
  /\ Meets("User") /\ r.call = "single" /\ r.out = <<>>
  /\ r' = Idle(r)
  /\ UNCHANGED <<disk, shared, h, faults>>

\* ... lent by try_read ...
TakeRecord ==
  /\ Meets("User") /\ r.call = "single" /\ r.out = <<>>
  /\ r' = Idle([r EXCEPT !.at = After(@), !.position = @ + 1, !.given = @ + 1,
                         !.batch = <<Lent(r.at)>>])
  /\ UNCHANGED <<disk, shared, h, faults>>

\* ... handed over by try_read_owned, and by read_owned_into one after the other: a failure
\* later in the call does not take back those before it ...
TakeOwned ==
  LET taken == [r EXCEPT !.at = After(@), !.position = @ + 1, !.given = @ + 1,
                         !.out = Append(@, Owned(r.at))]
  IN
  /\ Meets("User") /\ r.call = "single"
  /\ \E max \in Batches \cup {1} :
       /\ Len(r.out) < max
       /\ r' = IF Len(taken.out) = max THEN Idle(taken) ELSE taken
  /\ UNCHANGED <<disk, shared, h, faults>>

\* ... and collected by a batch, up to its limit.
CollectRecord ==
  LET collected == [r EXCEPT !.batch = Append(@, Lent(r.scan)),
                             !.scan = After(@), !.scanPosition = @ + 1]
  IN
  /\ Meets("User") /\ r.call = "batch"
  /\ r' = IF Len(collected.batch) >= r.max THEN Finished(collected) ELSE collected
  /\ UNCHANGED <<disk, shared, h, faults>>

\* Mutant: a batch that fails has moved the reader all the same.
DiscardedMoves(x) ==
  Idle([x EXCEPT !.at = x.scan, !.file = x.scanFile, !.position = x.scanPosition,
                 !.maps = <<Last(@)>>, !.batch = <<>>])

\* A batch fails: nothing it did is kept.
Discarded(x) == Idle([x EXCEPT !.maps = SubSeq(@, 1, 1), !.batch = <<>>])

\* MapAhead::take: the region mapped ahead is told by its numbers alone.
ReadyFor(s, i) ==
  shared.ready # Nothing /\ shared.ready.seq = s /\ shared.ready.reg = i

\* map_region: the region mapped ahead, or the reader's own mapping ...
MapRegion ==
  LET i == At.reg + 1
      found == ReadyFor(At.seq, i)
      from == IF found THEN shared.ready.file
              ELSE IF r.call = "batch" THEN r.scanFile ELSE r.file
  IN
  /\ Meets("Skip")
  /\ shared' = IF found THEN [shared EXCEPT !.ready = Nothing] ELSE shared
  /\ r' = [r EXCEPT !.pc = "store_region", !.maps = Append(@, Region(At.seq, i, from)),
                    !.tell = [seq |-> At.seq, reg |-> i]]
  /\ UNCHANGED <<disk, h, faults>>

\* ... which may fail: a single read can be tried again from where it was.
MapFails ==
  /\ Meets("Skip") /\ ~ReadyFor(At.seq, At.reg + 1)
  /\ Fault
  /\ r' = IF r.call = "batch" THEN Discarded(r) ELSE Idle(r)
  /\ UNCHANGED <<disk, shared, h>>

-----------------------------------------------------------------------------
(* The reader at a Roll *)

\* What open_successor found is entered: for good by a single read (open_next_file), for the
\* rest of the scan by a batch.
Entered(x, file, ahead) ==
  LET s == At.seq + 1
      maps == Append(x.maps, Region(s, 0, file))
  IN IF x.call = "batch"
     THEN [x EXCEPT !.pc = "scan", !.maps = maps, !.scan = Start(s), !.scanFile = file,
                    !.scanPosition = Base(s), !.crossed = TRUE, !.ahead = ahead]
     ELSE RetireAllButLast([x EXCEPT !.pc = "tell", !.maps = maps, !.at = Start(s),
                                     !.file = file, !.position = Base(s), !.ahead = ahead])

\* Mutant: the segment opened ahead is taken for the one the Roll names.
OpenSuccessorAheadUnchecked ==
  LET s == At.seq + 1
      found == shared.next.seq = s
  IN
  /\ Meets("Roll")
  /\ shared' = IF found THEN [shared EXCEPT !.next = Nothing] ELSE shared
  /\ r' = IF found THEN Entered(r, shared.next.file, TRUE) ELSE [r EXCEPT !.pc = "open"]
  /\ UNCHANGED <<disk, h, faults>>

\* open_successor: the segment opened ahead, if it is the one the Roll names ...
OpenSuccessorAhead ==
  LET s == At.seq + 1
      found == shared.next.seq = s
  IN
  /\ Meets("Roll")
  /\ shared' = IF found THEN [shared EXCEPT !.next = Nothing] ELSE shared
  /\ r' = IF found /\ shared.next.file = made[s] THEN Entered(r, shared.next.file, TRUE)
          ELSE [r EXCEPT !.pc = "open"]
  /\ UNCHANGED <<disk, h, faults>>

\* Mutant: the reader waits for the helper to open it.
OpenSuccessorWaits ==
  /\ r.pc = "open"
  /\ r' = [r EXCEPT !.pc = "scan"]
  /\ UNCHANGED <<disk, shared, h, faults>>

\* ... or the file under its name ...
OpenSuccessor ==
  LET s == At.seq + 1 IN
  /\ r.pc = "open"
  /\ named[s] # NoFile /\ named[s] = made[s]
  /\ r' = Entered(r, named[s], FALSE)
  /\ UNCHANGED <<disk, shared, h, faults>>

\* ... which may be gone, or not open: a batch then ends before the Roll, or fails.
OpenSuccessorFails ==
  /\ r.pc = "open"
  /\ Fault
  /\ r' = IF r.call # "batch" THEN Idle(r)
          ELSE IF r.batch # <<>> THEN Finished(r) ELSE Discarded(r)
  /\ UNCHANGED <<disk, shared, h>>

\* Reader::rolled: the helper is told which file the segment is, unless it opened it itself or
\* the descriptor cannot be cloned; what was kept of the old segment is let go.
TellRolled ==
  /\ r.pc = "tell"
  /\ r' = [r EXCEPT !.pc = "store_region", !.held = {}, !.tell = [seq |-> r.at.seq, reg |-> 0]]
  /\ \/ /\ shared' = [shared EXCEPT !.rolled =
                         [seq |-> r.at.seq, file |-> IF r.ahead THEN NoFile ELSE r.file]]
        /\ UNCHANGED faults
     \/ ~r.ahead /\ Fault /\ UNCHANGED shared
  /\ UNCHANGED <<disk, h>>

\* MapAhead::moved: the region, then the segment.
StoreRegion ==
  /\ r.pc = "store_region"
  /\ shared' = [shared EXCEPT !.wantReg = r.tell.reg + 1]
  /\ r' = [r EXCEPT !.pc = "store_sequence"]
  /\ UNCHANGED <<disk, h, faults>>

\* After a roll a single read goes on scanning and a batch returns; after a region both go on.
StoreSequence ==
  LET told == [r EXCEPT !.pc = "scan", !.tell = Nothing] IN
  /\ r.pc = "store_sequence"
  /\ shared' = [shared EXCEPT !.wantSeq = r.tell.seq]
  /\ r' = IF r.tell.reg = 0 THEN IF r.call = "batch" THEN Returned(r) ELSE told
          ELSE IF r.call = "batch" THEN [told EXCEPT !.scan = After(@)]
          ELSE RetireAllButLast([told EXCEPT !.at = After(@)])
  /\ UNCHANGED <<disk, h, faults>>

-----------------------------------------------------------------------------
(* The helper *)

\* Only the reader says which file a segment is.
TakeRolled ==
  LET told == shared.rolled IN
  /\ h.pc = "top"
  /\ shared' = [shared EXCEPT !.rolled = Nothing]
  /\ h' = IF told = Nothing THEN [h EXCEPT !.pc = "load_sequence"]
          ELSE IF told.file # NoFile
          THEN [h EXCEPT !.pc = "load_sequence", !.segment = told]
          ELSE [h EXCEPT !.pc = "load_sequence", !.upcoming = Nothing,
                         !.segment = IF h.upcoming.seq = told.seq THEN h.upcoming ELSE Nothing]
  /\ UNCHANGED <<disk, r, faults>>

\* The next pass: nothing of this one is kept.
Again(x) == [x EXCEPT !.pc = "top", !.seq = 0, !.reg = 0, !.opened = Nothing]

LoadSequence ==
  /\ h.pc = "load_sequence"
  /\ h' = [h EXCEPT !.pc = "load_region", !.seq = shared.wantSeq]
  /\ UNCHANGED <<disk, r, shared, faults>>

LoadRegion ==
  /\ h.pc = "load_region"
  /\ h' = IF h.segment.seq = h.seq THEN [h EXCEPT !.pc = "map", !.reg = shared.wantReg]
          ELSE Again(h)
  /\ UNCHANGED <<disk, r, shared, faults>>

\* The region after the reader's is mapped, once, if the file has it.
MapAhead ==
  LET wanted == [seq |-> h.seq, reg |-> h.reg] IN
  /\ h.pc = "map" /\ h.reg < FileRegions
  /\ IF h.done = wanted THEN shared' = shared /\ h' = Again(h)
     ELSE /\ shared' = [shared EXCEPT !.ready = Region(h.seq, h.reg, h.segment.file)]
          /\ h' = Again([h EXCEPT !.done = wanted])
  /\ UNCHANGED <<disk, r, faults>>

\* open_next, while the reader is in the last region: whatever is under the next name ...
OpenNext ==
  /\ h.pc = "map" /\ h.reg >= FileRegions
  /\ IF shared.next.seq = h.seq + 1 \/ h.seq = MaxSeq \/ named[h.seq + 1] = NoFile
     THEN h' = Again(h) /\ UNCHANGED faults
     ELSE LET next == [seq |-> h.seq + 1, file |-> named[h.seq + 1]] IN
          \/ /\ h' = [h EXCEPT !.pc = "put", !.opened = next, !.upcoming = next]
             /\ UNCHANGED faults
          \/ Fault /\ h' = [h EXCEPT !.pc = "put", !.opened = next, !.upcoming = Nothing]
  /\ UNCHANGED <<disk, r, shared>>

\* ... is left for the reader.
PutNext ==
  /\ h.pc = "put"
  /\ shared' = [shared EXCEPT !.next = h.opened]
  /\ h' = Again(h)
  /\ UNCHANGED <<disk, r, faults>>

\* madvise or mmap fails: the thread stops for good.
HelperFails ==
  /\ h.pc = "map" /\ Fault
  /\ h' = [Again(h) EXCEPT !.pc = "stopped"]
  /\ UNCHANGED <<disk, r, shared>>

-----------------------------------------------------------------------------
Init ==
  /\ wpos = Start(0)
  /\ made = [s \in Seqs |-> IF s = 0 THEN 1 ELSE 0]
  /\ named = made
  /\ r = Idle([pc |-> "idle", call |-> "", max |-> 0, at |-> Start(0), file |-> 1,
               position |-> 0, given |-> 0, maps |-> <<Region(0, 0, 1)>>, held |-> {},
               batch |-> <<>>, out |-> <<>>,
               scan |-> Start(0), scanFile |-> 1, scanPosition |-> 0, crossed |-> FALSE,
               ahead |-> FALSE, tell |-> Nothing])
  /\ shared = [wantSeq |-> 0, wantReg |-> 1, rolled |-> [seq |-> 0, file |-> 1],
               ready |-> Nothing, next |-> Nothing]
  /\ h = [pc |-> "top", segment |-> Nothing, upcoming |-> Nothing, opened |-> Nothing,
          done |-> Nothing, seq |-> 0, reg |-> 0]
  /\ faults = 0

WriterStep == Commit \/ InstallSuccessor \/ DiscardSuccessor \/ RollFile
ReaderCalled == ReadCall \/ BatchCall
ReaderStep ==
  \/ CaughtUp \/ PeekRecord \/ TakeRecord \/ TakeOwned \/ CollectRecord
  \/ MapRegion \/ MapFails
  \/ OpenSuccessorAhead \/ OpenSuccessor \/ OpenSuccessorFails
  \/ TellRolled \/ StoreRegion \/ StoreSequence
HelperStep ==
  TakeRolled \/ LoadSequence \/ LoadRegion \/ MapAhead \/ OpenNext \/ PutNext \/ HelperFails

Next == WriterStep \/ ReaderCalled \/ ReaderStep \/ HelperStep

Spec == Init /\ [][Next]_vars

\* A call runs to its end, and the application keeps reading.  Nothing is asked of the helper.
FairSpec == Spec /\ WF_vars(ReaderStep) /\ SF_vars(ReadCall) /\ SF_vars(TakeRecord)

-----------------------------------------------------------------------------
\* Between calls the reader's last mapping is the region it is in, of the file the chain of Rolls
\* names; and so is the region of every record lent to its caller or owned by it
\* (prune_to_current, message_at, try_read_owned).
MappedIsRead ==
  LET RegionOf(p) == Region(p.seq, p.reg, made[p.seq]) IN
  /\ \A i \in DOMAIN r.maps : r.maps[i].file = made[r.maps[i].seq]
  /\ r.pc = "idle" =>
       /\ Last(r.maps) = Region(r.at.seq, r.at.reg, r.file)
       /\ \A i \in DOMAIN r.batch : /\ r.batch[i].map \in DOMAIN r.maps
                                   /\ MessageAt(r.batch[i]) = RegionOf(r.batch[i].pos)
       /\ \A i \in DOMAIN r.out : r.out[i].region = RegionOf(r.out[i].pos)

\* Every user record is given to the caller once and in order, whatever fails on the way: the
\* records lent or handed over last are the last of those given, and the reader is at the one
\* after them.
GivenOnce ==
  LET last == [i \in DOMAIN r.batch |-> r.batch[i].pos] \o [i \in DOMAIN r.out |-> r.out[i].pos] IN
  r.pc = "idle" =>
    /\ r.position = Index(r.at) /\ r.given = r.position
    /\ \A i \in DOMAIN last :
         Kind(last[i]) = "User" /\ Index(last[i]) = r.given - Len(last) + i - 1

\* Unmap::AtFileRoll keeps every region of the segment being read mapped until the roll, and
\* nothing of the segments before it once the call that rolled is over.
KeptUntilRoll ==
  /\ \A m \in r.held : m.seq = r.at.seq \/ r.pc = "tell"
  /\ (Unmap = "AtFileRoll" /\ r.pc = "idle") =>
       \A i \in 0..r.at.reg :
         Region(r.at.seq, i, r.file) \in r.held \cup {r.maps[j] : j \in DOMAIN r.maps}

\* A reader behind a committed Roll reaches the segment being written, beside a helper that is
\* slow or has stopped too, after opens that failed as well.
FollowsRolls == (r.at.seq < wpos.seq) ~> (r.at.seq = wpos.seq)
=============================================================================
