----------------------------- MODULE SegmentLog -----------------------------
(***************************************************************************)
(* One published segment file over its whole life: the writer that appends *)
(* records to it (try_reserve, commit, roll_over_region) and at last a     *)
(* Roll (roll_file), a crash of that writer at any store, the recovery of  *)
(* the next writer to open the channel (open_file, commit_stranded_roll),  *)
(* and the readers that scan it from its start or join it at its head      *)
(* (Reader::live_start).                                                   *)
(*                                                                         *)
(* Each step is one store to, or one load from, memory another process     *)
(* sees.  The stores a reader orders by are Release and its loads Acquire, *)
(* with one writer, so a reader's loads see the writer's stores in their   *)
(* program order: interleaving is the memory model the code relies on.     *)
(*                                                                         *)
(* `slots` holds only the offsets that hold a header now.  A payload, a    *)
(* Roll's body or an overlapping header written over a slot removes it: its*)
(* bytes are no header any more.  Bytes never written are no header either.*)
(***************************************************************************)
EXTENDS Geometry

CONSTANTS
  Readers,      \* reader processes
  Sizes,        \* payload sizes a caller reserves or commits
  Metas,        \* message_type and user_meta_u64 a caller commits, 0 or not
  MaxRecords,   \* bound: user records committed to the segment
  MaxCrashes    \* bound: writer crashes

ASSUME SizesAssumption == Sizes \subseteq Nat /\ Metas \subseteq {0, 1}
ASSUME BoundsAssumption == MaxRecords \in Nat /\ MaxCrashes \in Nat

VARIABLES
  slots,     \* header at each offset that holds one
  count,     \* ChannelHeader.message_count
  wp,        \* ChannelHeader.write_position
  fileLen,   \* length of the file
  succ,      \* the successor segment: "none", "prepared" or "published"
  succBase,  \* the successor's base_record_index, once published (this base is 0)
  pc,        \* where the writer, or the open that replaces it, is
  next,      \* next_hdr_pos
  pending,   \* pending_msg_size, NoSize for None
  arg,       \* the size being reserved, or the length being committed
  walk,      \* the header walk of a recovery: position and user records seen
  crashes,   \* crashes so far
  rpc,       \* where each reader is
  rpos,      \* read_position (read_pos while a Live open runs)
  rindex,    \* position: index of the next user record
  rwalk,     \* the header walk of a Live open
  chain      \* history: the offsets a walk from 0 can reach, with the number
             \* of user records before each

fileVars == <<slots, count, wp, fileLen, succ, succBase>>
writerVars == <<pc, next, pending, arg, walk, crashes>>
readerVars == <<rpc, rpos, rindex, rwalk>>
vars == <<fileVars, writerVars, readerVars, chain>>

-----------------------------------------------------------------------------
(* Headers *)

NoSize == -1
HeaderTypes == {"Channel", "User", "Skip", "Roll"}

\* `meta` stands for message_type and user_meta_u64: 0 in service headers.
Header == [committed : BOOLEAN, type : HeaderTypes, len : Nat, meta : {0, 1}]

ChannelRecord ==
  [committed |-> TRUE, type |-> "Channel", len |-> FIRST_RECORD - HEADER_SLOT, meta |-> 0]
Preinstalled == [committed |-> FALSE, type |-> "User", len |-> 0, meta |-> 0]
StagedUser(len, meta) == [committed |-> FALSE, type |-> "User", len |-> len, meta |-> meta]
StagedSkip(len) == [committed |-> FALSE, type |-> "Skip", len |-> len, meta |-> 0]
StagedRoll == [committed |-> FALSE, type |-> "Roll", len |-> ROLL_PAYLOAD, meta |-> 0]

\* Bytes from..to-1 written with no header in them.
Clobber(s, from, to) ==
  [q \in {x \in DOMAIN s : x + HEADER_SLOT <= from \/ to <= x} |-> s[q]]

\* A header written at p, over whatever those bytes held.
PutHeader(s, p, h) ==
  [q \in {x \in DOMAIN s : x + HEADER_SLOT <= p \/ p + HEADER_SLOT <= x} \cup {p} |->
     IF q = p THEN h ELSE s[q]]

\* MessageHeader::commit.
SetCommitted(s, p) == [s EXCEPT ![p].committed = TRUE]

IsHeader(p) == p \in DOMAIN slots
Committed(p) == IsHeader(p) /\ slots[p].committed
CommittedType(p, t) == Committed(p) /\ slots[p].type = t

\* Where a walk or a reader goes from a committed record, and what it counts there.
After(p) == NextSlot(p, slots[p].len)
UsersAt(p) == IF slots[p].type = "User" THEN 1 ELSE 0

\* A walk before its first header.
WalkStart == [pos |-> 0, users |-> 0]

\* The chain grows by the slot after the record at p, as that record is committed.
Extend(c, p, q, n) == [x \in DOMAIN c \cup {q} |-> IF x = q THEN c[p] + n ELSE c[x]]

-----------------------------------------------------------------------------
(* A segment just prepared, installed and published (init_segment). *)

Init ==
  /\ slots = [p \in {0, FIRST_RECORD} |-> IF p = 0 THEN ChannelRecord ELSE Preinstalled]
  /\ count = 0
  /\ wp = FIRST_RECORD + HEADER_SLOT
  /\ fileLen = PreallocationLen
  /\ succ = "none"
  /\ succBase = 0
  /\ pc = "idle"
  /\ next = FIRST_RECORD
  /\ pending = NoSize
  /\ arg = 0
  /\ walk = WalkStart
  /\ crashes = 0
  /\ rpc = [r \in Readers |-> "closed"]
  /\ rpos = [r \in Readers |-> 0]
  /\ rindex = [r \in Readers |-> 0]
  /\ rwalk = [r \in Readers |-> WalkStart]
  /\ chain = [p \in {0, FIRST_RECORD} |-> 0]

Goto(from, to) == pc = from /\ pc' = to

-----------------------------------------------------------------------------
(* Writer: try_reserve *)

\* The caller asks for `size` bytes; a size that can never fit is refused with no effect.
TryReserve(size) ==
  /\ Goto("idle", "reserve")
  /\ CanFit(size)
  /\ chain[next] < MaxRecords
  /\ arg' = size
  /\ UNCHANGED <<fileVars, next, pending, walk, crashes, readerVars, chain>>

\* One turn of the loop: roll the file, roll over the region, or grant the reservation.
ReserveRollFile ==
  /\ Goto("reserve", "roll")
  /\ MustRollFile(next, arg)
  /\ pending' = NoSize
  /\ arg' = 0
  /\ UNCHANGED <<fileVars, next, walk, crashes, readerVars, chain>>

ReserveSkip ==
  /\ Goto("reserve", "skip")
  /\ ~MustRollFile(next, arg)
  /\ MustSkip(next, arg)
  /\ pending' = NoSize
  /\ UNCHANGED <<fileVars, next, arg, walk, crashes, readerVars, chain>>

\* Slot i+1 is pre-installed before slot i's buffer is handed out.
ReserveGrant ==
  /\ Goto("reserve", "idle")
  /\ ~MustRollFile(next, arg)
  /\ ~MustSkip(next, arg)
  /\ slots' = PutHeader(slots, NextSlot(next, arg), Preinstalled)
  /\ pending' = arg
  /\ arg' = 0
  /\ UNCHANGED <<count, wp, fileLen, succ, succBase, next, walk, crashes, readerVars, chain>>

\* The caller fills the reserved buffer.
FillPayload ==
  /\ pc = "idle"
  /\ pending # NoSize
  /\ slots' = Clobber(slots, next + HEADER_SLOT, next + HEADER_SLOT + pending)
  /\ UNCHANGED <<count, wp, fileLen, succ, succBase, writerVars, readerVars, chain>>

-----------------------------------------------------------------------------
(* Writer: commit *)

\* A length over the reservation is refused, and the reservation is gone.
CommitTooLong(len) ==
  /\ pc = "idle"
  /\ pending # NoSize /\ len > pending
  /\ pending' = NoSize
  /\ UNCHANGED <<fileVars, pc, next, arg, walk, crashes, readerVars, chain>>

\* Mutant: the header records the reserved size, not the committed length.
CommitHeaderReserved(len, meta) ==
  /\ pc = "idle"
  /\ pending # NoSize /\ len <= pending
  /\ pc' = IF len < pending THEN "relay" ELSE "commit"
  /\ slots' = PutHeader(slots, next, StagedUser(pending, meta))
  /\ pending' = NoSize
  /\ arg' = len
  /\ UNCHANGED <<count, wp, fileLen, succ, succBase, next, walk, crashes, readerVars, chain>>

\* Fill the header, still uncommitted; a short commit must re-lay the next slot.
CommitHeader(len, meta) ==
  /\ pc = "idle"
  /\ pending # NoSize /\ len <= pending
  /\ pc' = IF len < pending THEN "relay" ELSE "commit"
  /\ slots' = PutHeader(slots, next, StagedUser(len, meta))
  /\ pending' = NoSize
  /\ arg' = len
  /\ UNCHANGED <<count, wp, fileLen, succ, succBase, next, walk, crashes, readerVars, chain>>

CommitRelay ==
  /\ Goto("relay", "commit")
  /\ slots' = PutHeader(slots, NextSlot(next, arg), Preinstalled)
  /\ UNCHANGED <<count, wp, fileLen, succ, succBase, next, pending, arg, walk, crashes,
                 readerVars, chain>>

CommitFlag ==
  /\ Goto("commit", "count")
  /\ slots' = SetCommitted(slots, next)
  /\ chain' = Extend(chain, next, NextSlot(next, arg), 1)
  /\ next' = NextSlot(next, arg)
  /\ arg' = 0
  /\ UNCHANGED <<count, wp, fileLen, succ, succBase, pending, walk, crashes, readerVars>>

\* publish_wp: the count, then the position.
PublishCount ==
  /\ Goto("count", "wp")
  /\ count' = count + 1
  /\ UNCHANGED <<slots, wp, fileLen, succ, succBase, next, pending, arg, walk, crashes,
                 readerVars, chain>>

PublishWp ==
  /\ Goto("wp", "idle")
  /\ wp' = next + HEADER_SLOT
  /\ UNCHANGED <<slots, count, fileLen, succ, succBase, next, pending, arg, walk, crashes,
                 readerVars, chain>>

-----------------------------------------------------------------------------
(* Writer: roll_over_region *)

SkipLen == Leftover(next) - HEADER_SLOT
NextRegion == next + Leftover(next)

\* Mutant: the file is not grown for the next region.
SkipGrowOmitted ==
  /\ Goto("skip", "skip_preinstall")
  /\ UNCHANGED <<fileVars, next, pending, arg, walk, crashes, readerVars, chain>>

\* region_at: grow the file to hold the next region (a preallocated file needs no growth).
SkipGrow ==
  /\ Goto("skip", "skip_preinstall")
  /\ fileLen' = IF MappedWithin(NextRegion, fileLen) THEN fileLen
                ELSE (Region(NextRegion) + 1) * RegionSize
  /\ UNCHANGED <<slots, count, wp, succ, succBase, next, pending, arg, walk, crashes,
                 readerVars, chain>>

\* The growth or the mapping fails: try_reserve returns the error.
SkipFails ==
  /\ Goto("skip", "idle")
  /\ arg' = 0
  /\ UNCHANGED <<fileVars, next, pending, walk, crashes, readerVars, chain>>

SkipPreinstall ==
  /\ Goto("skip_preinstall", "skip_stage")
  /\ slots' = PutHeader(slots, NextRegion, Preinstalled)
  /\ UNCHANGED <<count, wp, fileLen, succ, succBase, next, pending, arg, walk, crashes,
                 readerVars, chain>>

SkipStage ==
  /\ Goto("skip_stage", "skip_commit")
  /\ slots' = PutHeader(slots, next, StagedSkip(SkipLen))
  /\ UNCHANGED <<count, wp, fileLen, succ, succBase, next, pending, arg, walk, crashes,
                 readerVars, chain>>

SkipCommit ==
  /\ Goto("skip_commit", "skip_wp")
  /\ slots' = SetCommitted(slots, next)
  /\ chain' = Extend(chain, next, NextRegion, 0)
  /\ next' = NextRegion
  /\ UNCHANGED <<count, wp, fileLen, succ, succBase, pending, arg, walk, crashes, readerVars>>

\* A Skip is no user record: the position moves, the count does not.  Back to the loop.
SkipWp ==
  /\ Goto("skip_wp", "reserve")
  /\ wp' = next + HEADER_SLOT
  /\ UNCHANGED <<slots, count, fileLen, succ, succBase, next, pending, arg, walk, crashes,
                 readerVars, chain>>

-----------------------------------------------------------------------------
(* Writer: roll_file *)

\* The caller may roll at any time; a pending reservation is dropped.
RollFile ==
  /\ Goto("idle", "roll")
  /\ pending' = NoSize
  /\ UNCHANGED <<fileVars, next, arg, walk, crashes, readerVars, chain>>

\* The room check, then prepare_successor: a fresh PREPARED successor installed, or the
\* installed one adopted.
RollInstall ==
  /\ pc = "roll"
  /\ IF RollFits(next)
     THEN pc' = "roll_stage" /\ succ' = "prepared"
     ELSE pc' = "no_room" /\ UNCHANGED succ
  /\ UNCHANGED <<slots, count, wp, fileLen, succBase, next, pending, arg, walk, crashes,
                 readerVars, chain>>

\* The successor cannot be created: roll_file returns the error.
RollFails ==
  /\ Goto("roll", "idle")
  /\ RollFits(next)
  /\ UNCHANGED <<fileVars, next, pending, arg, walk, crashes, readerVars, chain>>

\* Mutant: the Roll is committed as it is staged, before its successor is published.
RollStageCommitted ==
  /\ Goto("roll_stage", "roll_publish")
  /\ slots' = PutHeader(Clobber(slots, next + HEADER_SLOT, next + ROLL_TOTAL), next,
                        [StagedRoll EXCEPT !.committed = TRUE])
  /\ UNCHANGED <<count, wp, fileLen, succ, succBase, next, pending, arg, walk, crashes,
                 readerVars, chain>>

\* Body first, then its header, uncommitted.
RollStage ==
  /\ Goto("roll_stage", "roll_publish")
  /\ slots' = PutHeader(Clobber(slots, next + HEADER_SLOT, next + ROLL_TOTAL), next, StagedRoll)
  /\ UNCHANGED <<count, wp, fileLen, succ, succBase, next, pending, arg, walk, crashes,
                 readerVars, chain>>

\* Stamp the successor's base and publish it.
RollPublish ==
  /\ Goto("roll_publish", "roll_commit")
  /\ succ' = "published"
  /\ succBase' = count
  /\ UNCHANGED <<slots, count, wp, fileLen, next, pending, arg, walk, crashes, readerVars, chain>>

RollCommit ==
  /\ Goto("roll_commit", "roll_wp")
  /\ slots' = SetCommitted(slots, next)
  /\ UNCHANGED <<count, wp, fileLen, succ, succBase, next, pending, arg, walk, crashes,
                 readerVars, chain>>

\* The terminal hint, one slot past the Roll; the writer switches to the successor.
RollWp ==
  /\ Goto("roll_wp", "gone")
  /\ wp' = next + ROLL_TOTAL + HEADER_SLOT
  /\ UNCHANGED <<slots, count, fileLen, succ, succBase, next, pending, arg, walk, crashes,
                 readerVars, chain>>

-----------------------------------------------------------------------------
(* A crash, and the next writer's open *)

\* The process dies between any two stores; what it stored stays in the page cache, its own
\* variables are gone.
Crash ==
  /\ pc \notin {"down", "refused"}
  /\ crashes < MaxCrashes
  /\ pc' = "down"
  /\ crashes' = crashes + 1
  /\ pending' = NoSize
  /\ next' = 0
  /\ arg' = 0
  /\ walk' = WalkStart
  /\ UNCHANGED <<fileVars, readerVars, chain>>

\* discard_unpublished_tail: an unpublished successor is unlinked.
DiscardUnpublished ==
  /\ pc = "down"
  /\ succ = "prepared"
  /\ succ' = "none"
  /\ UNCHANGED <<slots, count, wp, fileLen, succBase, writerVars, readerVars, chain>>

\* open_file: the slot write_position names, and the file grown to the layout it may lack.
OpenSlot == wp - HEADER_SLOT
OpenLen ==
  LET needed == (Region(OpenSlot) + 1) * RegionSize
      target == IF needed > PreallocationLen THEN needed ELSE PreallocationLen
  IN IF target > fileLen THEN target ELSE fileLen

\* verify_preinstall_signature.
HasPreinstall(p) == IsHeader(p) /\ slots[p] = Preinstalled

\* Mutant: only a user record is stepped over.
RecoverableUserOnly(p) ==
  /\ slots[p].type = "User"
  /\ HasPreinstall(p + HEADER_SLOT + AlignUp(slots[p].len))

\* What open_file demands of the committed record at the slot, and of the slot after it.
Recoverable(p) ==
  \/ /\ slots[p].type = "User"
     /\ Offset(p) + HEADER_SLOT + AlignUp(slots[p].len) + HEADER_SLOT <= RegionSize
     /\ HasPreinstall(p + HEADER_SLOT + AlignUp(slots[p].len))
  \/ /\ slots[p].type = "Skip"
     /\ Offset(p) + HEADER_SLOT + AlignUp(slots[p].len) = RegionSize
     /\ (Region(p) + 2) * RegionSize <= OpenLen
     /\ HasPreinstall(p + HEADER_SLOT + AlignUp(slots[p].len))

\* Mutant: the writer resumes at the slot without looking at it.
OpenAdoptUnchecked ==
  /\ Goto("down", "idle")
  /\ succ = "none"
  /\ next' = OpenSlot
  /\ fileLen' = OpenLen
  /\ UNCHANGED <<slots, count, wp, succ, succBase, pending, arg, walk, crashes, readerVars, chain>>

\* The slot is uncommitted: the writer resumes there.
OpenAdopt ==
  /\ Goto("down", "idle")
  /\ succ = "none"
  /\ ~Committed(OpenSlot)
  /\ next' = OpenSlot
  /\ fileLen' = OpenLen
  /\ UNCHANGED <<slots, count, wp, succ, succBase, pending, arg, walk, crashes, readerVars, chain>>

\* The slot is committed: its writer died before publish_wp.  Step past it and recount, or
\* refuse the channel.
OpenOrphan ==
  /\ pc = "down"
  /\ succ = "none"
  /\ Committed(OpenSlot)
  /\ IF Recoverable(OpenSlot)
     THEN /\ pc' = "recount"
          /\ next' = OpenSlot + HEADER_SLOT + AlignUp(slots[OpenSlot].len)
     ELSE pc' = "refused" /\ UNCHANGED next
  /\ fileLen' = OpenLen
  /\ walk' = WalkStart
  /\ UNCHANGED <<slots, count, wp, succ, succBase, pending, arg, crashes, readerVars, chain>>

\* walk_segment, a header at a time, for either recovery.
WalkGoes(w) == Committed(w.pos) /\ slots[w.pos].type # "Roll"
WalkNext(w) == [pos |-> After(w.pos), users |-> w.users + UsersAt(w.pos)]

WalkStep ==
  /\ pc \in {"recount", "stranded"}
  /\ WalkGoes(walk)
  /\ walk' = WalkNext(walk)
  /\ UNCHANGED <<fileVars, pc, next, pending, arg, crashes, readerVars, chain>>

\* The recount must end on the recovered slot.
RecountEnds ==
  /\ pc = "recount"
  /\ ~WalkGoes(walk)
  /\ pc' = IF walk.pos = next THEN "recover_count" ELSE "refused"
  /\ UNCHANGED <<fileVars, next, pending, arg, walk, crashes, readerVars, chain>>

\* Mutant: the count trusted, not recounted.
RecoverCountTrusted ==
  /\ Goto("recover_count", "recover_wp")
  /\ UNCHANGED <<fileVars, next, pending, arg, walk, crashes, readerVars, chain>>

\* In publish order: the count, then the position.
RecoverCount ==
  /\ Goto("recover_count", "recover_wp")
  /\ count' = walk.users
  /\ UNCHANGED <<slots, wp, fileLen, succ, succBase, next, pending, arg, walk, crashes,
                 readerVars, chain>>

RecoverWp ==
  /\ Goto("recover_wp", "idle")
  /\ wp' = next + HEADER_SLOT
  /\ walk' = WalkStart
  /\ UNCHANGED <<slots, count, fileLen, succ, succBase, next, pending, arg, crashes,
                 readerVars, chain>>

\* commit_stranded_roll: the open resumed the published successor; finish this segment's Roll.
StrandedEarliest == IF wp < HEADER_SLOT + ROLL_TOTAL THEN 0 ELSE wp - (HEADER_SLOT + ROLL_TOTAL)

OpenStranded ==
  /\ pc = "down"
  /\ succ = "published"
  /\ pc' = IF count = succBase THEN "stranded" ELSE "refused"
  /\ walk' = [pos |-> RegionStart(StrandedEarliest), users |-> 0]
  /\ UNCHANGED <<fileVars, next, pending, arg, crashes, readerVars, chain>>

\* The slot the walk stopped at is the Roll, and write_position agrees with how far it got.
StrandedEnds ==
  LET slot == walk.pos
      isRoll == IsHeader(slot) /\ slots[slot].type = "Roll"
      complete == wp = slot + HEADER_SLOT + ROLL_TOTAL
      behind == wp = slot + HEADER_SLOT
  IN /\ pc = "stranded"
     /\ ~WalkGoes(walk)
     /\ pc' = CASE isRoll /\ Committed(slot) /\ complete -> "gone"
                [] isRoll /\ Committed(slot) /\ behind   -> "finish_wp"
                [] isRoll /\ ~Committed(slot) /\ behind  -> "finish_commit"
                [] OTHER                                 -> "refused"
     /\ next' = slot
     /\ walk' = WalkStart
     /\ UNCHANGED <<fileVars, pending, arg, crashes, readerVars, chain>>

FinishCommit ==
  /\ Goto("finish_commit", "finish_wp")
  /\ slots' = SetCommitted(slots, next)
  /\ UNCHANGED <<count, wp, fileLen, succ, succBase, next, pending, arg, walk, crashes,
                 readerVars, chain>>

FinishWp ==
  /\ Goto("finish_wp", "gone")
  /\ wp' = IF wp = next + HEADER_SLOT THEN next + HEADER_SLOT + ROLL_TOTAL ELSE wp
  /\ UNCHANGED <<slots, count, fileLen, succ, succBase, next, pending, arg, walk, crashes,
                 readerVars, chain>>

-----------------------------------------------------------------------------
(* Readers *)

RGoto(r, from, to) == rpc[r] = from /\ rpc' = [rpc EXCEPT ![r] = to]

\* LateJoin: from the segment's first byte.
OpenLateJoin(r) ==
  /\ RGoto(r, "closed", "scan")
  /\ rpos' = [rpos EXCEPT ![r] = 0]
  /\ rindex' = [rindex EXCEPT ![r] = 0]
  /\ UNCHANGED <<fileVars, writerVars, rwalk, chain>>

\* Live (live_start): write_position, then message_count, then is this still the newest
\* segment, then the slot.
LiveLoadWp(r) ==
  /\ rpc[r] \in {"closed", "live_again"}
  /\ rpc' = [rpc EXCEPT ![r] = "live_count"]
  /\ rpos' = [rpos EXCEPT ![r] = wp - HEADER_SLOT]
  /\ UNCHANGED <<fileVars, writerVars, rindex, rwalk, chain>>

LiveLoadCount(r) ==
  /\ RGoto(r, "live_count", "live_newer")
  /\ rindex' = [rindex EXCEPT ![r] = count]
  /\ UNCHANGED <<fileVars, writerVars, rpos, rwalk, chain>>

\* A published successor: the open is stale, and retried on the newest segment.
LiveStale(r) ==
  /\ RGoto(r, "live_newer", "stale")
  /\ succ = "published"
  /\ rpos' = [rpos EXCEPT ![r] = 0]
  /\ rindex' = [rindex EXCEPT ![r] = 0]
  /\ UNCHANGED <<fileVars, writerVars, rwalk, chain>>

LiveNewest(r) ==
  /\ RGoto(r, "live_newer", "live_slot")
  /\ succ # "published"
  /\ UNCHANGED <<fileVars, writerVars, rpos, rindex, rwalk, chain>>

\* Mutant: the pair is taken as loaded, the slot not checked.
LiveStartsUnchecked(r) ==
  /\ RGoto(r, "live_slot", "scan")
  /\ UNCHANGED <<fileVars, writerVars, rpos, rindex, rwalk, chain>>

\* Uncommitted, or a Roll: the pair is exact, start here.
LiveStarts(r) ==
  /\ RGoto(r, "live_slot", "scan")
  /\ ~Committed(rpos[r]) \/ CommittedType(rpos[r], "Roll")
  /\ UNCHANGED <<fileVars, writerVars, rpos, rindex, rwalk, chain>>

\* Committed: the writer is mid-publish.  Load the pair again ...
LiveRetry(r) ==
  /\ RGoto(r, "live_slot", "live_again")
  /\ Committed(rpos[r]) /\ ~CommittedType(rpos[r], "Roll")
  /\ UNCHANGED <<fileVars, writerVars, rpos, rindex, rwalk, chain>>

\* Mutant: no time budget, the pair is loaded again and again.
LiveWalkNever(r) == FALSE /\ UNCHANGED vars

\* ... or, past the time budget, count by walking up to the slot.
LiveWalk(r) ==
  /\ RGoto(r, "live_slot", "live_walk")
  /\ Committed(rpos[r]) /\ ~CommittedType(rpos[r], "Roll")
  /\ rwalk' = [rwalk EXCEPT ![r] = WalkStart]
  /\ UNCHANGED <<fileVars, writerVars, rpos, rindex, chain>>

LiveWalkStep(r) ==
  /\ rpc[r] = "live_walk"
  /\ rwalk[r].pos < rpos[r]
  /\ WalkGoes(rwalk[r])
  /\ rwalk' = [rwalk EXCEPT ![r] = WalkNext(rwalk[r])]
  /\ UNCHANGED <<fileVars, writerVars, rpc, rpos, rindex, chain>>

LiveWalkEnds(r) ==
  /\ rpc[r] = "live_walk"
  /\ rwalk[r].pos >= rpos[r] \/ ~WalkGoes(rwalk[r])
  /\ IF rwalk[r].pos = rpos[r]
     THEN /\ rpc' = [rpc EXCEPT ![r] = "scan"]
          /\ rindex' = [rindex EXCEPT ![r] = rwalk[r].users]
     ELSE /\ rpc' = [rpc EXCEPT ![r] = "error"]
          /\ UNCHANGED rindex
  /\ rwalk' = [rwalk EXCEPT ![r] = WalkStart]
  /\ UNCHANGED <<fileVars, writerVars, rpos, chain>>

\* Mutant: every record counts, the Channel header and Skips too.
ReadRecordCountsAll(r) ==
  /\ rpc[r] = "scan"
  /\ Committed(rpos[r])
  /\ slots[rpos[r]].type # "Roll"
  /\ rpos' = [rpos EXCEPT ![r] = After(rpos[r])]
  /\ rindex' = [rindex EXCEPT ![r] = @ + 1]
  /\ UNCHANGED <<fileVars, writerVars, rpc, rwalk, chain>>

\* Mutant: a reader stops at write_position, not at the first uncommitted header.
ReadRecordToWp(r) ==
  /\ rpc[r] = "scan"
  /\ Committed(rpos[r])
  /\ slots[rpos[r]].type # "Roll"
  /\ rpos[r] < wp - HEADER_SLOT
  /\ rpos' = [rpos EXCEPT ![r] = After(rpos[r])]
  /\ rindex' = [rindex EXCEPT ![r] = @ + UsersAt(rpos[r])]
  /\ UNCHANGED <<fileVars, writerVars, rpc, rwalk, chain>>

\* scan_to_user_record: past a committed Channel, User or Skip record.
ReadRecord(r) ==
  /\ rpc[r] = "scan"
  /\ Committed(rpos[r])
  /\ slots[rpos[r]].type # "Roll"
  /\ rpos' = [rpos EXCEPT ![r] = After(rpos[r])]
  /\ rindex' = [rindex EXCEPT ![r] = @ + UsersAt(rpos[r])]
  /\ UNCHANGED <<fileVars, writerVars, rpc, rwalk, chain>>

\* open_next_file: the successor must be published and start where this segment ends.
ReadRoll(r) ==
  /\ rpc[r] = "scan"
  /\ CommittedType(rpos[r], "Roll")
  /\ IF succ = "published" /\ succBase = count
     THEN rpc' = [rpc EXCEPT ![r] = "followed"]
     ELSE rpc' = [rpc EXCEPT ![r] = "error"]
  /\ UNCHANGED <<fileVars, writerVars, rpos, rindex, rwalk, chain>>

-----------------------------------------------------------------------------

\* What the writer does by itself once a call, or an open, is under way.
WriterStep ==
  \/ ReserveRollFile \/ ReserveSkip \/ ReserveGrant
  \/ CommitRelay \/ CommitFlag \/ PublishCount \/ PublishWp
  \/ SkipGrow \/ SkipPreinstall \/ SkipStage \/ SkipCommit \/ SkipWp
  \/ RollInstall \/ RollStage \/ RollPublish \/ RollCommit \/ RollWp
  \/ WalkStep \/ RecountEnds \/ RecoverCount \/ RecoverWp
  \/ StrandedEnds \/ FinishCommit \/ FinishWp

\* What a caller, an operator or the system may or may not do.
CallerStep ==
  \/ \E size \in Sizes : TryReserve(size)
  \/ FillPayload
  \/ \E len \in Sizes : CommitTooLong(len)
  \/ \E len \in Sizes, meta \in Metas : CommitHeader(len, meta)
  \/ RollFile
  \/ SkipFails
  \/ RollFails
  \/ DiscardUnpublished
  \/ OpenAdopt \/ OpenOrphan
  \/ OpenStranded

LiveStep(r) ==
  \/ LiveLoadCount(r) \/ LiveStale(r) \/ LiveNewest(r)
  \/ LiveStarts(r) \/ LiveRetry(r) \/ LiveWalk(r) \/ LiveWalkStep(r) \/ LiveWalkEnds(r)

ReaderStep(r) == ReadRecord(r) \/ ReadRoll(r)

Next ==
  \/ WriterStep
  \/ CallerStep
  \/ Crash
  \/ \E r \in Readers : OpenLateJoin(r) \/ LiveLoadWp(r) \/ LiveStep(r) \/ ReaderStep(r)

Spec == Init /\ [][Next]_vars

\* A running call goes on, a reader that polls goes on, and SPIN_BUDGET runs out for a Live
\* open that keeps finding its slot committed; nobody has to call, crash or reopen.
FairSpec ==
  /\ Spec
  /\ WF_vars(WriterStep)
  /\ \A r \in Readers :
       /\ WF_vars(ReaderStep(r))
       /\ WF_vars(LiveStep(r))
       /\ WF_vars(rpc[r] = "live_again" /\ LiveLoadWp(r))
       /\ SF_vars(LiveWalk(r))

-----------------------------------------------------------------------------
(* Properties *)

\* The last slot of the chain: where the next record, or the Roll, goes.
Tail == CHOOSE p \in DOMAIN chain : \A q \in DOMAIN chain : q <= p

WriterPc ==
  {"idle", "reserve", "relay", "commit", "count", "wp", "skip", "skip_preinstall",
   "skip_stage", "skip_commit", "skip_wp", "roll", "no_room", "roll_stage", "roll_publish",
   "roll_commit", "roll_wp", "gone", "down", "refused", "recount", "recover_count",
   "recover_wp", "stranded", "finish_commit", "finish_wp"}
LivePc == {"live_count", "live_newer", "live_slot", "live_again", "live_walk"}
ReaderPc == {"closed", "stale", "scan", "followed", "error"} \cup LivePc
Walk == [pos : Nat, users : Nat]

\* Every variable has the shape the code gives it; offsets are file offsets.
TypeOK ==
  /\ DOMAIN slots \subseteq Nat /\ slots \in [DOMAIN slots -> Header]
  /\ DOMAIN chain \subseteq Nat /\ chain \in [DOMAIN chain -> Nat]
  /\ count \in Nat /\ wp \in Nat /\ fileLen \in Nat
  /\ succ \in {"none", "prepared", "published"} /\ succBase \in Nat
  /\ pc \in WriterPc
  /\ next \in Nat /\ pending \in Nat \cup {NoSize} /\ arg \in Nat
  /\ walk \in Walk /\ crashes \in Nat
  /\ rpc \in [Readers -> ReaderPc]
  /\ rpos \in [Readers -> Int] /\ rindex \in [Readers -> Nat]
  /\ rwalk \in [Readers -> Walk]

\* A reader that scans stands on a slot the writer laid a header in, and its position() is
\* exactly the number of user records before that slot, whichever way it joined: from the
\* start, at the head through the (write_position, message_count) pair, or by the walk past
\* the time budget (Reader::live_start, scan_to_user_record).
ReaderExact ==
  \A r \in Readers : rpc[r] = "scan" =>
    /\ rpos[r] \in DOMAIN chain
    /\ rindex[r] = chain[rpos[r]]

\* Every slot a walk or a reader can reach holds a header and not payload bytes or bytes
\* never written, and its region is inside the file, so mapping it cannot fault: the slot
\* after a record is laid, and the file grown, before the record is committed.
ChainWellFormed ==
  \A p \in DOMAIN chain : IsHeader(p) /\ MappedWithin(p, fileLen)

\* The history variable is what the code's own walk over the headers computes, for every
\* slot: a record leads to the next slot of the chain, only the last slot is not passed.
ChainIsWalk ==
  \A p \in DOMAIN chain :
    IF Committed(p) /\ slots[p].type # "Roll"
    THEN After(p) \in DOMAIN chain /\ chain[After(p)] = chain[p] + UsersAt(p)
    ELSE \A q \in DOMAIN chain : q <= p

\* Whatever store the last writer died at, any number of times, the next open resumes or
\* completes the segment: it never asks for the channel files to be cleaned up (open_file,
\* commit_stranded_roll).
RecoveryAccepts == pc # "refused"

\* Wherever the writer stops there is room for a Roll, so roll_file never refuses.
RollHasRoom == pc # "no_room"

\* Once a writer is past its open and its publish, the advisory pair is exact: the count is
\* every committed user record, the position is the slot after the last record.
PairExact ==
  pc \in {"idle", "reserve", "roll"} =>
    next = Tail /\ wp = next + HEADER_SLOT /\ count = chain[next]

\* No reader meets an error, and one that follows the Roll carries the index the successor
\* starts at: no user record lost or counted twice across the boundary.
RollContinuous ==
  \A r \in Readers :
    /\ rpc[r] # "error"
    /\ rpc[r] = "followed" => rindex[r] = succBase

\* A committed record is never written again, not even by a recovery.
CommittedForGood ==
  [][\A p \in DOMAIN chain : Committed(p) => p \in DOMAIN slots' /\ slots'[p] = slots[p]]_vars

\* A reader that keeps polling is delivered every record committed after its position,
\* whether or not the writer that committed it lived to publish it.
Delivered ==
  \A r \in Readers : \A k \in 0..MaxRecords :
    (rpc[r] = "scan" /\ rindex[r] = k /\ chain[Tail] > k) ~> (rindex[r] > k)

\* A Live open comes to an end: it starts, or reports a stale segment.
LiveOpenEnds == \A r \in Readers : (rpc[r] \in LivePc) ~> (rpc[r] \notin LivePc)

-----------------------------------------------------------------------------
(* The segment implements the abstract log *)

\* User records before a slot write_position can name, the one past the Roll included.
UsersBefore(p) == IF p \in DOMAIN chain THEN chain[p] ELSE chain[Tail]

Log == INSTANCE ChannelLog WITH
  committed <- chain[Tail],
  published <- UsersBefore(wp - HEADER_SLOT),
  cursor <- [r \in Readers |->
    IF rpc[r] \in {"scan", "followed"} THEN rindex[r] ELSE -1],
  floor <- [r \in Readers |->
    IF rpc[r] \in LivePc THEN UsersBefore(rpos[r]) ELSE -1]

\* A segment, with its crashes and recoveries, is an append-only log in which at most one
\* committed record is unpublished; a reader gets its records in order, each once, and a
\* Live reader starts no earlier than what was published when it looked.
ImplementsLog == Log!Spec
=============================================================================
