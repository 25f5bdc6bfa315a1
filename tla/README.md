# xchannel in TLA+

xchannel is a single-writer, many-reader message channel in memory-mapped files.
This directory models the protocol by which one writer process, its successors after
a crash, and any number of reader processes share those files. Nobody takes a lock:
everything rests on the order of a few stores, on names in a directory, and on what
an open can work out from the bytes a dead writer left.

Paths below are relative to the repository: `src/lib.rs` is the crate's main file.

## 1. Inventory

| Component | State it keeps | Operations | What makes it correct |
|---|---|---|---|
| Segment geometry (`src/lib.rs`, `src/v4.rs`, `src/region.rs`) | sizes only | `align_up`, `preallocation_len`, the fit checks of `try_reserve` | a Roll fits wherever the writer stops; regions lie inside the file |
| Writer: reserve, commit | headers in the segment, `message_count`, `write_position`; `next_hdr_pos`, `pending_msg_size` | `try_reserve`, `commit`, `publish_wp`, `roll_over_region` | a reader at any committed record finds a header at the next slot; nothing committed is written again |
| Writer: open and recovery | the same bytes, left by another process | `open_or_create`, `open_file`, `commit_stranded_roll`, `discard_unpublished_tail`, `walk_segment` | any crash is recovered from, and the count and position are exact afterwards |
| Writer: file roll | successor file, its `publication_state` and base, the Roll in the old one | `roll_file`, `prepare_successor`, `adopt_successor` | a committed Roll leads to a published file that starts where this one ends |
| Writer: retention | directory | `prune`, `keep_files` | the newest `n` files stay, older ones go |
| Reader: open | `read_position`, `position`, file, `file_sequence` | `open_with`, `live_start`, `from_segment`, `locate` | the position is the index of the record at the cursor |
| Reader: scan | the same | `scan_to_user_record`, `open_next_file`, `open_successor`, `try_read_batch` | each record once, in order, across files; never another channel's |
| Waking (`src/wake.rs`) | `wake_word`, `wake_flags`; `wake_untrusted`, `wake_miss` | `wake_all`, `wait_for_message`, `wait_any` | no lost wake-up; a writer that never wakes costs slow polling, not a hang |
| Prefault helper (`src/prefault.rs`) | claims, a segment installed ahead, mappings, queues | `run`, `prepare_segment`, `try_take_segment`, `unlink` | one successor per roll; a pruned name never comes back |
| Map-ahead helper (`src/map_ahead.rs`) | a mapping and a next segment opened ahead | `run`, `take`, `take_segment` | the reader only uses what belongs to the segment it is on |
| Helper threads (`src/helper.rs`) | failure flag, bounded queues | `spawn`, `retire` | an owner notices a stopped thread and does its work |
| Identity and CRC (`src/v4.rs`, `src/channel.rs`) | header extension | `identity`, `RollEdge` | a file is told from another of the same name |

Components meet in three places. In the bytes of a segment, the writer stores and readers
load: a header's `committed` flag, `message_count`, `write_position`,
`publication_state`. In the directory, the writer installs (rename without replacing)
and unlinks names, and readers open them. A writer that opens a channel meets whatever
the last one left in both. Inside a process, the writer or the reader and its helper thread
meet in a struct of atomics and of mutexes the owner only tries.

The hard behaviours are a crash between any two stores and again during recovery; a
reader that loads two words of different ages; a roll, which touches two files, between
a reader's listing of the directory and its open; retention unlinking under both; a helper
thread that installs, deletes, grows and maps with a view of its owner that is a step old;
and a wake-up that falls between a look and a sleep.
`PROJECT.json` lists each under `hazards` at its line.

## 2. Modules

| Module | Models | Extends |
|---|---|---|
| `Geometry` | offsets, sizes, regions, the fit checks | |
| `ChannelLog` | abstract: an append-only log, at most one committed record unpublished, readers in order | |
| `SegmentLog` | one segment file for its whole life: writer, crashes, recovery, Roll, readers, one store or load per step | `Geometry`; maps onto `ChannelLog` |
| `SegmentLogInv` | the inductive invariant of `SegmentLog` | `SegmentLog` |
| `SegmentRoll` | all the files of a channel: rolls, opens, retention, cleanup, readers crossing files | |
| `SegmentSeek` | opening at an index, seek, rewind, seek to head | `SegmentRoll` |
| `Wake` | the channels' wake words and flags, writers that wake or do not, readers in `wait_for_message` | |
| `WaitAny` | one thread in `wait_any` over a group of readers | `Wake` |
| `PrefaultRoll` | writer and prefault helper: successors installed ahead, deletions, close | |
| `PrefaultLive` | a Live open beside them | `PrefaultRoll` |
| `PrefaultGrow` | writer and prefault helper: file growth, mapping ahead, release | |
| `ReaderMaps` | reader and map-ahead helper: single, owned and batch reads, mappings, segments opened ahead | |
| `SegmentLog_proofs`, `SegmentRecovery_proofs` | theorems about one segment | `SegmentLogInv` |
| `SegmentRoll_proofs` | theorems about the files of a channel | `SegmentRoll` |
| `SegmentSeek_proofs` | theorems about a search for a record index | `SegmentSeek`, `SegmentRoll_proofs` |
| `Wake_proofs` | theorems about waking, for one reader's wait and for a group | `WaitAny` |
| `PrefaultRoll_proofs`, `PrefaultGrow_proofs` | theorems about the writer and its helper | `PrefaultRoll`, `PrefaultGrow` |
| `ReaderMaps_proofs` | theorems about the reader and its helper | `ReaderMaps` |
| `MC...` | TLC instances | the above |

The modules split the system along what its parts share. `SegmentLog` has the bytes of one
file, `SegmentRoll` the names of all of them; `SegmentSeek` and `WaitAny` compose one more
actor with those that are there. `PrefaultRoll`, `PrefaultGrow` and `ReaderMaps` each take two
threads of one process and keep of the files what those two can get wrong between them.

### SegmentLog and the code

`slots` is the segment's bytes as far as headers go: a function from the offsets that
hold a header now to its fields (`MessageHeader`). Writing payload or a Roll's body over
an offset removes it, so a walk that trusts such bytes is seen to. `message_type` and
`user_meta_u64` become one bit, zero or not, which is all `verify_preinstall_signature`
looks at. `count`, `wp` and `fileLen` are `message_count`, `write_position` and the
file's length; `succ` and `succBase` are what this segment's processes see of the next
file; `next`, `pending` and `arg` are the writer's own fields. `chain` is a history
variable: the slots a walk from offset 0 can reach, with the user records before each.
`ChainIsWalk` ties it to the headers.

Actions follow the calls: `TryReserve`, `Reserve...` (the loop of `try_reserve`),
`FillPayload` (the caller), `Commit...`, `Publish...`, `Skip...` (`roll_over_region`),
`Roll...` (`roll_file`), `Open...` and `Recount...`/`Recover...` (`open_file`),
`Stranded...`/`Finish...` (`commit_stranded_roll`), `Live...` (`live_start`), `Read...`
(`scan_to_user_record`). Each step is one store or load that another process can see, and
a `Crash` may come between any two. The stores readers order by are Release and the
loads Acquire, with one writer, so interleaving those steps is the memory model the code
relies on. What the process stored before it died stays in the page cache; power loss is
outside the code's own claims.

### SegmentRoll and the code

A file is its inode: `file` holds every one ever created, `dir` what the names lead to.
A process keeps reading a file whose name is gone, as with an open descriptor. The
records of a segment are reduced to their number, because `SegmentLog` covers how they
are written; a file's number stands for its 128-bit random instance ID. `LateOpen`,
`LiveOpen` and `FollowRoll` open by name in a step of their own, after the listing or the
Roll that gave the name, so rolls, prunes, crashes and cleanups come in between. `Cleanup`
is `cleanup_channel_files` run with no writer, after which a new channel may start under the
same name while readers still hold the old files; `repoch` remembers whose records a
reader was given.

### Wake and the code

A segment is the number of its user records and whether its Roll is committed. There may be
several channels (`ChannelOf`, `Reads`), each with a writer of its own; their segments are
numbered together and a channel is named by its first one (`ChannelsAssumption`). `word` and
`flag` are `wake_word` and bit 0 of `wake_flags`; `untrusted`, `miss`, `seen` and `rseq` are
the reader's `wake_untrusted`, `wake_miss` and the locals of `wait_for_message`. A writer
commits, bumps the word and wakes in three steps and may die between them. Its kind says
whether it wakes (`wake_readers`), does not and clears the flag, or is of an older version
that leaves the flag as it was; `wake_untrusted` exists for the last. The kernel's part is
external: `FutexWait` compares and queues in one step, `WakeAll` wakes every queued reader,
and a sleep may end early (`Interrupted`). A deadline may pass at any look, so time itself
is not a variable; the sleep cap is the action `SleepRunsOut`. The word is not wrapped at 32
bits: a wrap matters only to a reader that holds one value over 2^32 commits. `lost`,
`unbumped` and `slow` are history variables for the properties. A predecessor is
pruned only after its Roll is committed and its readers woken, so the early return for a
missing one is left out.

### SegmentSeek and the code

A search keeps what the locals of `locate` keep: the index, the listing and the bounds. Every
probe opens a listed name in a step of its own, and a name that is gone sends the search back
to the listing. `Head` and `Tail` are `head_record_index` and `tail_record_index`, against
which the outcome is judged: an index reported pruned must be before the tail, and one reported
past the head must have been so when the call began. `Reopen` is `rewind` and `seek_to_head`: a
fresh open, step by step, while the reader they are called on is kept aside (`old`). The reader
that the open returns replaces it (`OpenOrRead`); an error at any step of the open leaves it
where it was (`ReopenFails`), as a failing `seek` does.

### WaitAny and the code

The readers of the group are those of `Wake`, with their own flags, misses and positions; here
one thread takes their steps in the order of the slice. `Words` is the list handed to
`futex_waitv`: it leaves out a reader that followed a roll while it was looked at, one whose
flag is clear and one that is not trusted, and then the sleep is the backoff (`nap`), not the
cap. A kernel that refuses the call sets `noWaitv` (`NO_WAITV`). The group lists every reader
of the module, in any order (`GroupAssumption`): a reader another thread waits with is `Wake`'s
subject. The readers may be of different channels, so that one `futex_waitv` is on several
words, bumped by different writers: `FutexWaitv` compares all of them and queues the thread on
all, or on none. In the instance they are: one reader follows a Roll, the other does not.

### PrefaultRoll, PrefaultLive and the code

`shared` is `struct Shared` of `src/prefault.rs`: `claimed`, `in_flight`, `next_segment`,
`ready_sequence`, `refused`, `doomed`, the segment handed over and the stop and failure flags.
Each atomic is loaded or stored in a step of its own. Those that decide who may install
(`claimed`, `in_flight`) are SeqCst in the code, so interleaving is their memory model. The
writer never waits for a lock: a `try_lock` may miss while the helper holds it (`NextSegmentBusy`,
`SegmentBusy`). Both install by a rename that does not replace, and each makes a segment of
one sequence at most once, so a file's maker stands for its instance ID. `removed` is a history
variable. `Close` and `Joined` are the Drop of the writer. The helper's failures are those of
its system calls (`MapFails`, `Refuse`). A crash of the whole process leaves the directory as
in `SegmentRoll`, where any unpublished successor is discarded on the next open. `PrefaultLive`
adds the three checks of a Live open.

### PrefaultGrow and the code

Lengths and positions are counted in regions, on a channel with no `file_roll_size`, where the
file has to grow. `w.len` is the writer's `file_len` and `shared.segment.len` the helper's. The
writer stores region and segment in two steps and the helper loads them in two (`LookSequence`,
`LookIndex`), then reads `write_position` through the header it has mapped, so it may pair
values of different ages; `Offset` is the comparison that guards against it. `regions`, `files`
and `queuedFiles` count what the writer left to be unmapped and closed; `queued` is the length
of the queue under `Unmap::Immediate`, where it is bounded, and `Taken` says how much of what
is pushed it takes.

### ReaderMaps and the code

A position is a segment, a region and a record in it. `Layout` says what the writer puts where: for
each region of a segment the index of the record after its last, so `Base`, which a segment's header
has as `base_record_index`, is the last number of the segment before.
`r` is the reader: `at`, `file` and `position` are its cursor, `maps` and `held` its mappings,
`scan...` the private cursor of a batch, which `try_read_batch` installs only when it succeeds
(`Returned`, `Discarded`). `batch` and `out` are the records lent to the caller and owned by it,
each with the mapping it reads from. `made` counts the attempts at a segment, the last being
the one its Roll names. A writer that dies before publishing leaves an attempt that the next
one discards and replaces (`DiscardSuccessor`); the helper may have opened it meanwhile.
`shared` and `h` are the helper's side. Any open, clone or mapping may fail (`faults`).

## 3. Runs

| Run | Instance | Shows |
|---|---|---|
| `recovery` | regions of one 4096-byte page, roll point 10240 (two and a half regions), sizes 0, 1904 and 4024, 3 records, 2 crashes | every open resumes; walks are exact; a Roll always fits; the pair is exact; what is committed stays |
| `readers` | no roll by size, sizes 0 and 4024, one reader, 2 records, 1 crash, with fairness | every slot reached is in the file; reader positions are exact; records are delivered; a Live open ends; the segment implements `ChannelLog` |
| `roll_recovery` | `keep_files(1)`, segments 0..2, up to 6 files, 2 crashes, 1 cleanup, one reader, with fairness | Rolls lead to the right file; opens resume; nothing from another channel is read; a polling reader passes each finished roll or is told it was overtaken |
| `retention` | `keep_files(3)`, segments 0..5, no crash, one reader that opens and seeks | the window is exact; a Live open joins the tail; a seek tells the truth |
| `wake` | segments 0 and 1, 3 records in each, 2 crashes or closes, one reader, with fairness | no lost wake-up; trust ends only for cause and after two slow sleeps; a waiting reader is told |
| `wait_any` | two channels, of segments 0 and 1 and of segment 2, with `s` records in segment `s`, 1 crash or close, a group of one reader of each | the long sleep, on both words, is safe for the whole group; the call returns |
| `prefault_roll` | `keep_files(1)`, a queue of 1, segments 0..4, the helper may fail, with fairness | a pruned name never comes back; the race to install is harmless; a closed channel has exactly its files; deletions and the close end |
| `prefault_grow` | segments 0..2, regions 0..3, both `Unmap` modes, queue bounds of 1 | no file shrinks; no mapping is outside its file; releases are on time and counted |
| `reader_maps` | three segments, two regions each, batches of 2, 1 abandoned successor, 1 failed call, with fairness | each record is given once and from the right mapping; every Roll is followed |
| `cap_after_crash` | `keep_files(1)`, segments 0..3, 1 crash | violation, see below |
| `live_beside_helper` | `keep_files(1)`, the real queue of 2, segments 0..3 | violation, see below |
| `doomed_queue_bound` | `keep_files(1)`, the real queue of 2, segments 0..3 | violation, see below |

Bounds. In `SegmentLog` the sizes are the real ones, and the records are chosen on the edges:
4024 bytes fills a region to the last byte that leaves room for a Roll, 1904 fits twice in a
region but only once beside the channel header, 0 is a bare header. Two and a half regions
and three records make a Skip, a second Skip and a roll in the middle of a region all happen.
Two crashes let a recovery die and be recovered. Readers write nothing, so one reader
meets everything another could show; the theorems are for any set of them. In
`SegmentRoll`, one record per segment separates a segment's base from its end, and three
segments and six files are enough for a file to be overtaken and a name to be reused. The
binary search of `locate` needs three files on disk to move both of its bounds, and rolls
beyond that to make its listing stale.
In `Wake`, three records are enough for a miss, a second miss and one more, and two
crashes for a waking writer, one that does not wake, and a waking one again. Readers of
`wait_for_message` and channels share nothing, so `wake` has one of each. In `WaitAny` two
channels are enough for a wake on one word while the thread sleeps on both, two records in one
of them for a miss and a second miss, and the other's Roll for a word that is stale.
In `PrefaultRoll`, four rolls fill a queue of one, the helper's hands and the deferred prune at
once, with one more to delete. In `ReaderMaps`, segments of two regions let a batch cross a
region and a Roll and end in a region other than the first.
Deadlock is not checked: a writer may be closed for good and a reader may have nothing to
read.

Fairness. A call or an open that is under way goes on (weak fairness of `WriterStep`,
`RollStep`, `OpenStep`), and a reader that polls goes on. Nothing forces a caller to
append or roll, a crash to happen or a new writer to start. A Live open that finds its
slot committed retries until a budget of 1 ms is used up and then walks (`SPIN_BUDGET`);
`SF_vars(LiveWalk(r))` says that time does pass for one that keeps coming back there.
In `Wake` and `WaitAny` a sleep ends when its cap is up, which the kernel's timer guarantees, and
a caller is not forced to wait, to read or to open, nor a writer to go on or to wake
(`FairSpec`, `AnyFairSpec`): only a wait that is under way does. In
`PrefaultRoll` both threads run, and only a roll or a close that has begun has to go on
(`FairSpec`). In `ReaderMaps` nothing is asked of the helper,
which may stop for ever at any step (`FairSpec`; the proofs are about `Spec`, without fairness).
The application keeps calling `try_read` and does not
answer every record with a peek (`SF` of `ReadCall` and `TakeRecord`).

### Disagreements with the documentation

`cap_after_crash`. `roll_file` prunes one name, `next_seq - n`, after the roll has taken
effect. A writer that dies in between leaves that file, and no later roll or open looks
for it. `keep_files` is documented as a cap on the files on disk.

`live_beside_helper`. `live_start` takes a missing next name and a present own name for "still
the newest", because retention unlinks oldest first. With a helper it does not: when the
deletion queue is full, `unlink` deletes the segment in hand on the writer while older ones
wait in the queue. A Live open that picked the older one while it was the newest, and loaded
its position after the roll, starts one slot past the Roll and waits there for ever. The gap a
crash leaves in `cap_after_crash` can do the same. `retention` shows that with neither a crash
nor a helper it holds (`LiveJoinsTail`).

`doomed_queue_bound`. `DOOMED_QUEUE` is documented as how far `keep_files` may be exceeded ("by
at most this many", and again in the bound of a test). The helper takes the whole queue before
it deletes, and the writer fills it again meanwhile: with `keep_files(1)` and the real queue of
two, the run reaches four published segments, one above the documented bound (`ExceedsByQueue`).
A deferred prune comes on top, so what holds is twice the queue and one (`ExceedsByQueues`,
checked in `prefault_roll` and proved).

Two smaller ones have no run of their own. A `seek` over a gap in the names (after a crash, or
beside a helper's deletions) can end in "corrupt" (`InvalidData`) rather than in `IndexPruned`;
without gaps `SeekExact` excludes it. And after a batch that crossed a Roll the reader tells its
map-ahead helper "segment s, region 0", also when the batch ended in a later region (`TellRolled`): while
the reader stays in the last region, the helper does not see that the segment's end is near and does
not open the next one ahead, which `map_ahead.rs` promises. The reader opens it itself
(`FollowsRolls`), so what is lost is the head start.

## 4. Proofs

Proved with TLAPS for every value of the constants: every `RegionSize` and `FileRollSize` the
code accepts, every set of record sizes and of readers, every `keep_files` and queue length,
and every bound on segments, records, crashes, rolls and cleanups. The assumptions are the named
ones of `Geometry` (the checks in `open_or_create` and `build`) and the types of the other
constants; the theorems about retention, Live opens and seeks are for a writer that does not crash
and say so.

| Module | Theorem | Statement |
|---|---|---|
| `SegmentLog_proofs` | `Invariant`, `TypeCorrect` | `Spec => []IInv`, `Spec => []TypeOK` |
| | `ReadersExact` | `Spec => []ReaderExact` |
| | `WalksExact` | `Spec => []ChainIsWalk` |
| | `RollAlwaysFits` | `Spec => []RollHasRoom` |
| `SegmentRecovery_proofs` | `RecoveryInvariant` | `Spec => [](IInv /\ RInv)` |
| | `RecoveryNeverRefuses` | `Spec => []RecoveryAccepts` |
| | `ReachedSlotsMapped` | `Spec => []ChainWellFormed` |
| | `RollsContinuous` | `Spec => []RollContinuous` |
| | `PairIsExact` | `Spec => []PairExact` |
| | `CommittedStays` | `Spec => CommittedForGood`, an action property |
| | `SegmentImplementsLog` | `Spec => ImplementsLog`, the refinement of `ChannelLog` |
| `SegmentRoll_proofs` | `RollInvariant` | `Spec => []IInv` |
| | `RollsLeadOn` | `Spec => []RollLeadsOn` |
| | `NeverSpliced` | `Spec => []NoSplice` |
| | `ErrorsOnlyAfterCleanup` | `Spec => []ErrorOnlyAfterCleanup` |
| | `OpenNeverRefuses` | `Spec => []RecoveryAccepts` |
| | `RollsNotStranded` | `Spec => []NoRollStranded` |
| | `FilesFinal` | `Spec => FinalForGood`, an action property |
| | `RetentionExact` | `Spec => []RetainsNewest` if `MaxCrashes = 0` |
| | `LiveOpensJoinTail` | `Spec => []LiveJoinsTail` if `MaxCrashes = 0` |
| | `SegmentsInOrder` | `Spec => []OrderOK` |
| `SegmentSeek_proofs` | `SeekInvariant` | `SeekSpec => [](SeekInv /\ OldInv)` if `MaxCrashes = 0` |
| | `SeeksExact` | `SeekSpec => []SeekExact` if `MaxCrashes = 0` |
| `Wake_proofs` | `WakeInvariant`, `WakeTypeCorrect` | `Spec => []IInv`, `Spec => []TypeOK` |
| | `WakesNotLost` | `Spec => []NoLostWake` |
| | `FlagTrustKept` | `Spec => []TrustKept` |
| | `SlowSleepsBounded` | `Spec => []SlowAtMostTwice` |
| | `GroupInvariant` | `AnySpec => []GroupInv` |
| | `GroupWakesNotLost` | `AnySpec => []GroupNoLostWake` |
| `PrefaultRoll_proofs` | `PrefaultInvariant` | `Spec => []IInv` |
| | `NeverResurrects` | `Spec => []NoResurrection` |
| | `WriterKeepsItsFile` | `Spec => []WritesWhatIsNamed` |
| | `ClosesExactly` | `Spec => []ClosedExact` |
| | `QueuesBoundExcess` | `Spec => []ExceedsByQueues` |
| `PrefaultGrow_proofs` | `GrowInvariant` | `Spec => []IInv` |
| | `NoTruncation` | `Spec => NeverTruncates`, an action property |
| | `RegionsInFile` | `Spec => []MappedInFile` |
| | `LeftReleasedInTime` | `Spec => []ReleasedInTime` |
| `ReaderMaps_proofs` | `ReaderMapsInvariant` | `Spec => []Inv` |
| | `MappingsAreRead` | `Spec => []MappedIsRead` |
| | `RegionsKept` | `Spec => []KeptUntilRoll` |
| | `RecordsGivenOnce` | `Spec => []GivenOnce` |

### One segment

`ReaderExact` is not inductive: that a Live open ends with the right index depends on what
each of its loads saw. `IInv` (module `SegmentLogInv`) has four parts.

- `ChainOK`: the slots of the chain hold headers, are aligned, do not overlap and leave
  room for a Roll; a passed record leads to the next slot and one that is not passed is
  the last. A header off the chain is a pre-installed one left behind, so a walk never
  meets an old committed header.
- `WriterOK`: for each place the writer or a recovery can be, how far `next`, `wp`,
  `count` and the slot after `next` have got.
- `PairOK`: `wp` names a slot of the chain or the one past a committed Roll, and where
  the record there has not been passed, `count` is exact for it. That is the argument of
  `live_start`'s comment.
- `ReaderOK`: what each stage of a Live open may rely on. Having loaded the position and
  then the count, if the slot is still not passed the count is right for it.

`SegmentLog_proofs` starts with the arithmetic: alignment, offsets within a region, what
preallocation covers. Then it has one lemma per group of actions
(`WalkSteps`, `FillStep`, `StageSteps`, `CommitSteps`, `ReaderSteps`, ...), with a step per
action, combined in `NextInv`.

Recovery, regions and the refinement need more than `IInv`, and `SegmentRecovery_proofs` proves
it on top, as `RInv`. `ChainWalkable`: the chain has no gap, every region that holds a record
starts with one, and all are in the file, so no walk ends in bytes it must refuse. `LagOK`: `wp`
is at most one record behind, which is what `ChannelLog` says of a crash and what recovery
counts. `SuccessorOK`: a published successor starts where this segment ends, and the last slot
is the Roll to it. `RecoveryOK`: the states an open would refuse are not reached. `FollowOK(r)`:
a reader that follows carries the index the successor starts at. For the refinement, initial
states map to initial states; the commit of a user record maps to `Commit`, the store of
`write_position` past it to `Publish`, and a reader's load of the position, its join and its
advance to `LookAtHead`, `JoinAtHead` or `JoinAtStart`, and `Read`. Every other step, crashes
included, is shown to leave the mapped variables alone.

### The files of a channel

What an open or a reader relies on is the history of a file, so the invariant of
`SegmentRoll_proofs` is about every file ever created and not only the named ones. `FilesOK`
has the lineage: a file follows a published one of its channel and sequence, one that is
published starts where its parent ends and is what the parent's Roll names, and a committed Roll
names a published file. `OnePublished` has at most one published file of each sequence in a
channel: a second would need a parent that is still written, and `NamesOK` excludes it, because
a published file is never newer than the newest published name. `FinishedOK` and `WriterOK` say
that only the newest two names can have an unfinished Roll between them, which is all
`commit_stranded_roll` looks at. From these every property but two follows without induction.

The two are `RetainsNewest` and `LiveJoinsTail`. A writer that dies between a roll and its prune
leaves a file no later roll looks for: too many files, and a gap in the names (run
`cap_after_crash`). For
`MaxCrashes = 0`, `CInv` adds that the names are a window that moves with the writer and that a
Live open which loaded a position past the Roll sees, by the checks after the load, that the
segment has a successor or is gone.

`OrderOK`, of `SegmentsInOrder`, is an induction of its own on top of these: of two published
segments of a channel the older ends at or before the index the newer starts at. A file is published
only as the successor of the newest published one and starts where that one ends, which nothing is
added to from then on. It holds after crashes too, and is what makes a search by index meaningful.

### Seeking

A search lists the names once and then opens one at a time, while files are rolled and unlinked, so
its bounds speak of files that may be gone when they are used. `SeekInv` therefore keeps for each
bound what was seen, of a file of that sequence that was published at some time (`StartsBy`,
`StartsAfter`, `EndsAfter`); a published file's base never changes and its records only grow
(`FilesFinal`), so it stays true. The listing is an interval of names `a..b`: no
older name is on disk (`AtLeast`), and the newest is as new as `b` (`Reaches`), because without
crashes retention only shortens the names from below. With `OrderOK`, the segment the search ends on
holds the index or ends at it (`Holds`), and one it must hold but does not is never met. `HeadKept`
keeps the head at the time of the call within the listing, for "past the head"; `SeenPruned` the
segment that was seen to start after the index, for "pruned". A crash between a roll and its prune
leaves a gap in the names, so the listing is no interval and the theorem is for `MaxCrashes = 0`.
`OldInv` is about the reader a reopen keeps aside: while the open goes on, with rolls and unlinks in
between, it stays one on a published segment and within its records, so that putting it back on an
error keeps everything known of readers.

### Waking

`Wake_proofs` proves `NoLostWake` for any readers, channels, segments, records and crashes.
`NoLostWake` speaks of readers asleep; what makes it inductive is a statement about the
moment before (`CheckSound`): a reader that has looked, found nothing, and still holds the
word's present value while a record has appeared is before that record's bump, so the bump
will either find it not yet asleep, and the futex refuses, or asleep, and wake it. That
rests on words never going back (`SeenBehind`), on a reader loading and sleeping on the word
of its own segment only (`OwnWord`), on Rolls being committed after their successors are
published (`RollsPublished`), and on a channel's published segments being its own (`Owned`), so
that a writer moves no word but those of its channel. `Looking` is the part of this that no way
of waiting disturbs. `WriterLooking` shows that every writer keeps it, and `WriterDue` that a
writer's step leaves a wake due until its FUTEX_WAKE; both are used twice, for a reader that
waits alone (`IInv`) and for a group (`GroupInv`).

The distrust rule has an invariant of its own, `TrustInv`: a sleep that ran out past a record
with the word unmoved means a commit without its bump, the miss recorded for it is for the
word's present value, and a second one at that value ends the trust.

The last part of `Wake_proofs` is about a thread that loads all words before it looks at any
reader, of any channels. `SleepShape` is what is new: while the thread sleeps for the cap every reader of the
group is asleep on its own word or woken already, so one reader that is not listed makes the
sleep a short one.

### The writer and its helper

`PrefaultRoll_proofs`: `NoResurrection` says that a removed name is not on disk. Its invariant
has the helper announce a sequence before it looks at the claim and the writer claim before it
rolls (`AnnounceOK`), so that what the helper then installs is not given up by retention;
`RetentionOK` says exactly which segments are given up, on their way through four queues;
`SeenOK` that what the helper knows is of the writer's segment or an earlier one; `FilesOK` that
past the writer's segment there is at most its successor, of the right parent. `QueuesOK` bounds
the deferred prunes by one, which needs that the helper looks where the writer is before it
announces again.

`PrefaultGrow_proofs`: both threads compute a length and set it, from lengths that may be old.
`AloneOK` has the file the helper was never given, which only the writer grows; `BehindOK` the one
handed over late, with a length of one region that is no longer true: then the file ends at most
one region past the one being written, and what the helper is about to ask for is no shorter.
`AheadOK` has the regions mapped from those lengths, `QueueOK` the counts.

### The reader's mappings

`ReaderMaps_proofs`: `Inv` is a statement about a reader `x`, the attempts `m` made at each segment
and the segment `w` being written (`ReaderOK(x, m, w)`). Everything the reader and its helper rely on
is of a segment up to `w`, at which no further attempt is made, so the writers' steps are a frame:
one lemma (`ReaderFrame`) covers them all. `PlaceOK` ties the cursor and a batch's private cursor to
record indices; `MapsOK` says which mapping is last, in the middle of a move too, and that a batch
can return to its first; `GivenOK` that the records lent or handed over are the last ones given, each
with the mapping of its region; `KeptOK` what `Unmap::AtFileRoll` keeps, by where the call is.
`Settled` is what of this a call must have restored when it returns. Each way a call ends, the
failures included, is shown to reach it.

The helper opens a segment ahead under a name that may still be discarded and made anew, so what it
has opened is not always the file the Roll names. The reader checks that when it takes it
(`take_segment`), and then tells the helper "rolled" without a file, on which the helper goes on with
what it had opened. `Confirmed` is the fact that makes this right: what the helper has opened of that
segment is what the Roll names. `AheadOK` carries it from the reader's take to its telling, and
`SharedOK` from there to the helper's. The latter has to say that the reader can only have taken what
the helper offered (`next`), and that the helper does not open the same segment again meanwhile.

### Only model-checked

Liveness under fairness, which is beyond this prover: `Delivered`, `LiveOpenEnds`, `RollFollowed`,
`NeverHangs`, `GroupNeverHangs`, `DoomedDeleted`, `CloseEnds`, `FollowsRolls`. Every invariant and
every action property of the passing runs is proved.

The prover's own library of theorems on finite sets, sequences and well-founded relations is used
as it is. Every other lemma is proved here.

## 5. Not modelled

- Reopening a channel with other sizes or another `keep_files`; generations other than
  the default; `mtu`, which only refuses more reservations.
- Corrupt or foreign files, torn headers, disk errors other than those the actions named
  `...Fails` and `Refuse` take; power loss.
- `roll_over_region`'s branch for a leftover smaller than a header: `ChainOK` shows it is
  never taken.
- The eight-attempt limit of `open_with` and `locate`: an open that gives up is one that is never
  retried.
- Spawning and pinning threads, `madvise`, how many pages a helper touches ahead and how it
  paces itself: operating-system I/O with no effect on what is read or written.
- Release of what a reader has left, on either thread, and the reference counts that make it
  safe: Rust's ownership rules guarantee it.
- A crash of a process that has a prefault helper, together with the helper's queue: what it
  leaves on disk is what `SegmentRoll` leaves after a crash between a roll and its prune.
- CRC-32C and the byte layout; builders beyond their size checks; examples and benchmarks.

## 6. State of the development

The model covers every component whose state another thread or process can see. Its invariants,
action properties and the refinement of `ChannelLog` are checked by TLC and proved; liveness is
checked by TLC. What a continuation would take up:

1. Weaker hypotheses for the theorems that exclude crashes: what a seek still promises over a
   listing with gaps, where "pruned" and "corrupt" are not exact.
2. A crash of a process that has a prefault helper, with the queue of deletions lost.
