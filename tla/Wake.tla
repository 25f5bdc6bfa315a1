-------------------------------- MODULE Wake --------------------------------
(***************************************************************************)
(* How a waiting reader sleeps and is woken (wake.rs, Reader::             *)
(* wait_for_message).  Each segment has a wake word and a flag that says   *)
(* its writer wakes.  A waking writer commits, then bumps the word, then   *)
(* wakes everyone sleeping on it.  A reader loads the word, looks for a    *)
(* record, and sleeps on the value it loaded, for a capped time; a sleep   *)
(* that runs out with a record waiting counts against the flag.            *)
(*                                                                         *)
(* There may be several channels, each with a writer of its own: their     *)
(* segments are numbered together, a channel is named by its first one,    *)
(* and its segments follow one another.  A segment is the number of its    *)
(* user records and whether its Roll is committed.  The word counts bumps: *)
(* a bound on records stands for its 32 bits, which no run of this         *)
(* protocol wraps.                                                         *)
(***************************************************************************)
EXTENDS Integers

CONSTANTS
  Readers,     \* reader processes
  MaxSeg,      \* bound: newest segment
  ChannelOf,   \* the channel of each segment
  Reads,       \* the channel of each reader
  MaxRecords,  \* bound: user records of each segment
  MaxCrashes   \* bound: writer crashes and closes

Segs == 0..MaxSeg
Channels == {ChannelOf[s] : s \in Segs}

ASSUME BoundsAssumption == MaxSeg \in Nat /\ MaxRecords \in [Segs -> Nat] /\ MaxCrashes \in Nat
ASSUME ChannelsAssumption ==
  /\ ChannelOf \in [Segs -> Segs] /\ \A s \in Segs : ChannelOf[ChannelOf[s]] = ChannelOf[s]
  /\ Reads \in [Readers -> Channels]

VARIABLES
  count,     \* user records committed in each segment
  rolled,    \* its Roll is committed
  past,      \* its write_position is past the Roll
  flag,      \* wake_flags bit 0
  word,      \* wake_word
  top,       \* newest published segment of each channel
  wpc,       \* where its writer, or the open that replaces it, is
  wkind,     \* the writer: "wakes" or "quiet" by its setting, "old" if it knows no waking
  wtgt,      \* the segment whose readers it is about to wake
  crashes,   \* crashes so far, of all writers
  rpc,       \* where each reader is in wait_for_message, "out" when not in it
  rseg,      \* file_sequence
  rpos,      \* user records of that segment consumed
  rseq,      \* sequence: the segment the word was loaded from
  seen,      \* the word loaded, NoWord for None
  untrusted, \* wake_untrusted
  miss,      \* wake_miss
  lost,      \* history: the last commit to the segment is not followed by a wake
  unbumped,  \* history: some commit to the segment is not followed by a bump
  slow       \* history: sleeps run out with a record waiting, since the word last moved

fileVars == <<count, rolled, past, flag, word, top>>
writerVars == <<wpc, wkind, wtgt, crashes>>
readerVars == <<rpc, rseg, rpos, rseq, seen, untrusted, miss>>
history == <<lost, unbumped, slow>>
vars == <<fileVars, writerVars, readerVars, history>>

NoWord == -1
Kinds == {"wakes", "quiet", "old"}

Init ==
  /\ count = [s \in Segs |-> 0]
  /\ rolled = [s \in Segs |-> FALSE]
  /\ past = [s \in Segs |-> FALSE]
  /\ flag = [s \in Segs |-> FALSE]
  /\ word = [s \in Segs |-> 0]
  /\ top = [c \in Channels |-> c]
  /\ wpc = [c \in Channels |-> "down"]
  /\ wkind = [c \in Channels |-> "quiet"]
  /\ wtgt = [c \in Channels |-> c]
  /\ crashes = 0
  /\ rpc = [r \in Readers |-> "out"]
  /\ rseg = Reads
  /\ rpos = [r \in Readers |-> 0]
  /\ rseq = Reads
  /\ seen = [r \in Readers |-> NoWord]
  /\ untrusted = [r \in Readers |-> FALSE]
  /\ miss = [r \in Readers |-> NoWord]
  /\ lost = [s \in Segs |-> FALSE]
  /\ unbumped = [s \in Segs |-> FALSE]
  /\ slow = [r \in Readers |-> 0]

-----------------------------------------------------------------------------
(* The writer of channel c *)

WGoto(c, from, to) == wpc[c] = from /\ wpc' = [wpc EXCEPT ![c] = to]

\* After the commit of a record or a Roll in s: whether a wake is to follow.
Unwoken(s, wakes) ==
  /\ lost' = [lost EXCEPT ![s] = @ \/ ~wakes]
  /\ unbumped' = [unbumped EXCEPT ![s] = @ \/ ~wakes]
  /\ UNCHANGED slow

\* What an open still has to do for the segment before the newest.
AfterOpen(c) ==
  IF top[c] = c \/ past[top[c] - 1] THEN "idle"
  ELSE IF rolled[top[c] - 1] THEN "finish_wp" ELSE "finish_commit"

OpenAs(c, kind) ==
  /\ WGoto(c, "down", AfterOpen(c))
  /\ wkind' = [wkind EXCEPT ![c] = kind]
  /\ wtgt' = [wtgt EXCEPT ![c] = IF AfterOpen(c) = "idle" THEN top[c] ELSE top[c] - 1]
  /\ UNCHANGED <<count, rolled, past, word, top, crashes, readerVars, history>>

\* open_or_create: the flag follows this writer's setting; then commit_stranded_roll.
Open(c, kind) ==
  /\ OpenAs(c, kind)
  /\ flag' = [flag EXCEPT ![top[c]] = (kind = "wakes")]

\* A writer that predates the flag leaves it as it is.
OpenOld(c) == OpenAs(c, "old") /\ UNCHANGED flag

\* commit_stranded_roll wakes whatever this writer's own setting.
FinishCommit(c) ==
  /\ WGoto(c, "finish_commit", "finish_wp")
  /\ rolled' = [rolled EXCEPT ![wtgt[c]] = TRUE]
  /\ Unwoken(wtgt[c], wkind[c] # "old")
  /\ UNCHANGED <<count, past, flag, word, top, wkind, wtgt, crashes, readerVars>>

FinishWp(c) ==
  /\ WGoto(c, "finish_wp", IF wkind[c] = "old" THEN "idle" ELSE "bump")
  /\ past' = [past EXCEPT ![wtgt[c]] = TRUE]
  /\ Unwoken(wtgt[c], wkind[c] # "old")
  /\ UNCHANGED <<count, rolled, flag, word, top, wkind, wtgt, crashes, readerVars>>

\* commit and publish_wp, up to the wake.
Commit(c) ==
  /\ WGoto(c, "idle", IF wkind[c] = "wakes" THEN "bump" ELSE "idle")
  /\ count[top[c]] < MaxRecords[top[c]]
  /\ count' = [count EXCEPT ![top[c]] = @ + 1]
  /\ wtgt' = [wtgt EXCEPT ![c] = top[c]]
  /\ Unwoken(top[c], wkind[c] = "wakes")
  /\ UNCHANGED <<rolled, past, flag, word, top, wkind, crashes, readerVars>>

\* roll_file: the successor's flag is set before it is published ...
RollPublish(c) ==
  /\ WGoto(c, "idle", "roll_commit")
  /\ top[c] + 1 \in Segs /\ ChannelOf[top[c] + 1] = c
  /\ top' = [top EXCEPT ![c] = @ + 1]
  /\ flag' = [flag EXCEPT ![top[c] + 1] = (wkind[c] = "wakes")]
  /\ wtgt' = [wtgt EXCEPT ![c] = top[c]]
  /\ UNCHANGED <<count, rolled, past, word, wkind, crashes, readerVars, history>>

\* ... then the Roll, the position, and a wake on the old segment's word.
RollCommit(c) ==
  /\ WGoto(c, "roll_commit", "roll_wp")
  /\ rolled' = [rolled EXCEPT ![wtgt[c]] = TRUE]
  /\ Unwoken(wtgt[c], wkind[c] = "wakes")
  /\ UNCHANGED <<count, past, flag, word, top, wkind, wtgt, crashes, readerVars>>

RollWp(c) ==
  /\ WGoto(c, "roll_wp", IF wkind[c] = "wakes" THEN "bump" ELSE "idle")
  /\ past' = [past EXCEPT ![wtgt[c]] = TRUE]
  /\ UNCHANGED <<count, rolled, flag, word, top, wkind, wtgt, crashes, readerVars, history>>

\* Mutant: the sleepers are woken and the word is not moved.
BumpOmitted(c) ==
  /\ WGoto(c, "bump", "wake")
  /\ UNCHANGED <<fileVars, wkind, wtgt, crashes, readerVars, history>>

\* wake_all: bump the word ...
Bump(c) ==
  /\ WGoto(c, "bump", "wake")
  /\ word' = [word EXCEPT ![wtgt[c]] = @ + 1]
  /\ slow' = [r \in Readers |-> IF rseg[r] = wtgt[c] THEN 0 ELSE slow[r]]
  /\ UNCHANGED <<count, rolled, past, flag, top, wkind, wtgt, crashes, readerVars,
                 lost, unbumped>>

\* ... then FUTEX_WAKE everyone queued on it.
WakeAll(c) ==
  /\ WGoto(c, "wake", "idle")
  /\ rpc' = [r \in Readers |->
               IF rpc[r] = "asleep" /\ rseg[r] = wtgt[c] THEN "flag" ELSE rpc[r]]
  /\ lost' = [lost EXCEPT ![wtgt[c]] = FALSE]
  /\ UNCHANGED <<fileVars, wkind, wtgt, crashes, rseg, rpos, rseq, seen, untrusted, miss,
                 unbumped, slow>>

\* A wake on s is still to come from the writer of its channel.
BumpDue(s) ==
  LET c == ChannelOf[s]
  IN /\ wtgt[c] = s
     /\ \/ wpc[c] = "bump"
        \/ (wpc[c] = "finish_wp" /\ wkind[c] # "old")
        \/ (wpc[c] = "roll_wp" /\ wkind[c] = "wakes")
WakeDue(s) == wtgt[ChannelOf[s]] = s /\ wpc[ChannelOf[s]] = "wake"

\* The process dies, or is closed, between any two steps.
Crash(c) ==
  /\ wpc[c] # "down"
  /\ crashes < MaxCrashes
  /\ crashes' = crashes + 1
  /\ wpc' = [wpc EXCEPT ![c] = "down"]
  /\ lost' = [s \in Segs |-> lost[s] \/ (ChannelOf[s] = c /\ (BumpDue(s) \/ WakeDue(s)))]
  /\ unbumped' = [s \in Segs |-> unbumped[s] \/ (ChannelOf[s] = c /\ BumpDue(s))]
  /\ UNCHANGED <<fileVars, wkind, wtgt, readerVars, slow>>

-----------------------------------------------------------------------------
(* A reader in wait_for_message *)

RGoto(r, from, to) == rpc[r] = from /\ rpc' = [rpc EXCEPT ![r] = to]

WaitForMessage(r) ==
  /\ RGoto(r, "out", "flag")
  /\ UNCHANGED <<fileVars, writerVars, rseg, rpos, rseq, seen, untrusted, miss, history>>

\* wake_word_if_waking: None if the flag is clear or no longer believed ...
LoadFlag(r) ==
  /\ rpc[r] = "flag"
  /\ rpc' = [rpc EXCEPT ![r] = IF flag[rseg[r]] /\ ~untrusted[r] THEN "word" ELSE "poll"]
  /\ rseq' = [rseq EXCEPT ![r] = rseg[r]]
  /\ seen' = [seen EXCEPT ![r] = NoWord]
  /\ UNCHANGED <<fileVars, writerVars, rseg, rpos, untrusted, miss, history>>

\* ... else the word, before looking.
LoadWord(r) ==
  /\ RGoto(r, "word", "poll")
  /\ seen' = [seen EXCEPT ![r] = word[rseg[r]]]
  /\ UNCHANGED <<fileVars, writerVars, rseg, rpos, rseq, untrusted, miss, history>>

HasRecord(r) == count[rseg[r]] > rpos[r]
AtCursor(r) == HasRecord(r) \/ rolled[rseg[r]]

\* poll_for_user_message: a user record at the cursor.  After a sleep that ran out, that
\* counts against the flag.
PollFound(r) ==
  /\ rpc[r] \in {"poll", "repoll"}
  /\ HasRecord(r)
  /\ rpc' = [rpc EXCEPT ![r] = IF @ = "poll" THEN "ready" ELSE "distrust"]
  /\ slow' = [slow EXCEPT ![r] =
                IF rpc[r] = "repoll" /\ rseq[r] = rseg[r] /\ seen[r] = word[rseg[r]]
                THEN @ + 1 ELSE @]
  /\ UNCHANGED <<fileVars, writerVars, rseg, rpos, rseq, seen, untrusted, miss, lost, unbumped>>

\* A Roll: open_next_file, on to the next segment, with its flag believed.
PollRoll(r) ==
  /\ rpc[r] \in {"poll", "repoll"}
  /\ ~HasRecord(r) /\ rolled[rseg[r]]
  /\ rseg' = [rseg EXCEPT ![r] = @ + 1]
  /\ rpos' = [rpos EXCEPT ![r] = 0]
  /\ untrusted' = [untrusted EXCEPT ![r] = FALSE]
  /\ miss' = [miss EXCEPT ![r] = NoWord]
  /\ slow' = [slow EXCEPT ![r] = 0]
  /\ UNCHANGED <<fileVars, writerVars, rpc, rseq, seen, lost, unbumped>>

PollEmpty(r) ==
  /\ rpc[r] \in {"poll", "repoll"}
  /\ ~AtCursor(r)
  /\ rpc' = [rpc EXCEPT ![r] = IF @ = "poll" THEN "check" ELSE "flag"]
  /\ UNCHANGED <<fileVars, writerVars, rseg, rpos, rseq, seen, untrusted, miss, history>>

\* time_left: the deadline has passed, wait_for_message returns false.
DeadlinePassed(r) ==
  /\ RGoto(r, "check", "out")
  /\ UNCHANGED <<fileVars, writerVars, rseg, rpos, rseq, seen, untrusted, miss, history>>

\* The word belongs to the segment before the look: look again.
LookAgain(r) ==
  /\ RGoto(r, "check", "flag")
  /\ seen[r] # NoWord /\ rseg[r] # rseq[r]
  /\ UNCHANGED <<fileVars, writerVars, rseg, rpos, rseq, seen, untrusted, miss, history>>

\* FUTEX_WAIT: the kernel compares the word and queues the caller in one step.
FutexWait(r) ==
  /\ rpc[r] = "check"
  /\ seen[r] # NoWord /\ rseg[r] = rseq[r]
  /\ rpc' = [rpc EXCEPT ![r] = IF word[rseg[r]] = seen[r] THEN "asleep" ELSE "flag"]
  /\ UNCHANGED <<fileVars, writerVars, rseg, rpos, rseq, seen, untrusted, miss, history>>

\* No waking: sleep the backoff and look again.
Backoff(r) ==
  /\ RGoto(r, "check", "flag")
  /\ seen[r] = NoWord
  /\ UNCHANGED <<fileVars, writerVars, rseg, rpos, rseq, seen, untrusted, miss, history>>

\* A signal, or a deadline before the cap: look again.
Interrupted(r) ==
  /\ RGoto(r, "asleep", "flag")
  /\ UNCHANGED <<fileVars, writerVars, rseg, rpos, rseq, seen, untrusted, miss, history>>

\* Mutant: a sleep with no cap.
SleepRunsOutNever(r) == FALSE /\ UNCHANGED vars

\* WAKE_SLEEP_CAP has passed.
SleepRunsOut(r) ==
  /\ RGoto(r, "asleep", "repoll")
  /\ UNCHANGED <<fileVars, writerVars, rseg, rpos, rseq, seen, untrusted, miss, history>>

\* Mutant: one miss is enough.
DistrustAtOnce(r) ==
  /\ RGoto(r, "distrust", "ready")
  /\ IF rseg[r] = rseq[r] /\ word[rseg[r]] = seen[r]
     THEN untrusted' = [untrusted EXCEPT ![r] = TRUE]
     ELSE UNCHANGED untrusted
  /\ UNCHANGED <<fileVars, writerVars, rseg, rpos, rseq, seen, miss, history>>

\* Mutant: the last miss is not remembered.
DistrustForgets(r) ==
  /\ RGoto(r, "distrust", "ready")
  /\ UNCHANGED <<fileVars, writerVars, rseg, rpos, rseq, seen, untrusted, miss, history>>

\* distrust_flag_if_unwoken: the second miss on the same value of the word ends the trust.
Distrust(r) ==
  LET unwoken == rseg[r] = rseq[r] /\ word[rseg[r]] = seen[r]
  IN /\ RGoto(r, "distrust", "ready")
     /\ untrusted' = [untrusted EXCEPT ![r] = @ \/ (unwoken /\ miss[r] = seen[r])]
     /\ miss' = [miss EXCEPT ![r] = IF unwoken THEN seen[r] ELSE @]
     /\ UNCHANGED <<fileVars, writerVars, rseg, rpos, rseq, seen, history>>

\* The caller reads the record it was told of (try_read).
TryRead(r) ==
  /\ RGoto(r, "ready", "out")
  /\ rpos' = [rpos EXCEPT ![r] = @ + 1]
  /\ UNCHANGED <<fileVars, writerVars, rseg, rseq, seen, untrusted, miss, history>>

-----------------------------------------------------------------------------

OpenCalled(c) == Open(c, "wakes") \/ Open(c, "quiet") \/ OpenOld(c)

\* What a writer does once a call, or an open, is under way.
WriterStep(c) ==
  FinishCommit(c) \/ FinishWp(c) \/ RollCommit(c) \/ RollWp(c) \/ Bump(c) \/ WakeAll(c)

\* What a waiting reader, or the kernel's timer for it, does.
WaitStep(r) ==
  \/ LoadFlag(r) \/ LoadWord(r)
  \/ PollFound(r) \/ PollRoll(r) \/ PollEmpty(r)
  \/ LookAgain(r) \/ FutexWait(r) \/ Backoff(r)
  \/ SleepRunsOut(r) \/ Distrust(r)

Next ==
  \/ \E c \in Channels :
       OpenCalled(c) \/ Commit(c) \/ RollPublish(c) \/ WriterStep(c) \/ Crash(c)
  \/ \E r \in Readers :
       \/ WaitForMessage(r) \/ TryRead(r)
       \/ WaitStep(r) \/ DeadlinePassed(r) \/ Interrupted(r)

Spec == Init /\ [][Next]_vars

\* A wait under way goes on and a sleep ends when its time is up; nobody has to open, commit,
\* roll, wake, crash or wait.
FairSpec ==
  /\ Spec
  /\ \A r \in Readers : WF_vars(WaitStep(r))

-----------------------------------------------------------------------------
(* Properties *)

WaitingPc == {"flag", "word", "poll", "check", "asleep", "repoll", "distrust"}

\* Every variable has the shape the code gives it, and no reader is on a segment that is not
\* published.
TypeOK ==
  /\ count \in [Segs -> Nat] /\ word \in [Segs -> Nat]
  /\ rolled \in [Segs -> BOOLEAN] /\ past \in [Segs -> BOOLEAN] /\ flag \in [Segs -> BOOLEAN]
  /\ top \in [Channels -> Segs] /\ wkind \in [Channels -> Kinds] /\ wtgt \in [Channels -> Segs]
  /\ wpc \in [Channels -> {"down", "idle", "finish_commit", "finish_wp", "roll_commit", "roll_wp",
                           "bump", "wake"}]
  /\ crashes \in Nat
  /\ rpc \in [Readers -> WaitingPc \cup {"out", "ready"}]
  /\ rseg \in [Readers -> Segs] /\ rseq \in [Readers -> Segs]
  /\ \A r \in Readers : {rseg[r], rseq[r]} \subseteq Reads[r]..top[Reads[r]]
  /\ rpos \in [Readers -> Nat]
  /\ seen \in [Readers -> Nat \cup {NoWord}] /\ miss \in [Readers -> Nat \cup {NoWord}]
  /\ untrusted \in [Readers -> BOOLEAN]
  /\ lost \in [Segs -> BOOLEAN] /\ unbumped \in [Segs -> BOOLEAN]
  /\ slow \in [Readers -> Nat]

\* No lost wake-up: while a reader sleeps with a record, or a Roll, at its cursor, the wake
\* for it is still to come, unless the writer that committed it does not wake or died first.
NoLostWake ==
  \A r \in Readers : rpc[r] = "asleep" /\ AtCursor(r) =>
    lost[rseg[r]] \/ BumpDue(rseg[r]) \/ WakeDue(rseg[r])

\* A reader stops believing a segment's flag only if some commit to it was really not woken:
\* a waking writer that is merely slow between publish and bump keeps its readers' trust.
TrustKept == \A r \in Readers : untrusted[r] => unbumped[rseg[r]]

\* A flag that is wrong costs a reader at most two capped sleeps for each value of the word,
\* so at most two in a segment whose writer never wakes.
SlowAtMostTwice == \A r \in Readers : slow[r] <= 2

\* Whatever the flag says and whoever writes, a reader that waits with a record at its cursor
\* is told of it.
NeverHangs ==
  \A r \in Readers : (rpc[r] \in WaitingPc /\ HasRecord(r)) ~> rpc[r] \in {"out", "ready"}
=============================================================================
