---------------------------- MODULE SegmentRoll -----------------------------
(***************************************************************************)
(* The files of one channel: how a writer rolls from one segment to the    *)
(* next (Writer::roll_file), how an open after a crash at any of its steps *)
(* resumes (open_or_create, discard_unpublished_tail, commit_stranded_roll)*)
(* how retention unlinks segments (keep_files), and how readers open a     *)
(* segment by name and follow Rolls from file to file while all that goes  *)
(* on (open_with, live_start, open_successor).  There is no helper thread. *)
(*                                                                         *)
(* A file is its inode: `file` keeps what a process that has it open sees, *)
(* `dir` is what the names lead to.  The records of a segment are reduced  *)
(* to their number (SegmentLog is about how they are written), attempt     *)
(* names are private to one writer and left out.  Generations are the      *)
(* default, 0, in every file.                                              *)
(***************************************************************************)
EXTENDS Integers, FiniteSets

CONSTANTS
  Readers,     \* reader processes
  KeepFiles,   \* keep_files(n), 0 for unlimited retention
  MaxSeq,      \* bound: newest segment
  MaxFiles,    \* bound: segment files created
  MaxRecords,  \* bound: user records per segment
  MaxCrashes,  \* bound: writer crashes and closes
  MaxEpochs    \* bound: times the channel is cleaned up and started again

ASSUME BoundsAssumption ==
  /\ KeepFiles \in Nat
  /\ MaxSeq \in Nat /\ MaxFiles \in Nat /\ MaxRecords \in Nat
  /\ MaxCrashes \in Nat /\ MaxEpochs \in Nat

VARIABLES
  dir,      \* file under each segment name, NoFile if there is none
  file,     \* every file ever created, in order of creation
  epoch,    \* how often the channel has been cleaned up
  pc,       \* where the writer, or the open that replaces it, is
  wseq,     \* file_sequence
  winst,    \* instance: the file it writes
  winext,   \* the successor a roll is under way to, NoFile if none
  crashes,  \* crashes so far
  rpc,      \* where each reader is
  rseq,     \* file_sequence, or the sequence an open picked
  rinst,    \* the file it has open
  rindex,   \* position
  rpast,    \* a Live open loaded a write_position past the Roll
  repoch    \* history: the channel whose records the reader has been given

dirVars == <<dir, file, epoch>>
writerVars == <<pc, wseq, winst, winext, crashes>>
readerVars == <<rpc, rseq, rinst, rindex, rpast, repoch>>
vars == <<dirVars, writerVars, readerVars>>

Seqs == 0..MaxSeq
NoFile == 0
Files == 1..MaxFiles

\* A segment file: its identity, publication_state, base_record_index and message_count;
\* the successor and base its Roll names once staged, whether the Roll is committed, and
\* whether write_position is past it.
File == [seq : Seqs, parent : 0..MaxFiles, published : BOOLEAN, base : Nat, count : Nat,
         rollTo : 0..MaxFiles, rollBase : Nat, rolled : BOOLEAN, past : BOOLEAN, epoch : Nat]

\* init_segment: an empty PREPARED segment; a successor's base is stamped at its roll.
Prepared(seq, parent) ==
  [seq |-> seq, parent |-> parent, published |-> FALSE, base |-> 0, count |-> 0,
   rollTo |-> NoFile, rollBase |-> 0, rolled |-> FALSE, past |-> FALSE, epoch |-> epoch]

Created == DOMAIN file
Fresh == Cardinality(Created) + 1
WithFile(f, i, v) == [j \in DOMAIN f \cup {i} |-> IF j = i THEN v ELSE f[j]]

\* RollEdge::after: the index after the last record of a file, where its successor starts.
End(i) == file[i].base + file[i].count

\* publication_state, and the store that publishes a file.
IsPublished(i) == file[i].published
Publish(i) == file' = [file EXCEPT ![i].published = TRUE]

\* install_no_replace: a name that is taken is never replaced.
InstallNoReplace(s, i) == dir[s] = NoFile /\ dir' = [dir EXCEPT ![s] = i]

\* find_all_sequences, and the ends of it.
Present == {s \in Seqs : dir[s] # NoFile}
Latest == CHOOSE s \in Present : \A t \in Present : t <= s
Earliest == CHOOSE s \in Present : \A t \in Present : s <= t

\* segment_is_published, by name.
PublishedName(s) == s \in Present /\ IsPublished(dir[s])

Init ==
  /\ dir = [s \in Seqs |-> NoFile]
  /\ file = [i \in {} |-> Prepared(0, NoFile)]
  /\ epoch = 0
  /\ pc = "down"
  /\ wseq = 0 /\ winst = NoFile /\ winext = NoFile
  /\ crashes = 0
  /\ rpc = [r \in Readers |-> "closed"]
  /\ rseq = [r \in Readers |-> 0]
  /\ rinst = [r \in Readers |-> NoFile]
  /\ rindex = [r \in Readers |-> 0]
  /\ rpast = [r \in Readers |-> FALSE]
  /\ repoch = [r \in Readers |-> 0]

-----------------------------------------------------------------------------
(* Opening a channel for writing *)

\* discard_unpublished_tail: unlink an unpublished newest file, unless it is the initial one.
DiscardUnpublished ==
  /\ pc = "down"
  /\ Present # {}
  /\ Latest # 0 /\ ~PublishedName(Latest)
  /\ dir' = [dir EXCEPT ![Latest] = NoFile]
  /\ UNCHANGED <<file, epoch, writerVars, readerVars>>

\* open_file with no file there: prepare the initial segment and install it ...
CreateInitial ==
  /\ pc = "down"
  /\ Present = {}
  /\ Fresh <= MaxFiles
  /\ file' = WithFile(file, Fresh, Prepared(0, NoFile))
  /\ InstallNoReplace(0, Fresh)
  /\ pc' = "genesis"
  /\ wseq' = 0
  /\ winst' = Fresh
  /\ UNCHANGED <<epoch, winext, crashes, readerVars>>

\* ... and publish it.
PublishInitial ==
  /\ pc = "genesis"
  /\ Publish(winst)
  /\ pc' = "idle"
  /\ UNCHANGED <<dir, epoch, wseq, winst, winext, crashes, readerVars>>

\* Mutant: the predecessor's Roll is left as the crash left it.
OpenNewestOnly ==
  /\ pc = "down"
  /\ Present # {}
  /\ Latest = 0 \/ PublishedName(Latest)
  /\ wseq' = Latest
  /\ winst' = dir[Latest]
  /\ Publish(dir[Latest])
  /\ pc' = IF file[dir[Latest]].rolled THEN "refused" ELSE "idle"
  /\ UNCHANGED <<dir, epoch, winext, crashes, readerVars>>

\* open_file on the newest file: publish an initial one left unpublished; a committed Roll at
\* its write position is refused.  A predecessor still there must then be completed.
OpenNewest ==
  /\ pc = "down"
  /\ Present # {}
  /\ Latest = 0 \/ PublishedName(Latest)
  /\ wseq' = Latest
  /\ winst' = dir[Latest]
  /\ Publish(dir[Latest])
  /\ pc' = IF file[dir[Latest]].rolled THEN "refused"
           ELSE IF Latest > 0 /\ Latest - 1 \in Present THEN "stranded" ELSE "idle"
  /\ UNCHANGED <<dir, epoch, winext, crashes, readerVars>>

\* commit_stranded_roll: check the predecessor's Roll against the file just opened; commit it
\* if it is only staged, move the position if that is behind.
StrandedCheck ==
  /\ pc = "stranded"
  /\ LET p == dir[wseq - 1]
         matches == /\ IsPublished(p)
                    /\ file[winst].parent = p
                    /\ End(p) = file[winst].base
                    /\ file[p].rollTo = winst
                    /\ file[p].rollBase = file[winst].base
     IN pc' = IF ~matches THEN "refused"
              ELSE IF file[p].past THEN "idle"
              ELSE IF file[p].rolled THEN "finish_wp" ELSE "finish_commit"
  /\ UNCHANGED <<dirVars, wseq, winst, winext, crashes, readerVars>>

FinishCommit ==
  /\ pc = "finish_commit"
  /\ file' = [file EXCEPT ![dir[wseq - 1]].rolled = TRUE]
  /\ pc' = "finish_wp"
  /\ UNCHANGED <<dir, epoch, wseq, winst, winext, crashes, readerVars>>

FinishWp ==
  /\ pc = "finish_wp"
  /\ file' = [file EXCEPT ![dir[wseq - 1]].past = TRUE]
  /\ pc' = "idle"
  /\ UNCHANGED <<dir, epoch, wseq, winst, winext, crashes, readerVars>>

\* The writer dies, or is closed, between any two steps.
Crash ==
  /\ pc \notin {"down", "refused"}
  /\ crashes < MaxCrashes
  /\ crashes' = crashes + 1
  /\ pc' = "down"
  /\ wseq' = 0 /\ winst' = NoFile /\ winext' = NoFile
  /\ UNCHANGED <<dirVars, readerVars>>

\* cleanup_channel_files, with no writer: the next open starts a channel of the same name.
Cleanup ==
  /\ pc = "down"
  /\ Present # {}
  /\ epoch < MaxEpochs
  /\ dir' = [s \in Seqs |-> NoFile]
  /\ epoch' = epoch + 1
  /\ UNCHANGED <<file, writerVars, readerVars>>

-----------------------------------------------------------------------------
(* Writing and rolling *)

\* try_reserve and commit: the record goes where a crashed roll may have staged a Roll.
Append ==
  /\ pc = "idle"
  /\ file[winst].count < MaxRecords
  /\ file' = [file EXCEPT ![winst].count = @ + 1,
                          ![winst].rollTo = NoFile, ![winst].rollBase = 0]
  /\ UNCHANGED <<dir, epoch, writerVars, readerVars>>

\* roll_file 1: prepare_successor installs a fresh file under the next name, if it is free.
RollInstall ==
  /\ pc = "idle"
  /\ wseq < MaxSeq
  /\ Fresh <= MaxFiles
  /\ file' = WithFile(file, Fresh, Prepared(wseq + 1, winst))
  /\ InstallNoReplace(wseq + 1, Fresh)
  /\ winext' = Fresh
  /\ pc' = "installed"
  /\ UNCHANGED <<epoch, wseq, winst, crashes, readerVars>>

\* Mutant: the Roll is committed as it is staged.
RollStageCommitted ==
  /\ pc = "installed"
  /\ file' = [file EXCEPT ![winst].rollTo = winext, ![winst].rollBase = End(winst),
                          ![winst].rolled = TRUE]
  /\ pc' = "staged"
  /\ UNCHANGED <<dir, epoch, wseq, winst, winext, crashes, readerVars>>

\* Mutant: the Roll names this segment's base, not its end.
RollStageOwnBase ==
  /\ pc = "installed"
  /\ file' = [file EXCEPT ![winst].rollTo = winext, ![winst].rollBase = file[winst].base]
  /\ pc' = "staged"
  /\ UNCHANGED <<dir, epoch, wseq, winst, winext, crashes, readerVars>>

\* 2: stage the whole Roll, uncommitted.
RollStage ==
  /\ pc = "installed"
  /\ file' = [file EXCEPT ![winst].rollTo = winext, ![winst].rollBase = End(winst)]
  /\ pc' = "staged"
  /\ UNCHANGED <<dir, epoch, wseq, winst, winext, crashes, readerVars>>

\* Mutant: the successor is published with the base it was prepared with.
RollStampOmitted ==
  /\ pc = "staged"
  /\ pc' = "stamped"
  /\ UNCHANGED <<dirVars, wseq, winst, winext, crashes, readerVars>>

\* 3: stamp the base, then publish the successor.
RollStamp ==
  /\ pc = "staged"
  /\ file' = [file EXCEPT ![winext].base = file[winst].rollBase]
  /\ pc' = "stamped"
  /\ UNCHANGED <<dir, epoch, wseq, winst, winext, crashes, readerVars>>

RollPublish ==
  /\ pc = "stamped"
  /\ Publish(winext)
  /\ pc' = "published"
  /\ UNCHANGED <<dir, epoch, wseq, winst, winext, crashes, readerVars>>

\* 4: commit the Roll, then move the position past it.
RollCommit ==
  /\ pc = "published"
  /\ file' = [file EXCEPT ![winst].rolled = TRUE]
  /\ pc' = "committed"
  /\ UNCHANGED <<dir, epoch, wseq, winst, winext, crashes, readerVars>>

\* Mutant: the writer goes on writing the segment it rolled.
RollSwitchStays ==
  /\ pc = "committed"
  /\ file' = [file EXCEPT ![winst].past = TRUE]
  /\ wseq' = wseq + 1
  /\ winext' = NoFile
  /\ pc' = "prune"
  /\ UNCHANGED <<dir, epoch, winst, crashes, readerVars>>

\* The position, and the switch to the successor.
RollSwitch ==
  /\ pc = "committed"
  /\ file' = [file EXCEPT ![winst].past = TRUE]
  /\ wseq' = wseq + 1
  /\ winst' = winext
  /\ winext' = NoFile
  /\ pc' = "prune"
  /\ UNCHANGED <<dir, epoch, crashes, readerVars>>

\* Mutant: one segment too many is kept.
RollPruneLate ==
  /\ pc = "prune"
  /\ dir' = IF KeepFiles > 0 /\ wseq > KeepFiles
            THEN [dir EXCEPT ![wseq - KeepFiles - 1] = NoFile] ELSE dir
  /\ pc' = "idle"
  /\ UNCHANGED <<file, epoch, wseq, winst, winext, crashes, readerVars>>

\* Retention: unlink the segment KeepFiles behind, and only that one.
RollPrune ==
  /\ pc = "prune"
  /\ dir' = IF KeepFiles > 0 /\ wseq >= KeepFiles
            THEN [dir EXCEPT ![wseq - KeepFiles] = NoFile] ELSE dir
  /\ pc' = "idle"
  /\ UNCHANGED <<file, epoch, wseq, winst, winext, crashes, readerVars>>

-----------------------------------------------------------------------------
(* Readers *)

RStep(r, from, to) == rpc[r] = from /\ rpc' = [rpc EXCEPT ![r] = to]

\* Joined to file i at index k: what from_segment returns.
Join(r, i, k) ==
  /\ rpc' = [rpc EXCEPT ![r] = "scan"]
  /\ rinst' = [rinst EXCEPT ![r] = i]
  /\ rindex' = [rindex EXCEPT ![r] = k]
  /\ repoch' = [repoch EXCEPT ![r] = file[i].epoch]

\* LateJoin: list the directory, then open the earliest name; one unlinked meanwhile is
\* retried, one unpublished is NotFound.
LateList(r) ==
  /\ RStep(r, "closed", "late_open")
  /\ Present # {}
  /\ rseq' = [rseq EXCEPT ![r] = Earliest]
  /\ UNCHANGED <<dirVars, writerVars, rinst, rindex, rpast, repoch>>

LateOpen(r) ==
  /\ rpc[r] = "late_open"
  /\ PublishedName(rseq[r])
  /\ Join(r, dir[rseq[r]], file[dir[rseq[r]]].base)
  /\ UNCHANGED <<dirVars, writerVars, rseq, rpast>>

LateAgain(r) ==
  /\ RStep(r, "late_open", "closed")
  /\ ~PublishedName(rseq[r])
  /\ rseq' = [rseq EXCEPT ![r] = 0]
  /\ UNCHANGED <<dirVars, writerVars, rinst, rindex, rpast, repoch>>

\* Live: find the newest published segment, open it by name, load its position and count,
\* and ask whether it is still the newest: its successor published, or its own name gone.
LiveList(r) ==
  /\ RStep(r, "closed", "live_open")
  /\ \E s \in Present :
       /\ PublishedName(s) /\ \A t \in Present : PublishedName(t) => t <= s
       /\ rseq' = [rseq EXCEPT ![r] = s]
  /\ UNCHANGED <<dirVars, writerVars, rinst, rindex, rpast, repoch>>

LiveOpen(r) ==
  /\ RStep(r, "live_open", "live_load")
  /\ PublishedName(rseq[r])
  /\ rinst' = [rinst EXCEPT ![r] = dir[rseq[r]]]
  /\ UNCHANGED <<dirVars, writerVars, rseq, rindex, rpast, repoch>>

LiveGone(r) ==
  /\ RStep(r, "live_open", "closed")
  /\ ~PublishedName(rseq[r])
  /\ rseq' = [rseq EXCEPT ![r] = 0]
  /\ UNCHANGED <<dirVars, writerVars, rinst, rindex, rpast, repoch>>

LiveLoad(r) ==
  /\ RStep(r, "live_load", "live_next")
  /\ rpast' = [rpast EXCEPT ![r] = file[rinst[r]].past]
  /\ rindex' = [rindex EXCEPT ![r] = End(rinst[r])]
  /\ UNCHANGED <<dirVars, writerVars, rseq, rinst, repoch>>

Stale(r) ==
  /\ rpc' = [rpc EXCEPT ![r] = "closed"]
  /\ rseq' = [rseq EXCEPT ![r] = 0]
  /\ rinst' = [rinst EXCEPT ![r] = NoFile]
  /\ rindex' = [rindex EXCEPT ![r] = 0]
  /\ rpast' = [rpast EXCEPT ![r] = FALSE]
  /\ UNCHANGED repoch

NewerName(r) == rseq[r] < MaxSeq /\ PublishedName(rseq[r] + 1)

LiveCheckNext(r) ==
  /\ rpc[r] = "live_next"
  /\ IF NewerName(r) THEN Stale(r)
     ELSE /\ rpc' = [rpc EXCEPT ![r] = "live_self"]
          /\ UNCHANGED <<rseq, rinst, rindex, rpast, repoch>>
  /\ UNCHANGED <<dirVars, writerVars>>

\* Mutant: only the successor's name is looked at.
LiveCheckSelfOmitted(r) ==
  /\ RStep(r, "live_self", "live_slot")
  /\ UNCHANGED <<dirVars, writerVars, rseq, rinst, rindex, rpast, repoch>>

LiveCheckSelf(r) ==
  /\ rpc[r] = "live_self"
  /\ IF dir[rseq[r]] = NoFile THEN Stale(r)
     ELSE /\ rpc' = [rpc EXCEPT ![r] = "live_slot"]
          /\ UNCHANGED <<rseq, rinst, rindex, rpast, repoch>>
  /\ UNCHANGED <<dirVars, writerVars>>

\* A record committed since the load: again.  Past the Roll: bytes nothing ever commits.
LiveSlot(r) ==
  /\ rpc[r] = "live_slot"
  /\ IF rpast[r]
     THEN RStep(r, "live_slot", "stranded") /\ UNCHANGED <<rinst, rindex, repoch>>
     ELSE IF rindex[r] < End(rinst[r])
     THEN RStep(r, "live_slot", "live_load") /\ UNCHANGED <<rinst, rindex, repoch>>
     ELSE Join(r, rinst[r], rindex[r])
  /\ UNCHANGED <<dirVars, writerVars, rseq, rpast>>

\* The next user record of the segment.
Read(r) ==
  /\ rpc[r] = "scan"
  /\ rindex[r] < End(rinst[r])
  /\ rindex' = [rindex EXCEPT ![r] = @ + 1]
  /\ UNCHANGED <<dirVars, writerVars, rpc, rseq, rinst, rpast, repoch>>

\* Mutant: the next file in sequence is taken for the successor.
NamesBySequence(i, j) == file[j].seq = file[i].seq + 1

\* RollEdge::names: the Roll in file i leads to file j.
Names(i, j) == file[i].rollTo = j /\ file[j].parent = i /\ file[j].seq = file[i].seq + 1

\* The checks open_successor makes of the file it opened.
Follows(i, j) ==
  /\ Names(i, j)
  /\ IsPublished(j)
  /\ file[j].base = End(i)
  /\ file[j].base = file[i].rollBase

\* A committed Roll: open the next name and check that it is the file the Roll names.
FollowRoll(r) ==
  LET i == rinst[r]
      j == dir[rseq[r] + 1]
  IN /\ rpc[r] = "scan"
     /\ rindex[r] = End(i) /\ file[i].rolled
     /\ j # NoFile
     /\ IF Follows(i, j)
        THEN /\ rseq' = [rseq EXCEPT ![r] = @ + 1]
             /\ rinst' = [rinst EXCEPT ![r] = j]
             /\ rindex' = [rindex EXCEPT ![r] = file[j].base]
             /\ UNCHANGED rpc
        ELSE /\ rpc' = [rpc EXCEPT ![r] = "error"]
             /\ UNCHANGED <<rseq, rinst, rindex>>
     /\ UNCHANGED <<dirVars, writerVars, rpast, repoch>>

\* The successor has been unlinked: ENOENT, and the reader stays where it is.
Overtaken(r) ==
  /\ RStep(r, "scan", "overtaken")
  /\ rindex[r] = End(rinst[r]) /\ file[rinst[r]].rolled
  /\ dir[rseq[r] + 1] = NoFile
  /\ UNCHANGED <<dirVars, writerVars, rseq, rinst, rindex, rpast, repoch>>

-----------------------------------------------------------------------------

\* An open is called when somebody starts a writer; once under way it goes on.
OpenCalled == DiscardUnpublished \/ CreateInitial \/ OpenNewest
OpenStep == PublishInitial \/ StrandedCheck \/ FinishCommit \/ FinishWp

RollStep ==
  RollStage \/ RollStamp \/ RollPublish \/ RollCommit \/ RollSwitch \/ RollPrune

LiveStep(r) ==
  LiveOpen(r) \/ LiveGone(r) \/ LiveLoad(r) \/ LiveCheckNext(r) \/ LiveCheckSelf(r) \/ LiveSlot(r)

ReaderStep(r) == Read(r) \/ FollowRoll(r) \/ Overtaken(r)

WriterNext ==
  \/ OpenCalled \/ OpenStep
  \/ RollStep
  \/ Append \/ RollInstall
  \/ Crash \/ Cleanup

ReaderNext(r) ==
  \/ LateList(r) \/ LateOpen(r) \/ LateAgain(r)
  \/ LiveList(r) \/ LiveStep(r)
  \/ ReaderStep(r)

Next == WriterNext \/ \E r \in Readers : ReaderNext(r)

Spec == Init /\ [][Next]_vars

\* A roll under way and an open under way go on, and a reader that polls goes on; nobody has
\* to open, append, roll or crash.
FairSpec ==
  /\ Spec
  /\ WF_vars(RollStep)
  /\ WF_vars(OpenStep)
  /\ \A r \in Readers : WF_vars(ReaderStep(r))

-----------------------------------------------------------------------------
(* Properties *)

\* A committed Roll leads to a published file that names this one as its parent and starts
\* at the index this one ends at: what a reader that meets it relies on (open_successor),
\* whatever the writer, a crash and an open did in between.
RollLeadsOn ==
  \A i \in Created : file[i].rolled =>
    file[i].rollTo \in Created /\ Follows(i, file[i].rollTo)

\* A reader is only given records of the channel it opened, in index order: after a cleanup
\* and a new channel of the same name, an old Roll never leads it into the new files.
NoSplice ==
  \A r \in Readers : rpc[r] = "scan" =>
    /\ file[rinst[r]].epoch = repoch[r]
    /\ file[rinst[r]].seq = rseq[r]
    /\ file[rinst[r]].base <= rindex[r] /\ rindex[r] <= End(rinst[r])

\* A Roll is refused as corrupt only by a reader whose channel has been cleaned up.
ErrorOnlyAfterCleanup ==
  \A r \in Readers : rpc[r] = "error" => repoch[r] < epoch

\* Whatever step the last writer died at, the next open resumes the channel.
RecoveryAccepts == pc # "refused"

\* Once a writer is open, no reader waits at the end of an older segment: each one still
\* on disk ends in a committed Roll, its position past it.
NoRollStranded ==
  pc = "idle" => \A s \in Present : s < wseq => file[dir[s]].rolled /\ file[dir[s]].past

\* What a reader may already have relied on is never changed: the identity and base of a
\* published segment, and the count and Roll of a segment whose Roll is committed.
FinalForGood ==
  [][\A i \in Created :
       /\ file[i].published =>
            file'[i].published /\ file'[i].base = file[i].base /\ file'[i].count >= file[i].count
       /\ file[i].rolled =>
            /\ file'[i].rolled /\ file'[i].rollTo = file[i].rollTo
            /\ file'[i].count = file[i].count]_vars

\* keep_files(n) across crashes: a writer that dies before its prune may leave the one file
\* that roll should have unlinked, and nothing older stays on disk.
RetainedWindow ==
  (pc = "idle" /\ KeepFiles > 0) => \A s \in Present : s >= wseq - KeepFiles

\* Once a roll, or an open, is complete, at most n files are on disk with keep_files(n); and
\* retention unlinks oldest first, so the files on disk never have a gap.
RetainsNewest ==
  /\ (pc = "idle" /\ KeepFiles > 0) => Cardinality(Present) <= KeepFiles
  /\ \A s \in Present, t \in Present : \A u \in s..t : u \in Present

\* A Live open never takes a position past a Roll for the head of the channel: a roll that
\* finished before the load is seen by the checks after it (live_start).
LiveJoinsTail == \A r \in Readers : rpc[r] # "stranded"

HasSuccessor(i) == \E j \in Created : file[j].parent = i /\ file[j].published

\* No reader is left behind at a published successor: while a writer is open, whether it made
\* the roll or found it unfinished, a polling reader moves on or is told it was overtaken, unless
\* its channel has been cleaned up.
RollFollowed ==
  \A r \in Readers : \A i \in Files :
    (rpc[r] = "scan" /\ rinst[r] = i /\ HasSuccessor(i)) ~>
      \/ rinst[r] # i
      \/ rpc[r] \in {"overtaken", "error"}
      \/ pc = "down"
      \/ repoch[r] # epoch
=============================================================================
