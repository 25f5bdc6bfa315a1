---------------------------- MODULE PrefaultRoll ----------------------------
(* The writer of a rolling channel and its helper thread (prefault.rs): the   *)
(* helper installs the next segment ahead of the roll and deletes the ones    *)
(* retention drops, while the writer rolls and prunes.  The two meet in       *)
(* struct Shared: atomics, and mutexes the writer never waits for; and in     *)
(* the directory.                                                             *)
(*                                                                            *)
(* A segment is who made it ("w" the writer, "h" the helper), whose successor *)
(* it was made to be, and whether it is published.  Each of the two installs  *)
(* a segment of one sequence at most once, so its maker stands for the        *)
(* instance ID.  Regions, mappings and file lengths are in PrefaultGrow.      *)
EXTENDS Integers, Sequences, SequencesExt, FiniteSets

CONSTANTS
  Keep,        \* keep_files
  DoomedQueue, \* DOOMED_QUEUE
  MaxSeq       \* bound: the last segment the writer may roll to

ASSUME PrefaultAssumption ==
  Keep \in Nat \ {0} /\ DoomedQueue \in Nat \ {0} /\ MaxSeq \in Nat

VARIABLES
  dir,     \* what each segment's final name holds
  w,       \* the writer: what it writes (seq, by), the successor it has in hand (new, worker),
           \* the retention still to do in this roll (pruning) and put off (deferred)
  shared,  \* struct Shared
  h,       \* the helper: the segment it saw (seq), the one whose header it mapped, the parent
           \* it read, how the installation went (res), what it took to delete
  removed  \* history: the names retention has removed

vars == <<dir, w, shared, h, removed>>

Seqs == 0..MaxSeq
Makers == {"w", "h"}
None == -1
NoFile == [by |-> "none"]
Nothing == [seq |-> None]
Files == [by: Makers, parent: Makers, pub: BOOLEAN]

OnDisk(s) == dir[s] # NoFile
Published(s) == OnDisk(s) /\ dir[s].pub

\* Prefaulter::start, on a channel whose first segment is being written.
Init ==
  /\ dir = [s \in Seqs |-> IF s = 0 THEN [by |-> "w", parent |-> "w", pub |-> TRUE] ELSE NoFile]
  /\ w = [pc |-> "idle", seq |-> 0, by |-> "w", new |-> "w", worker |-> FALSE,
          pruning |-> <<>>, deferred |-> <<>>]
  /\ shared = [claimed |-> 0, ready |-> Nothing, readySeq |-> None, inFlight |-> None,
               refused |-> None, doomed |-> <<>>, segment |-> [seq |-> 0, by |-> "w"],
               handoff |-> Nothing, curSeq |-> 0, stop |-> FALSE, stopped |-> FALSE]
  /\ h = [pc |-> "top", seq |-> 0, header |-> None, parent |-> "w", res |-> "none",
          deleting |-> <<>>]
  /\ removed = {}

-----------------------------------------------------------------------------
(* Locks and deletion *)

\* The helper holds next_segment, or segment: a try_lock of the writer's may miss it.
NextSegmentBusy == h.pc \in {"check", "handing", "handed"}
SegmentBusy == h.pc \in {"header", "parent"}

\* delete: the names go, and those already gone are ignored.
Delete(names) ==
  /\ dir' = [s \in Seqs |-> IF s \in names THEN NoFile ELSE dir[s]]
  /\ removed' = removed \cup names

\* release_if_stopped, on sh: once the thread has stopped, the writer deletes what it queued.
ReleaseIfStopped(sh) ==
  IF sh.stopped
  THEN Delete(ToSet(sh.doomed)) /\ shared' = [sh EXCEPT !.doomed = <<>>]
  ELSE shared' = sh /\ UNCHANGED <<dir, removed>>

\* hand_off: the helper gets the segment the writer rolled to, unless segment is locked.
HandedOff(sh) ==
  IF sh.handoff = Nothing THEN {sh}
  ELSE {[sh EXCEPT !.segment = sh.handoff, !.handoff = Nothing]}
       \cup (IF SegmentBusy THEN {sh} ELSE {})

-----------------------------------------------------------------------------
(* The writer: roll_file *)

next == w.seq + 1

Claim ==
  /\ w.pc = "idle" /\ w.seq < MaxSeq
  /\ w' = [w EXCEPT !.pc = "take"]
  /\ shared' = [shared EXCEPT !.claimed = next]
  /\ UNCHANGED <<dir, h, removed>>

\* try_take_segment: one load of ready_sequence says whether to try the lock ...
LookForReady ==
  /\ w.pc = "take"
  /\ w' = [w EXCEPT !.pc = IF shared.readySeq = next THEN "lock" ELSE "prepare"]
  /\ UNCHANGED <<dir, shared, h, removed>>

\* ... which is tried a bounded number of times ...
MissReady ==
  /\ w.pc = "lock" /\ NextSegmentBusy
  /\ w' = [w EXCEPT !.pc = "prepare"]
  /\ UNCHANGED <<dir, shared, h, removed>>

\* ... and the segment there is used if it is a successor of the one being written.
TakeReady ==
  LET found == shared.ready.seq = next
      fits == found /\ shared.ready.parent = w.by
  IN /\ w.pc = "lock" /\ ~NextSegmentBusy
     /\ w' = IF fits THEN [w EXCEPT !.pc = "publish", !.new = shared.ready.by, !.worker = TRUE]
                     ELSE [w EXCEPT !.pc = "prepare"]
     /\ shared' = IF found THEN [shared EXCEPT !.ready = Nothing, !.readySeq = None] ELSE shared
     /\ UNCHANGED <<dir, h, removed>>

\* prepare_successor: a file already there is adopted; if none is, make one under a private name.
PrepareSuccessor ==
  /\ w.pc = "prepare"
  /\ w' = [w EXCEPT !.pc = IF OnDisk(next) THEN "adopt" ELSE "install"]
  /\ UNCHANGED <<dir, shared, h, removed>>

\* No space, or no permission: the roll fails, and the claim stands.
PrepareFails ==
  /\ w.pc = "install"
  /\ w' = [w EXCEPT !.pc = "idle"]
  /\ UNCHANGED <<dir, shared, h, removed>>

\* install_no_replace, which the helper may have won since.
InstallSuccessor ==
  /\ w.pc = "install"
  /\ IF OnDisk(next)
     THEN w' = [w EXCEPT !.pc = "adopt"] /\ UNCHANGED dir
     ELSE /\ w' = [w EXCEPT !.pc = "publish", !.new = "w", !.worker = FALSE]
          /\ dir' = [dir EXCEPT ![next] = [by |-> "w", parent |-> w.by, pub |-> FALSE]]
  /\ UNCHANGED <<shared, h, removed>>

\* adopt_successor: only an unpublished file that names this segment as its parent.
Adoptable == OnDisk(next) /\ ~dir[next].pub /\ dir[next].parent = w.by

AdoptSuccessor ==
  /\ w.pc = "adopt"
  /\ w' = IF Adoptable
          THEN [w EXCEPT !.pc = "publish", !.new = dir[next].by, !.worker = FALSE]
          ELSE [w EXCEPT !.pc = "idle"]
  /\ UNCHANGED <<dir, shared, h, removed>>

\* rolled: the new segment waits in handoff, if there is a handle on it for the helper.
Rolled(handle) == [shared EXCEPT !.handoff =
  IF handle THEN [seq |-> next, by |-> w.new] ELSE @]

\* Publish and commit (SegmentRoll has the steps of this), switch, and hand the segment over.
\* A handle comes with a taken segment; for any other it is cloned, which may fail.
Switch ==
  /\ w.pc = "publish"
  /\ dir' = IF OnDisk(next) /\ dir[next].by = w.new THEN [dir EXCEPT ![next].pub = TRUE] ELSE dir
  /\ w' = [w EXCEPT !.pc = "follow", !.seq = next, !.by = w.new]
  /\ \E handle \in {w.worker, TRUE} :
       shared' \in IF handle THEN HandedOff(Rolled(TRUE)) ELSE {Rolled(FALSE)}
  /\ UNCHANGED <<h, removed>>

\* current_sequence follows, then what a stopped helper left, then the retention of this roll:
\* what was put off, and the segment that falls out of the window.
Follow ==
  /\ w.pc = "follow"
  /\ w' = [w EXCEPT !.pc = "prune", !.deferred = <<>>,
                    !.pruning = w.deferred \o (IF w.seq >= Keep THEN <<w.seq - Keep>> ELSE <<>>)]
  /\ ReleaseIfStopped([shared EXCEPT !.curSeq = w.seq])
  /\ UNCHANGED h

\* prune: what the helper may still install is put off ...
PruneCheck ==
  LET s == Head(w.pruning)
  IN /\ w.pc = "prune" /\ w.pruning # <<>>
     /\ w' = IF ~shared.stopped /\ shared.inFlight = s
             THEN [w EXCEPT !.pruning = Tail(@), !.deferred = Append(@, s)]
             ELSE [w EXCEPT !.pc = "unlink"]
     /\ UNCHANGED <<dir, shared, h, removed>>

PruneDone ==
  /\ w.pc = "prune" /\ w.pruning = <<>>
  /\ w' = [w EXCEPT !.pc = "idle"]
  /\ UNCHANGED <<dir, shared, h, removed>>

\* Mutant: the queue is not bounded.
UnlinkUnbounded ==
  LET s == Head(w.pruning)
  IN /\ w.pc = "unlink"
     /\ w' = [w EXCEPT !.pc = "release", !.pruning = Tail(@)]
     /\ shared' = [shared EXCEPT !.doomed = Append(@, s)]
     /\ UNCHANGED <<dir, h, removed>>

\* ... and unlink hands the rest to the helper, or deletes here when its queue is full.
Unlink ==
  LET s == Head(w.pruning)
  IN /\ w.pc = "unlink"
     /\ w' = [w EXCEPT !.pc = "release", !.pruning = Tail(@)]
     /\ IF Len(shared.doomed) >= DoomedQueue
        THEN Delete({s}) /\ UNCHANGED shared
        ELSE shared' = [shared EXCEPT !.doomed = Append(@, s)] /\ UNCHANGED <<dir, removed>>
     /\ UNCHANGED h

Release ==
  /\ w.pc = "release"
  /\ w' = [w EXCEPT !.pc = "prune"]
  /\ ReleaseIfStopped(shared)
  /\ UNCHANGED h

\* The writer moves to another region of its segment: moved tries the hand-over again.
Moved ==
  /\ w.pc = "idle"
  /\ shared.handoff # Nothing \/ (shared.stopped /\ shared.doomed # <<>>)
  /\ \E sh \in HandedOff(shared) : ReleaseIfStopped(sh)
  /\ UNCHANGED <<w, h>>

\* Drop: stop the helper and wait for it ...
Close ==
  /\ w.pc = "idle"
  /\ w' = [w EXCEPT !.pc = "join"]
  /\ shared' = [shared EXCEPT !.stop = TRUE]
  /\ UNCHANGED <<dir, h, removed>>

\* Mutant: what retention put off is forgotten.
JoinedForgetsDeferred ==
  LET unused == IF shared.ready # Nothing /\ OnDisk(shared.ready.seq) /\ ~dir[shared.ready.seq].pub
                THEN {shared.ready.seq} ELSE {}
      dropped == ToSet(shared.doomed)
  IN /\ w.pc = "join" /\ h.pc = "exited"
     /\ w' = [w EXCEPT !.pc = "closed", !.deferred = <<>>]
     /\ dir' = [s \in Seqs |-> IF s \in unused \cup dropped THEN NoFile ELSE dir[s]]
     /\ removed' = removed \cup dropped
     /\ shared' = [shared EXCEPT !.ready = Nothing, !.doomed = <<>>]
     /\ UNCHANGED h

\* ... then remove a successor nobody published, what was queued, and what was put off.
Joined ==
  LET unused == IF shared.ready # Nothing /\ OnDisk(shared.ready.seq) /\ ~dir[shared.ready.seq].pub
                THEN {shared.ready.seq} ELSE {}
      dropped == ToSet(shared.doomed) \cup ToSet(w.deferred)
  IN /\ w.pc = "join" /\ h.pc = "exited"
     /\ w' = [w EXCEPT !.pc = "closed", !.deferred = <<>>]
     /\ dir' = [s \in Seqs |-> IF s \in unused \cup dropped THEN NoFile ELSE dir[s]]
     /\ removed' = removed \cup dropped
     /\ shared' = [shared EXCEPT !.ready = Nothing, !.doomed = <<>>]
     /\ UNCHANGED h

-----------------------------------------------------------------------------
(* The helper: run *)

\* The segment to install is the one after the segment the helper saw the writer in.
ahead == h.seq + 1

\* Mutant: the queue of segments to delete is not taken.
TopIdle ==
  /\ h.pc = "top"
  /\ h' = [h EXCEPT !.pc = "delete"]
  /\ UNCHANGED <<dir, w, shared, removed>>

\* The queue of segments to delete is swapped out ...
Top ==
  /\ h.pc = "top"
  /\ h' = [h EXCEPT !.pc = "delete", !.deleting = shared.doomed]
  /\ shared' = [shared EXCEPT !.doomed = h.deleting]
  /\ UNCHANGED <<dir, w, removed>>

\* ... and emptied, one name at a time.
DeleteOne ==
  /\ h.pc = "delete" /\ h.deleting # <<>>
  /\ h' = [h EXCEPT !.deleting = Tail(@)]
  /\ Delete({Head(h.deleting)})
  /\ UNCHANGED <<w, shared>>

\* Mutant: stop is not looked at once the writer has been seen.
LookIgnoringStop ==
  /\ h.pc = "delete" /\ h.deleting = <<>>
  /\ h' = [h EXCEPT !.pc = "header", !.seq = shared.curSeq]
  /\ UNCHANGED <<dir, w, shared, removed>>

\* Asked to stop, or on to where the writer is.
Look ==
  /\ h.pc = "delete" /\ h.deleting = <<>>
  /\ h' = IF shared.stop THEN [h EXCEPT !.pc = "exited"]
                         ELSE [h EXCEPT !.pc = "header", !.seq = shared.curSeq]
  /\ UNCHANGED <<dir, w, shared, removed>>

\* map_header, of a segment that has been handed over; until it has, there is nothing to follow.
MapHeader ==
  /\ h.pc = "header"
  /\ h' = IF h.seq \in {h.header, shared.segment.seq}
          THEN [h EXCEPT !.pc = "near", !.header = h.seq]
          ELSE [h EXCEPT !.pc = "top", !.header = None]
  /\ UNCHANGED <<dir, w, shared, removed>>

\* mmap of the header, or madvise of the writer's pages, returns an error.
MapFails ==
  /\ \/ h.pc = "header" /\ h.seq # h.header /\ shared.segment.seq = h.seq
     \/ h.pc = "near"
  /\ h' = [h EXCEPT !.pc = "failing"]
  /\ UNCHANGED <<dir, w, shared, removed>>

FarFromRoll ==
  /\ h.pc = "near"
  /\ h' = [h EXCEPT !.pc = "top"]
  /\ UNCHANGED <<dir, w, shared, removed>>

\* Within half a region of the roll: prepare_segment, unless it is ready already.
NearRoll ==
  /\ h.pc = "near" /\ ahead <= MaxSeq
  /\ h' = [h EXCEPT !.pc = IF shared.readySeq = ahead THEN "top" ELSE "check"]
  /\ UNCHANGED <<dir, w, shared, removed>>

\* Under next_segment: drop one the writer has passed, leave one refused or waiting.
CheckReady ==
  LET passed == shared.ready # Nothing /\ shared.ready.seq <= shared.claimed
      sh == IF passed THEN [shared EXCEPT !.ready = Nothing, !.readySeq = None] ELSE shared
  IN /\ h.pc = "check"
     /\ shared' = sh
     /\ h' = [h EXCEPT !.pc = IF ahead \in {sh.refused, sh.ready.seq} THEN "top" ELSE "parent"]
     /\ UNCHANGED <<dir, w, removed>>

\* Under segment: the parent to name, if the segment handed over is still the one before.
ReadParent ==
  /\ h.pc = "parent"
  /\ h' = IF shared.segment.seq + 1 = ahead
          THEN [h EXCEPT !.pc = "announce", !.parent = shared.segment.by]
          ELSE [h EXCEPT !.pc = "top"]
  /\ UNCHANGED <<dir, w, shared, removed>>

\* Mutant: the installation is not announced.
AnnounceOmitted ==
  /\ h.pc = "announce"
  /\ h' = [h EXCEPT !.pc = "claimed"]
  /\ UNCHANGED <<dir, w, shared, removed>>

\* Announce, then check: the writer claims, then checks before retention unlinks.
Announce ==
  /\ h.pc = "announce"
  /\ h' = [h EXCEPT !.pc = "claimed"]
  /\ shared' = [shared EXCEPT !.inFlight = ahead]
  /\ UNCHANGED <<dir, w, removed>>

CheckClaimed ==
  /\ h.pc = "claimed"
  /\ h' = IF shared.claimed >= ahead THEN [h EXCEPT !.pc = "retract", !.res = "none"]
                                     ELSE [h EXCEPT !.pc = "install"]
  /\ UNCHANGED <<dir, w, shared, removed>>

\* install_ahead: a segment that cannot be made or installed is refused, for good.
Refuse ==
  /\ h.pc = "install"
  /\ h' = [h EXCEPT !.pc = "retract", !.res = "none"]
  /\ shared' = [shared EXCEPT !.refused = ahead]
  /\ UNCHANGED <<dir, w, removed>>

\* Mutant: the installation replaces a file that is there.
InstallReplaces ==
  /\ h.pc = "install"
  /\ \E res \in {"ok", "err"} : h' = [h EXCEPT !.pc = "retract", !.res = res]
  /\ dir' = [dir EXCEPT ![ahead] = [by |-> "h", parent |-> h.parent, pub |-> FALSE]]
  /\ UNCHANGED <<w, shared, removed>>

\* It is installed unless the writer came first; populating it or cloning its handle may fail.
Install ==
  /\ h.pc = "install"
  /\ IF OnDisk(ahead)
     THEN h' = [h EXCEPT !.pc = "retract", !.res = "none"] /\ UNCHANGED dir
     ELSE /\ \E res \in {"ok", "err"} : h' = [h EXCEPT !.pc = "retract", !.res = res]
          /\ dir' = [dir EXCEPT ![ahead] = [by |-> "h", parent |-> h.parent, pub |-> FALSE]]
  /\ UNCHANGED <<w, shared, removed>>

Retract ==
  /\ h.pc = "retract"
  /\ h' = [h EXCEPT !.pc = CASE h.res = "none" -> "top" [] h.res = "ok" -> "hand"
                             [] OTHER -> "failing"]
  /\ shared' = [shared EXCEPT !.inFlight = None]
  /\ UNCHANGED <<dir, w, removed>>

\* Under next_segment: hand the successor over, unless the writer has claimed it meanwhile.
CheckPassed ==
  /\ h.pc = "hand"
  /\ h' = [h EXCEPT !.pc = IF shared.claimed < ahead THEN "handing" ELSE "top"]
  /\ UNCHANGED <<dir, w, shared, removed>>

Hand ==
  /\ h.pc = "handing"
  /\ h' = [h EXCEPT !.pc = "handed"]
  /\ shared' = [shared EXCEPT !.ready = [seq |-> ahead, by |-> "h", parent |-> h.parent],
                              !.readySeq = ahead]
  /\ UNCHANGED <<dir, w, removed>>

Handed ==
  /\ h.pc = "handed"
  /\ h' = [h EXCEPT !.pc = "top"]
  /\ UNCHANGED <<dir, w, shared, removed>>

\* Failure::guard records why the thread ended early, and the writer sees it.
Fail ==
  /\ h.pc = "failing"
  /\ h' = [h EXCEPT !.pc = "exited"]
  /\ shared' = [shared EXCEPT !.stopped = TRUE]
  /\ UNCHANGED <<dir, w, removed>>

-----------------------------------------------------------------------------

\* What a call to roll_file, or the writer's Drop, does once it has begun.
WriterStep ==
  \/ LookForReady \/ MissReady \/ TakeReady
  \/ PrepareSuccessor \/ PrepareFails \/ InstallSuccessor \/ AdoptSuccessor
  \/ Switch \/ Follow \/ PruneCheck \/ PruneDone \/ Unlink \/ Release
  \/ Joined

HelperStep ==
  \/ Top \/ DeleteOne \/ Look \/ MapHeader \/ MapFails \/ FarFromRoll \/ NearRoll
  \/ CheckReady \/ ReadParent \/ Announce \/ CheckClaimed \/ Refuse \/ Install \/ Retract
  \/ CheckPassed \/ Hand \/ Handed \/ Fail

Next == Claim \/ Moved \/ Close \/ WriterStep \/ HelperStep

Spec == Init /\ [][Next]_vars

\* Both threads run; the application calls the writer, or not.
FairSpec == Spec /\ WF_vars(WriterStep) /\ WF_vars(HelperStep)

-----------------------------------------------------------------------------
(* Properties *)

\* A late installation never brings back a segment that retention has removed.
NoResurrection == \A s \in removed : ~OnDisk(s)

\* Losing the race to the helper is harmless: the file the writer writes is the one its name
\* holds, published, never one replaced or deleted under it; and a successor found installed is
\* one this writer can adopt, so that the race never makes a roll fail.
WritesWhatIsNamed ==
  /\ Published(w.seq) /\ dir[w.seq].by = w.by
  /\ w.pc = "adopt" => Adoptable

\* Once the writer has been dropped, retention has left exactly the files it is to keep, and at
\* most a prepared successor of the newest beside them.
ClosedExact ==
  w.pc = "closed" =>
    \A s \in Seqs : OnDisk(s) <=> \/ s \in (w.seq - Keep + 1)..w.seq
                                  \/ s = next /\ OnDisk(s) /\ ~dir[s].pub

\* What DOOMED_QUEUE is documented to give: "past it, retention deletes on the writer, so
\* `keep_files` is exceeded by at most this many" (prefault.rs, the constant's comment).  The code
\* does not: the helper takes the whole queue before it deletes (run doomed_queue_bound).
ExceedsByQueue ==
  w.pc = "idle" => Cardinality({s \in Seqs : Published(s)}) <= Keep + DoomedQueue

\* What the code does give: between rolls keep_files is exceeded by what the queue holds, as many
\* again that the helper has taken to delete, and one that is put off.
ExceedsByQueues ==
  w.pc = "idle" => Cardinality({s \in Seqs : Published(s)}) <= Keep + 2 * DoomedQueue + 1

\* A segment handed over for deletion is deleted, unless the helper has failed (then the next
\* hand-over deletes it).
DoomedDeleted ==
  \A s \in Seqs : s \in ToSet(shared.doomed) ~> (~OnDisk(s) \/ shared.stopped)

\* Dropping the writer ends, whatever the helper is doing.
CloseEnds == w.pc = "join" ~> w.pc = "closed"

=============================================================================
