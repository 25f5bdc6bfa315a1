------------------------------- MODULE WaitAny -------------------------------
(***************************************************************************)
(* wait_any: one thread waits on several readers at once.  It loads every  *)
(* reader's word, looks at each in order, and sleeps with one futex_waitv  *)
(* over the words; for the cap only if every reader is slept on, else for  *)
(* the backoff.  The writers, a reader's own state and the steps of one    *)
(* reader are those of Wake; here the thread takes them in order, for the  *)
(* readers of Group, of one channel or of several.  A reader that is not   *)
(* slept on is at "nap" while the thread sleeps.                           *)
(***************************************************************************)
EXTENDS Wake, Sequences

CONSTANT Group  \* the slice of readers

\* The group is all of Readers.
ASSUME GroupAssumption ==
  /\ Group \in Seq(Readers) /\ Len(Group) > 0
  /\ \A r \in Readers : \E i \in DOMAIN Group : Group[i] = r

VARIABLES
  nap,     \* how long the thread sleeps: "cap" (WAKE_SLEEP_CAP) or "backoff"
  noWaitv  \* NO_WAITV: the kernel has refused futex_waitv

anyVars == <<vars, nap, noWaitv>>

AnyInit == Init /\ nap = "backoff" /\ noWaitv = FALSE

All(pc) == \A r \in Readers : rpc[r] = pc
Sleeping == \E r \in Readers : rpc[r] \in {"asleep", "nap"}

\* The thread's turn at reader Group[i]: those before it are at `done`, those after at `todo`.
Turn(i, done, todo) ==
  /\ \A j \in 1..(i - 1) : rpc[Group[j]] = done
  /\ \A j \in (i + 1)..Len(Group) : rpc[Group[j]] = todo

\* Every reader is put at pc, and nothing else of Wake changes.
AllTo(pc) ==
  /\ rpc' = [r \in Readers |-> pc]
  /\ UNCHANGED <<fileVars, writerVars, rseg, rpos, rseq, seen, untrusted, miss, history>>

-----------------------------------------------------------------------------

WaitAny ==
  /\ \A r \in Readers : rpc[r] \in {"out", "ready"}
  /\ AllTo("flag")
  /\ UNCHANGED <<nap, noWaitv>>

\* file_sequence and wake_word_if_waking of each reader, in order.
LoadNext ==
  /\ \E i \in DOMAIN Group :
       Turn(i, "poll", "flag") /\ (LoadFlag(Group[i]) \/ LoadWord(Group[i]))
  /\ UNCHANGED <<nap, noWaitv>>

\* poll_for_user_message of each reader, in order, after the load and after a capped sleep.
PollTurn(i) == Turn(i, "check", "poll") \/ Turn(i, "flag", "repoll")

\* The first with a record is returned; after a capped sleep it counts against its flag.  (The
\* history `slow` is for one reader waiting alone.)
FoundNext ==
  /\ \E i \in DOMAIN Group :
       LET r == Group[i]
       IN /\ PollTurn(i)
          /\ rpc[r] \in {"poll", "repoll"}
          /\ HasRecord(r)
          /\ rpc' = [x \in Readers |-> IF x # r THEN "out"
                                       ELSE IF rpc[r] = "poll" THEN "ready" ELSE "distrust"]
  /\ UNCHANGED <<fileVars, writerVars, rseg, rpos, rseq, seen, untrusted, miss, history, nap,
                 noWaitv>>

\* A reader with none follows a Roll, or leaves the turn to the next.
PollNext ==
  /\ \E i \in DOMAIN Group : PollTurn(i) /\ (PollRoll(Group[i]) \/ PollEmpty(Group[i]))
  /\ UNCHANGED <<nap, noWaitv>>

DeadlinePassedAny ==
  /\ All("check") /\ AllTo("out")
  /\ UNCHANGED <<nap, noWaitv>>

\* words: the readers slept on.  One that followed a Roll since the load is left out.
Words == {r \in Readers : seen[r] # NoWord /\ rseg[r] = rseq[r]}

\* More words than one call takes (WAITV_MAX) is one more way to the backoff, left out.
CanFutex == Words # {} /\ ~noWaitv

\* all_wake decides how long.
Nap == IF Words = Readers /\ CanFutex THEN "cap" ELSE "backoff"

\* Mutant: every word is compared, and only the first reader's is queued on.
FutexWaitvFirst ==
  /\ All("check") /\ CanFutex
  /\ nap' = Nap
  /\ rpc' = [r \in Readers |->
               IF \E x \in Words : word[rseg[x]] # seen[x] THEN "flag"
               ELSE IF r = Group[1] /\ r \in Words THEN "asleep" ELSE "nap"]
  /\ UNCHANGED <<fileVars, writerVars, rseg, rpos, rseq, seen, untrusted, miss, history, noWaitv>>

\* futex_waitv: the kernel compares every word and queues the caller on all of them, or on none.
FutexWaitv ==
  /\ All("check") /\ CanFutex
  /\ nap' = Nap
  /\ rpc' = [r \in Readers |->
               IF \E x \in Words : word[rseg[x]] # seen[x] THEN "flag"
               ELSE IF r \in Words THEN "asleep" ELSE "nap"]
  /\ UNCHANGED <<fileVars, writerVars, rseg, rpos, rseq, seen, untrusted, miss, history, noWaitv>>

\* Without the call, or when the kernel refuses it just now: thread::sleep of the backoff.
SleepBackoff ==
  /\ All("check") /\ AllTo("nap")
  /\ nap' = "backoff"
  /\ noWaitv' \in (IF CanFutex THEN {TRUE} ELSE {noWaitv})

\* A wake on one word ends the sleep on all of them.
WokenAny ==
  /\ Sleeping /\ \E r \in Readers : rpc[r] = "flag"
  /\ AllTo("flag")
  /\ UNCHANGED <<nap, noWaitv>>

\* A signal, or a deadline before the cap.
InterruptedAny ==
  /\ All("asleep") /\ AllTo("flag")
  /\ UNCHANGED <<nap, noWaitv>>

\* Mutant: a group with a waking reader has no timeout.
SleepAnyRunsOutNever ==
  /\ All("nap") /\ AllTo("flag")
  /\ UNCHANGED <<nap, noWaitv>>

\* The time is up: after the cap each reader is looked at once more, after the backoff the
\* round begins again.
SleepAnyRunsOut ==
  /\ \A r \in Readers : rpc[r] \in {"asleep", "nap"}
  /\ AllTo(IF nap = "cap" THEN "repoll" ELSE "flag")
  /\ UNCHANGED <<nap, noWaitv>>

\* distrust_flag_if_unwoken for the reader returned, and the caller's try_read on it.
Returned ==
  /\ \E r \in Readers : Distrust(r) \/ TryRead(r)
  /\ UNCHANGED <<nap, noWaitv>>

-----------------------------------------------------------------------------

WriterNext ==
  /\ \E c \in Channels :
       OpenCalled(c) \/ Commit(c) \/ RollPublish(c) \/ WriterStep(c) \/ Crash(c)
  /\ UNCHANGED <<nap, noWaitv>>

WaitAnyStep ==
  \/ LoadNext \/ FoundNext \/ PollNext \/ FutexWaitv \/ SleepBackoff
  \/ WokenAny \/ SleepAnyRunsOut \/ Returned

AnyNext == WriterNext \/ WaitAny \/ WaitAnyStep \/ DeadlinePassedAny \/ InterruptedAny

AnySpec == AnyInit /\ [][AnyNext]_anyVars

\* The thread goes on and its sleeps end in time; the writers owe nothing.
AnyFairSpec == AnySpec /\ WF_anyVars(WaitAnyStep)

-----------------------------------------------------------------------------
(* Properties *)

\* The long sleep is safe for the whole group: while the thread sleeps for the cap, a reader
\* with a record or a Roll at its cursor, slept on or not, has a wake still to come, unless its
\* writer does not wake or died first.
GroupNoLostWake ==
  \A r \in Readers : Sleeping /\ nap = "cap" /\ AtCursor(r) =>
    \/ \E x \in Readers : rpc[x] = "flag"
    \/ lost[rseg[r]] \/ BumpDue(rseg[r]) \/ WakeDue(rseg[r])

\* wait_any returns once some reader of the group has a record, whatever the flags say, whoever
\* writes, and whether or not the kernel has futex_waitv.
GroupNeverHangs ==
  (\E r \in Readers : rpc[r] \in (WaitingPc \cup {"nap"}) /\ HasRecord(r))
    ~> \A r \in Readers : rpc[r] \in {"out", "ready"}
=============================================================================
