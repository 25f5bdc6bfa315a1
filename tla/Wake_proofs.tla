---------------------------- MODULE Wake_proofs ----------------------------
(***************************************************************************)
(* No wake-up is lost, for any number of readers, channels, segments,      *)
(* records and crashes.  The argument is about the one value a reader      *)
(* loads before it looks: a word never goes back, so a reader about to     *)
(* sleep with a record at its cursor and the word unmoved has loaded it    *)
(* after the last bump and looked before the commit, and that commit's     *)
(* bump is still to come.  The last part takes this over for a thread      *)
(* that waits for a group of readers, of any channels, with wait_any, and  *)
(* loads all their words before it looks.                                  *)
(***************************************************************************)
EXTENDS WaitAny, TLAPS

-----------------------------------------------------------------------------
(* The channels and their writers *)

WriterPc ==
  {"down", "idle", "finish_commit", "finish_wp", "roll_commit", "roll_wp", "bump", "wake"}
RollPc == {"finish_commit", "finish_wp", "roll_commit", "roll_wp"}

FilesType ==
  /\ count \in [Segs -> Nat] /\ word \in [Segs -> Nat]
  /\ rolled \in [Segs -> BOOLEAN] /\ past \in [Segs -> BOOLEAN] /\ flag \in [Segs -> BOOLEAN]
  /\ lost \in [Segs -> BOOLEAN] /\ unbumped \in [Segs -> BOOLEAN]
  /\ top \in [Channels -> Segs] /\ wkind \in [Channels -> Kinds] /\ wtgt \in [Channels -> Segs]
  /\ wpc \in [Channels -> WriterPc]
  /\ crashes \in Nat

\* A channel's published segments are its own, and its writer wakes on one of them.
Owned ==
  \A c \in Channels : /\ c <= top[c] /\ \A s \in Segs : c <= s /\ s <= top[c] => ChannelOf[s] = c
                      /\ c <= wtgt[c] /\ wtgt[c] <= top[c]

\* A Roll is committed only after its successor is published.
RollsPublished ==
  /\ \A s \in Segs : rolled[s] => s < top[ChannelOf[s]]
  /\ \A c \in Channels : wpc[c] \in RollPc => wtgt[c] < top[c]

FilesOK == FilesType /\ Owned /\ RollsPublished

\* What a writer may do next.
WriterMoves(c) == OpenCalled(c) \/ Commit(c) \/ RollPublish(c) \/ WriterStep(c) \/ Crash(c)

\* Segments and channels are numbers, and a channel is one of its segments.
LEMMA ChannelFacts ==
  /\ \A s \in Segs : s \in Nat /\ s <= MaxSeg /\ ChannelOf[s] \in Channels
  /\ \A c \in Channels : c \in Segs /\ c \in Nat /\ ChannelOf[c] = c
  /\ MaxSeg \in Nat
BY BoundsAssumption, ChannelsAssumption DEF Segs, Channels

\* The segments a writer is about are of its channel.
LEMMA OwnFacts ==
  ASSUME FilesOK, NEW c \in Channels
  PROVE  /\ top[c] \in Segs /\ top[c] \in Nat /\ c <= top[c] /\ ChannelOf[top[c]] = c
         /\ wtgt[c] \in Segs /\ wtgt[c] \in Nat /\ c <= wtgt[c] /\ wtgt[c] <= top[c]
         /\ ChannelOf[wtgt[c]] = c
         /\ wpc[c] \in WriterPc /\ wkind[c] \in Kinds
         /\ top[c] # c => top[c] - 1 \in Segs /\ c <= top[c] - 1
<1>1. top[c] \in Segs /\ wtgt[c] \in Segs /\ wpc[c] \in WriterPc /\ wkind[c] \in Kinds
  BY DEF FilesOK, FilesType
<1>2. top[c] \in Nat /\ wtgt[c] \in Nat /\ c \in Nat /\ top[c] <= MaxSeg /\ MaxSeg \in Nat
  BY <1>1, ChannelFacts
<1>3. c <= top[c] /\ c <= wtgt[c] /\ wtgt[c] <= top[c]
  BY DEF FilesOK, Owned
<1>4. ChannelOf[top[c]] = c /\ ChannelOf[wtgt[c]] = c
  BY <1>1, <1>2, <1>3 DEF FilesOK, Owned
<1>5. top[c] # c => top[c] - 1 \in Segs /\ c <= top[c] - 1
  BY <1>2, <1>3 DEF Segs
<1> QED
  BY <1>1, <1>2, <1>3, <1>4, <1>5

\* A step of the writer of c leaves the other writers and their segments alone.
LEMMA OtherWriters ==
  ASSUME FilesOK, NEW c \in Channels, WriterMoves(c), NEW d \in Channels, d # c
  PROVE  wpc'[d] = wpc[d] /\ wkind'[d] = wkind[d] /\ wtgt'[d] = wtgt[d] /\ top'[d] = top[d]
<1> USE DEF FilesOK, FilesType, fileVars, WGoto
<1>1. CASE OpenCalled(c)
  BY <1>1 DEF OpenCalled, Open, OpenOld, OpenAs
<1>2. CASE Commit(c) \/ RollPublish(c) \/ Crash(c)
  BY <1>2 DEF Commit, RollPublish, Crash
<1>3. CASE WriterStep(c)
  BY <1>3 DEF WriterStep, FinishCommit, FinishWp, RollCommit, RollWp, Bump, WakeAll
<1> QED
  BY <1>1, <1>2, <1>3 DEF WriterMoves

\* A step that publishes no segment and commits no Roll but the one its writer is about.
LEMMA FilesStep ==
  ASSUME FilesOK, FilesType', NEW c \in Channels, UNCHANGED top,
         c <= wtgt'[c], wtgt'[c] <= top[c],
         \A d \in Channels : d # c => wpc'[d] = wpc[d] /\ wtgt'[d] = wtgt[d],
         wpc'[c] \in RollPc => wtgt'[c] < top[c],
         rolled' = rolled \/ (wtgt[c] < top[c] /\ rolled' = [rolled EXCEPT ![wtgt[c]] = TRUE])
  PROVE  FilesOK'
<1>1. Owned'
  BY DEF FilesOK, Owned
<1>2. \A s \in Segs : rolled'[s] => s < top'[ChannelOf[s]]
  BY OwnFacts DEF FilesOK, FilesType, RollsPublished
<1>3. \A d \in Channels : wpc'[d] \in RollPc => wtgt'[d] < top'[d]
  BY DEF FilesOK, RollsPublished
<1> QED
  BY <1>1, <1>2, <1>3 DEF FilesOK, RollsPublished

\* Every step of a writer keeps the files in order, and only adds segments.
LEMMA WriterFiles ==
  ASSUME FilesOK, NEW c \in Channels, WriterMoves(c)
  PROVE  FilesOK' /\ \A d \in Channels : top[d] <= top'[d]
<1>0. /\ top[c] \in Segs /\ top[c] \in Nat /\ c <= top[c]
      /\ wtgt[c] \in Segs /\ wtgt[c] \in Nat /\ c <= wtgt[c] /\ wtgt[c] <= top[c]
      /\ wpc[c] \in WriterPc /\ wkind[c] \in Kinds
      /\ top[c] # c => top[c] - 1 \in Segs /\ c <= top[c] - 1
  BY OwnFacts
<1>1. \A d \in Channels : d # c =>
        wpc'[d] = wpc[d] /\ wkind'[d] = wkind[d] /\ wtgt'[d] = wtgt[d] /\ top'[d] = top[d]
  BY OtherWriters
<1>2. wpc[c] \in RollPc => wtgt[c] < top[c]
  BY DEF FilesOK, RollsPublished
<1>3. \A d \in Channels : top[d] \in Nat /\ top[d] <= top[d]
  BY OwnFacts
<1> USE DEF fileVars, history, WGoto, WriterPc, RollPc
<1>4. CASE OpenCalled(c)
  <2>1. PICK k \in Kinds : OpenAs(c, k) /\ flag' \in [Segs -> BOOLEAN]
    BY <1>0, <1>4 DEF OpenCalled, Open, OpenOld, Kinds, FilesOK, FilesType
  <2>2. AfterOpen(c) \in {"idle", "finish_wp", "finish_commit"}
        /\ (AfterOpen(c) # "idle" => top[c] # c)
    BY DEF AfterOpen
  <2>3. FilesType'
    BY <1>0, <2>1, <2>2 DEF OpenAs, FilesOK, FilesType
  <2>4. /\ wpc'[c] = AfterOpen(c) /\ UNCHANGED <<top, rolled>>
        /\ wtgt'[c] = IF AfterOpen(c) = "idle" THEN top[c] ELSE top[c] - 1
    BY <2>1 DEF OpenAs, FilesOK, FilesType
  <2>5. c <= wtgt'[c] /\ wtgt'[c] <= top[c] /\ (wpc'[c] \in RollPc => wtgt'[c] < top[c])
    BY <1>0, <2>2, <2>4
  <2> QED
    BY <1>1, <1>3, <2>3, <2>4, <2>5, FilesStep
<1>5. CASE Commit(c)
  <2>1. count' \in [Segs -> Nat]
    BY <1>0, <1>5 DEF Commit, FilesOK, FilesType
  <2>2. lost' \in [Segs -> BOOLEAN] /\ unbumped' \in [Segs -> BOOLEAN]
    BY <1>0, <1>5 DEF Commit, Unwoken, FilesOK, FilesType
  <2>3. FilesType'
    BY <1>0, <1>5, <2>1, <2>2 DEF Commit, FilesOK, FilesType
  <2>4. wpc'[c] \in {"bump", "idle"} /\ UNCHANGED <<top, rolled>> /\ wtgt'[c] = top[c]
    BY <1>5 DEF Commit, FilesOK, FilesType
  <2> QED
    BY <1>0, <1>1, <1>3, <2>3, <2>4, FilesStep
<1>6. CASE RollPublish(c)
  <2>1. FilesType'
    BY <1>0, <1>6 DEF RollPublish, FilesOK, FilesType
  <2>2. /\ top'[c] = top[c] + 1 /\ wtgt'[c] = top[c] /\ UNCHANGED rolled
        /\ ChannelOf[top[c] + 1] = c
    BY <1>6 DEF RollPublish, FilesOK, FilesType
  <2>3. Owned'
    <3>1. ASSUME NEW d \in Channels, d # c
          PROVE  /\ d <= top'[d] /\ \A s \in Segs : d <= s /\ s <= top'[d] => ChannelOf[s] = d
                 /\ d <= wtgt'[d] /\ wtgt'[d] <= top'[d]
      BY <1>1, <3>1 DEF FilesOK, Owned
    <3>2. /\ c <= top'[c] /\ c <= wtgt'[c] /\ wtgt'[c] <= top'[c]
      BY <1>0, <2>2, ChannelFacts
    <3>3. ASSUME NEW s \in Segs, c <= s, s <= top'[c] PROVE ChannelOf[s] = c
      <4>1. s = top[c] + 1 \/ s <= top[c]
        BY <1>0, <2>2, <3>3, ChannelFacts
      <4> QED
        BY <2>2, <3>3, <4>1 DEF FilesOK, Owned
    <3> QED
      BY <3>1, <3>2, <3>3 DEF Owned
  <2>4. \A d \in Channels : top[d] <= top'[d]
    BY <1>1, <1>3, <2>2
  <2>5. RollsPublished'
    <3>1. ASSUME NEW s \in Segs, rolled[s] PROVE s < top'[ChannelOf[s]]
      <4>1. s < top[ChannelOf[s]] /\ ChannelOf[s] \in Channels /\ s \in Nat
        BY <3>1, ChannelFacts DEF FilesOK, RollsPublished
      <4> QED
        BY <1>1, <1>3, <2>2, <4>1
    <3>2. \A d \in Channels : wpc'[d] \in RollPc => wtgt'[d] < top'[d]
      <4>1. wtgt'[c] < top'[c]
        BY <1>0, <2>2
      <4> QED
        BY <1>1, <4>1 DEF FilesOK, RollsPublished
    <3> QED
      BY <2>2, <3>1, <3>2 DEF RollsPublished
  <2> QED
    BY <2>1, <2>3, <2>4, <2>5 DEF FilesOK
<1>7. CASE FinishCommit(c) \/ RollCommit(c)
  <2>1. FilesType'
    BY <1>0, <1>7 DEF FinishCommit, RollCommit, Unwoken, FilesOK, FilesType
  <2>2. /\ wpc[c] \in RollPc /\ UNCHANGED <<top, wtgt>>
        /\ rolled' = [rolled EXCEPT ![wtgt[c]] = TRUE]
    BY <1>7 DEF FinishCommit, RollCommit
  <2> QED
    BY <1>0, <1>1, <1>2, <1>3, <2>1, <2>2, FilesStep
<1>8. CASE FinishWp(c) \/ RollWp(c)
  <2>1. FilesType'
    BY <1>0, <1>8 DEF FinishWp, RollWp, Unwoken, FilesOK, FilesType
  <2>2. wpc[c] \in RollPc /\ UNCHANGED <<top, wtgt, rolled>>
    BY <1>8 DEF FinishWp, RollWp
  <2> QED
    BY <1>0, <1>1, <1>2, <1>3, <2>1, <2>2, FilesStep
<1>9. CASE Bump(c)
  <2>1. word' \in [Segs -> Nat]
    BY <1>0, <1>9 DEF Bump, FilesOK, FilesType
  <2>2. FilesType'
    BY <1>0, <1>9, <2>1 DEF Bump, FilesOK, FilesType
  <2>3. wpc'[c] = "wake" /\ UNCHANGED <<top, wtgt, rolled>>
    BY <1>9 DEF Bump, FilesOK, FilesType
  <2> QED
    BY <1>0, <1>1, <1>3, <2>2, <2>3, FilesStep
<1>10. CASE WakeAll(c)
  <2>1. FilesType'
    BY <1>0, <1>10 DEF WakeAll, FilesOK, FilesType
  <2>2. wpc'[c] = "idle" /\ UNCHANGED <<top, wtgt, rolled>>
    BY <1>10 DEF WakeAll, FilesOK, FilesType
  <2> QED
    BY <1>0, <1>1, <1>3, <2>1, <2>2, FilesStep
<1>11. CASE Crash(c)
  <2>1. lost' \in [Segs -> BOOLEAN] /\ unbumped' \in [Segs -> BOOLEAN] /\ crashes' \in Nat
        /\ wpc' \in [Channels -> WriterPc]
    BY <1>11 DEF Crash, BumpDue, WakeDue, FilesOK, FilesType
  <2>2. FilesType'
    BY <1>11, <2>1 DEF Crash, FilesOK, FilesType
  <2>3. wpc'[c] = "down" /\ UNCHANGED <<top, wtgt, rolled>>
    BY <1>11 DEF Crash, FilesOK, FilesType
  <2> QED
    BY <1>0, <1>1, <1>3, <2>2, <2>3, FilesStep
<1> QED
  BY <1>4, <1>5, <1>6, <1>7, <1>8, <1>9, <1>10, <1>11 DEF WriterMoves, WriterStep

\* Every step of a writer up to the bump, and its crash, leaves a wake due, or known to be lost,
\* on a segment it commits to or where one was; on the segments of the other channels it changes
\* nothing.
LEMMA WriterLeaves ==
  ASSUME FilesOK, NEW c \in Channels,
         \/ OpenCalled(c) \/ Commit(c) \/ RollPublish(c) \/ Crash(c)
         \/ FinishCommit(c) \/ FinishWp(c) \/ RollCommit(c) \/ RollWp(c),
         NEW t \in Segs
  PROVE  \/ /\ count'[t] = count[t] /\ rolled'[t] = rolled[t] /\ lost'[t] = lost[t]
            /\ BumpDue(t)' <=> BumpDue(t)
            /\ WakeDue(t)' <=> WakeDue(t)
         \/ ~WakeDue(t)' /\ (lost'[t] \/ BumpDue(t)')
         \/ /\ ~WakeDue(t)' /\ count'[t] = count[t] /\ rolled'[t] = rolled[t]
            /\ ~(lost[t] \/ BumpDue(t) \/ WakeDue(t))
<1>0. /\ ChannelOf[t] \in Channels
      /\ top[c] \in Segs /\ ChannelOf[top[c]] = c /\ wtgt[c] \in Segs /\ ChannelOf[wtgt[c]] = c
  BY OwnFacts, ChannelFacts
<1>1. CASE ChannelOf[t] # c
  <2>1. /\ wpc'[ChannelOf[t]] = wpc[ChannelOf[t]] /\ wkind'[ChannelOf[t]] = wkind[ChannelOf[t]]
        /\ wtgt'[ChannelOf[t]] = wtgt[ChannelOf[t]]
    BY <1>0, <1>1, OtherWriters DEF WriterMoves, WriterStep
  <2>2. (BumpDue(t)' <=> BumpDue(t)) /\ (WakeDue(t)' <=> WakeDue(t))
    BY <2>1 DEF BumpDue, WakeDue
  <2>3. t # top[c] /\ t # wtgt[c]
    BY <1>0, <1>1
  <2>4. count'[t] = count[t] /\ rolled'[t] = rolled[t] /\ lost'[t] = lost[t]
    BY <1>1, <2>3 DEF OpenCalled, Open, OpenOld, OpenAs, Commit, RollPublish, Crash, FinishCommit,
                      FinishWp, RollCommit, RollWp, Unwoken, fileVars, history, FilesOK, FilesType
  <2> QED
    BY <2>2, <2>4
<1>2. CASE ChannelOf[t] = c
  <2> USE DEF FilesOK, FilesType, fileVars, history, BumpDue, WakeDue, WGoto
  <2>1. CASE OpenCalled(c)
    BY <1>2, <2>1 DEF OpenCalled, Open, OpenOld, OpenAs, AfterOpen
  <2>2. CASE Commit(c)
    BY <1>2, <2>2 DEF Commit, Unwoken
  <2>3. CASE RollPublish(c)
    BY <1>2, <2>3 DEF RollPublish
  <2>4. CASE Crash(c)
    BY <1>2, <2>4 DEF Crash
  <2>5. CASE FinishCommit(c)
    BY <1>2, <2>5 DEF FinishCommit, Unwoken
  <2>6. CASE FinishWp(c)
    BY <1>2, <2>6 DEF FinishWp, Unwoken
  <2>7. CASE RollCommit(c)
    BY <1>2, <2>7 DEF RollCommit, Unwoken
  <2>8. CASE RollWp(c)
    BY <1>2, <2>8 DEF RollWp
  <2> QED
    BY <2>1, <2>2, <2>3, <2>4, <2>5, <2>6, <2>7, <2>8
<1> QED
  BY <1>1, <1>2

\* No writer touches a reader but to wake it.
LEMMA WriterFrame ==
  ASSUME NEW c \in Channels, WriterMoves(c)
  PROVE  /\ UNCHANGED <<rseg, rpos, rseq, seen, untrusted, miss>>
         /\ WakeAll(c) \/ UNCHANGED rpc
         /\ Bump(c) \/ UNCHANGED <<word, slow>>
BY DEF WriterMoves, WriterStep, OpenCalled, Open, OpenOld, OpenAs, Commit, RollPublish, Crash,
       FinishCommit, FinishWp, RollCommit, RollWp, Bump, WakeAll, Unwoken, readerVars, fileVars,
       history

-----------------------------------------------------------------------------
(* What a reader knows before it sleeps *)

\* Every reader's cursor, and the word it holds, are in a published segment of its channel.
CursorsOK ==
  /\ rseg \in [Readers -> Segs] /\ rseq \in [Readers -> Segs]
  /\ \A r \in Readers : /\ Reads[r] <= rseg[r] /\ rseg[r] <= top[Reads[r]]
                        /\ Reads[r] <= rseq[r] /\ rseq[r] <= top[Reads[r]]
  /\ rpos \in [Readers -> Nat] /\ seen \in [Readers -> Nat \cup {NoWord}]

\* The word a reader holds is its segment's, and has not moved.
Unmoved(r) == rseg[r] = rseq[r] /\ seen[r] = word[rseg[r]]

\* The wake for what r has at its cursor is still to come, or known to be lost.
Due(r) == lost[rseg[r]] \/ BumpDue(rseg[r]) \/ WakeDue(rseg[r])

\* A word never goes back behind the value a reader holds.
SeenBehind(r) == seen[r] <= word[rseq[r]]

\* A reader loads, and sleeps on, only the word of the segment it reads.
OwnWord(r) == rpc[r] \in {"word", "asleep"} => rseg[r] = rseq[r]

\* A reader about to sleep past a record on a word that has not moved is before the bump.
CheckSound(r) ==
  rpc[r] = "check" /\ Unmoved(r) /\ AtCursor(r) =>
    ~WakeDue(rseg[r]) /\ (lost[rseg[r]] \/ BumpDue(rseg[r]))

Sound(r) == SeenBehind(r) /\ OwnWord(r) /\ CheckSound(r)
Looking == FilesOK /\ CursorsOK /\ \A r \in Readers : Sound(r)

\* A reader is on a segment of its channel, and what it relates are numbers.
LEMMA ReaderFacts ==
  ASSUME FilesOK, CursorsOK, NEW q \in Readers
  PROVE  /\ rseg[q] \in Segs /\ rseg[q] \in Nat /\ ChannelOf[rseg[q]] = Reads[q]
         /\ rseq[q] \in Segs /\ rseq[q] \in Nat /\ Reads[q] \in Channels
         /\ word[rseg[q]] \in Nat /\ word[rseq[q]] \in Nat /\ count[rseg[q]] \in Nat
         /\ rpos[q] \in Nat /\ seen[q] \in Nat \cup {NoWord} /\ seen[q] \in Int /\ NoWord = -1
<1>1. /\ rseg[q] \in Segs /\ rseq[q] \in Segs /\ rpos[q] \in Nat
      /\ seen[q] \in Nat \cup {NoWord} /\ Reads[q] \in Channels
  BY ChannelsAssumption DEF CursorsOK
<1>2. ChannelOf[rseg[q]] = Reads[q]
  BY <1>1 DEF CursorsOK, FilesOK, Owned
<1>3. word[rseg[q]] \in Nat /\ word[rseq[q]] \in Nat /\ count[rseg[q]] \in Nat
  BY <1>1 DEF FilesOK, FilesType
<1> QED
  BY <1>1, <1>2, <1>3, ChannelFacts DEF NoWord

\* What any step of a writer leaves of the wake due to a reader: only FUTEX_WAKE ends it.
LEMMA WriterDue ==
  ASSUME FilesOK, CursorsOK, NEW c \in Channels, WriterMoves(c), NEW q \in Readers,
         AtCursor(q) => Due(q), ~(WakeAll(c) /\ rseg[q] = wtgt[c])
  PROVE  AtCursor(q)' => Due(q)'
<1>1. PICK t \in Segs : t = rseg[q] /\ rseg'[q] = t /\ rpos'[q] = rpos[q]
  BY ReaderFacts, WriterFrame
<1>2. /\ AtCursor(q) <=> (count[t] > rpos[q] \/ rolled[t])
      /\ AtCursor(q)' <=> (count'[t] > rpos[q] \/ rolled'[t])
  BY <1>1 DEF AtCursor, HasRecord
<1>3. /\ Due(q) <=> (lost[t] \/ BumpDue(t) \/ WakeDue(t))
      /\ Due(q)' <=> (lost'[t] \/ BumpDue(t)' \/ WakeDue(t)')
  BY <1>1 DEF Due, BumpDue, WakeDue
<1>4. CASE \/ OpenCalled(c) \/ Commit(c) \/ RollPublish(c) \/ Crash(c)
           \/ FinishCommit(c) \/ FinishWp(c) \/ RollCommit(c) \/ RollWp(c)
  <2>1. \/ /\ count'[t] = count[t] /\ rolled'[t] = rolled[t] /\ lost'[t] = lost[t]
           /\ BumpDue(t)' <=> BumpDue(t)
           /\ WakeDue(t)' <=> WakeDue(t)
        \/ ~WakeDue(t)' /\ (lost'[t] \/ BumpDue(t)')
        \/ /\ ~WakeDue(t)' /\ count'[t] = count[t] /\ rolled'[t] = rolled[t]
           /\ ~(lost[t] \/ BumpDue(t) \/ WakeDue(t))
    BY <1>4, WriterLeaves
  <2> QED
    BY <1>2, <1>3, <2>1
<1>5. CASE Bump(c)
  <2>1. UNCHANGED <<count, rolled, lost, wtgt, wkind>> /\ wpc[c] = "bump"
        /\ wpc' = [wpc EXCEPT ![c] = "wake"]
    BY <1>5 DEF Bump, WGoto
  <2>2. BumpDue(t) \/ WakeDue(t) => BumpDue(t)' \/ WakeDue(t)'
    BY <2>1, ChannelFacts DEF BumpDue, WakeDue, FilesOK, FilesType
  <2> QED
    BY <1>2, <1>3, <2>1, <2>2
<1>6. CASE WakeAll(c)
  <2>1. UNCHANGED <<count, rolled, wtgt, wkind>> /\ wpc' = [wpc EXCEPT ![c] = "idle"]
        /\ wpc[c] = "wake" /\ lost' = [lost EXCEPT ![wtgt[c]] = FALSE]
    BY <1>6 DEF WakeAll, WGoto, fileVars
  <2>2. t # wtgt[c]
    BY <1>1, <1>6
  <2>3. /\ lost'[t] = lost[t]
        /\ BumpDue(t) \/ WakeDue(t) => BumpDue(t)' \/ WakeDue(t)'
    BY <2>1, <2>2, ChannelFacts DEF BumpDue, WakeDue, FilesOK, FilesType
  <2> QED
    BY <1>2, <1>3, <2>1, <2>3
<1> QED
  BY <1>4, <1>5, <1>6 DEF WriterMoves, WriterStep

\* Every step of a writer keeps what its readers know.
LEMMA WriterLooking ==
  ASSUME Looking, NEW c \in Channels, WriterMoves(c)
  PROVE  Looking'
<1>1. FilesOK' /\ \A d \in Channels : top[d] <= top'[d] /\ top[d] \in Nat /\ top'[d] \in Nat
  <2>1. FilesOK' /\ \A d \in Channels : top[d] <= top'[d]
    BY WriterFiles DEF Looking
  <2>2. \A d \in Channels : top[d] \in Segs /\ top'[d] \in Segs
    BY <2>1 DEF Looking, FilesOK, FilesType
  <2> QED
    BY <2>1, <2>2, ChannelFacts
<1>2. /\ UNCHANGED <<rseg, rpos, rseq, seen>>
      /\ WakeAll(c) \/ UNCHANGED rpc
      /\ Bump(c) \/ UNCHANGED word
  BY WriterFrame
<1>3. ASSUME NEW q \in Readers
      PROVE  /\ rseg[q] \in Segs /\ rseg[q] \in Nat /\ ChannelOf[rseg[q]] = Reads[q]
             /\ rseq[q] \in Segs /\ rseq[q] \in Nat /\ Reads[q] \in Channels
             /\ word[rseg[q]] \in Nat /\ word[rseq[q]] \in Nat /\ seen[q] \in Int
  BY ReaderFacts DEF Looking
<1>4. CursorsOK'
  <2>1. ASSUME NEW q \in Readers
        PROVE  rseg[q] <= top'[Reads[q]] /\ rseq[q] <= top'[Reads[q]]
    BY <1>1, <1>3 DEF Looking, CursorsOK
  <2> QED
    BY <1>2, <2>1 DEF Looking, CursorsOK
<1>5. ASSUME NEW q \in Readers PROVE Sound(q)'
  <2>1. Sound(q)
    BY DEF Looking
  <2>2. CASE \/ OpenCalled(c) \/ Commit(c) \/ RollPublish(c) \/ Crash(c)
             \/ FinishCommit(c) \/ FinishWp(c) \/ RollCommit(c) \/ RollWp(c)
    <3>1. UNCHANGED <<rpc, word>>
      BY <2>2 DEF OpenCalled, Open, OpenOld, OpenAs, Commit, RollPublish, Crash, FinishCommit,
                  FinishWp, RollCommit, RollWp, readerVars, fileVars
    <3>2. PICK t \in Segs : t = rseg[q] /\ rseg'[q] = t
      BY <1>2, <1>3
    <3>3. \/ /\ count'[t] = count[t] /\ rolled'[t] = rolled[t] /\ lost'[t] = lost[t]
             /\ BumpDue(t)' <=> BumpDue(t)
             /\ WakeDue(t)' <=> WakeDue(t)
          \/ ~WakeDue(t)' /\ (lost'[t] \/ BumpDue(t)')
          \/ /\ ~WakeDue(t)' /\ count'[t] = count[t] /\ rolled'[t] = rolled[t]
             /\ ~(lost[t] \/ BumpDue(t) \/ WakeDue(t))
      BY <2>2, WriterLeaves DEF Looking
    <3>4. /\ CheckSound(q) <=> (rpc[q] = "check" /\ Unmoved(q) /\ AtCursor(q) =>
                                  ~WakeDue(t) /\ (lost[t] \/ BumpDue(t)))
          /\ CheckSound(q)' <=> (rpc'[q] = "check" /\ Unmoved(q)' /\ AtCursor(q)' =>
                                   ~WakeDue(t)' /\ (lost'[t] \/ BumpDue(t)'))
      BY <3>2 DEF CheckSound, WakeDue, BumpDue
    <3>5. Unmoved(q)' <=> Unmoved(q)
      BY <1>2, <3>1 DEF Unmoved
    <3>6. count'[t] = count[t] /\ rolled'[t] = rolled[t] => (AtCursor(q)' <=> AtCursor(q))
      BY <1>2, <3>2 DEF AtCursor, HasRecord
    <3>7. CheckSound(q)'
      BY <2>1, <3>1, <3>3, <3>4, <3>5, <3>6 DEF Sound
    <3> QED
      BY <1>2, <2>1, <3>1, <3>7 DEF Sound, SeenBehind, OwnWord
  <2>3. CASE Bump(c)
    <3>1. /\ UNCHANGED <<count, rolled, rpc, wtgt, wkind, lost>> /\ wpc[c] = "bump"
          /\ wpc' = [wpc EXCEPT ![c] = "wake"]
          /\ word' = [word EXCEPT ![wtgt[c]] = @ + 1]
      BY <2>3 DEF Bump, WGoto, readerVars
    <3>2. wtgt[c] \in Segs /\ ChannelOf[wtgt[c]] = c /\ word[wtgt[c]] \in Nat
      BY OwnFacts DEF Looking, FilesOK, FilesType
    <3>3. \A s \in Segs : word'[s] = IF s = wtgt[c] THEN word[s] + 1 ELSE word[s]
      BY <3>1, <3>2 DEF Looking, FilesOK, FilesType
    <3>4. SeenBehind(q)' /\ OwnWord(q)'
      BY <1>2, <1>3, <2>1, <3>1, <3>3 DEF Sound, SeenBehind, OwnWord
    <3>5. CASE rseg[q] = wtgt[c]
      <4>1. ~Unmoved(q)'
        BY <1>2, <1>3, <2>1, <3>3, <3>5 DEF Unmoved, Sound, SeenBehind
      <4> QED
        BY <3>4, <4>1 DEF Sound, CheckSound
    <3>6. CASE rseg[q] # wtgt[c]
      <4>1. (Unmoved(q)' <=> Unmoved(q)) /\ (AtCursor(q)' <=> AtCursor(q))
        BY <1>2, <1>3, <3>1, <3>3, <3>6 DEF Unmoved, AtCursor, HasRecord
      <4>2. /\ WakeDue(rseg[q])' => WakeDue(rseg[q])
            /\ BumpDue(rseg[q]) => BumpDue(rseg[q])'
        BY <1>2, <1>3, <3>1, <3>6 DEF WakeDue, BumpDue, Looking, FilesOK, FilesType
      <4>3. CheckSound(q)'
        BY <1>2, <2>1, <3>1, <4>1, <4>2 DEF Sound, CheckSound
      <4> QED
        BY <3>4, <4>3 DEF Sound
    <3> QED
      BY <3>5, <3>6
  <2>4. CASE WakeAll(c)
    <3>1. /\ UNCHANGED <<count, rolled, word, wtgt, wkind>> /\ wpc[c] = "wake"
          /\ wpc' = [wpc EXCEPT ![c] = "idle"] /\ lost' = [lost EXCEPT ![wtgt[c]] = FALSE]
          /\ rpc'[q] \in {rpc[q], "flag"}
      BY <2>4 DEF WakeAll, WGoto, fileVars
    <3>2. SeenBehind(q)' /\ OwnWord(q)'
      BY <1>2, <2>1, <3>1 DEF Sound, SeenBehind, OwnWord
    <3>3. (Unmoved(q)' <=> Unmoved(q)) /\ (AtCursor(q)' <=> AtCursor(q))
      BY <1>2, <3>1 DEF Unmoved, AtCursor, HasRecord
    <3>4. CASE rseg[q] = wtgt[c]
      <4>1. WakeDue(rseg[q])
        BY <1>3, <3>1, <3>4, OwnFacts DEF WakeDue, Looking
      <4> QED
        BY <2>1, <3>1, <3>2, <3>3, <4>1 DEF Sound, CheckSound
    <3>5. CASE rseg[q] # wtgt[c]
      <4>1. /\ WakeDue(rseg[q])' => WakeDue(rseg[q])
            /\ BumpDue(rseg[q]) => BumpDue(rseg[q])'
            /\ lost'[rseg[q]] = lost[rseg[q]]
        BY <1>2, <1>3, <3>1, <3>5 DEF WakeDue, BumpDue, Looking, FilesOK, FilesType
      <4>2. CheckSound(q)'
        BY <1>2, <2>1, <3>1, <3>3, <4>1 DEF Sound, CheckSound
      <4> QED
        BY <3>2, <4>2 DEF Sound
    <3> QED
      BY <3>4, <3>5
  <2> QED
    BY <2>2, <2>3, <2>4 DEF WriterMoves, WriterStep
<1> QED
  BY <1>1, <1>4, <1>5 DEF Looking

\* Following a Roll leads to a published segment of the same channel.
LEMMA RollCursors ==
  ASSUME FilesOK, CursorsOK, UNCHANGED <<fileVars, rseq, seen>>, NEW r \in Readers,
         rolled[rseg[r]], rseg' = [rseg EXCEPT ![r] = rseg[r] + 1],
         rpos' = [rpos EXCEPT ![r] = 0]
  PROVE  CursorsOK'
<1>1. /\ rseg[r] \in Segs /\ rseg[r] \in Nat /\ ChannelOf[rseg[r]] = Reads[r]
      /\ Reads[r] \in Channels
  BY ReaderFacts
<1>2. rseg[r] < top[Reads[r]] /\ top[Reads[r]] \in Segs
  BY <1>1 DEF FilesOK, FilesType, RollsPublished
<1>3. /\ Reads[r] <= rseg[r] /\ Reads[r] \in Nat /\ top[Reads[r]] \in Nat
      /\ top[Reads[r]] <= MaxSeg /\ MaxSeg \in Nat
  BY <1>1, <1>2, ChannelFacts DEF CursorsOK
<1>4. rseg[r] + 1 \in Segs /\ Reads[r] <= rseg[r] + 1 /\ rseg[r] + 1 <= top[Reads[r]]
  BY <1>1, <1>2, <1>3 DEF Segs
<1>5. rseg' \in [Readers -> Segs] /\ rpos' \in [Readers -> Nat]
  BY <1>4 DEF CursorsOK
<1>6. \A q \in Readers : Reads[q] <= rseg'[q] /\ rseg'[q] <= top[Reads[q]]
  BY <1>4 DEF CursorsOK
<1> QED
  BY <1>5, <1>6 DEF CursorsOK, fileVars

-----------------------------------------------------------------------------
(* Readers that wait one by one *)

ReadersType ==
  /\ rpc \in [Readers -> WaitingPc \cup {"out", "ready"}]
  /\ miss \in [Readers -> Nat \cup {NoWord}] /\ untrusted \in [Readers -> BOOLEAN]
  /\ slow \in [Readers -> Nat]

IInv == Looking /\ ReadersType /\ NoLostWake

\* What a reader may do next.
ReaderMoves(r) ==
  WaitForMessage(r) \/ TryRead(r) \/ WaitStep(r) \/ DeadlinePassed(r) \/ Interrupted(r)

\* The initial state satisfies the invariant.
LEMMA InitInv == Init => IInv
<1>1. SUFFICES ASSUME Init PROVE IInv
  OBVIOUS
<1>2. FilesType
  BY <1>1, ChannelFacts DEF Init, FilesType, Kinds, WriterPc
<1>3. Owned
  <2>1. ASSUME NEW c \in Channels, NEW s \in Segs, c <= s, s <= top[c] PROVE ChannelOf[s] = c
    BY <1>1, <2>1, ChannelFacts DEF Init
  <2> QED
    BY <1>1, <2>1, ChannelFacts DEF Init, Owned
<1>4. RollsPublished
  BY <1>1 DEF Init, RollsPublished, RollPc
<1>5. CursorsOK
  <2>1. Reads \in [Readers -> Segs] /\ \A r \in Readers : Reads[r] \in Nat /\ Reads[r] \in Channels
    BY ChannelFacts, ChannelsAssumption
  <2> QED
    BY <1>1, <2>1 DEF Init, CursorsOK
<1>6. ASSUME NEW r \in Readers PROVE Sound(r) /\ rpc[r] = "out"
  <2>1. rpc[r] = "out" /\ seen[r] = NoWord /\ rseq[r] \in Segs
    BY <1>1, <1>5 DEF Init, CursorsOK
  <2>2. word[rseq[r]] = 0
    BY <1>1, <2>1 DEF Init
  <2> QED
    BY <2>1, <2>2 DEF Sound, SeenBehind, OwnWord, CheckSound, NoWord
<1>7. ReadersType
  BY <1>1 DEF Init, ReadersType
<1>8. NoLostWake
  BY <1>6 DEF NoLostWake
<1> QED
  BY <1>2, <1>3, <1>4, <1>5, <1>6, <1>7, <1>8 DEF IInv, Looking, FilesOK

\* Every step of a writer keeps the invariant.
LEMMA WriterInv ==
  ASSUME IInv, NEW c \in Channels, WriterMoves(c)
  PROVE  IInv'
<1>1. Looking'
  BY WriterLooking DEF IInv
<1>2. /\ UNCHANGED <<rseg, rpos, rseq, seen, untrusted, miss>>
      /\ WakeAll(c) \/ UNCHANGED rpc
      /\ Bump(c) \/ UNCHANGED <<word, slow>>
  BY WriterFrame
<1>3. ReadersType'
  <2>1. rpc' \in [Readers -> WaitingPc \cup {"out", "ready"}]
    BY <1>2 DEF IInv, ReadersType, WakeAll, WaitingPc
  <2>2. slow' \in [Readers -> Nat]
    BY <1>2 DEF IInv, ReadersType, Bump
  <2> QED
    BY <1>2, <2>1, <2>2 DEF IInv, ReadersType
<1>4. ASSUME NEW q \in Readers, rpc'[q] = "asleep", AtCursor(q)' PROVE Due(q)'
  <2>1. rpc[q] = "asleep" /\ ~(WakeAll(c) /\ rseg[q] = wtgt[c])
    BY <1>2, <1>4 DEF WakeAll
  <2>2. AtCursor(q) => Due(q)
    BY <2>1 DEF IInv, NoLostWake, Due
  <2> QED
    BY <1>4, <2>1, <2>2, WriterDue DEF IInv, Looking
<1>5. NoLostWake'
  BY <1>4 DEF NoLostWake, Due
<1> QED
  BY <1>1, <1>3, <1>5 DEF IInv

\* A reader's step leaves the files, the writers and every other reader alone.
LEMMA ReaderFrame ==
  ASSUME IInv, NEW r \in Readers, ReaderMoves(r)
  PROVE  /\ UNCHANGED <<fileVars, writerVars, lost, unbumped>>
         /\ \A q \in Readers \ {r} :
              /\ rpc'[q] = rpc[q] /\ rseg'[q] = rseg[q] /\ rpos'[q] = rpos[q]
              /\ rseq'[q] = rseq[q] /\ seen'[q] = seen[q] /\ untrusted'[q] = untrusted[q]
              /\ miss'[q] = miss[q] /\ slow'[q] = slow[q]
<1> USE DEF RGoto, history, IInv, Looking, CursorsOK, ReadersType
<1>1. CASE WaitForMessage(r) \/ DeadlinePassed(r) \/ Interrupted(r) \/ TryRead(r)
  BY <1>1 DEF WaitForMessage, DeadlinePassed, Interrupted, TryRead
<1>2. CASE LoadFlag(r) \/ LoadWord(r)
  BY <1>2 DEF LoadFlag, LoadWord
<1>3. CASE PollFound(r) \/ PollEmpty(r)
  BY <1>3 DEF PollFound, PollEmpty
<1>4. CASE PollRoll(r)
  BY <1>4 DEF PollRoll
<1>5. CASE LookAgain(r) \/ FutexWait(r) \/ Backoff(r)
  BY <1>5 DEF LookAgain, FutexWait, Backoff
<1>6. CASE SleepRunsOut(r) \/ Distrust(r)
  BY <1>6 DEF SleepRunsOut, Distrust
<1> QED
  BY <1>1, <1>2, <1>3, <1>4, <1>5, <1>6 DEF ReaderMoves, WaitStep

\* With the files and the writers left alone, what a reader knows stays so while it stays where
\* it is, with the word it holds.
LEMMA SoundFrame ==
  ASSUME UNCHANGED <<fileVars, writerVars, lost>>, NEW q,
         rseg'[q] = rseg[q], rpos'[q] = rpos[q]
  PROVE  /\ AtCursor(q)' <=> AtCursor(q)
         /\ Due(q)' <=> Due(q)
         /\ rpc'[q] = rpc[q] /\ rseq'[q] = rseq[q] /\ seen'[q] = seen[q] /\ Sound(q) => Sound(q)'
<1>1. (AtCursor(q)' <=> AtCursor(q)) /\ (Due(q)' <=> Due(q))
  BY DEF AtCursor, HasRecord, Due, BumpDue, WakeDue, fileVars, writerVars
<1>2. rseq'[q] = rseq[q] /\ seen'[q] = seen[q] => (Unmoved(q)' <=> Unmoved(q))
  BY DEF Unmoved, fileVars
<1>3. /\ BumpDue(rseg[q])' <=> BumpDue(rseg[q])
      /\ WakeDue(rseg[q])' <=> WakeDue(rseg[q])
  BY DEF BumpDue, WakeDue, fileVars, writerVars
<1> QED
  BY <1>1, <1>2, <1>3 DEF Sound, SeenBehind, OwnWord, CheckSound, fileVars

\* Every step of a reader keeps the invariant.
LEMMA ReaderInv ==
  ASSUME IInv, NEW r \in Readers, ReaderMoves(r)
  PROVE  IInv'
<1> DEFINE Pcs == WaitingPc \cup {"out", "ready"}
<1>1. /\ UNCHANGED <<fileVars, writerVars, lost, unbumped>>
      /\ \A q \in Readers \ {r} :
           /\ rpc'[q] = rpc[q] /\ rseg'[q] = rseg[q] /\ rpos'[q] = rpos[q]
           /\ rseq'[q] = rseq[q] /\ seen'[q] = seen[q]
  BY ReaderFrame
<1>2. FilesOK'
  BY <1>1 DEF IInv, Looking, FilesOK, FilesType, Owned, RollsPublished, fileVars, writerVars
<1>3. ASSUME NEW q \in Readers, q # r
      PROVE  Sound(q)' /\ (rpc'[q] = "asleep" /\ AtCursor(q)' => Due(q)')
  <2>1. Sound(q) /\ (rpc[q] = "asleep" /\ AtCursor(q) => Due(q))
    BY DEF IInv, Looking, NoLostWake, Due
  <2> QED
    BY <1>1, <1>3, <2>1, SoundFrame
<1>4. /\ rpc \in [Readers -> Pcs] /\ rseg \in [Readers -> Segs] /\ rseq \in [Readers -> Segs]
      /\ rpos \in [Readers -> Nat] /\ seen \in [Readers -> Nat \cup {NoWord}]
      /\ miss \in [Readers -> Nat \cup {NoWord}] /\ untrusted \in [Readers -> BOOLEAN]
      /\ slow \in [Readers -> Nat]
  BY DEF IInv, Looking, CursorsOK, ReadersType
<1>5. /\ rseg[r] \in Segs /\ rseg[r] \in Nat /\ ChannelOf[rseg[r]] = Reads[r]
      /\ rseq[r] \in Segs /\ Reads[r] \in Channels
      /\ word[rseg[r]] \in Nat /\ seen[r] \in Nat \cup {NoWord} /\ rpos[r] \in Nat
      /\ seen[r] <= word[rseq[r]] /\ word[rseq[r]] \in Nat
  BY ReaderFacts DEF IInv, Looking, Sound, SeenBehind
<1>6. /\ ReadersType' /\ CursorsOK' /\ Sound(r)'
      /\ rpc'[r] = "asleep" /\ AtCursor(r)' => Due(r)'
  <2> USE DEF RGoto, WaitingPc
  <2>1. CASE \/ WaitForMessage(r) \/ DeadlinePassed(r) \/ Interrupted(r) \/ PollEmpty(r)
             \/ LookAgain(r) \/ FutexWait(r) \/ Backoff(r) \/ SleepRunsOut(r)
    <3>1. UNCHANGED <<rseg, rpos, rseq, seen, untrusted, miss, slow>>
      BY <2>1 DEF WaitForMessage, DeadlinePassed, Interrupted, PollEmpty, LookAgain, FutexWait,
                  Backoff, SleepRunsOut, history
    <3>2. PICK pc \in {"flag", "out", "check", "asleep", "repoll"} :
            /\ rpc' = [rpc EXCEPT ![r] = pc]
            /\ pc = "check" => ~AtCursor(r)
            /\ pc = "asleep" => rpc[r] = "check" /\ Unmoved(r)
      BY <2>1 DEF WaitForMessage, DeadlinePassed, Interrupted, PollEmpty, LookAgain, FutexWait,
                  Backoff, SleepRunsOut, Unmoved
    <3>3. ReadersType' /\ CursorsOK'
      BY <1>1, <1>4, <3>1, <3>2 DEF IInv, Looking, CursorsOK, ReadersType, fileVars
    <3>4. rpc'[r] = pc /\ (AtCursor(r)' <=> AtCursor(r)) /\ (Due(r)' <=> Due(r))
      BY <1>1, <1>4, <3>1, <3>2, SoundFrame
    <3>5. Sound(r)'
      BY <1>1, <1>5, <3>1, <3>2, <3>4
         DEF Sound, SeenBehind, OwnWord, CheckSound, Unmoved, fileVars
    <3>6. pc = "asleep" /\ AtCursor(r) => Due(r)
      BY <3>2 DEF IInv, Looking, Sound, CheckSound, Due
    <3> QED
      BY <3>3, <3>4, <3>5, <3>6
  <2>2. CASE TryRead(r) \/ Distrust(r) \/ PollFound(r)
    <3>1. /\ UNCHANGED <<rseg, rseq, seen>>
          /\ \E pc \in {"out", "ready", "distrust"} : rpc' = [rpc EXCEPT ![r] = pc]
      BY <2>2 DEF TryRead, Distrust, PollFound
    <3>2. /\ rpos' \in [Readers -> Nat] /\ slow' \in [Readers -> Nat]
      BY <1>4, <2>2 DEF TryRead, Distrust, PollFound, history
    <3>3. untrusted' \in [Readers -> BOOLEAN] /\ miss' \in [Readers -> Nat \cup {NoWord}]
      BY <1>4, <2>2 DEF TryRead, Distrust, PollFound
    <3>4. ReadersType' /\ CursorsOK'
      BY <1>1, <1>4, <3>1, <3>2, <3>3 DEF IInv, Looking, CursorsOK, ReadersType, fileVars
    <3>5. rpc'[r] \in {"out", "ready", "distrust"}
      BY <1>4, <3>1
    <3> QED
      BY <1>1, <1>5, <3>1, <3>4, <3>5 DEF Sound, SeenBehind, OwnWord, CheckSound, fileVars
  <2>3. CASE LoadFlag(r)
    <3>1. /\ UNCHANGED <<rseg, rpos, untrusted, miss, slow>>
          /\ rseq' = [rseq EXCEPT ![r] = rseg[r]] /\ seen' = [seen EXCEPT ![r] = NoWord]
          /\ \E pc \in {"word", "poll"} : rpc' = [rpc EXCEPT ![r] = pc]
      BY <2>3 DEF LoadFlag, history
    <3>2. ReadersType' /\ CursorsOK'
      BY <1>1, <1>4, <3>1 DEF IInv, Looking, CursorsOK, ReadersType, fileVars
    <3>3. rpc'[r] \in {"word", "poll"} /\ rseq'[r] = rseg'[r] /\ seen'[r] = NoWord
      BY <1>4, <3>1
    <3>4. SeenBehind(r)'
      BY <1>1, <1>5, <3>1, <3>3 DEF SeenBehind, NoWord, fileVars
    <3> QED
      BY <3>2, <3>3, <3>4 DEF Sound, OwnWord, CheckSound
  <2>4. CASE LoadWord(r)
    <3>1. /\ UNCHANGED <<rseg, rpos, rseq, untrusted, miss, slow>> /\ rpc[r] = "word"
          /\ rpc' = [rpc EXCEPT ![r] = "poll"] /\ seen' = [seen EXCEPT ![r] = word[rseg[r]]]
      BY <2>4 DEF LoadWord, history
    <3>2. ReadersType' /\ CursorsOK'
      BY <1>1, <1>4, <1>5, <3>1 DEF IInv, Looking, CursorsOK, ReadersType, fileVars
    <3>3. rpc'[r] = "poll" /\ seen'[r] = word[rseg[r]] /\ rseg[r] = rseq[r]
      BY <1>4, <3>1 DEF IInv, Looking, Sound, OwnWord
    <3>4. SeenBehind(r)'
      BY <1>1, <1>5, <3>1, <3>3 DEF SeenBehind, fileVars
    <3> QED
      BY <3>2, <3>3, <3>4 DEF Sound, OwnWord, CheckSound
  <2>5. CASE PollRoll(r)
    <3>1. /\ UNCHANGED <<rpc, rseq, seen>> /\ rpc[r] \in {"poll", "repoll"} /\ rolled[rseg[r]]
          /\ rseg' = [rseg EXCEPT ![r] = rseg[r] + 1] /\ rpos' = [rpos EXCEPT ![r] = 0]
          /\ untrusted' = [untrusted EXCEPT ![r] = FALSE]
          /\ miss' = [miss EXCEPT ![r] = NoWord] /\ slow' = [slow EXCEPT ![r] = 0]
      BY <2>5 DEF PollRoll
    <3>2. ReadersType'
      BY <1>4, <3>1 DEF ReadersType
    <3>3. CursorsOK'
      BY <1>1, <3>1, RollCursors DEF IInv, Looking
    <3> QED
      BY <1>1, <1>5, <3>1, <3>2, <3>3 DEF Sound, SeenBehind, OwnWord, CheckSound, fileVars
  <2> QED
    BY <2>1, <2>2, <2>3, <2>4, <2>5 DEF ReaderMoves, WaitStep
<1>7. NoLostWake'
  BY <1>3, <1>6 DEF NoLostWake, Due
<1> QED
  BY <1>2, <1>3, <1>6, <1>7 DEF IInv, Looking

\* The invariant of wake.rs and wait_for_message together.
THEOREM WakeInvariant == Spec => []IInv
<1>1. IInv /\ [Next]_vars => IInv'
  <2> SUFFICES ASSUME IInv, [Next]_vars PROVE IInv'
    OBVIOUS
  <2>1. ASSUME NEW c \in Channels, WriterMoves(c) PROVE IInv'
    BY <2>1, WriterInv
  <2>2. ASSUME NEW r \in Readers, ReaderMoves(r) PROVE IInv'
    BY <2>2, ReaderInv
  <2>3. CASE UNCHANGED vars
    BY <2>3 DEF IInv, Looking, FilesOK, FilesType, Owned, RollsPublished, CursorsOK, Sound,
       SeenBehind, OwnWord, CheckSound, Unmoved, ReadersType, NoLostWake, AtCursor, HasRecord,
       BumpDue, WakeDue, vars, fileVars, writerVars, readerVars, history
  <2> QED
    BY <2>1, <2>2, <2>3 DEF Next, WriterMoves, ReaderMoves
<1> QED
  BY InitInv, <1>1, PTL DEF Spec

\* Every variable keeps its shape, and no reader is on a segment that is not a published one of
\* its channel.
THEOREM WakeTypeCorrect == Spec => []TypeOK
<1>1. IInv => TypeOK
  <2>1. SUFFICES ASSUME IInv PROVE TypeOK
    OBVIOUS
  <2>2. ASSUME NEW r \in Readers PROVE {rseg[r], rseq[r]} \subseteq Reads[r]..top[Reads[r]]
    <3>1. /\ rseg[r] \in Nat /\ rseq[r] \in Nat /\ Reads[r] \in Nat /\ top[Reads[r]] \in Nat
      BY <2>1, ReaderFacts, OwnFacts, ChannelFacts DEF IInv, Looking
    <3> QED
      BY <2>1, <3>1 DEF IInv, Looking, CursorsOK
  <2> QED
    BY <2>1, <2>2 DEF IInv, Looking, FilesOK, FilesType, CursorsOK, ReadersType, TypeOK, WriterPc
<1> QED
  BY <1>1, WakeInvariant, PTL

\* No wake-up is lost: wake_all's bump before its FUTEX_WAKE, and the word loaded before the
\* look in wait_for_message, are enough.
THEOREM WakesNotLost == Spec => []NoLostWake
<1>1. IInv => NoLostWake
  BY DEF IInv
<1> QED
  BY <1>1, WakeInvariant, PTL

-----------------------------------------------------------------------------
(* Trust in the flag *)

\* A reader has consumed no more than is committed, and what it was told of is there.
Consumed(r) ==
  /\ rpos[r] <= count[rseg[r]]
  /\ rpc[r] \in {"distrust", "ready"} => HasRecord(r)
  /\ rseq[r] <= rseg[r]

\* The last user record committed to s is the n-th, and its bump is still to come.
BumpNext(s) == wpc[ChannelOf[s]] = "bump" /\ wtgt[ChannelOf[s]] = s
LastBeforeBump(s, n) == BumpNext(s) /\ count[s] <= n

\* A record that came since the look, the word unmoved, is the only one, before its bump.
SleptPast(r) ==
  rpc[r] \in {"check", "asleep", "repoll", "distrust"} /\ Unmoved(r) /\ HasRecord(r) =>
    unbumped[rseg[r]] \/ LastBeforeBump(rseg[r], rpos[r] + 1)

\* While the word has the value of the last miss, no record came after the one missed.
MissOK(r) ==
  /\ miss[r] <= word[rseg[r]]
  /\ miss[r] = word[rseg[r]] =>
       \/ unbumped[rseg[r]]
       \/ LastBeforeBump(rseg[r], IF rpc[r] = "ready" THEN rpos[r] + 1 ELSE rpos[r])

\* A reader that does not believe the flag loads no word.
UntrustedOK(r) ==
  untrusted[r] => /\ unbumped[rseg[r]]
                  /\ rpc[r] \in {"out", "ready", "flag"} \/ (seen[r] = NoWord /\ rpc[r] # "word")

\* The first miss on a value of the word is remembered, the second ends the trust.
SlowOK(r) ==
  /\ slow[r] <= 2
  /\ IF rpc[r] = "distrust" /\ Unmoved(r)
     THEN slow[r] = 2 => miss[r] = word[rseg[r]]
     ELSE /\ slow[r] >= 1 => miss[r] = word[rseg[r]]
          /\ slow[r] = 2 => untrusted[r]

Trust(r) == Consumed(r) /\ SleptPast(r) /\ MissOK(r) /\ UntrustedOK(r) /\ SlowOK(r)
TrustInv == \A r \in Readers : Trust(r)

\* The types of what Trust relates.
LEMMA ReaderTypes ==
  ASSUME IInv, NEW q \in Readers
  PROVE  /\ rseg[q] \in Segs /\ rseg[q] \in Nat /\ rseq[q] \in Nat /\ rpos[q] \in Nat
         /\ count[rseg[q]] \in Nat /\ word[rseg[q]] \in Nat
         /\ seen[q] \in Nat \cup {NoWord} /\ miss[q] \in Nat \cup {NoWord} /\ NoWord = -1
         /\ slow[q] \in Nat /\ untrusted[q] \in BOOLEAN /\ unbumped[rseg[q]] \in BOOLEAN
         /\ seen[q] <= word[rseq[q]] /\ word[rseq[q]] \in Nat /\ rseq[q] \in Segs
<1>1. miss[q] \in Nat \cup {NoWord} /\ slow[q] \in Nat /\ untrusted[q] \in BOOLEAN
  BY DEF IInv, ReadersType
<1>2. unbumped[rseg[q]] \in BOOLEAN
  BY ReaderFacts DEF IInv, Looking, FilesOK, FilesType
<1> QED
  BY <1>1, <1>2, ReaderFacts DEF IInv, Looking, Sound, SeenBehind

\* A step that does not touch a reader, its segment's records or its word, and comes before no
\* bump or leaves it due, keeps what is known of the reader.
LEMMA TrustFrame ==
  ASSUME NEW q \in Readers, Trust(q),
         rpc'[q] = rpc[q], rseg'[q] = rseg[q], rpos'[q] = rpos[q], rseq'[q] = rseq[q],
         seen'[q] = seen[q], untrusted'[q] = untrusted[q], miss'[q] = miss[q],
         slow'[q] = slow[q], count'[rseg[q]] = count[rseg[q]], word'[rseg[q]] = word[rseg[q]],
         unbumped[rseg[q]] => unbumped'[rseg[q]],
         BumpNext(rseg[q]) => BumpNext(rseg[q])' \/ unbumped'[rseg[q]]
  PROVE  Trust(q)'
<1>1. HasRecord(q)' <=> HasRecord(q)
  BY DEF HasRecord
<1>2. Unmoved(q)' <=> Unmoved(q)
  BY DEF Unmoved
<1>3. \A n : LastBeforeBump(rseg[q], n) => LastBeforeBump(rseg[q], n)' \/ unbumped'[rseg[q]]
  BY DEF LastBeforeBump
<1>4. Consumed(q)'
  BY <1>1 DEF Trust, Consumed
<1>5. SleptPast(q)'
  BY <1>1, <1>2, <1>3 DEF Trust, SleptPast
<1>6. MissOK(q)'
  BY <1>3 DEF Trust, MissOK
<1>7. UntrustedOK(q)' /\ SlowOK(q)'
  BY <1>2 DEF Trust, UntrustedOK, SlowOK
<1>8. QED
  BY <1>4, <1>5, <1>6, <1>7 DEF Trust

\* A writer's step keeps what is known of each reader's trust.
LEMMA WriterTrust ==
  ASSUME IInv, TrustInv, NEW c \in Channels, WriterMoves(c)
  PROVE  TrustInv'
<1>1. SUFFICES ASSUME NEW q \in Readers PROVE Trust(q)'
  BY DEF TrustInv
<1>2. Trust(q)
  BY DEF TrustInv
<1>3. /\ UNCHANGED <<rseg, rpos, rseq, seen, untrusted, miss>>
      /\ WakeAll(c) \/ UNCHANGED rpc
      /\ Bump(c) \/ UNCHANGED <<word, slow>>
  BY WriterFrame
<1>4. /\ top[c] \in Segs /\ ChannelOf[top[c]] = c /\ wtgt[c] \in Segs /\ ChannelOf[wtgt[c]] = c
      /\ count \in [Segs -> Nat] /\ word \in [Segs -> Nat] /\ unbumped \in [Segs -> BOOLEAN]
      /\ wpc \in [Channels -> WriterPc] /\ wtgt \in [Channels -> Segs]
      /\ rseg[q] \in Segs /\ ChannelOf[rseg[q]] \in Channels
  BY OwnFacts, ReaderFacts DEF IInv, Looking, FilesOK, FilesType
<1>5. wpc[c] # "bump" => (BumpNext(rseg[q]) => BumpNext(rseg[q])')
  <2>1. ChannelOf[rseg[q]] # c =>
          /\ wpc'[ChannelOf[rseg[q]]] = wpc[ChannelOf[rseg[q]]]
          /\ wtgt'[ChannelOf[rseg[q]]] = wtgt[ChannelOf[rseg[q]]]
    BY <1>4, OtherWriters DEF IInv, Looking
  <2> QED
    BY <1>3, <2>1 DEF BumpNext
<1> USE DEF WGoto
<1>6. CASE \/ OpenCalled(c) \/ FinishCommit(c) \/ FinishWp(c)
           \/ RollPublish(c) \/ RollCommit(c) \/ RollWp(c)
  <2>1. UNCHANGED <<rpc, slow, count, word>> /\ wpc[c] # "bump"
    BY <1>6 DEF OpenCalled, Open, OpenOld, OpenAs, FinishCommit, FinishWp, RollPublish,
                RollCommit, RollWp, Unwoken, readerVars, fileVars, history
  <2>2. unbumped[rseg[q]] => unbumped'[rseg[q]]
    <3>1. \/ unbumped' = unbumped
          \/ \E b : unbumped' = [unbumped EXCEPT ![wtgt[c]] = unbumped[wtgt[c]] \/ b]
      BY <1>6 DEF OpenCalled, Open, OpenOld, OpenAs, FinishCommit, FinishWp, RollPublish,
                  RollCommit, RollWp, Unwoken, history
    <3> QED
      BY <1>4, <3>1
  <2> QED
    BY <1>2, <1>3, <1>5, <2>1, <2>2, TrustFrame
<1>7. CASE Commit(c)
  <2>1. UNCHANGED <<rpc, slow, word>> /\ wpc[c] = "idle"
    BY <1>7 DEF Commit, Unwoken, readerVars
  <2>2. CASE rseg[q] # top[c]
    <3>1. count'[rseg[q]] = count[rseg[q]] /\ unbumped'[rseg[q]] = unbumped[rseg[q]]
      BY <1>4, <1>7, <2>2 DEF Commit, Unwoken
    <3> QED
      BY <1>2, <1>3, <1>5, <2>1, <3>1, TrustFrame
  <2>3. CASE rseg[q] = top[c]
    <3>1. /\ count'[rseg[q]] = count[rseg[q]] + 1
          /\ unbumped'[rseg[q]] \/ BumpNext(rseg[q])'
          /\ unbumped[rseg[q]] => unbumped'[rseg[q]]
      BY <1>3, <1>4, <1>7, <2>3 DEF Commit, Unwoken, BumpNext
    <3>2. /\ rpc'[q] = rpc[q] /\ rseg'[q] = rseg[q] /\ rpos'[q] = rpos[q] /\ rseq'[q] = rseq[q]
          /\ seen'[q] = seen[q] /\ untrusted'[q] = untrusted[q] /\ miss'[q] = miss[q]
          /\ slow'[q] = slow[q] /\ word'[rseg[q]] = word[rseg[q]]
      BY <1>3, <2>1
    <3>3. \A n : ~LastBeforeBump(rseg[q], n)
      BY <1>4, <2>1, <2>3 DEF LastBeforeBump, BumpNext
    <3>4. Unmoved(q)' <=> Unmoved(q)
      BY <3>2 DEF Unmoved
    <3>5. Consumed(q)'
      BY <1>2, <3>1, <3>2, ReaderTypes DEF Trust, Consumed, HasRecord
    <3>6. SleptPast(q)'
      <4>1. CASE HasRecord(q)
        BY <1>2, <3>1, <3>2, <3>3, <3>4, <4>1 DEF Trust, SleptPast
      <4>2. CASE ~HasRecord(q)
        <5>1. count[rseg[q]] = rpos[q]
          BY <1>2, <4>2, ReaderTypes DEF Trust, Consumed, HasRecord
        <5>2. count'[rseg'[q]] <= rpos'[q] + 1
          BY <3>1, <3>2, <5>1, ReaderTypes
        <5> QED
          BY <3>1, <3>2, <5>2 DEF SleptPast, LastBeforeBump
      <4> QED
        BY <4>1, <4>2
    <3>7. MissOK(q)' /\ UntrustedOK(q)' /\ SlowOK(q)'
      BY <1>2, <3>1, <3>2, <3>3, <3>4 DEF Trust, MissOK, UntrustedOK, SlowOK
    <3> QED
      BY <3>5, <3>6, <3>7 DEF Trust
  <2> QED
    BY <2>2, <2>3
<1>8. CASE Bump(c)
  <2>1. /\ UNCHANGED <<rpc, count, unbumped, wtgt>> /\ wpc' = [wpc EXCEPT ![c] = "wake"]
        /\ slow'[q] = IF rseg[q] = wtgt[c] THEN 0 ELSE slow[q]
        /\ word' = [word EXCEPT ![wtgt[c]] = @ + 1]
    BY <1>8 DEF Bump, readerVars
  <2>2. CASE rseg[q] # wtgt[c]
    <3>1. word'[rseg[q]] = word[rseg[q]]
      BY <1>4, <2>1, <2>2
    <3>2. BumpNext(rseg[q]) => BumpNext(rseg[q])'
      BY <1>3, <1>4, <2>1, <2>2 DEF BumpNext
    <3> QED
      BY <1>2, <1>3, <2>1, <2>2, <3>1, <3>2, TrustFrame
  <2>3. CASE rseg[q] = wtgt[c]
    <3>1. word'[rseg[q]] = word[rseg[q]] + 1
      BY <1>4, <2>1, <2>3
    <3>2. /\ rpc'[q] = rpc[q] /\ rseg'[q] = rseg[q] /\ rpos'[q] = rpos[q] /\ rseq'[q] = rseq[q]
          /\ seen'[q] = seen[q] /\ untrusted'[q] = untrusted[q] /\ miss'[q] = miss[q]
          /\ slow'[q] = 0 /\ count' = count /\ unbumped' = unbumped
      BY <1>3, <2>1, <2>3
    <3>3. ~Unmoved(q)'
      <4>1. rseg[q] = rseq[q] => seen[q] <= word[rseg[q]]
        BY ReaderTypes
      <4>2. seen[q] \in Int
        BY ReaderTypes
      <4> QED
        BY <3>1, <3>2, <4>1, <4>2, ReaderTypes DEF Unmoved
    <3>4. miss'[q] <= word'[rseg'[q]] /\ miss'[q] # word'[rseg'[q]]
      <4>1. miss[q] <= word[rseg[q]]
        BY <1>2 DEF Trust, MissOK
      <4> QED
        BY <3>1, <3>2, <4>1, ReaderTypes
    <3>5. Consumed(q)' /\ SleptPast(q)' /\ MissOK(q)' /\ UntrustedOK(q)'
      BY <1>2, <3>2, <3>3, <3>4 DEF Trust, Consumed, HasRecord, SleptPast, MissOK, UntrustedOK
    <3>6. SlowOK(q)'
      BY <3>2, <3>3 DEF SlowOK
    <3> QED
      BY <3>5, <3>6 DEF Trust
  <2> QED
    BY <2>2, <2>3
<1>9. CASE WakeAll(c)
  <2>1. /\ UNCHANGED <<slow, count, word, unbumped, wtgt>> /\ wpc[c] = "wake"
        /\ wpc' = [wpc EXCEPT ![c] = "idle"]
        /\ rpc'[q] \in {rpc[q], "flag"} /\ (rpc'[q] # rpc[q] => rpc[q] = "asleep")
    BY <1>9 DEF WakeAll, fileVars
  <2>2. BumpNext(rseg[q]) => BumpNext(rseg[q])'
    BY <1>3, <1>4, <2>1 DEF BumpNext
  <2>3. CASE rpc'[q] = rpc[q]
    BY <1>2, <1>3, <2>1, <2>2, <2>3, TrustFrame
  <2>4. CASE rpc[q] = "asleep" /\ rpc'[q] = "flag"
    <3>1. \A n : LastBeforeBump(rseg[q], n) => LastBeforeBump(rseg[q], n)'
      BY <2>1, <2>2, <1>3 DEF LastBeforeBump
    <3> QED
      BY <1>2, <1>3, <2>1, <2>4, <3>1
         DEF Trust, Consumed, HasRecord, SleptPast, MissOK, UntrustedOK, SlowOK, Unmoved
  <2> QED
    BY <2>1, <2>3, <2>4
<1>10. CASE Crash(c)
  <2>1. UNCHANGED <<rpc, slow, count, word, wtgt>> /\ wpc' = [wpc EXCEPT ![c] = "down"]
    BY <1>10 DEF Crash, fileVars, readerVars
  <2>2. /\ unbumped[rseg[q]] => unbumped'[rseg[q]]
        /\ ChannelOf[rseg[q]] = c /\ BumpDue(rseg[q]) => unbumped'[rseg[q]]
    BY <1>4, <1>10 DEF Crash
  <2>3. BumpNext(rseg[q]) => BumpNext(rseg[q])' \/ unbumped'[rseg[q]]
    BY <1>3, <1>4, <2>1, <2>2 DEF BumpNext, BumpDue
  <2> QED
    BY <1>2, <1>3, <2>1, <2>2, <2>3, TrustFrame
<1> QED
  BY <1>6, <1>7, <1>8, <1>9, <1>10 DEF WriterMoves, WriterStep

\* Every step of a reader keeps what is known of its trust in the flag.
LEMMA ReaderTrust ==
  ASSUME IInv, TrustInv, NEW r \in Readers, ReaderMoves(r)
  PROVE  TrustInv'
<1>0. \A s : BumpNext(s)' <=> BumpNext(s)
  BY ReaderFrame DEF BumpNext, writerVars
<1>1. ASSUME NEW q \in Readers, q # r PROVE Trust(q)'
  BY <1>0, <1>1, ReaderFrame, TrustFrame DEF TrustInv, fileVars
<1>2. Trust(r)'
  <2>1. Trust(r) /\ UNCHANGED <<count, rolled, word, top, unbumped, wpc, wtgt>>
    BY ReaderFrame DEF TrustInv, fileVars, writerVars
  <2>2. \A s, n : LastBeforeBump(s, n)' <=> LastBeforeBump(s, n)
    BY <2>1 DEF LastBeforeBump, BumpNext
  <2> DEFINE Still == /\ rseg'[r] = rseg[r] /\ rpos'[r] = rpos[r] /\ rseq'[r] = rseq[r]
                      /\ untrusted'[r] = untrusted[r] /\ miss'[r] = miss[r]
                      /\ slow'[r] = slow[r]
  <2>3. Still => (HasRecord(r)' <=> HasRecord(r))
    BY <2>1 DEF HasRecord
  <2>4. Still /\ seen'[r] = seen[r] => (Unmoved(r)' <=> Unmoved(r))
    BY <2>1 DEF Unmoved
  <2> USE DEF RGoto
  <2>5. CASE \/ WaitForMessage(r) \/ DeadlinePassed(r) \/ Interrupted(r) \/ PollEmpty(r)
             \/ LookAgain(r) \/ FutexWait(r) \/ Backoff(r) \/ SleepRunsOut(r)
    <3>1. /\ Still /\ seen'[r] = seen[r]
          /\ rpc[r] \in {"out", "check", "asleep", "poll", "repoll"}
          /\ rpc'[r] \in {"flag", "out", "check", "asleep", "repoll"}
          /\ rpc[r] = "out" => rpc'[r] = "flag"
          /\ rpc'[r] = "check" => ~HasRecord(r)
          /\ rpc'[r] \in {"asleep", "repoll"} => rpc[r] \in {"check", "asleep"}
      BY <2>5 DEF WaitForMessage, DeadlinePassed, Interrupted, PollEmpty, AtCursor, LookAgain,
                  FutexWait, Backoff, SleepRunsOut, IInv, Looking, CursorsOK, ReadersType, history
    <3>2. Consumed(r)'
      BY <2>1, <3>1 DEF Trust, Consumed
    <3>3. SleptPast(r)'
      BY <2>1, <2>2, <2>3, <2>4, <3>1 DEF Trust, SleptPast
    <3>4. MissOK(r)'
      BY <2>1, <2>2, <3>1 DEF Trust, MissOK
    <3>5. UntrustedOK(r)'
      BY <2>1, <3>1 DEF Trust, UntrustedOK
    <3>6. SlowOK(r)'
      BY <2>1, <2>4, <3>1 DEF Trust, SlowOK
    <3>7. QED
      BY <3>2, <3>3, <3>4, <3>5, <3>6 DEF Trust
  <2>6. CASE LoadFlag(r)
    <3>1. /\ rseg'[r] = rseg[r] /\ rpos'[r] = rpos[r] /\ rseq'[r] = rseg[r]
          /\ untrusted'[r] = untrusted[r] /\ miss'[r] = miss[r] /\ slow'[r] = slow[r]
          /\ seen'[r] = NoWord /\ rpc[r] = "flag" /\ rpc'[r] \in {"word", "poll"}
          /\ untrusted[r] => rpc'[r] = "poll"
      BY <2>6 DEF LoadFlag, IInv, Looking, CursorsOK, ReadersType, history
    <3>2. Consumed(r)' /\ SleptPast(r)'
      BY <2>1, <3>1, ReaderTypes DEF Trust, Consumed, SleptPast
    <3>3. MissOK(r)'
      BY <2>1, <2>2, <3>1 DEF Trust, MissOK
    <3>4. UntrustedOK(r)' /\ SlowOK(r)'
      BY <2>1, <3>1 DEF Trust, UntrustedOK, SlowOK
    <3>5. QED
      BY <3>2, <3>3, <3>4 DEF Trust
  <2>7. CASE LoadWord(r)
    <3>1. Still /\ rpc[r] = "word" /\ rpc'[r] = "poll"
      BY <2>7 DEF LoadWord, IInv, Looking, CursorsOK, ReadersType, history
    <3>2. Consumed(r)' /\ SleptPast(r)'
      BY <2>1, <3>1 DEF Trust, Consumed, SleptPast
    <3>3. MissOK(r)'
      BY <2>1, <2>2, <3>1 DEF Trust, MissOK
    <3>4. UntrustedOK(r)' /\ SlowOK(r)'
      BY <2>1, <3>1 DEF Trust, UntrustedOK, SlowOK
    <3>5. QED
      BY <3>2, <3>3, <3>4 DEF Trust
  <2>8. CASE PollFound(r)
    <3>1. /\ rseg'[r] = rseg[r] /\ rpos'[r] = rpos[r] /\ rseq'[r] = rseq[r]
          /\ untrusted'[r] = untrusted[r] /\ miss'[r] = miss[r] /\ seen'[r] = seen[r]
          /\ HasRecord(r) /\ rpc[r] \in {"poll", "repoll"}
          /\ rpc'[r] = IF rpc[r] = "poll" THEN "ready" ELSE "distrust"
          /\ slow'[r] = IF rpc[r] = "repoll" /\ Unmoved(r) THEN slow[r] + 1 ELSE slow[r]
      BY <2>8 DEF PollFound, Unmoved, IInv, Looking, CursorsOK, ReadersType
    <3>2. (HasRecord(r)' <=> HasRecord(r)) /\ (Unmoved(r)' <=> Unmoved(r))
      BY <2>1, <3>1 DEF HasRecord, Unmoved
    <3>3. Consumed(r)'
      BY <2>1, <3>1, <3>2 DEF Trust, Consumed
    <3>4. SleptPast(r)'
      BY <2>1, <2>2, <3>1, <3>2 DEF Trust, SleptPast
    <3>5. MissOK(r)'
      <4>1. ASSUME NEW s, LastBeforeBump(s, rpos[r]) PROVE count[s] <= rpos[r]
        BY <4>1 DEF LastBeforeBump
      <4>2. ~LastBeforeBump(rseg[r], rpos[r])
        BY <3>1, <4>1, ReaderTypes DEF HasRecord
      <4>3. QED
        BY <2>1, <2>2, <3>1, <4>2 DEF Trust, MissOK
    <3>6. UntrustedOK(r)'
      BY <2>1, <3>1 DEF Trust, UntrustedOK
    <3>7. SlowOK(r)'
      <4>1. CASE rpc[r] = "repoll" /\ Unmoved(r)
        <5>1. ~untrusted[r]
          BY <2>1, <4>1, ReaderTypes DEF Trust, UntrustedOK, Unmoved
        <5>2. slow[r] <= 1 /\ (slow[r] = 1 => miss[r] = word[rseg[r]])
          BY <2>1, <4>1, <5>1, ReaderTypes DEF Trust, SlowOK
        <5>3. slow'[r] = slow[r] + 1 /\ rpc'[r] = "distrust" /\ Unmoved(r)'
          BY <3>1, <3>2, <4>1
        <5>4. slow'[r] <= 2 /\ (slow'[r] = 2 => miss'[r] = word'[rseg'[r]])
          BY <2>1, <3>1, <5>2, <5>3, ReaderTypes
        <5>5. QED
          BY <5>3, <5>4 DEF SlowOK
      <4>2. CASE ~(rpc[r] = "repoll" /\ Unmoved(r))
        BY <2>1, <3>1, <3>2, <4>2 DEF Trust, SlowOK
      <4>3. QED
        BY <4>1, <4>2
    <3>8. QED
      BY <3>3, <3>4, <3>5, <3>6, <3>7 DEF Trust
  <2>9. CASE PollRoll(r)
    <3>1. /\ rseg'[r] = rseg[r] + 1 /\ rpos'[r] = 0 /\ rseq'[r] = rseq[r]
          /\ untrusted'[r] = FALSE /\ miss'[r] = NoWord /\ seen'[r] = seen[r]
          /\ rpc'[r] = rpc[r] /\ rpc[r] \in {"poll", "repoll"} /\ slow'[r] = 0
          /\ rolled[rseg[r]]
      BY <2>9 DEF PollRoll, IInv, Looking, CursorsOK, ReadersType
    <3>2. rseg'[r] \in Segs /\ rseg'[r] \in Nat
      <4>1. rseg'[r] \in Segs
        BY ReaderInv DEF IInv, Looking, CursorsOK
      <4>2. QED
        BY <4>1, ChannelFacts
    <3>3. count'[rseg'[r]] \in Nat /\ word'[rseg'[r]] \in Nat
      BY <2>1, <3>2 DEF IInv, Looking, FilesOK, FilesType
    <3>4. ~Unmoved(r)' /\ rseq'[r] <= rseg'[r]
      <4>1. rseq[r] <= rseg[r]
        BY <2>1 DEF Trust, Consumed
      <4>2. QED
        BY <3>1, <4>1, ReaderTypes DEF Unmoved
    <3>5. Consumed(r)'
      BY <3>1, <3>3, <3>4 DEF Consumed
    <3>6. MissOK(r)'
      BY <3>1, <3>3 DEF MissOK, NoWord
    <3>7. SleptPast(r)' /\ UntrustedOK(r)' /\ SlowOK(r)'
      BY <3>1, <3>4 DEF SleptPast, UntrustedOK, SlowOK
    <3>8. QED
      BY <3>5, <3>6, <3>7 DEF Trust
  <2>10. CASE Distrust(r)
    <3>1. /\ rseg'[r] = rseg[r] /\ rpos'[r] = rpos[r] /\ rseq'[r] = rseq[r]
          /\ seen'[r] = seen[r] /\ slow'[r] = slow[r]
          /\ rpc[r] = "distrust" /\ rpc'[r] = "ready"
          /\ untrusted'[r] = (untrusted[r] \/ (Unmoved(r) /\ miss[r] = seen[r]))
          /\ miss'[r] = IF Unmoved(r) THEN seen[r] ELSE miss[r]
      BY <2>10 DEF Distrust, Unmoved, IInv, Looking, CursorsOK, ReadersType, history
    <3>2. HasRecord(r) /\ HasRecord(r)'
      BY <2>1, <3>1 DEF Trust, Consumed, HasRecord
    <3>3. ~LastBeforeBump(rseg[r], rpos[r])
      <4>1. LastBeforeBump(rseg[r], rpos[r]) => count[rseg[r]] <= rpos[r]
        BY DEF LastBeforeBump
      <4>2. QED
        BY <3>2, <4>1, ReaderTypes DEF HasRecord
    <3>4. miss[r] = word[rseg[r]] => unbumped[rseg[r]]
      BY <2>1, <3>1, <3>3 DEF Trust, MissOK
    <3>5. Consumed(r)' /\ SleptPast(r)'
      BY <2>1, <3>1, <3>2 DEF Trust, Consumed, SleptPast
    <3>6. MissOK(r)'
      <4>1. CASE Unmoved(r)
        <5>1. miss'[r] = word'[rseg'[r]] /\ miss'[r] <= word'[rseg'[r]]
          BY <2>1, <3>1, <4>1, ReaderTypes DEF Unmoved
        <5>2. unbumped[rseg[r]] \/ LastBeforeBump(rseg[r], rpos[r] + 1)
          BY <2>1, <3>1, <3>2, <4>1 DEF Trust, SleptPast
        <5>3. QED
          BY <2>1, <2>2, <3>1, <5>1, <5>2 DEF MissOK
      <4>2. CASE ~Unmoved(r)
        BY <2>1, <2>2, <3>1, <3>4, <4>2 DEF Trust, MissOK
      <4>3. QED
        BY <4>1, <4>2
    <3>7. UntrustedOK(r)'
      BY <2>1, <3>1, <3>4 DEF Trust, UntrustedOK, Unmoved
    <3>8. SlowOK(r)'
      <4>1. CASE Unmoved(r)
        <5>1. slow[r] <= 2 /\ (slow[r] = 2 => miss[r] = word[rseg[r]])
          BY <2>1, <3>1, <4>1 DEF Trust, SlowOK
        <5>2. miss'[r] = word'[rseg'[r]] /\ (slow[r] = 2 => untrusted'[r])
          BY <2>1, <3>1, <4>1, <5>1 DEF Unmoved
        <5>3. QED
          BY <3>1, <5>1, <5>2 DEF SlowOK
      <4>2. CASE ~Unmoved(r)
        BY <2>1, <3>1, <4>2 DEF Trust, SlowOK
      <4>3. QED
        BY <4>1, <4>2
    <3>9. QED
      BY <3>5, <3>6, <3>7, <3>8 DEF Trust
  <2>11. CASE TryRead(r)
    <3>1. /\ rseg'[r] = rseg[r] /\ rpos'[r] = rpos[r] + 1 /\ rseq'[r] = rseq[r]
          /\ untrusted'[r] = untrusted[r] /\ miss'[r] = miss[r] /\ slow'[r] = slow[r]
          /\ seen'[r] = seen[r] /\ rpc[r] = "ready" /\ rpc'[r] = "out"
      BY <2>11 DEF TryRead, IInv, Looking, CursorsOK, ReadersType, history
    <3>2. Consumed(r)'
      <4>1. count[rseg[r]] > rpos[r] /\ rseq[r] <= rseg[r]
        BY <2>1, <3>1 DEF Trust, Consumed, HasRecord
      <4>2. QED
        BY <2>1, <3>1, <4>1, ReaderTypes DEF Consumed
    <3>3. SleptPast(r)' /\ UntrustedOK(r)' /\ SlowOK(r)'
      BY <2>1, <3>1 DEF Trust, SleptPast, UntrustedOK, SlowOK
    <3>4. MissOK(r)'
      BY <2>1, <2>2, <3>1 DEF Trust, MissOK
    <3>5. QED
      BY <3>2, <3>3, <3>4 DEF Trust
  <2>12. QED
    BY <2>5, <2>6, <2>7, <2>8, <2>9, <2>10, <2>11 DEF ReaderMoves, WaitStep
<1>3. QED
  BY <1>1, <1>2 DEF TrustInv

\* At first nobody waits, nothing is committed and every flag is believed.
LEMMA InitTrust == Init => TrustInv
<1>1. SUFFICES ASSUME Init, NEW r \in Readers PROVE Trust(r)
  BY DEF TrustInv
<1>2. /\ rseg[r] \in Nat /\ rseq[r] = rseg[r] /\ rpos[r] = 0 /\ rpc[r] = "out"
      /\ count[rseg[r]] = 0 /\ word[rseg[r]] = 0 /\ miss[r] = NoWord /\ NoWord = -1
      /\ untrusted[r] = FALSE /\ slow[r] = 0
  BY <1>1, ChannelsAssumption, ChannelFacts DEF Init, NoWord
<1>3. QED
  BY <1>2 DEF Trust, Consumed, SleptPast, MissOK, UntrustedOK, SlowOK

\* What is known of each reader's trust in the flag holds throughout.
LEMMA TrustInvariant == Spec => []TrustInv
<1>1. IInv /\ TrustInv /\ [Next]_vars => TrustInv'
  <2>1. SUFFICES ASSUME IInv, TrustInv, [Next]_vars PROVE TrustInv'
    OBVIOUS
  <2>2. CASE UNCHANGED vars
    BY <2>1, <2>2 DEF vars, fileVars, writerVars, readerVars, history, TrustInv, Trust, Consumed,
       HasRecord, SleptPast, MissOK, UntrustedOK, SlowOK, Unmoved, LastBeforeBump, BumpNext
  <2>3. ASSUME NEW c \in Channels, WriterMoves(c) PROVE TrustInv'
    BY <2>1, <2>3, WriterTrust
  <2>4. ASSUME NEW r \in Readers, ReaderMoves(r) PROVE TrustInv'
    BY <2>1, <2>4, ReaderTrust
  <2>5. QED
    BY <2>1, <2>2, <2>3, <2>4 DEF Next, WriterMoves, ReaderMoves
<1>2. QED
  BY <1>1, InitTrust, WakeInvariant, PTL DEF Spec

\* A reader stops believing a flag (distrust_flag_if_unwoken) only when some commit to its
\* segment really went without a bump: a writer slow between publish_wp and wake_all is believed.
THEOREM FlagTrustKept == Spec => []TrustKept
<1>1. TrustInv => TrustKept
  BY DEF TrustInv, Trust, UntrustedOK, TrustKept
<1>2. QED
  BY <1>1, TrustInvariant, PTL

\* A wrong flag costs a reader at most two capped sleeps for each value of the word.
THEOREM SlowSleepsBounded == Spec => []SlowAtMostTwice
<1>1. TrustInv => SlowAtMostTwice
  BY DEF TrustInv, Trust, SlowOK, SlowAtMostTwice
<1>2. QED
  BY <1>1, TrustInvariant, PTL

-----------------------------------------------------------------------------
(* wait_any over a group *)

GroupPcs == WaitingPc \cup {"out", "ready", "nap"}

\* While the thread sleeps no reader is anywhere else, but for those a wake has reached; and for
\* the cap it sleeps on every word.
SleepShape ==
  Sleeping => \A r \in Readers : /\ rpc[r] \in {"asleep", "nap", "flag"}
                                 /\ nap = "cap" => rpc[r] # "nap"

GroupInv == Looking /\ rpc \in [Readers -> GroupPcs] /\ SleepShape /\ GroupNoLostWake

\* The initial state satisfies the invariant.
LEMMA GroupInit == AnyInit => GroupInv
<1>1. SUFFICES ASSUME AnyInit PROVE GroupInv
  OBVIOUS
<1>2. Looking
  BY <1>1, InitInv DEF AnyInit, IInv
<1>3. rpc = [q \in Readers |-> "out"]
  BY <1>1 DEF AnyInit, Init
<1> QED
  BY <1>2, <1>3 DEF GroupInv, GroupPcs, SleepShape, GroupNoLostWake, Sleeping

\* Every step of a writer keeps the invariant of the group.
LEMMA WriterGroup ==
  ASSUME GroupInv, WriterNext
  PROVE  GroupInv'
<1>1. PICK c \in Channels : WriterMoves(c)
  BY DEF WriterNext, WriterMoves
<1>2. Looking'
  BY <1>1, WriterLooking DEF GroupInv
<1>3. UNCHANGED <<rseg, nap>> /\ (WakeAll(c) \/ UNCHANGED rpc)
  BY <1>1, WriterFrame DEF WriterNext
<1>4. /\ rpc' \in [Readers -> GroupPcs]
      /\ \A q \in Readers : rpc'[q] = rpc[q] \/ (rpc[q] = "asleep" /\ rpc'[q] = "flag")
  BY <1>3 DEF GroupInv, GroupPcs, WaitingPc, WakeAll
<1>5. SleepShape'
  BY <1>3, <1>4 DEF GroupInv, SleepShape, Sleeping
<1>6. ASSUME NEW q \in Readers, Sleeping', nap' = "cap", AtCursor(q)',
             ~\E x \in Readers : rpc'[x] = "flag"
      PROVE  Due(q)'
  <2>1. Sleeping /\ nap = "cap" /\ (~\E x \in Readers : rpc[x] = "flag")
    BY <1>3, <1>4, <1>6 DEF Sleeping
  <2>2. AtCursor(q) => Due(q)
    BY <2>1 DEF GroupInv, GroupNoLostWake, Due
  <2>3. ~(WakeAll(c) /\ rseg[q] = wtgt[c])
    BY <1>6, <2>1 DEF WakeAll, GroupInv, SleepShape
  <2> QED
    BY <1>1, <1>6, <2>2, <2>3, WriterDue DEF GroupInv, Looking
<1>7. GroupNoLostWake'
  BY <1>6 DEF GroupNoLostWake, Due
<1> QED
  BY <1>2, <1>4, <1>5, <1>7 DEF GroupInv

-----------------------------------------------------------------------------
(* The waiting thread *)

\* When it is some reader's turn to load or to look, the thread does not sleep.
LEMMA TurnAwake ==
  ASSUME GroupInv, NEW i \in DOMAIN Group, NEW done, NEW todo, Turn(i, done, todo),
         {done, todo, rpc[Group[i]]} \subseteq {"flag", "word", "poll", "check", "repoll"}
  PROVE  ~Sleeping
<1>1. SUFFICES ASSUME NEW x \in Readers, rpc[x] \in {"asleep", "nap"} PROVE FALSE
  BY DEF Sleeping
<1>2. PICK k \in DOMAIN Group : Group[k] = x
  BY GroupAssumption
<1>3. /\ i \in 1..Len(Group) /\ k \in 1..Len(Group) /\ Len(Group) \in Nat
  BY GroupAssumption
<1>4. k = i \/ k \in 1..(i - 1) \/ k \in (i + 1)..Len(Group)
  BY <1>3
<1>5. QED
  BY <1>1, <1>2, <1>4 DEF Turn

\* A step of the thread that leaves nobody asleep, nobody newly about to sleep past a record, and
\* the segments and words alone.
LEMMA AwakeStep ==
  ASSUME GroupInv, UNCHANGED <<fileVars, writerVars, lost, unbumped>>, ~Sleeping',
         rpc' \in [Readers -> GroupPcs], CursorsOK',
         \A q \in Readers : seen'[q] <= word[rseq'[q]],
         \A q \in Readers : rpc'[q] = "word" => rseg'[q] = rseq'[q],
         \A q \in Readers : rpc'[q] = "check" =>
           \/ ~AtCursor(q)'
           \/ /\ rpc[q] = "check" /\ rseg'[q] = rseg[q] /\ rpos'[q] = rpos[q]
              /\ rseq'[q] = rseq[q] /\ seen'[q] = seen[q]
  PROVE  GroupInv'
<1>1. FilesOK'
  BY DEF GroupInv, Looking, FilesOK, FilesType, Owned, RollsPublished, fileVars, writerVars
<1>2. \A q \in Readers : rpc'[q] \notin {"asleep", "nap"}
  BY DEF Sleeping
<1>3. ASSUME NEW q \in Readers PROVE Sound(q)'
  <2>1. SeenBehind(q)' /\ OwnWord(q)'
    BY <1>2 DEF SeenBehind, OwnWord, fileVars
  <2>2. CASE /\ rpc'[q] = "check" /\ rpc[q] = "check" /\ rseg'[q] = rseg[q] /\ rpos'[q] = rpos[q]
             /\ rseq'[q] = rseq[q] /\ seen'[q] = seen[q]
    BY <2>2, SoundFrame DEF GroupInv, Looking
  <2>3. CASE rpc'[q] = "check" => ~AtCursor(q)'
    BY <2>1, <2>3 DEF Sound, CheckSound
  <2> QED
    BY <2>2, <2>3
<1>4. SleepShape' /\ GroupNoLostWake'
  BY DEF SleepShape, GroupNoLostWake
<1> QED
  BY <1>1, <1>3, <1>4 DEF GroupInv, Looking

\* A step that puts every reader at a place where nobody sleeps or checks.
LEMMA AllToGroup ==
  ASSUME GroupInv, NEW pc \in {"flag", "out", "repoll"}, AllTo(pc)
  PROVE  GroupInv'
<1>1. /\ UNCHANGED <<fileVars, writerVars, rseg, rpos, rseq, seen, lost, unbumped>>
      /\ rpc' = [q \in Readers |-> pc]
  BY DEF AllTo, history
<1>2. ~Sleeping'
  BY <1>1 DEF Sleeping
<1>3. \A q \in Readers : rpc'[q] \notin {"word", "check"}
  BY <1>1
<1>4. rpc' \in [Readers -> GroupPcs]
  BY <1>1 DEF GroupPcs, WaitingPc
<1>5. QED
  BY <1>1, <1>2, <1>3, <1>4, AwakeStep
     DEF GroupInv, Looking, CursorsOK, Sound, SeenBehind, fileVars

\* Loading a word and looking for a record keep the invariant: they happen only while the thread
\* is awake.
LEMMA LookGroup ==
  ASSUME GroupInv, LoadNext \/ FoundNext \/ PollNext \/ Returned
  PROVE  GroupInv'
<1>0. ASSUME NEW q \in Readers
      PROVE  /\ rseg[q] \in Segs /\ rseg[q] \in Nat /\ ChannelOf[rseg[q]] = Reads[q]
             /\ Reads[q] \in Channels /\ word[rseg[q]] \in Nat
  BY ReaderFacts DEF GroupInv, Looking
<1>1. /\ rpc \in [Readers -> GroupPcs] /\ CursorsOK
      /\ \A q \in Readers : seen[q] <= word[rseq[q]]
      /\ \A q \in Readers : rpc[q] = "word" => rseg[q] = rseq[q]
      /\ \A i \in DOMAIN Group : Group[i] \in Readers
  <2>1. /\ \A q \in Readers : seen[q] <= word[rseq[q]]
        /\ \A q \in Readers : rpc[q] = "word" => rseg[q] = rseq[q]
    BY DEF GroupInv, Looking, Sound, SeenBehind, OwnWord
  <2>2. \A i \in DOMAIN Group : Group[i] \in Readers
    BY GroupAssumption
  <2> QED
    BY <2>1, <2>2 DEF GroupInv, Looking
<1>2. CASE LoadNext
  <2>1. PICK i \in DOMAIN Group :
          Turn(i, "poll", "flag") /\ (LoadFlag(Group[i]) \/ LoadWord(Group[i]))
    BY <1>2 DEF LoadNext
  <2>2. PICK r \in Readers : r = Group[i]
    BY <1>1
  <2>3. ~Sleeping
    <3>1. rpc[Group[i]] \in {"flag", "word"}
      BY <2>1 DEF LoadFlag, LoadWord, RGoto
    <3>2. QED
      BY <2>1, <3>1, TurnAwake
  <2>4. CASE LoadFlag(r)
    <3>1. PICK pc \in {"word", "poll"} : rpc' = [rpc EXCEPT ![r] = pc]
      BY <2>4 DEF LoadFlag
    <3>2. /\ UNCHANGED <<fileVars, writerVars, rseg, rpos, lost, unbumped>>
          /\ rseq' = [rseq EXCEPT ![r] = rseg[r]] /\ seen' = [seen EXCEPT ![r] = NoWord]
      BY <2>4 DEF LoadFlag, history
    <3>3. ~Sleeping' /\ rpc' \in [Readers -> GroupPcs]
      BY <1>1, <2>3, <3>1 DEF Sleeping, GroupPcs, WaitingPc
    <3>4. CursorsOK'
      BY <1>1, <3>2 DEF CursorsOK, fileVars
    <3>5. \A q \in Readers : seen'[q] <= word[rseq'[q]]
      BY <1>1, <1>0, <3>2 DEF CursorsOK, NoWord
    <3>6. \A q \in Readers : rpc'[q] = "word" => rseg'[q] = rseq'[q]
      BY <1>1, <3>1, <3>2 DEF CursorsOK
    <3>7. \A q \in Readers : rpc'[q] = "check" =>
            /\ rpc[q] = "check" /\ rseg'[q] = rseg[q] /\ rpos'[q] = rpos[q]
            /\ rseq'[q] = rseq[q] /\ seen'[q] = seen[q]
      BY <1>1, <3>1, <3>2
    <3>8. QED
      BY <1>1, <3>2, <3>3, <3>4, <3>5, <3>6, <3>7, AwakeStep
  <2>5. CASE LoadWord(r)
    <3>1. /\ UNCHANGED <<fileVars, writerVars, rseg, rpos, rseq, lost, unbumped>> /\ rpc[r] = "word"
          /\ rpc' = [rpc EXCEPT ![r] = "poll"] /\ seen' = [seen EXCEPT ![r] = word[rseg[r]]]
      BY <2>5 DEF LoadWord, RGoto, history
    <3>2. ~Sleeping' /\ rpc' \in [Readers -> GroupPcs]
      BY <1>1, <2>3, <3>1 DEF Sleeping, GroupPcs, WaitingPc
    <3>3. CursorsOK'
      BY <1>1, <1>0, <3>1 DEF CursorsOK, fileVars
    <3>4. \A q \in Readers : seen'[q] <= word[rseq'[q]]
      BY <1>1, <1>0, <3>1 DEF CursorsOK
    <3>5. \A q \in Readers : rpc'[q] = "word" => rseg'[q] = rseq'[q]
      BY <1>1, <3>1
    <3>6. \A q \in Readers : rpc'[q] = "check" =>
            /\ rpc[q] = "check" /\ rseg'[q] = rseg[q] /\ rpos'[q] = rpos[q]
            /\ rseq'[q] = rseq[q] /\ seen'[q] = seen[q]
      BY <1>1, <3>1
    <3>7. QED
      BY <1>1, <3>1, <3>2, <3>3, <3>4, <3>5, <3>6, AwakeStep
  <2>6. QED
    BY <2>1, <2>2, <2>4, <2>5
<1>3. CASE FoundNext
  <2>1. /\ UNCHANGED <<fileVars, writerVars, rseg, rpos, rseq, seen, lost, unbumped>>
        /\ \E x \in Readers, pc \in {"ready", "distrust"} :
             rpc' = [q \in Readers |-> IF q # x THEN "out" ELSE pc]
    BY <1>1, <1>3 DEF FoundNext, history
  <2>2. ~Sleeping' /\ rpc' \in [Readers -> GroupPcs]
    BY <2>1 DEF Sleeping, GroupPcs, WaitingPc
  <2>3. \A q \in Readers : rpc'[q] \notin {"word", "check"}
    BY <2>1
  <2>4. QED
    BY <1>1, <2>1, <2>2, <2>3, AwakeStep DEF CursorsOK, fileVars
<1>4. CASE PollNext
  <2>1. PICK i \in DOMAIN Group : PollTurn(i) /\ (PollRoll(Group[i]) \/ PollEmpty(Group[i]))
    BY <1>4 DEF PollNext
  <2>2. PICK r \in Readers : r = Group[i]
    BY <1>1
  <2>3. ~Sleeping
    <3>1. rpc[Group[i]] \in {"poll", "repoll"}
      BY <2>1 DEF PollRoll, PollEmpty
    <3>2. QED
      BY <2>1, <3>1, TurnAwake DEF PollTurn
  <2>4. CASE PollRoll(r)
    <3>1. /\ UNCHANGED <<fileVars, writerVars, rpc, rseq, seen, lost, unbumped>>
          /\ rpc[r] \in {"poll", "repoll"} /\ rolled[rseg[r]]
          /\ rseg' = [rseg EXCEPT ![r] = rseg[r] + 1] /\ rpos' = [rpos EXCEPT ![r] = 0]
      BY <2>4 DEF PollRoll
    <3>3. CursorsOK'
      BY <3>1, RollCursors DEF GroupInv, Looking
    <3>4. \A q \in Readers : rpc'[q] \in {"word", "check"} =>
            rpc[q] = rpc'[q] /\ rseg'[q] = rseg[q] /\ rpos'[q] = rpos[q]
      BY <1>1, <3>1 DEF CursorsOK
    <3>5. ~Sleeping'
      BY <2>3, <3>1 DEF Sleeping
    <3>6. QED
      BY <1>1, <3>1, <3>3, <3>4, <3>5, AwakeStep
  <2>5. CASE PollEmpty(r)
    <3>1. /\ UNCHANGED <<fileVars, writerVars, rseg, rpos, rseq, seen, lost, unbumped>> /\ ~AtCursor(r)
      BY <2>5 DEF PollEmpty, history
    <3>2. PICK pc \in {"check", "flag"} : rpc' = [rpc EXCEPT ![r] = pc]
      BY <2>5 DEF PollEmpty
    <3>3. ~Sleeping' /\ rpc' \in [Readers -> GroupPcs]
      BY <1>1, <2>3, <3>2 DEF Sleeping, GroupPcs, WaitingPc
    <3>4. ~AtCursor(r)'
      BY <3>1 DEF AtCursor, HasRecord, fileVars
    <3>5. \A q \in Readers : q # r => rpc'[q] = rpc[q]
      BY <1>1, <3>2
    <3>6. rpc'[r] # "word"
      BY <1>1, <3>2
    <3>7. QED
      BY <1>1, <3>1, <3>3, <3>4, <3>5, <3>6, AwakeStep DEF CursorsOK, fileVars
  <2>6. QED
    BY <2>1, <2>2, <2>4, <2>5
<1>5. CASE Returned
  <2>1. PICK r \in Readers : Distrust(r) \/ TryRead(r)
    BY <1>5 DEF Returned
  <2>2. /\ UNCHANGED <<fileVars, writerVars, rseg, rseq, seen, lost, unbumped>>
        /\ rpc[r] \in {"distrust", "ready"}
        /\ \E pc \in {"ready", "out"} : rpc' = [rpc EXCEPT ![r] = pc]
        /\ rpos' = rpos \/ rpos' = [rpos EXCEPT ![r] = rpos[r] + 1]
    BY <2>1 DEF Distrust, TryRead, RGoto, history
  <2>3. ~Sleeping
    BY <2>2 DEF GroupInv, SleepShape
  <2>4. ~Sleeping' /\ rpc' \in [Readers -> GroupPcs]
    BY <1>1, <2>2, <2>3 DEF Sleeping, GroupPcs, WaitingPc
  <2>5. CursorsOK'
    BY <1>1, <2>2 DEF CursorsOK, fileVars
  <2>6. \A q \in Readers : rpc'[q] \in {"word", "check"} => rpc[q] = rpc'[q] /\ rpos'[q] = rpos[q]
    BY <1>1, <2>2 DEF CursorsOK
  <2>7. QED
    BY <1>1, <2>2, <2>4, <2>5, <2>6, AwakeStep
<1>6. QED
  BY <1>2, <1>3, <1>4, <1>5

\* futex_waitv: for the cap, every word was loaded before the look and has not moved; any other
\* sleep is for the backoff.
LEMMA SleepGroup ==
  ASSUME GroupInv, FutexWaitv \/ SleepBackoff
  PROVE  GroupInv'
<1>1. /\ UNCHANGED <<fileVars, writerVars, rseg, rpos, rseq, seen, lost, unbumped>>
      /\ \A q \in Readers : rpc[q] = "check"
  BY DEF FutexWaitv, SleepBackoff, AllTo, All, history
<1>2. /\ rpc' \in [Readers -> {"flag", "asleep", "nap"}]
      /\ \A q \in Readers : rpc'[q] = "asleep" => q \in Words
  BY DEF FutexWaitv, SleepBackoff, AllTo
<1>3. FilesOK' /\ CursorsOK' /\ rpc' \in [Readers -> GroupPcs]
  BY <1>1, <1>2 DEF GroupInv, Looking, CursorsOK, FilesOK, FilesType, Owned, RollsPublished,
                    fileVars, writerVars, GroupPcs, WaitingPc
<1>4. ASSUME NEW q \in Readers PROVE Sound(q)'
  <2>1. SeenBehind(q)'
    BY <1>1 DEF GroupInv, Looking, Sound, SeenBehind, fileVars
  <2>2. OwnWord(q)' /\ CheckSound(q)'
    BY <1>1, <1>2 DEF OwnWord, CheckSound, Words
  <2> QED
    BY <2>1, <2>2 DEF Sound
<1>6. SleepShape'
  <2>1. ASSUME nap' = "cap", NEW q \in Readers PROVE rpc'[q] # "nap"
    BY <2>1 DEF FutexWaitv, SleepBackoff, Nap
  <2>2. QED
    BY <1>2, <2>1 DEF SleepShape
<1>7. GroupNoLostWake'
  <2>1. SUFFICES ASSUME NEW q \in Readers, Sleeping', nap' = "cap", AtCursor(q)',
                        ~\E x \in Readers : rpc'[x] = "flag"
                 PROVE  lost'[rseg'[q]] \/ BumpDue(rseg[q])'
    BY <1>1 DEF GroupNoLostWake, BumpDue
  <2>2. FutexWaitv /\ Words = Readers
    BY <2>1 DEF FutexWaitv, SleepBackoff, Nap
  <2>3. word[rseg[q]] = seen[q] /\ rseg[q] = rseq[q]
    BY <2>1, <2>2 DEF FutexWaitv, Words
  <2>4. AtCursor(q)
    BY <1>1, <2>1 DEF AtCursor, HasRecord, fileVars
  <2>5. lost[rseg[q]] \/ BumpDue(rseg[q])
    BY <1>1, <2>3, <2>4 DEF GroupInv, Looking, Sound, CheckSound, Unmoved
  <2>6. QED
    BY <1>1, <2>5 DEF BumpDue, writerVars
<1>8. QED
  BY <1>3, <1>4, <1>6, <1>7 DEF GroupInv, Looking

-----------------------------------------------------------------------------

\* What is known of the words a group is about to sleep on holds throughout.
THEOREM GroupInvariant == AnySpec => []GroupInv
<1>1. GroupInv /\ [AnyNext]_anyVars => GroupInv'
  <2>1. SUFFICES ASSUME GroupInv, [AnyNext]_anyVars PROVE GroupInv'
    OBVIOUS
  <2>2. CASE UNCHANGED anyVars
    BY <2>1, <2>2 DEF anyVars, vars, fileVars, writerVars, readerVars, history, GroupInv, Looking,
       FilesOK, FilesType, Owned, RollsPublished, CursorsOK, Sound, SeenBehind, OwnWord,
       CheckSound, Unmoved, SleepShape, Sleeping, GroupNoLostWake, AtCursor, HasRecord, BumpDue,
       WakeDue
  <2>3. CASE WriterNext
    BY <2>1, <2>3, WriterGroup
  <2>4. CASE LoadNext \/ FoundNext \/ PollNext \/ Returned
    BY <2>1, <2>4, LookGroup
  <2>5. CASE FutexWaitv \/ SleepBackoff
    BY <2>1, <2>5, SleepGroup
  <2>6. CASE WaitAny \/ DeadlinePassedAny \/ InterruptedAny \/ WokenAny \/ SleepAnyRunsOut
    <3>1. \E pc \in {"flag", "out", "repoll"} : AllTo(pc)
      BY <2>6 DEF WaitAny, DeadlinePassedAny, InterruptedAny, WokenAny, SleepAnyRunsOut
    <3>2. QED
      BY <2>1, <3>1, AllToGroup
  <2>7. QED
    BY <2>1, <2>2, <2>3, <2>4, <2>5, <2>6 DEF AnyNext, WaitAnyStep
<1>2. QED
  BY <1>1, GroupInit, PTL DEF AnySpec

\* While wait_any sleeps for WAKE_SLEEP_CAP, a reader of the group with a record or a Roll at its
\* cursor has a wake still to come, unless its writer does not wake or died first.
THEOREM GroupWakesNotLost == AnySpec => []GroupNoLostWake
<1>1. GroupInv => GroupNoLostWake
  BY DEF GroupInv
<1>2. QED
  BY <1>1, GroupInvariant, PTL
=============================================================================
