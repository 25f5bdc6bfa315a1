------------------------- MODULE PrefaultRoll_proofs -------------------------
(***************************************************************************)
(* Proofs about PrefaultRoll, for every keep_files, queue bound and number *)
(* of segments: retention and the helper's installation ahead of the roll  *)
(* never bring back a removed segment, never replace or delete the one     *)
(* being written, and leave exactly the files to keep.                     *)
(***************************************************************************)
EXTENDS PrefaultRoll, SequenceTheorems, FiniteSetTheorems, TLAPS

-----------------------------------------------------------------------------
(* The inductive invariant *)

RollPc == {"take", "lock", "prepare", "install", "adopt", "publish"}
PrunePc == {"prune", "unlink", "release"}
WriterPc == {"idle", "follow", "join", "closed"} \cup RollPc \cup PrunePc
AheadPc == {"check", "parent", "announce", "claimed", "install", "retract", "hand", "handing"}
HelperPc == {"top", "delete", "header", "near", "handed", "failing", "exited"} \cup AheadPc

WriterType ==
  [pc : WriterPc, seq : Seqs, by : Makers, new : Makers, worker : BOOLEAN,
   pruning : Seq(Seqs), deferred : Seq(Seqs)]
ReadyType == {Nothing} \cup [seq : Seqs, by : Makers, parent : Makers]
HandoffType == {Nothing} \cup [seq : Seqs, by : Makers]
SharedType ==
  [claimed : Seqs, ready : ReadyType, readySeq : Seqs \cup {None}, inFlight : Seqs \cup {None},
   refused : Seqs \cup {None}, doomed : Seq(Seqs), segment : [seq : Seqs, by : Makers],
   handoff : HandoffType, curSeq : Seqs, stop : BOOLEAN, stopped : BOOLEAN]
HelperType ==
  [pc : HelperPc, seq : Seqs, header : Seqs \cup {None}, parent : Makers,
   res : {"none", "ok", "err"}, deleting : Seq(Seqs)]

\* Every variable has the shape the code gives it.
TypeOK ==
  /\ dir \in [Seqs -> Files \cup {NoFile}]
  /\ w \in WriterType /\ shared \in SharedType /\ h \in HelperType
  /\ removed \subseteq Seqs

\* What retention has given up so far, deleted or on its way; and what it has still to look at.
Dropped == removed \cup ToSet(shared.doomed) \cup ToSet(h.deleting)
Waiting == ToSet(w.pruning) \cup ToSet(w.deferred)

\* The roll retention has been started for.
Pruned == IF w.pc = "follow" THEN w.seq - 1 ELSE w.seq

\* Retention gives up the segments behind the last Keep ones, and those only.
RetentionOK ==
  /\ \A s \in Seqs : s \in Dropped \cup Waiting <=> s + Keep <= Pruned
  /\ w.pc \notin PrunePc => w.pruning = <<>>
  /\ w.pc = "unlink" => w.pruning # <<>>
  /\ h.pc # "delete" => h.deleting = <<>>
  /\ w.pc = "closed" => h.pc = "exited" /\ shared.doomed = <<>> /\ w.deferred = <<>>

\* The writer claims a sequence before it rolls to it; the helper announces a sequence before
\* it looks at the claim, and what it then installs retention has not given up.
AnnounceOK ==
  /\ shared.claimed \in {w.seq, next}
  /\ w.pc \in RollPc => shared.claimed = next /\ next \in Seqs
  /\ h.pc \in AheadPc => ahead \in Seqs
  /\ shared.inFlight =
       IF h.pc \in {"claimed", "install", "retract"} THEN ahead ELSE None
  /\ h.pc = "install" =>
       /\ ahead \notin Dropped
       /\ ~(w.pc = "unlink" /\ Head(w.pruning) = ahead)
  /\ shared.stopped => h.pc = "exited"

\* What the helper knows of the writer's segment is of that segment or of an earlier one.
SeenOK ==
  /\ h.seq <= shared.curSeq /\ shared.curSeq <= w.seq
  /\ w.pc # "follow" => shared.curSeq = w.seq
  /\ shared.segment.seq <= w.seq /\ (shared.segment.seq = w.seq => shared.segment.by = w.by)
  /\ shared.handoff.seq <= w.seq /\ (shared.handoff.seq = w.seq => shared.handoff.by = w.by)
  /\ shared.ready.seq <= next
  /\ h.pc \in AheadPc \ {"check", "parent"} /\ h.seq = w.seq => h.parent = w.by

\* The file s is a successor `by` made, of the segment being written, not published.
IsSuccessor(s, by) == OnDisk(s) /\ ~dir[s].pub /\ dir[s].parent = w.by /\ dir[s].by = by

\* A removed name stays removed; a segment up to the writer's is published until then; past it
\* there is at most its successor.
FilesOK ==
  /\ \A s \in removed : ~OnDisk(s)
  /\ \A s \in Seqs : s <= w.seq /\ s \notin removed => Published(s)
  /\ \A s \in Seqs : s > w.seq /\ OnDisk(s) => s = next /\ ~dir[s].pub /\ dir[s].parent = w.by
  /\ dir[w.seq].by = w.by
  /\ w.pc = "adopt" => OnDisk(next)
  /\ w.pc = "publish" => OnDisk(next) /\ dir[next].by = w.new
  /\ shared.ready.seq = next =>
       IsSuccessor(next, shared.ready.by) /\ shared.ready.parent = w.by
  /\ h.pc \in {"hand", "handing"} \/ (h.pc = "retract" /\ h.res = "ok") =>
       (ahead = next => IsSuccessor(next, "h"))

\* At most one segment is put off: the helper looks where the writer is before it announces
\* again.
QueuesOK ==
  /\ Len(shared.doomed) <= DoomedQueue /\ Len(h.deleting) <= DoomedQueue
  /\ Len(w.deferred) <= 1 /\ Len(w.deferred) + Len(w.pruning) <= 2
  /\ Len(w.pruning) = 2 => w.pruning[1] # w.pruning[2]
  /\ w.deferred # <<>> /\ w.pc \in PrunePc =>
       /\ shared.inFlight \notin ToSet(w.pruning)
       /\ h.pc \in {"header", "near", "check", "parent", "announce"} => h.seq = w.seq

IInv == TypeOK /\ RetentionOK /\ AnnounceOK /\ SeenOK /\ FilesOK /\ QueuesOK

-----------------------------------------------------------------------------
(* Queues as sets *)

\* What the operations on a queue do to the set of its elements.
LEMMA QueueFacts ==
  ASSUME NEW S, NEW s \in Seq(S)
  PROVE  /\ ToSet(s) \subseteq S /\ (s = <<>> => ToSet(s) = {}) /\ Len(s) \in Nat
         /\ (s = <<>> <=> Len(s) = 0)
         /\ \A x \in S : /\ Append(s, x) \in Seq(S) /\ Len(Append(s, x)) = Len(s) + 1
                         /\ ToSet(Append(s, x)) = ToSet(s) \cup {x}
         /\ s # <<>> => /\ Head(s) \in S /\ Tail(s) \in Seq(S) /\ Len(Tail(s)) = Len(s) - 1
                        /\ ToSet(s) = ToSet(Tail(s)) \cup {Head(s)}
         /\ \A x \in S : /\ s \o <<x>> = Append(s, x)
                         /\ s \o <<>> = s
<1>1. ToSet(s) \subseteq S /\ (s = <<>> => ToSet(s) = {}) /\ Len(s) \in Nat /\ (s = <<>> <=> Len(s) = 0)
  BY DEF ToSet
<1>2. ASSUME NEW x \in S
      PROVE  /\ Append(s, x) \in Seq(S) /\ Len(Append(s, x)) = Len(s) + 1
             /\ ToSet(Append(s, x)) = ToSet(s) \cup {x}
  <2> DEFINE a == Append(s, x)
  <2>1. /\ a \in Seq(S) /\ Len(a) = Len(s) + 1 /\ a[Len(s) + 1] = x
        /\ \A i \in 1..Len(s) : a[i] = s[i]
    BY <1>1
  <2>2. DOMAIN a = 1..Len(s) + 1 /\ DOMAIN s = 1..Len(s)
    BY <2>1
  <2> HIDE DEF a
  <2>3. \A i \in 1..Len(s) + 1 : i \in 1..Len(s) \/ i = Len(s) + 1
    BY <1>1
  <2>4. ToSet(a) \subseteq ToSet(s) \cup {x}
    BY <2>1, <2>2, <2>3 DEF ToSet
  <2>5. \A i \in DOMAIN s : s[i] \in ToSet(a)
    BY <1>1, <2>1, <2>2 DEF ToSet
  <2>6. x \in ToSet(a)
    BY <1>1, <2>1, <2>2 DEF ToSet
  <2>7. ToSet(s) \subseteq ToSet(a)
    BY <2>5 DEF ToSet
  <2>8. QED
    BY <2>1, <2>4, <2>6, <2>7 DEF a
<1>3. ASSUME s # <<>>
      PROVE  /\ Head(s) \in S /\ Tail(s) \in Seq(S) /\ Len(Tail(s)) = Len(s) - 1
             /\ ToSet(s) = ToSet(Tail(s)) \cup {Head(s)}
  <2>1. Head(s) \in S /\ Tail(s) \in Seq(S) /\ Len(Tail(s)) = Len(s) - 1
    BY <1>3
  <2>2. \A i \in 1..Len(s) : i = 1 \/ i - 1 \in 1..Len(Tail(s))
    BY <1>1, <2>1
  <2>3. \A i \in 1..Len(Tail(s)) : Tail(s)[i] = s[i + 1] /\ i + 1 \in 1..Len(s)
    BY <1>1, <1>3, <2>1
  <2>4. DOMAIN s = 1..Len(s) /\ DOMAIN Tail(s) = 1..Len(Tail(s)) /\ Head(s) = s[1]
    BY <1>3, <2>1
  <2>5. \A i \in DOMAIN s : s[i] \in ToSet(Tail(s)) \cup {Head(s)}
    <3>1. ASSUME NEW i \in DOMAIN s, i # 1
          PROVE  s[i] \in ToSet(Tail(s))
      <4>1. i \in Nat /\ i - 1 \in 1..Len(Tail(s)) /\ (i - 1) + 1 = i
        BY <1>1, <2>2, <2>4, <3>1
      <4>2. s[i] = Tail(s)[i - 1]
        BY <2>3, <4>1
      <4>3. QED
        BY <2>4, <4>1, <4>2 DEF ToSet
    <3>2. QED
      BY <2>4, <3>1
  <2>6. \A i \in DOMAIN Tail(s) : Tail(s)[i] \in ToSet(s)
    BY <2>3, <2>4 DEF ToSet
  <2>7. Head(s) \in ToSet(s)
    BY <1>1, <1>3, <2>4 DEF ToSet
  <2>8. ToSet(s) \subseteq ToSet(Tail(s)) \cup {Head(s)} /\ ToSet(Tail(s)) \subseteq ToSet(s)
    BY <2>5, <2>6 DEF ToSet
  <2>9. QED
    BY <2>1, <2>7, <2>8
<1>4. \A x \in S : s \o <<x>> = Append(s, x) /\ s \o <<>> = s
  OBVIOUS
<1>5. QED
  BY <1>1, <1>2, <1>3, <1>4

-----------------------------------------------------------------------------
(* Steps of the helper *)

\* The parts of the invariant that say what the helper's place means.
HelperOK ==
  /\ h.pc # "delete" => h.deleting = <<>>
  /\ w.pc = "closed" => h.pc = "exited"
  /\ h.pc \in AheadPc => ahead \in Seqs
  /\ shared.inFlight = IF h.pc \in {"claimed", "install", "retract"} THEN ahead ELSE None
  /\ h.pc = "install" => /\ ahead \notin Dropped
                         /\ ~(w.pc = "unlink" /\ Head(w.pruning) = ahead)
  /\ shared.stopped => h.pc = "exited"
  /\ h.pc \in AheadPc \ {"check", "parent"} /\ h.seq = w.seq => h.parent = w.by
  /\ h.pc \in {"hand", "handing"} \/ (h.pc = "retract" /\ h.res = "ok") =>
       (ahead = next => IsSuccessor(next, "h"))
  /\ w.deferred # <<>> /\ w.pc \in PrunePc =>
       /\ shared.inFlight \notin ToSet(w.pruning)
       /\ h.pc \in {"header", "near", "check", "parent", "announce"} => h.seq = w.seq

\* A step of the helper that leaves the directory, the queues and what it saw of the writer
\* alone need only keep those.
LEMMA HelperFrame ==
  ASSUME IInv, UNCHANGED <<dir, w, removed>>,
         h' \in HelperType, h'.seq = h.seq, h'.deleting = h.deleting,
         shared' \in SharedType, shared'.claimed = shared.claimed, shared'.doomed = shared.doomed,
         shared'.segment = shared.segment, shared'.handoff = shared.handoff,
         shared'.curSeq = shared.curSeq, shared'.ready \in {shared.ready, Nothing},
         HelperOK'
  PROVE  IInv'
<1>1. TypeOK'
  BY DEF IInv, TypeOK
<1>2. next' = next /\ ahead' = ahead /\ Dropped' = Dropped /\ Waiting' = Waiting /\ Pruned' = Pruned
  BY DEF next, ahead, Dropped, Waiting, Pruned
<1>3. RetentionOK'
  BY <1>2 DEF IInv, RetentionOK, HelperOK
<1>4. AnnounceOK'
  BY <1>2 DEF IInv, AnnounceOK, HelperOK
<1>5. Nothing.seq # next /\ Nothing.seq <= next
  BY PrefaultAssumption DEF IInv, TypeOK, WriterType, Seqs, Nothing, None, next
<1>6. SeenOK'
  BY <1>2, <1>5 DEF IInv, SeenOK, HelperOK
<1>7. FilesOK'
  BY <1>2, <1>5 DEF IInv, FilesOK, HelperOK, IsSuccessor, OnDisk, Published
<1>8. QueuesOK'
  BY DEF IInv, QueuesOK, HelperOK
<1>9. QED
  BY <1>1, <1>3, <1>4, <1>6, <1>7, <1>8 DEF IInv

\* What the invariant says of the helper where it is.
LEMMA HelperHolds ==
  ASSUME IInv
  PROVE  /\ HelperOK /\ TypeOK
         /\ h \in HelperType /\ shared \in SharedType /\ w \in WriterType
         /\ h.seq \in Nat /\ ahead \in Nat /\ w.seq \in Nat /\ next \in Nat /\ MaxSeq \in Nat
<1>1. HelperOK
  BY DEF IInv, HelperOK, RetentionOK, AnnounceOK, SeenOK, FilesOK, QueuesOK
<1>2. TypeOK /\ h \in HelperType /\ shared \in SharedType /\ w \in WriterType
  BY DEF IInv, TypeOK
<1>3. MaxSeq \in Nat
  BY PrefaultAssumption
<1>4. h.seq \in Seqs /\ w.seq \in Seqs
  BY <1>2 DEF HelperType, WriterType
<1>5. h.seq \in Nat /\ ahead \in Nat /\ w.seq \in Nat /\ next \in Nat
  BY <1>3, <1>4 DEF Seqs, ahead, next
<1>6. QED
  BY <1>1, <1>2, <1>3, <1>5

\* Stages at which nothing is announced.
LEMMA HelperLooks ==
  ASSUME IInv,
         \/ MapHeader \/ MapFails \/ FarFromRoll \/ NearRoll \/ CheckReady \/ ReadParent
         \/ CheckPassed \/ Handed
  PROVE  IInv'
<1> DEFINE quiet == HelperPc \ {"delete", "claimed", "install", "retract"}
<1>1. HelperOK /\ h \in HelperType /\ shared \in SharedType
  BY HelperHolds
<1>2. /\ UNCHANGED <<dir, w, removed>>
      /\ h' \in HelperType /\ h'.seq = h.seq /\ h'.deleting = h.deleting
      /\ h.pc \in quiet \ {"exited"} /\ h'.pc \in quiet \ {"exited"}
  <2>1. CASE MapHeader
    <3>1. PICK p \in {"near", "top"}, hd \in Seqs \cup {None} : h' = [h EXCEPT !.pc = p, !.header = hd]
      BY <1>1, <2>1 DEF MapHeader, HelperType
    <3>2. QED
      BY <1>1, <2>1, <3>1 DEF MapHeader, HelperPc, AheadPc, HelperType
  <2>2. CASE ReadParent
    <3>1. CASE h' = [h EXCEPT !.pc = "announce", !.parent = shared.segment.by]
      BY <1>1, <2>2, <3>1 DEF ReadParent, HelperPc, AheadPc, HelperType, SharedType
    <3>2. CASE h' = [h EXCEPT !.pc = "top"]
      BY <1>1, <2>2, <3>2 DEF ReadParent, HelperPc, AheadPc, HelperType
    <3>3. QED
      BY <2>2, <3>1, <3>2 DEF ReadParent
  <2>3. CASE MapFails \/ FarFromRoll \/ NearRoll \/ CheckReady \/ CheckPassed \/ Handed
    <3>1. PICK p \in {"failing", "top", "check", "parent", "handing"} : h' = [h EXCEPT !.pc = p]
      BY <2>3 DEF MapFails, FarFromRoll, NearRoll, CheckReady, CheckPassed, Handed
    <3>2. UNCHANGED <<dir, w, removed>> /\ h.pc \in quiet \ {"exited"}
      BY <2>3 DEF MapFails, FarFromRoll, NearRoll, CheckReady, CheckPassed, Handed, HelperPc, AheadPc
    <3>3. QED
      BY <1>1, <3>1, <3>2 DEF HelperPc, AheadPc, HelperType
  <2>4. QED
    BY <2>1, <2>2, <2>3
<1>3. /\ shared' \in SharedType /\ shared'.claimed = shared.claimed
      /\ shared'.doomed = shared.doomed /\ shared'.segment = shared.segment
      /\ shared'.handoff = shared.handoff /\ shared'.curSeq = shared.curSeq
      /\ shared'.ready \in {shared.ready, Nothing} /\ shared'.inFlight = shared.inFlight
      /\ shared'.stopped = shared.stopped
  <2>1. shared' = shared \/ shared' = [shared EXCEPT !.ready = Nothing, !.readySeq = None]
    BY DEF MapHeader, MapFails, FarFromRoll, NearRoll, CheckReady, ReadParent, CheckPassed, Handed
  <2>2. QED
    BY <1>1, <2>1 DEF SharedType, ReadyType
<1>4. h'.pc \in AheadPc => ahead \in Seqs
  <2>1. CASE NearRoll
    BY <2>1, HelperHolds DEF NearRoll, Seqs
  <2>2. CASE ~NearRoll
    <3>1. h'.pc \in AheadPc => h.pc \in AheadPc
      BY <1>1, <2>2 DEF MapHeader, MapFails, FarFromRoll, CheckReady, ReadParent, CheckPassed,
                        Handed, HelperType, AheadPc
    <3>2. QED
      BY <1>1, <3>1 DEF HelperOK
  <2>3. QED
    BY <2>1, <2>2
<1>5. h'.pc \in AheadPc \ {"check", "parent"} /\ h.seq = w.seq => h'.parent = w.by
  <2>1. CASE ReadParent
    <3>1. h'.pc = "announce" => shared.segment.seq = h.seq /\ h'.parent = shared.segment.by
      BY <1>1, <2>1, HelperHolds DEF ReadParent, HelperType, ahead, SharedType, Seqs
    <3>2. QED
      BY <1>1, <2>1, <3>1 DEF ReadParent, HelperType, AheadPc, IInv, SeenOK
  <2>2. CASE ~ReadParent
    BY <1>1, <2>2 DEF MapHeader, MapFails, FarFromRoll, NearRoll, CheckReady, CheckPassed,
              Handed, HelperOK, HelperType, AheadPc
  <2>3. QED
    BY <2>1, <2>2
<1>6. h'.pc \in {"hand", "handing"} => h.pc \in {"hand", "handing"}
  BY <1>1 DEF MapHeader, MapFails, FarFromRoll, NearRoll, CheckReady, ReadParent, CheckPassed,
              Handed, HelperType
<1>7. h'.pc \in {"header", "near", "check", "parent", "announce"} =>
        h.pc \in {"header", "near", "check", "parent", "announce"}
  BY <1>1 DEF MapHeader, MapFails, FarFromRoll, NearRoll, CheckReady, ReadParent, CheckPassed,
              Handed, HelperType
<1>8. HelperOK'
  <2>1. next' = next /\ ahead' = ahead
    BY <1>2 DEF next, ahead
  <2>2. IsSuccessor(next, "h")' <=> IsSuccessor(next, "h")
    BY <1>2, <2>1 DEF IsSuccessor, OnDisk
  <2>3. QED
    BY <1>1, <1>2, <1>3, <1>4, <1>5, <1>6, <1>7, <2>1, <2>2 DEF HelperOK
<1>9. QED
  BY <1>2, <1>3, <1>8, HelperFrame

\* The announcement names the segment after the one the helper saw; what the writer has put off
\* is behind that.
LEMMA AnnounceStep ==
  ASSUME IInv, Announce
  PROVE  IInv'
<1>1. /\ HelperOK /\ TypeOK /\ h \in HelperType /\ shared \in SharedType /\ ahead \in Seqs
      /\ w \in WriterType
  BY HelperHolds DEF Announce, HelperOK, AheadPc
<1>2. /\ UNCHANGED <<dir, w, removed>> /\ h' \in HelperType /\ h'.seq = h.seq
      /\ h'.deleting = h.deleting /\ h'.pc = "claimed" /\ h'.parent = h.parent /\ h.pc = "announce"
  BY <1>1 DEF Announce, HelperType, HelperPc, AheadPc
<1>3. /\ shared' \in SharedType /\ shared'.claimed = shared.claimed
      /\ shared'.doomed = shared.doomed /\ shared'.segment = shared.segment
      /\ shared'.handoff = shared.handoff /\ shared'.curSeq = shared.curSeq
      /\ shared'.ready = shared.ready /\ shared'.inFlight = ahead
      /\ shared'.stopped = shared.stopped
  BY <1>1 DEF Announce, SharedType
<1>4. ASSUME w.deferred # <<>>, w.pc \in PrunePc
      PROVE  ahead \notin ToSet(w.pruning)
  <2>1. h.seq = w.seq /\ ahead = w.seq + 1 /\ w.seq \in Nat
    BY <1>1, <1>2, <1>4, HelperHolds DEF HelperOK, ahead
  <2>2. Pruned = w.seq
    BY <1>4 DEF Pruned, PrunePc
  <2>3. ~(ahead + Keep <= Pruned)
    BY <2>1, <2>2, PrefaultAssumption
  <2>4. QED
    BY <1>1, <2>3 DEF IInv, RetentionOK, Waiting
<1>5. HelperOK'
  <2>1. next' = next /\ ahead' = ahead
    BY <1>2 DEF next, ahead
  <2>2. QED
    BY <1>1, <1>2, <1>3, <1>4, <2>1 DEF HelperOK, AheadPc
<1>6. QED
  BY <1>2, <1>3, <1>5, HelperFrame

\* A segment the writer has not claimed is past all that retention has given up.
LEMMA CheckClaimedStep ==
  ASSUME IInv, CheckClaimed
  PROVE  IInv'
<1>1. /\ HelperOK /\ TypeOK /\ h \in HelperType /\ shared \in SharedType /\ ahead \in Seqs
      /\ w \in WriterType /\ w.seq \in Nat /\ ahead \in Nat /\ next \in Nat
  BY HelperHolds DEF CheckClaimed, HelperOK, AheadPc
<1>2. /\ UNCHANGED <<dir, w, removed, shared>> /\ h' \in HelperType /\ h'.seq = h.seq
      /\ h'.deleting = h.deleting /\ h'.pc \in {"retract", "install"} /\ h'.parent = h.parent
      /\ h.pc = "claimed" /\ (h'.pc = "retract" => h'.res = "none")
      /\ h'.pc = "install" => ~(shared.claimed >= ahead)
  <2>1. CASE shared.claimed >= ahead
    BY <1>1, <2>1 DEF CheckClaimed, HelperType, HelperPc, AheadPc
  <2>2. CASE ~(shared.claimed >= ahead)
    BY <1>1, <2>2 DEF CheckClaimed, HelperType, HelperPc, AheadPc
  <2>3. QED
    BY <2>1, <2>2
<1>3. ASSUME h'.pc = "install"
      PROVE  ahead \notin Dropped /\ ~(w.pc = "unlink" /\ Head(w.pruning) = ahead)
  <2>1. ahead > w.seq
    BY <1>1, <1>2, <1>3 DEF IInv, AnnounceOK, next
  <2>2. ~(ahead + Keep <= Pruned)
    BY <1>1, <2>1, PrefaultAssumption DEF Pruned
  <2>3. ahead \notin Dropped \cup Waiting
    BY <1>1, <2>2 DEF IInv, RetentionOK
  <2>4. w.pc = "unlink" => Head(w.pruning) \in Waiting
    <3>1. w.pc = "unlink" => w.pruning # <<>> /\ w.pruning \in Seq(Seqs)
      BY <1>1 DEF IInv, RetentionOK, WriterType
    <3>2. QED
      BY <3>1, QueueFacts DEF Waiting
  <2>5. QED
    BY <2>3, <2>4
<1>4. HelperOK'
  <2>1. next' = next /\ ahead' = ahead /\ Dropped' = Dropped
    BY <1>2 DEF next, ahead, Dropped
  <2>2. QED
    BY <1>1, <1>2, <1>3, <2>1 DEF HelperOK, AheadPc
<1>5. QED
  BY <1>1, <1>2, <1>4, HelperFrame

\* A refusal, the end of an announcement, and the end of the thread.
LEMMA RetractSteps ==
  ASSUME IInv, Refuse \/ Retract \/ Fail
  PROVE  IInv'
<1>1. /\ HelperOK /\ TypeOK /\ h \in HelperType /\ shared \in SharedType /\ w \in WriterType
  BY HelperHolds
<1>2. /\ UNCHANGED <<dir, w, removed>> /\ h' \in HelperType /\ h'.seq = h.seq
      /\ h'.deleting = h.deleting /\ h'.parent = h.parent
      /\ Refuse => h.pc = "install" /\ h'.pc = "retract" /\ h'.res = "none"
      /\ Retract => /\ h.pc = "retract" /\ h'.pc \in {"top", "hand", "failing"}
                    /\ h'.pc = "hand" => h.res = "ok"
      /\ Fail => h.pc = "failing" /\ h'.pc = "exited"
  <2>1. CASE Refuse
    BY <1>1, <2>1 DEF Refuse, Retract, Fail, HelperType, HelperPc, AheadPc
  <2>2. CASE Retract
    <3>1. PICK p \in {"top", "hand", "failing"} :
            h' = [h EXCEPT !.pc = p] /\ (p = "hand" => h.res = "ok")
      BY <1>1, <2>2 DEF Retract, HelperType
    <3>2. QED
      BY <1>1, <2>2, <3>1 DEF Retract, Refuse, Fail, HelperType, HelperPc, AheadPc
  <2>3. CASE Fail
    BY <1>1, <2>3 DEF Refuse, Retract, Fail, HelperType, HelperPc, AheadPc
  <2>4. QED
    BY <2>1, <2>2, <2>3
<1>3. /\ shared' \in SharedType /\ shared'.claimed = shared.claimed
      /\ shared'.doomed = shared.doomed /\ shared'.segment = shared.segment
      /\ shared'.handoff = shared.handoff /\ shared'.curSeq = shared.curSeq
      /\ shared'.ready = shared.ready
      /\ Refuse \/ Fail => shared'.inFlight = shared.inFlight
      /\ Retract => shared'.inFlight = None
      /\ Refuse \/ Retract => shared'.stopped = shared.stopped
  <2>1. CASE Refuse
    <3>1. ahead \in Seqs
      BY <1>1, <2>1 DEF Refuse, HelperOK, AheadPc
    <3>2. QED
      BY <1>1, <1>2, <2>1, <3>1 DEF Refuse, Retract, Fail, SharedType
  <2>2. CASE Retract
    BY <1>1, <1>2, <2>2 DEF Retract, SharedType
  <2>3. CASE Fail
    BY <1>1, <1>2, <2>3 DEF Fail, SharedType
  <2>4. QED
    BY <2>1, <2>2, <2>3
<1>4. HelperOK'
  <2>1. next' = next /\ ahead' = ahead /\ Dropped' = Dropped
    BY <1>2, <1>3 DEF next, ahead, Dropped
  <2>2. IsSuccessor(next, "h")' <=> IsSuccessor(next, "h")
    BY <1>2, <2>1 DEF IsSuccessor, OnDisk
  <2>3. None \notin ToSet(w.pruning)
    <3>1. ToSet(w.pruning) \subseteq Seqs
      BY <1>1, QueueFacts DEF WriterType
    <3>2. QED
      BY <3>1 DEF None, Seqs
  <2>4. CASE Refuse
    BY <1>1, <1>2, <1>3, <2>1, <2>4 DEF HelperOK, AheadPc
  <2>5. CASE Retract
    BY <1>1, <1>2, <1>3, <2>1, <2>2, <2>3, <2>5 DEF HelperOK, AheadPc
  <2>6. CASE Fail
    BY <1>1, <1>2, <1>3, <2>1, <2>6 DEF HelperOK, AheadPc
  <2>7. QED
    BY <2>4, <2>5, <2>6
<1>5. QED
  BY <1>2, <1>3, <1>4, HelperFrame

-----------------------------------------------------------------------------
(* Deletion *)

\* The names go from the directory, for good.
Unlinked(names) ==
  /\ dir' \in [Seqs -> Files \cup {NoFile}] /\ removed' = removed \cup names
  /\ \A s \in Seqs : dir'[s] = IF s \in names THEN NoFile ELSE dir[s]

\* delete unlinks; a step that leaves the directory alone unlinks nothing.
LEMMA DeleteUnlinks ==
  ASSUME TypeOK
  PROVE  /\ \A names : Delete(names) => Unlinked(names)
         /\ UNCHANGED <<dir, removed>> => Unlinked({})
<1>1. dir \in [Seqs -> Files \cup {NoFile}]
  BY DEF TypeOK
<1>2. QED
  BY <1>1 DEF Delete, Unlinked

\* Unlinking names retention has given up leaves the writer's segment, and its successor, alone.
LEMMA FilesFrame ==
  ASSUME IInv, NEW names \in SUBSET Seqs, \A s \in names : s + Keep <= w.seq, Unlinked(names),
         w'.seq = w.seq, w'.by = w.by,
         w'.pc = "adopt" => next \in Seqs /\ OnDisk(next),
         w'.pc = "publish" => next \in Seqs /\ OnDisk(next) /\ dir[next].by = w'.new,
         shared'.ready.seq = next =>
           next \in Seqs /\ IsSuccessor(next, shared'.ready.by) /\ shared'.ready.parent = w.by,
         h'.pc \in {"hand", "handing"} \/ (h'.pc = "retract" /\ h'.res = "ok") =>
           (h'.seq + 1 = next => next \in Seqs /\ IsSuccessor(next, "h"))
  PROVE  FilesOK' /\ dir' \in [Seqs -> Files \cup {NoFile}] /\ removed' \subseteq Seqs
<1>1. /\ dir \in [Seqs -> Files \cup {NoFile}] /\ removed \subseteq Seqs /\ w.seq \in Seqs
      /\ w.seq \in Nat /\ next \in Nat /\ FilesOK
  <2>1. TypeOK /\ w.seq \in Nat /\ next \in Nat /\ FilesOK
    BY HelperHolds DEF IInv
  <2>2. QED
    BY <2>1 DEF TypeOK, WriterType
<1>2. /\ dir' \in [Seqs -> Files \cup {NoFile}] /\ removed' = removed \cup names
      /\ \A s \in Seqs : dir'[s] = IF s \in names THEN NoFile ELSE dir[s]
  BY DEF Unlinked
<1>3. \A s \in Seqs : s >= w.seq => dir'[s] = dir[s]
  BY <1>1, <1>2, PrefaultAssumption DEF Seqs
<1>4. next' = next
  BY DEF next
<1>5. \A s \in removed' : ~OnDisk(s)'
  BY <1>1, <1>2 DEF FilesOK, OnDisk
<1>6. \A s \in Seqs : s <= w'.seq /\ s \notin removed' => Published(s)'
  BY <1>1, <1>2 DEF FilesOK, OnDisk, Published
<1>7. \A s \in Seqs : s > w'.seq /\ OnDisk(s)' =>
        s = next' /\ ~dir'[s].pub /\ dir'[s].parent = w'.by
  <2>1. \A s \in Seqs : s > w.seq => s >= w.seq
    BY <1>1 DEF Seqs
  <2>2. QED
    BY <1>1, <1>3, <1>4, <2>1 DEF FilesOK, OnDisk
<1>8. dir'[w'.seq].by = w'.by
  BY <1>1, <1>3 DEF FilesOK
<1>9. next \in Seqs => dir'[next] = dir[next]
  BY <1>1, <1>3 DEF next
<1>10. /\ w'.pc = "adopt" => OnDisk(next)'
       /\ w'.pc = "publish" => OnDisk(next)' /\ dir'[next'].by = w'.new
  BY <1>4, <1>9 DEF OnDisk
<1>11. shared'.ready.seq = next' =>
         IsSuccessor(next, shared.ready.by)' /\ shared'.ready.parent = w'.by
  BY <1>4, <1>9 DEF OnDisk, IsSuccessor
<1>12. h'.pc \in {"hand", "handing"} \/ (h'.pc = "retract" /\ h'.res = "ok") =>
         (ahead' = next' => IsSuccessor(next, "h")')
  BY <1>4, <1>9 DEF OnDisk, IsSuccessor, ahead
<1>13. QED
  BY <1>1, <1>2, <1>5, <1>6, <1>7, <1>8, <1>10, <1>11, <1>12 DEF FilesOK

\* What the invariant says of the successor, in the terms FilesFrame asks for.
LEMMA SuccessorFacts ==
  ASSUME IInv
  PROVE  /\ w.pc = "adopt" => next \in Seqs /\ OnDisk(next)
         /\ w.pc = "publish" => next \in Seqs /\ OnDisk(next) /\ dir[next].by = w.new
         /\ shared.ready.seq = next =>
              next \in Seqs /\ IsSuccessor(next, shared.ready.by) /\ shared.ready.parent = w.by
         /\ h.pc \in {"hand", "handing"} \/ (h.pc = "retract" /\ h.res = "ok") =>
              (h.seq + 1 = next => next \in Seqs /\ IsSuccessor(next, "h"))
         /\ Nothing.seq # next /\ Nothing.seq <= next
         /\ next \in Seqs /\ OnDisk(next) => ~dir[next].pub /\ dir[next].parent = w.by
<1>1. next \in Nat /\ w.seq \in Nat
  BY HelperHolds
<1>2. Nothing.seq # next /\ Nothing.seq <= next
  BY <1>1 DEF Nothing, None
<1>3. shared.ready.seq = next => next \in Seqs
  BY <1>2 DEF IInv, TypeOK, SharedType, ReadyType
<1>4. h.pc \in {"hand", "handing", "retract"} => h.seq + 1 \in Seqs
  BY DEF IInv, AnnounceOK, AheadPc, ahead
<1>5. w.pc \in {"adopt", "publish"} => next \in Seqs
  BY DEF IInv, AnnounceOK, RollPc
<1>6. next > w.seq
  BY <1>1 DEF next
<1>7. QED
  BY <1>2, <1>3, <1>4, <1>5, <1>6 DEF IInv, FilesOK, ahead

-----------------------------------------------------------------------------
(* The helper's steps on the queue, the directory and the successor it hands over *)

\* A segment handed over as the next one is the writer's successor.
LEMMA HandStep ==
  ASSUME IInv, Hand
  PROVE  IInv'
<1>1. /\ HelperOK /\ TypeOK /\ h \in HelperType /\ shared \in SharedType /\ w \in WriterType
      /\ ahead \in Seqs /\ h.seq \in Nat /\ w.seq \in Nat
  BY HelperHolds DEF Hand, HelperOK, AheadPc
<1>2. /\ UNCHANGED <<dir, w, removed>> /\ h' \in HelperType /\ h'.seq = h.seq
      /\ h'.deleting = h.deleting /\ h'.pc = "handed" /\ h.pc = "handing"
  BY <1>1 DEF Hand, HelperType, HelperPc, AheadPc
<1>3. /\ shared' \in SharedType /\ shared'.claimed = shared.claimed
      /\ shared'.doomed = shared.doomed /\ shared'.segment = shared.segment
      /\ shared'.handoff = shared.handoff /\ shared'.curSeq = shared.curSeq
      /\ shared'.inFlight = shared.inFlight /\ shared'.stopped = shared.stopped
      /\ shared'.ready = [seq |-> ahead, by |-> "h", parent |-> h.parent]
  <2>1. [seq |-> ahead, by |-> "h", parent |-> h.parent] \in ReadyType
    BY <1>1 DEF ReadyType, HelperType, Makers
  <2>2. QED
    BY <1>1, <2>1 DEF Hand, SharedType
<1>4. /\ next' = next /\ ahead' = ahead /\ Dropped' = Dropped /\ Waiting' = Waiting
      /\ Pruned' = Pruned
  BY <1>2, <1>3 DEF next, ahead, Dropped, Waiting, Pruned
<1>5. FilesOK'
  <2>1. ahead = next => IsSuccessor(next, "h") /\ h.parent = w.by
    <3>1. ahead = next => h.seq = w.seq
      BY <1>1 DEF ahead, next
    <3>2. QED
      BY <1>1, <1>2, <3>1 DEF HelperOK, AheadPc
  <2>2. Unlinked({})
    BY <1>1, <1>2, DeleteUnlinks
  <2>3. shared'.ready.seq = ahead /\ shared'.ready.by = "h" /\ shared'.ready.parent = h.parent
    BY <1>3
  <2>4. shared'.ready.seq = next =>
          next \in Seqs /\ IsSuccessor(next, shared'.ready.by) /\ shared'.ready.parent = w.by
    BY <1>1, <2>1, <2>3
  <2>5. QED
    BY <1>2, <2>2, <2>4, FilesFrame, SuccessorFacts
<1>6. TypeOK'
  BY <1>1, <1>2, <1>3 DEF TypeOK
<1>7. RetentionOK' /\ AnnounceOK' /\ SeenOK'
  <2>1. ahead <= next
    BY <1>1 DEF IInv, SeenOK, SharedType, Seqs, ahead, next
  <2>2. QED
    BY <1>2, <1>3, <1>4, <2>1 DEF IInv, RetentionOK, AnnounceOK, SeenOK, AheadPc
<1>8. QueuesOK'
  BY <1>2, <1>3 DEF IInv, QueuesOK
<1>9. QED
  BY <1>5, <1>6, <1>7, <1>8 DEF IInv

\* The helper looks where the writer is, or stops.
LEMMA LookStep ==
  ASSUME IInv, Look
  PROVE  IInv'
<1>1. /\ HelperOK /\ TypeOK /\ h \in HelperType /\ shared \in SharedType /\ w \in WriterType
      /\ h.seq \in Nat /\ w.seq \in Nat
  BY HelperHolds
<1>2. /\ UNCHANGED <<dir, w, removed, shared>> /\ h' \in HelperType
      /\ h'.deleting = h.deleting /\ h.deleting = <<>>
      /\ h'.pc \in {"exited", "header"} /\ h.pc = "delete"
      /\ h'.pc = "header" => h'.seq = shared.curSeq
      /\ h'.pc = "exited" => h'.seq = h.seq
  <2>1. CASE shared.stop
    BY <1>1, <2>1 DEF Look, HelperType, HelperPc, AheadPc
  <2>2. CASE ~shared.stop
    BY <1>1, <2>2 DEF Look, HelperType, HelperPc, AheadPc, SharedType
  <2>3. QED
    BY <2>1, <2>2
<1>3. next' = next /\ Dropped' = Dropped /\ Waiting' = Waiting /\ Pruned' = Pruned
  BY <1>2 DEF next, Dropped, Waiting, Pruned
<1>4. FilesOK'
  BY <1>1, <1>2, DeleteUnlinks, FilesFrame, SuccessorFacts
<1>5. TypeOK'
  BY <1>1, <1>2 DEF TypeOK
<1>6. RetentionOK' /\ AnnounceOK'
  BY <1>2, <1>3 DEF IInv, RetentionOK, AnnounceOK, AheadPc
<1>7. SeenOK'
  <2>1. shared.curSeq \in Nat
    BY <1>1 DEF SharedType, Seqs
  <2>2. h'.seq <= shared'.curSeq
    BY <1>2, <2>1 DEF IInv, SeenOK
  <2>3. QED
    BY <1>2, <1>3, <2>2 DEF IInv, SeenOK, AheadPc
<1>8. QueuesOK'
  BY <1>2 DEF IInv, QueuesOK, SeenOK, PrunePc
<1>9. QED
  BY <1>4, <1>5, <1>6, <1>7, <1>8 DEF IInv

\* Swapping the queue out only moves the names from one place to another.
LEMMA TopStep ==
  ASSUME IInv, Top
  PROVE  IInv'
<1>1. /\ HelperOK /\ TypeOK /\ h \in HelperType /\ shared \in SharedType /\ w \in WriterType
      /\ h.seq \in Nat /\ w.seq \in Nat
  BY HelperHolds
<1>2. /\ UNCHANGED <<dir, w, removed>> /\ h' \in HelperType /\ h'.seq = h.seq
      /\ h'.deleting = shared.doomed /\ h.deleting = <<>> /\ h'.pc = "delete" /\ h.pc = "top"
  BY <1>1 DEF Top, HelperType, HelperPc, AheadPc, SharedType, HelperOK
<1>3. /\ shared' \in SharedType /\ shared'.claimed = shared.claimed
      /\ shared'.doomed = h.deleting /\ shared'.segment = shared.segment
      /\ shared'.handoff = shared.handoff /\ shared'.curSeq = shared.curSeq
      /\ shared'.inFlight = shared.inFlight /\ shared'.stopped = shared.stopped
      /\ shared'.ready = shared.ready
  BY <1>1 DEF Top, SharedType, HelperType
<1>4. /\ next' = next /\ ahead' = ahead /\ Dropped' = Dropped /\ Waiting' = Waiting
      /\ Pruned' = Pruned
  BY <1>2, <1>3 DEF next, ahead, Dropped, Waiting, Pruned
<1>5. FilesOK'
  BY <1>1, <1>2, <1>3, DeleteUnlinks, FilesFrame, SuccessorFacts
<1>6. TypeOK'
  BY <1>1, <1>2, <1>3 DEF TypeOK
<1>7. RetentionOK' /\ AnnounceOK' /\ SeenOK'
  BY <1>2, <1>3, <1>4 DEF IInv, RetentionOK, AnnounceOK, SeenOK, AheadPc
<1>8. QueuesOK'
  BY <1>2, <1>3 DEF IInv, QueuesOK
<1>9. QED
  BY <1>5, <1>6, <1>7, <1>8 DEF IInv

\* A name deleted was given up before, and nothing is installed under it then.
LEMMA DeleteOneStep ==
  ASSUME IInv, DeleteOne
  PROVE  IInv'
<1> DEFINE s == Head(h.deleting)
<1>1. /\ HelperOK /\ TypeOK /\ h \in HelperType /\ shared \in SharedType /\ w \in WriterType
      /\ h.seq \in Nat /\ w.seq \in Nat
  BY HelperHolds
<1>2. /\ s \in Seqs /\ Tail(h.deleting) \in Seq(Seqs)
      /\ Len(Tail(h.deleting)) = Len(h.deleting) - 1 /\ Len(h.deleting) \in Nat
      /\ ToSet(h.deleting) = ToSet(Tail(h.deleting)) \cup {s}
  <2>1. h.deleting \in Seq(Seqs) /\ h.deleting # <<>>
    BY <1>1 DEF DeleteOne, HelperType
  <2>2. QED
    BY <2>1, QueueFacts
<1>3. /\ UNCHANGED <<w, shared>> /\ h' \in HelperType /\ h'.seq = h.seq
      /\ h'.deleting = Tail(h.deleting) /\ h'.pc = "delete" /\ h.pc = "delete"
      /\ Unlinked({s})
  BY <1>1, <1>2, DeleteUnlinks DEF DeleteOne, HelperType, HelperPc, AheadPc
<1>4. removed' = removed \cup {s}
  BY <1>3 DEF Unlinked
<1>5. /\ next' = next /\ ahead' = ahead /\ Dropped' = Dropped /\ Waiting' = Waiting
      /\ Pruned' = Pruned
  BY <1>2, <1>3, <1>4 DEF next, ahead, Dropped, Waiting, Pruned
<1>6. s + Keep <= w.seq
  <2>1. s + Keep <= Pruned
    BY <1>2 DEF IInv, RetentionOK, Dropped
  <2>2. s \in Nat /\ Keep \in Nat
    BY <1>2, PrefaultAssumption DEF Seqs
  <2>3. QED
    BY <1>1, <2>1, <2>2 DEF Pruned
<1> HIDE DEF s
<1>7. FilesOK' /\ dir' \in [Seqs -> Files \cup {NoFile}] /\ removed' \subseteq Seqs
  BY <1>2, <1>3, <1>6, FilesFrame, SuccessorFacts
<1>8. TypeOK'
  BY <1>1, <1>3, <1>7 DEF TypeOK
<1>9. RetentionOK' /\ AnnounceOK' /\ SeenOK'
  BY <1>3, <1>5 DEF IInv, RetentionOK, AnnounceOK, SeenOK, AheadPc
<1>10. QueuesOK'
  <2>1. Len(h'.deleting) <= DoomedQueue
    BY <1>2, <1>3, PrefaultAssumption DEF IInv, QueuesOK
  <2>2. QED
    BY <1>3, <2>1 DEF IInv, QueuesOK
<1>11. QED
  BY <1>7, <1>8, <1>9, <1>10 DEF IInv

\* What the helper installs is the successor of the segment being written: a name behind that
\* one is taken, or removed and then the helper was held back.
LEMMA InstallStep ==
  ASSUME IInv, Install
  PROVE  IInv'
<1>1. /\ HelperOK /\ TypeOK /\ h \in HelperType /\ shared \in SharedType /\ w \in WriterType
      /\ ahead \in Seqs /\ h.seq \in Nat /\ w.seq \in Nat /\ w.seq \in Seqs
      /\ dir \in [Seqs -> Files \cup {NoFile}]
  BY HelperHolds DEF Install, HelperOK, AheadPc, TypeOK, WriterType
<1>2. PICK res \in {"none", "ok", "err"} :
        /\ h' = [h EXCEPT !.pc = "retract", !.res = res]
        /\ OnDisk(ahead) => res = "none" /\ UNCHANGED dir
        /\ ~OnDisk(ahead) =>
             dir' = [dir EXCEPT ![ahead] = [by |-> "h", parent |-> h.parent, pub |-> FALSE]]
  BY DEF Install
<1>3. /\ UNCHANGED <<w, shared, removed>> /\ h' \in HelperType /\ h'.seq = h.seq
      /\ h'.deleting = h.deleting /\ h'.pc = "retract" /\ h.pc = "install"
      /\ h'.parent = h.parent /\ h'.res = res
  BY <1>1, <1>2 DEF Install, HelperType, HelperPc, AheadPc
<1>4. /\ next' = next /\ ahead' = ahead /\ Dropped' = Dropped /\ Waiting' = Waiting
      /\ Pruned' = Pruned
  BY <1>3 DEF next, ahead, Dropped, Waiting, Pruned
<1>5. RetentionOK' /\ AnnounceOK' /\ SeenOK'
  BY <1>3, <1>4 DEF IInv, RetentionOK, AnnounceOK, SeenOK, AheadPc
<1>6. QueuesOK'
  BY <1>3 DEF IInv, QueuesOK
<1>7. CASE OnDisk(ahead)
  <2>1. FilesOK' /\ dir' \in [Seqs -> Files \cup {NoFile}]
    BY <1>1, <1>2, <1>3, <1>7, DeleteUnlinks, FilesFrame, SuccessorFacts
  <2>2. TypeOK'
    BY <1>1, <1>3, <2>1 DEF TypeOK
  <2>3. QED
    BY <1>5, <1>6, <2>1, <2>2 DEF IInv
<1>8. CASE ~OnDisk(ahead)
  <2> DEFINE file == [by |-> "h", parent |-> h.parent, pub |-> FALSE]
  <2>1. file \in Files
    BY <1>1 DEF Files, HelperType, Makers
  <2>2. /\ dir' \in [Seqs -> Files \cup {NoFile}] /\ dir'[ahead] = file
        /\ \A s \in Seqs : s # ahead => dir'[s] = dir[s]
    BY <1>1, <1>2, <1>8, <2>1
  <2>3. file.by = "h" /\ file.parent = h.parent /\ ~file.pub /\ file # NoFile
    <3>1. DOMAIN file = {"by", "parent", "pub"} /\ DOMAIN NoFile = {"by"}
      BY DEF NoFile
    <3>2. QED
      BY <3>1
  <2> HIDE DEF file
  <2>4. ahead = next /\ h.parent = w.by /\ ahead > w.seq
    <3>1. ahead <= w.seq => ahead \in removed
      BY <1>1, <1>8 DEF IInv, FilesOK, Published
    <3>2. ahead \notin removed
      BY <1>1, <1>3 DEF HelperOK, Dropped
    <3>3. h.seq <= w.seq
      BY <1>1 DEF IInv, SeenOK, SharedType, Seqs
    <3>4. h.seq = w.seq
      BY <1>1, <3>1, <3>2, <3>3 DEF ahead
    <3>5. QED
      BY <1>1, <1>3, <3>4 DEF ahead, next, HelperOK, AheadPc
  <2>5. w.pc \notin {"adopt", "publish"} /\ shared.ready.seq # next
    BY <1>8, <2>4 DEF IInv, FilesOK, IsSuccessor
  <2>6. \A s \in removed' : ~OnDisk(s)'
    <3>1. ahead \notin removed /\ removed \subseteq Seqs
      BY <1>1, <1>3 DEF HelperOK, Dropped, TypeOK
    <3>2. QED
      BY <1>3, <2>2, <3>1 DEF IInv, FilesOK, OnDisk
  <2>7. \A s \in Seqs : s <= w'.seq /\ s \notin removed' => Published(s)'
    <3>1. \A s \in Seqs : s <= w.seq => s # ahead
      BY <1>1, <2>4 DEF Seqs
    <3>2. QED
      BY <1>3, <2>2, <3>1 DEF IInv, FilesOK, OnDisk, Published
  <2>8. \A s \in Seqs : s > w'.seq /\ OnDisk(s)' =>
          s = next' /\ ~dir'[s].pub /\ dir'[s].parent = w'.by
    BY <1>3, <1>4, <2>2, <2>3, <2>4 DEF IInv, FilesOK, OnDisk
  <2>9. dir'[w'.seq].by = w'.by
    BY <1>1, <1>3, <2>2, <2>4 DEF IInv, FilesOK
  <2>10. \A p : p = next => IsSuccessor(p, "h")'
    BY <1>3, <2>2, <2>3, <2>4 DEF IsSuccessor, OnDisk
  <2>11. FilesOK'
    BY <1>3, <1>4, <2>5, <2>6, <2>7, <2>8, <2>9, <2>10 DEF FilesOK
  <2>12. TypeOK'
    BY <1>1, <1>3, <2>2 DEF TypeOK
  <2>13. QED
    BY <1>5, <1>6, <2>11, <2>12 DEF IInv
<1>9. QED
  BY <1>7, <1>8

\* Every step of the helper keeps the invariant.
LEMMA HelperSteps ==
  ASSUME IInv, HelperStep
  PROVE  IInv'
  BY HelperLooks, AnnounceStep, CheckClaimedStep, RetractSteps, HandStep, LookStep, TopStep,
     DeleteOneStep, InstallStep DEF HelperStep

-----------------------------------------------------------------------------
(* Steps of the writer *)

\* A step of the writer that stays in its segment, and leaves the directory and the queues
\* alone.
LEMMA WriterFrame ==
  ASSUME IInv, UNCHANGED <<dir, h, removed>>,
         w' \in WriterType, w'.seq = w.seq, w'.by = w.by, w'.pruning = w.pruning,
         w'.deferred = w.deferred, w.pc # "follow", w'.pc \notin {"follow", "unlink", "closed"},
         w'.pc \notin PrunePc => w.pruning = <<>>, w'.pc \in PrunePc => w.pc \in PrunePc,
         shared' \in SharedType, shared'.doomed = shared.doomed,
         shared'.segment = shared.segment, shared'.handoff = shared.handoff,
         shared'.curSeq = shared.curSeq, shared'.inFlight = shared.inFlight,
         shared'.stopped = shared.stopped, shared'.claimed \in {w.seq, next},
         w'.pc \in RollPc => shared'.claimed = next /\ next \in Seqs,
         shared'.ready \in {shared.ready, Nothing},
         w'.pc = "adopt" => OnDisk(next),
         w'.pc = "publish" => OnDisk(next) /\ dir[next].by = w'.new
  PROVE  IInv'
<1>1. TypeOK'
  BY DEF IInv, TypeOK
<1>2. next' = next /\ ahead' = ahead /\ Dropped' = Dropped /\ Waiting' = Waiting /\ Pruned' = Pruned
  BY DEF next, ahead, Dropped, Waiting, Pruned
<1>3. RetentionOK'
  BY <1>2 DEF IInv, RetentionOK
<1>4. AnnounceOK'
  BY <1>2 DEF IInv, AnnounceOK
<1>5. SeenOK'
  BY <1>2, SuccessorFacts DEF IInv, SeenOK
<1>6. FilesOK'
  <2>1. w'.pc \in {"adopt", "publish"} => next \in Seqs
    BY DEF RollPc
  <2>2. Unlinked({})
    BY DeleteUnlinks DEF IInv
  <2>3. shared'.ready.seq = next =>
          next \in Seqs /\ IsSuccessor(next, shared'.ready.by) /\ shared'.ready.parent = w.by
    BY SuccessorFacts
  <2>4. QED
    BY <2>1, <2>2, <2>3, FilesFrame, SuccessorFacts
<1>7. QueuesOK'
  BY DEF IInv, QueuesOK
<1>8. QED
  BY <1>1, <1>3, <1>4, <1>5, <1>6, <1>7 DEF IInv

\* From the claim to the successor in hand, when no file is made.
LEMMA SuccessorSteps ==
  ASSUME IInv,
         \/ Claim \/ LookForReady \/ MissReady \/ TakeReady \/ PrepareSuccessor \/ PrepareFails
         \/ AdoptSuccessor \/ PruneDone \/ Close
  PROVE  IInv'
<1>1. /\ HelperOK /\ TypeOK /\ shared \in SharedType /\ w \in WriterType
      /\ next \in Nat /\ w.seq \in Nat /\ MaxSeq \in Nat
      /\ shared.claimed \in {w.seq, next}
      /\ w.pc \in RollPc => shared.claimed = next /\ next \in Seqs
      /\ w.pc \notin PrunePc => w.pruning = <<>>
  BY HelperHolds DEF IInv, AnnounceOK, RetentionOK
<1>2. UNCHANGED <<dir, h, removed>>
  BY DEF Claim, LookForReady, MissReady, TakeReady, PrepareSuccessor, PrepareFails,
         AdoptSuccessor, PruneDone, Close
<1>3. CASE TakeReady
  <2>1. /\ shared' \in SharedType /\ shared'.claimed = shared.claimed
        /\ shared'.doomed = shared.doomed /\ shared'.segment = shared.segment
        /\ shared'.handoff = shared.handoff /\ shared'.curSeq = shared.curSeq
        /\ shared'.ready \in {shared.ready, Nothing} /\ shared'.inFlight = shared.inFlight
        /\ shared'.stopped = shared.stopped
    <3>1. shared' = shared \/ shared' = [shared EXCEPT !.ready = Nothing, !.readySeq = None]
      BY <1>3 DEF TakeReady
    <3>2. QED
      BY <1>1, <3>1 DEF SharedType, ReadyType
  <2>2. w.pc = "lock"
    BY <1>3 DEF TakeReady
  <2>3. CASE shared.ready.seq = next /\ shared.ready.parent = w.by
    <3>1. next \in Seqs /\ IsSuccessor(next, shared.ready.by)
      BY <2>3, SuccessorFacts
    <3>2. shared.ready.by \in Makers
      <4>1. shared.ready \in ReadyType /\ Nothing.seq # next
        BY <1>1, SuccessorFacts DEF SharedType
      <4>2. QED
        BY <2>3, <4>1 DEF ReadyType
    <3>3. w' = [w EXCEPT !.pc = "publish", !.new = shared.ready.by, !.worker = TRUE]
      BY <1>3, <2>3 DEF TakeReady
    <3>4. /\ w' \in WriterType /\ w'.seq = w.seq /\ w'.by = w.by /\ w'.pruning = w.pruning
          /\ w'.deferred = w.deferred /\ w'.pc = "publish" /\ w'.new = shared.ready.by
      BY <1>1, <3>2, <3>3 DEF WriterType, WriterPc, RollPc
    <3>5. OnDisk(next) /\ dir[next].by = w'.new
      BY <3>1, <3>4 DEF IsSuccessor
    <3>6. QED
      BY <1>1, <1>2, <2>1, <2>2, <3>4, <3>5, WriterFrame DEF RollPc, PrunePc
  <2>4. CASE ~(shared.ready.seq = next /\ shared.ready.parent = w.by)
    <3>1. w' = [w EXCEPT !.pc = "prepare"]
      BY <1>3, <2>4 DEF TakeReady
    <3>2. /\ w' \in WriterType /\ w'.seq = w.seq /\ w'.by = w.by /\ w'.pruning = w.pruning
          /\ w'.deferred = w.deferred /\ w'.pc = "prepare"
      BY <1>1, <3>1 DEF WriterType, WriterPc, RollPc
    <3>3. QED
      BY <1>1, <1>2, <2>1, <2>2, <3>2, WriterFrame DEF RollPc, PrunePc
  <2>5. QED
    BY <2>3, <2>4
<1>4. CASE Claim
  <2>1. next \in Seqs /\ w.pc = "idle"
    BY <1>1, <1>4 DEF Claim, next, Seqs
  <2>2. /\ shared' \in SharedType /\ shared'.claimed = next
        /\ shared'.doomed = shared.doomed /\ shared'.segment = shared.segment
        /\ shared'.handoff = shared.handoff /\ shared'.curSeq = shared.curSeq
        /\ shared'.ready = shared.ready /\ shared'.inFlight = shared.inFlight
        /\ shared'.stopped = shared.stopped
    BY <1>1, <1>4, <2>1 DEF Claim, SharedType
  <2>3. /\ w' \in WriterType /\ w'.seq = w.seq /\ w'.by = w.by /\ w'.pruning = w.pruning
        /\ w'.deferred = w.deferred /\ w'.pc = "take"
    BY <1>1, <1>4 DEF Claim, WriterType, WriterPc, RollPc
  <2>4. QED
    BY <1>1, <1>2, <2>1, <2>2, <2>3, WriterFrame DEF RollPc, PrunePc
<1>5. CASE AdoptSuccessor
  <2>1. w.pc = "adopt" /\ shared' = shared /\ next \in Seqs
    BY <1>1, <1>5 DEF AdoptSuccessor, RollPc
  <2>2. CASE Adoptable
    <3>1. OnDisk(next) /\ dir[next].by \in Makers
      <4>1. dir[next] \in Files \cup {NoFile}
        BY <1>1, <2>1 DEF TypeOK
      <4>2. QED
        BY <2>2, <4>1 DEF Adoptable, OnDisk, Files
    <3>2. w' = [w EXCEPT !.pc = "publish", !.new = dir[next].by, !.worker = FALSE]
      BY <1>5, <2>2 DEF AdoptSuccessor
    <3>3. /\ w' \in WriterType /\ w'.seq = w.seq /\ w'.by = w.by /\ w'.pruning = w.pruning
          /\ w'.deferred = w.deferred /\ w'.pc = "publish" /\ w'.new = dir[next].by
      BY <1>1, <3>1, <3>2 DEF WriterType, WriterPc, RollPc
    <3>4. QED
      BY <1>1, <1>2, <2>1, <3>1, <3>3, WriterFrame DEF RollPc, PrunePc
  <2>3. CASE ~Adoptable
    <3>1. /\ w' \in WriterType /\ w'.seq = w.seq /\ w'.by = w.by /\ w'.pruning = w.pruning
          /\ w'.deferred = w.deferred /\ w'.pc = "idle"
      BY <1>1, <1>5, <2>3 DEF AdoptSuccessor, WriterType, WriterPc, RollPc
    <3>2. QED
      BY <1>1, <1>2, <2>1, <3>1, WriterFrame DEF RollPc, PrunePc
  <2>4. QED
    BY <2>2, <2>3
<1>6. CASE LookForReady \/ MissReady \/ PrepareSuccessor \/ PrepareFails \/ PruneDone
  <2>1. PICK p \in {"lock", "prepare", "adopt", "install", "idle"} :
          /\ w' = [w EXCEPT !.pc = p] /\ (p = "adopt" => OnDisk(next))
          /\ shared' = shared /\ (p # "idle" => w.pc \in RollPc)
          /\ w.pc \in {"take", "lock", "prepare", "install", "prune"}
          /\ w.pc = "prune" => w.pruning = <<>>
    BY <1>6 DEF LookForReady, MissReady, PrepareSuccessor, PrepareFails, PruneDone, RollPc
  <2>2. /\ w' \in WriterType /\ w'.seq = w.seq /\ w'.by = w.by /\ w'.pruning = w.pruning
        /\ w'.deferred = w.deferred /\ w'.pc = p
    BY <1>1, <2>1 DEF WriterType, WriterPc, RollPc
  <2>3. QED
    BY <1>1, <1>2, <2>1, <2>2, WriterFrame DEF RollPc, PrunePc
<1>7. CASE Close
  <2>1. /\ shared' \in SharedType /\ shared'.claimed = shared.claimed
        /\ shared'.doomed = shared.doomed /\ shared'.segment = shared.segment
        /\ shared'.handoff = shared.handoff /\ shared'.curSeq = shared.curSeq
        /\ shared'.ready = shared.ready /\ shared'.inFlight = shared.inFlight
        /\ shared'.stopped = shared.stopped
    BY <1>1, <1>7 DEF Close, SharedType
  <2>2. /\ w' \in WriterType /\ w'.seq = w.seq /\ w'.by = w.by /\ w'.pruning = w.pruning
        /\ w'.deferred = w.deferred /\ w'.pc = "join" /\ w.pc = "idle"
    BY <1>1, <1>7 DEF Close, WriterType, WriterPc
  <2>3. QED
    BY <1>1, <1>2, <2>1, <2>2, WriterFrame DEF RollPc, PrunePc
<1>8. QED
  BY <1>3, <1>4, <1>5, <1>6, <1>7

\* The file the writer makes, when there is none, is its own successor.
LEMMA InstallSuccessorStep ==
  ASSUME IInv, InstallSuccessor
  PROVE  IInv'
<1>1. /\ HelperOK /\ TypeOK /\ shared \in SharedType /\ w \in WriterType
      /\ next \in Nat /\ w.seq \in Nat /\ w.seq \in Seqs /\ next \in Seqs /\ w.pc = "install"
      /\ w.pruning = <<>> /\ shared.claimed = next /\ next > w.seq
      /\ dir \in [Seqs -> Files \cup {NoFile}]
  <2>1. w.pc = "install"
    BY DEF InstallSuccessor
  <2>2. next \in Seqs /\ w.pruning = <<>> /\ shared.claimed = next
    BY <2>1 DEF IInv, AnnounceOK, RetentionOK, RollPc, PrunePc
  <2>3. QED
    BY <2>1, <2>2, HelperHolds DEF TypeOK, WriterType, next
<1>2. UNCHANGED <<shared, h, removed>>
  BY DEF InstallSuccessor
<1>3. CASE OnDisk(next)
  <2>1. /\ UNCHANGED dir /\ w' \in WriterType /\ w'.seq = w.seq /\ w'.by = w.by
        /\ w'.pruning = w.pruning /\ w'.deferred = w.deferred /\ w'.pc = "adopt"
    BY <1>1, <1>3 DEF InstallSuccessor, WriterType, WriterPc, RollPc
  <2>2. QED
    BY <1>1, <1>2, <1>3, <2>1, WriterFrame DEF RollPc, PrunePc
<1>4. CASE ~OnDisk(next)
  <2> DEFINE file == [by |-> "w", parent |-> w.by, pub |-> FALSE]
  <2>1. file \in Files
    BY <1>1 DEF Files, WriterType, Makers
  <2>2. /\ dir' \in [Seqs -> Files \cup {NoFile}] /\ dir'[next] = file
        /\ \A s \in Seqs : s # next => dir'[s] = dir[s]
    BY <1>1, <1>4, <2>1 DEF InstallSuccessor
  <2>3. file.by = "w" /\ file.parent = w.by /\ ~file.pub /\ file # NoFile
    <3>1. DOMAIN file = {"by", "parent", "pub"} /\ DOMAIN NoFile = {"by"}
      BY DEF NoFile
    <3>2. QED
      BY <3>1
  <2> HIDE DEF file
  <2>4. /\ w' \in WriterType /\ w'.seq = w.seq /\ w'.by = w.by /\ w'.pruning = w.pruning
        /\ w'.deferred = w.deferred /\ w'.pc = "publish" /\ w'.new = "w"
    <3>1. w' = [w EXCEPT !.pc = "publish", !.new = "w", !.worker = FALSE]
      BY <1>4 DEF InstallSuccessor
    <3>2. QED
      BY <1>1, <3>1 DEF WriterType, WriterPc, RollPc, Makers
  <2>5. /\ next' = next /\ ahead' = ahead /\ Dropped' = Dropped /\ Waiting' = Waiting
        /\ Pruned' = Pruned
    BY <1>1, <1>2, <2>4 DEF next, ahead, Dropped, Waiting, Pruned
  <2>6. \A s \in removed' : ~OnDisk(s)'
    <3>1. ~(next + Keep <= Pruned)
      BY <1>1, PrefaultAssumption DEF Pruned
    <3>2. next \notin removed /\ removed \subseteq Seqs
      BY <1>1, <3>1 DEF IInv, RetentionOK, Dropped, TypeOK
    <3>3. QED
      BY <1>2, <2>2, <3>2 DEF IInv, FilesOK, OnDisk
  <2>7. \A s \in Seqs : s <= w'.seq /\ s \notin removed' => Published(s)'
    <3>1. \A s \in Seqs : s <= w.seq => s # next
      BY <1>1 DEF Seqs
    <3>2. QED
      BY <1>2, <2>2, <2>4, <3>1 DEF IInv, FilesOK, OnDisk, Published
  <2>8. \A s \in Seqs : s > w'.seq /\ OnDisk(s)' =>
          s = next' /\ ~dir'[s].pub /\ dir'[s].parent = w'.by
    BY <2>2, <2>3, <2>4, <2>5 DEF IInv, FilesOK, OnDisk
  <2>9. dir'[w'.seq].by = w'.by
    BY <1>1, <2>2, <2>4 DEF IInv, FilesOK
  <2>10. \A p : p = next => OnDisk(p)' /\ dir'[p].by = w'.new
    BY <2>2, <2>3, <2>4 DEF OnDisk
  <2>11. shared.ready.seq # next
    BY <1>4 DEF IInv, FilesOK, IsSuccessor
  <2>12. h.pc \in {"hand", "handing"} \/ (h.pc = "retract" /\ h.res = "ok") => ahead # next
    BY <1>4 DEF IInv, FilesOK, IsSuccessor
  <2>13. FilesOK'
    BY <1>2, <2>4, <2>5, <2>6, <2>7, <2>8, <2>9, <2>10, <2>11, <2>12 DEF FilesOK
  <2>14. TypeOK'
    BY <1>1, <1>2, <2>2, <2>4 DEF TypeOK
  <2>15. RetentionOK' /\ AnnounceOK' /\ SeenOK'
    BY <1>1, <1>2, <2>4, <2>5 DEF IInv, RetentionOK, AnnounceOK, SeenOK, RollPc, PrunePc
  <2>16. QueuesOK'
    BY <1>2, <2>4 DEF IInv, QueuesOK, PrunePc
  <2>17. QED
    BY <2>13, <2>14, <2>15, <2>16 DEF IInv
<1>5. QED
  BY <1>3, <1>4

\* The sequences struct Shared holds are numbers, below 0 when it holds nothing.
LEMMA SharedInts ==
  ASSUME shared \in SharedType
  PROVE  /\ shared.segment.seq \in Int /\ shared.handoff.seq \in Int /\ shared.ready.seq \in Int
         /\ Nothing.seq = -1
<1>1. Nothing.seq = -1
  BY DEF Nothing, None
<1>2. Seqs \subseteq Int
  BY DEF Seqs
<1>3. shared.segment \in [seq : Seqs, by : Makers] /\ shared.handoff \in HandoffType
      /\ shared.ready \in ReadyType
  BY DEF SharedType
<1>4. shared.segment.seq \in Seqs
  BY <1>3
<1>5. shared.handoff = Nothing \/ shared.handoff.seq \in Seqs
  BY <1>3 DEF HandoffType
<1>6. shared.ready = Nothing \/ shared.ready.seq \in Seqs
  BY <1>3 DEF ReadyType
<1>7. Nothing.seq \in Int
  BY <1>1
<1>8. shared.handoff.seq \in Int
  BY <1>2, <1>5, <1>7
<1>9. shared.ready.seq \in Int
  BY <1>2, <1>6, <1>7
<1>10. QED
  BY <1>1, <1>2, <1>4, <1>8, <1>9

\* hand_off changes only what the helper is handed, and hands it the newest segment.
LEMMA HandedOffFacts ==
  ASSUME NEW sh \in SharedType, NEW sh2 \in HandedOff(sh)
  PROVE  /\ sh2 \in SharedType /\ sh2.claimed = sh.claimed /\ sh2.ready = sh.ready
         /\ sh2.inFlight = sh.inFlight /\ sh2.doomed = sh.doomed /\ sh2.curSeq = sh.curSeq
         /\ sh2.stopped = sh.stopped
         /\ sh2.segment \in {sh.segment, sh.handoff} /\ sh2.handoff \in {sh.handoff, Nothing}
<1>1. CASE sh2 = sh
  BY <1>1
<1>2. CASE sh.handoff # Nothing /\ sh2 = [sh EXCEPT !.segment = sh.handoff, !.handoff = Nothing]
  <2>1. sh.handoff \in [seq : Seqs, by : Makers]
    BY <1>2 DEF SharedType, HandoffType
  <2>2. QED
    BY <1>2, <2>1 DEF SharedType, HandoffType
<1>3. QED
  BY <1>1, <1>2 DEF HandedOff

\* The writer rolls to its successor, which is published by then.
LEMMA SwitchStep ==
  ASSUME IInv, Switch
  PROVE  IInv'
<1>1. /\ HelperOK /\ TypeOK /\ shared \in SharedType /\ w \in WriterType /\ h \in HelperType
      /\ next \in Nat /\ w.seq \in Nat /\ w.seq \in Seqs /\ next \in Seqs /\ w.pc = "publish"
      /\ w.pruning = <<>> /\ shared.claimed = next /\ next > w.seq /\ w.new \in Makers
      /\ dir \in [Seqs -> Files \cup {NoFile}] /\ h.seq \in Nat
      /\ OnDisk(next) /\ dir[next].by = w.new /\ shared.curSeq = w.seq
  <2>1. w.pc = "publish"
    BY DEF Switch
  <2>2. next \in Seqs /\ w.pruning = <<>> /\ shared.claimed = next
    BY <2>1 DEF IInv, AnnounceOK, RetentionOK, RollPc, PrunePc
  <2>3. shared.curSeq = w.seq
    BY <2>1 DEF IInv, SeenOK
  <2>4. QED
    BY <2>1, <2>2, <2>3, HelperHolds, SuccessorFacts DEF TypeOK, WriterType, next
<1>2. /\ w' \in WriterType /\ w'.seq = next /\ w'.by = w.new /\ w'.pruning = <<>>
      /\ w'.deferred = w.deferred /\ w'.pc = "follow" /\ UNCHANGED <<h, removed>>
  BY <1>1 DEF Switch, WriterType, WriterPc
<1>3. /\ shared' \in SharedType /\ shared'.claimed = shared.claimed
      /\ shared'.ready = shared.ready /\ shared'.inFlight = shared.inFlight
      /\ shared'.doomed = shared.doomed /\ shared'.curSeq = shared.curSeq
      /\ shared'.stopped = shared.stopped
      /\ shared'.segment = shared.segment \/ shared'.segment = [seq |-> next, by |-> w.new]
      /\ \/ shared'.handoff \in {shared.handoff, Nothing}
         \/ shared'.handoff = [seq |-> next, by |-> w.new]
  <2>1. CASE shared' = Rolled(FALSE)
    BY <1>1, <2>1 DEF Rolled, SharedType
  <2>2. CASE shared' \in HandedOff(Rolled(TRUE))
    <3> DEFINE sh == Rolled(TRUE)
    <3>1. [seq |-> next, by |-> w.new] \in HandoffType
      BY <1>1 DEF HandoffType
    <3>2. /\ sh \in SharedType /\ sh.claimed = shared.claimed
          /\ sh.ready = shared.ready /\ sh.inFlight = shared.inFlight
          /\ sh.doomed = shared.doomed /\ sh.curSeq = shared.curSeq
          /\ sh.stopped = shared.stopped /\ sh.segment = shared.segment
          /\ sh.handoff = [seq |-> next, by |-> w.new]
      BY <1>1, <3>1 DEF Rolled, SharedType
    <3> HIDE DEF sh
    <3>3. QED
      BY <2>2, <3>2, HandedOffFacts DEF sh
  <2>3. QED
    BY <2>1, <2>2 DEF Switch
<1>4. /\ dir' \in [Seqs -> Files \cup {NoFile}] /\ dir'[next].pub /\ dir'[next] # NoFile
      /\ dir'[next].by = w.new /\ \A s \in Seqs : s # next => dir'[s] = dir[s]
  <2>1. dir[next] \in Files
    BY <1>1 DEF OnDisk
  <2>2. dir' = [dir EXCEPT ![next].pub = TRUE]
    BY <1>1 DEF Switch
  <2>3. dir'[next] = [dir[next] EXCEPT !.pub = TRUE]
    BY <1>1, <2>2
  <2>4. dir'[next] \in Files /\ dir'[next].pub /\ dir'[next].by = w.new
    BY <1>1, <2>1, <2>3 DEF Files
  <2>5. dir' \in [Seqs -> Files \cup {NoFile}] /\ \A s \in Seqs : s # next => dir'[s] = dir[s]
    <3>1. DOMAIN dir' = Seqs /\ \A s \in Seqs : s # next => dir'[s] = dir[s]
      BY <1>1, <2>2
    <3>2. \A s \in Seqs : dir'[s] \in Files \cup {NoFile}
      BY <1>1, <2>4, <3>1
    <3>3. dir' = [s \in Seqs |-> dir'[s]]
      BY <1>1, <2>2, <3>1
    <3>4. QED
      BY <3>1, <3>2, <3>3
  <2>6. dir'[next] # NoFile
    <3>1. DOMAIN dir'[next] = {"by", "parent", "pub"} /\ DOMAIN NoFile = {"by"}
      BY <2>4 DEF Files, NoFile
    <3>2. QED
      BY <3>1
  <2>7. QED
    BY <2>4, <2>5, <2>6
<1>5. /\ next' = next + 1 /\ ahead' = ahead /\ Dropped' = Dropped /\ Waiting' = Waiting
      /\ Pruned' = Pruned
  BY <1>1, <1>2, <1>3 DEF next, ahead, Dropped, Waiting, Pruned
<1>6. TypeOK'
  BY <1>1, <1>2, <1>3, <1>4 DEF TypeOK
<1>7. RetentionOK'
  BY <1>1, <1>2, <1>3, <1>5 DEF IInv, RetentionOK, PrunePc
<1>8. AnnounceOK'
  BY <1>1, <1>2, <1>3, <1>5 DEF IInv, AnnounceOK, RollPc
<1>9. SeenOK'
  <2>1. /\ h.seq <= w.seq /\ shared.segment.seq <= w.seq /\ shared.handoff.seq <= w.seq
        /\ shared.ready.seq <= next
    BY <1>1 DEF IInv, SeenOK
  <2>2. /\ shared.segment.seq \in Int /\ shared.handoff.seq \in Int /\ shared.ready.seq \in Int
        /\ Nothing.seq = -1
    BY <1>1, SharedInts
  <2>3. shared'.segment.seq <= next /\ (shared'.segment.seq = next => shared'.segment.by = w.new)
    BY <1>1, <1>3, <2>1, <2>2 DEF SharedType
  <2>4. shared'.handoff.seq <= next /\ (shared'.handoff.seq = next => shared'.handoff.by = w.new)
    BY <1>1, <1>3, <2>1, <2>2 DEF SharedType
  <2>5. h'.seq # w'.seq /\ h'.seq <= shared'.curSeq /\ shared'.curSeq <= w'.seq
    BY <1>1, <1>2, <1>3, <2>1
  <2>6. shared'.ready.seq <= next'
    BY <1>1, <1>3, <1>5, <2>1, <2>2
  <2>7. QED
    BY <1>2, <2>3, <2>4, <2>5, <2>6 DEF SeenOK
<1>10. FilesOK'
  <2>1. \A s \in removed' : ~OnDisk(s)'
    <3>1. ~(next + Keep <= Pruned)
      BY <1>1, PrefaultAssumption DEF Pruned
    <3>2. next \notin removed /\ removed \subseteq Seqs
      BY <1>1, <3>1 DEF IInv, RetentionOK, Dropped, TypeOK
    <3>3. QED
      BY <1>2, <1>4, <3>2 DEF IInv, FilesOK, OnDisk
  <2>2. \A s \in Seqs : s <= w'.seq /\ s \notin removed' => Published(s)'
    <3>1. \A s \in Seqs : s <= next => s = next \/ s <= w.seq
      BY <1>1 DEF Seqs, next
    <3>2. \A s \in Seqs : s <= w.seq => s # next
      BY <1>1 DEF Seqs
    <3>3. QED
      BY <1>2, <1>4, <3>1, <3>2 DEF IInv, FilesOK, OnDisk, Published
  <2>3. \A s \in Seqs : s > w'.seq => ~OnDisk(s)'
    <3>1. \A s \in Seqs : s > next => s # next /\ s > w.seq
      BY <1>1 DEF Seqs
    <3>2. QED
      BY <1>2, <1>4, <3>1 DEF IInv, FilesOK, OnDisk
  <2>4. shared'.ready.seq # next' /\ ahead' # next'
    <3>1. shared.ready.seq \in Int /\ shared.ready.seq <= next /\ h.seq <= w.seq
      BY <1>1, SharedInts DEF IInv, SeenOK
    <3>2. QED
      BY <1>1, <1>3, <1>5, <3>1 DEF ahead, next
  <2>5. QED
    BY <1>2, <1>4, <2>1, <2>2, <2>3, <2>4 DEF FilesOK
<1>11. QueuesOK'
  BY <1>1, <1>2, <1>3 DEF IInv, QueuesOK, PrunePc
<1>12. QED
  BY <1>6, <1>7, <1>8, <1>9, <1>10, <1>11 DEF IInv

-----------------------------------------------------------------------------
(* The writer's retention *)

\* release_if_stopped moves names from the queue to the removed ones, and nothing else.
LEMMA ReleaseFacts ==
  ASSUME TypeOK, NEW sh \in SharedType, ReleaseIfStopped(sh)
  PROVE  /\ shared' \in SharedType /\ shared'.claimed = sh.claimed /\ shared'.ready = sh.ready
         /\ shared'.inFlight = sh.inFlight /\ shared'.curSeq = sh.curSeq
         /\ shared'.stopped = sh.stopped /\ shared'.segment = sh.segment
         /\ shared'.handoff = sh.handoff /\ shared'.doomed \in {sh.doomed, <<>>}
         /\ \E names \in SUBSET Seqs :
              /\ Unlinked(names) /\ names \subseteq ToSet(sh.doomed)
              /\ names \cup ToSet(shared'.doomed) = ToSet(sh.doomed)
<1>1. sh.doomed \in Seq(Seqs) /\ <<>> \in Seq(Seqs)
  BY DEF SharedType
<1>2. ToSet(sh.doomed) \subseteq Seqs /\ ToSet(<<>>) = {}
  BY <1>1, QueueFacts
<1>3. CASE sh.stopped
  <2>1. Delete(ToSet(sh.doomed)) /\ shared' = [sh EXCEPT !.doomed = <<>>]
    BY <1>3 DEF ReleaseIfStopped
  <2>2. Unlinked(ToSet(sh.doomed))
    BY <2>1, DeleteUnlinks
  <2>3. /\ shared' \in SharedType /\ shared'.claimed = sh.claimed /\ shared'.ready = sh.ready
        /\ shared'.inFlight = sh.inFlight /\ shared'.curSeq = sh.curSeq
        /\ shared'.stopped = sh.stopped /\ shared'.segment = sh.segment
        /\ shared'.handoff = sh.handoff /\ shared'.doomed = <<>>
    BY <1>1, <2>1 DEF SharedType
  <2>4. QED
    BY <1>2, <2>2, <2>3
<1>4. CASE ~sh.stopped
  <2>1. shared' = sh /\ UNCHANGED <<dir, removed>>
    BY <1>4 DEF ReleaseIfStopped
  <2>2. Unlinked({})
    BY <2>1, DeleteUnlinks
  <2>3. QED
    BY <2>1, <2>2
<1>5. QED
  BY <1>3, <1>4

\* A step of the writer within its segment that moves names along: from those to look at to those
\* given up, and on to those removed.
LEMMA RetentionFrame ==
  ASSUME IInv, UNCHANGED h, NEW names \in SUBSET Seqs, Unlinked(names), names \subseteq Dropped',
         w' \in WriterType, w'.seq = w.seq, w'.by = w.by, w'.pc \notin RollPc,
         w'.pc \notin {"follow", "closed"},
         w'.pc \notin PrunePc => w'.pruning = <<>>, w'.pc = "unlink" => w'.pruning # <<>>,
         shared' \in SharedType, shared'.claimed = shared.claimed,
         shared'.ready = shared.ready, shared'.inFlight = shared.inFlight,
         shared'.stopped = shared.stopped, shared'.curSeq = w.seq,
         shared'.segment \in {shared.segment, shared.handoff},
         shared'.handoff \in {shared.handoff, Nothing},
         \A s \in Seqs : s \in Dropped' \cup Waiting' <=> s + Keep <= w.seq,
         h.pc = "install" =>
           ahead \notin Dropped' /\ ~(w'.pc = "unlink" /\ Head(w'.pruning) = ahead),
         QueuesOK'
  PROVE  IInv'
<1>1. /\ TypeOK /\ w.seq \in Nat /\ h.seq \in Nat /\ shared \in SharedType
  BY HelperHolds
<1>2. next' = next /\ ahead' = ahead /\ Pruned' = w.seq
  BY DEF next, ahead, Pruned
<1>3. RetentionOK'
  BY <1>2 DEF IInv, RetentionOK
<1>4. AnnounceOK'
  BY <1>2 DEF IInv, AnnounceOK
<1>5. SeenOK'
  <2>1. shared.curSeq <= w.seq /\ h.seq <= shared.curSeq /\ shared.curSeq \in Nat
    BY <1>1 DEF IInv, SeenOK, SharedType, Seqs
  <2>2. h.seq <= w.seq /\ w.seq <= w.seq
    BY <1>1, <2>1
  <2>3. Nothing.seq <= w.seq /\ Nothing.seq # w.seq
    BY <1>1 DEF Nothing, None
  <2>4. QED
    BY <1>2, <2>2, <2>3 DEF IInv, SeenOK
<1>6. FilesOK' /\ dir' \in [Seqs -> Files \cup {NoFile}] /\ removed' \subseteq Seqs
  <2>1. \A s \in names : s + Keep <= w.seq
    OBVIOUS
  <2>2. w'.pc \notin {"adopt", "publish"}
    BY DEF RollPc
  <2>3. QED
    BY <2>1, <2>2, FilesFrame, SuccessorFacts
<1>7. TypeOK'
  BY <1>1, <1>6 DEF TypeOK
<1>8. QED
  BY <1>3, <1>4, <1>5, <1>6, <1>7 DEF IInv

\* current_sequence follows the roll, and the segment that falls out of the window joins those
\* that were put off.
LEMMA FollowStep ==
  ASSUME IInv, Follow
  PROVE  IInv'
<1> DEFINE sh == [shared EXCEPT !.curSeq = w.seq]
           pruning == w.deferred \o (IF w.seq >= Keep THEN <<w.seq - Keep>> ELSE <<>>)
<1>1. /\ TypeOK /\ w.seq \in Nat /\ w.seq \in Seqs /\ h \in HelperType /\ shared \in SharedType
      /\ w \in WriterType /\ w.deferred \in Seq(Seqs) /\ w.pc = "follow" /\ w.pruning = <<>>
      /\ Keep \in Nat \ {0} /\ MaxSeq \in Nat
      /\ shared.doomed \in Seq(Seqs) /\ <<>> \in Seq(Seqs)
  <2>1. w.pc = "follow"
    BY DEF Follow
  <2>2. w.pruning = <<>>
    BY <2>1 DEF IInv, RetentionOK, PrunePc
  <2>3. QED
    BY <2>1, <2>2, HelperHolds, PrefaultAssumption DEF WriterType, SharedType
<1>2. /\ Len(w.deferred) \in Nat /\ ToSet(w.deferred) \subseteq Seqs /\ Len(w.deferred) <= 1
      /\ ToSet(<<>>) = {} /\ Len(<<>>) = 0 /\ ToSet(shared.doomed) \subseteq Seqs
  BY <1>1, QueueFacts DEF IInv, QueuesOK
<1>3. /\ pruning \in Seq(Seqs) /\ Len(pruning) \in Nat /\ Len(pruning) <= 2
      /\ \A s \in Seqs : s \in ToSet(pruning) <=> s \in ToSet(w.deferred) \/ s + Keep = w.seq
      /\ Len(pruning) = 2 => pruning[1] # pruning[2]
  <2>1. CASE w.seq >= Keep
    <3> DEFINE s0 == w.seq - Keep
    <3>1. s0 \in Seqs /\ s0 + Keep = w.seq /\ \A s \in Seqs : s + Keep = w.seq => s = s0
      BY <1>1, <2>1 DEF Seqs
    <3>2. pruning = w.deferred \o <<s0>>
      BY <2>1
    <3> HIDE DEF s0, pruning
    <3>3. pruning = Append(w.deferred, s0)
      BY <1>1, <3>1, <3>2, QueueFacts
    <3>4. /\ pruning \in Seq(Seqs) /\ Len(pruning) = Len(w.deferred) + 1
          /\ ToSet(pruning) = ToSet(w.deferred) \cup {s0}
      BY <1>1, <3>1, <3>3, QueueFacts
    <3>5. Len(pruning) = 2 => pruning[1] = w.deferred[1] /\ pruning[2] = s0
                              /\ w.deferred[1] \in ToSet(w.deferred)
      <4>1. SUFFICES ASSUME Len(pruning) = 2
                     PROVE  pruning[1] = w.deferred[1] /\ pruning[2] = s0
                            /\ w.deferred[1] \in ToSet(w.deferred)
        OBVIOUS
      <4>2. Len(w.deferred) = 1
        <5> DEFINE n == Len(w.deferred)
        <5>1. n \in Nat /\ n + 1 = 2
          BY <1>2, <3>4, <4>1
        <5> HIDE DEF n
        <5>2. n = 1
          BY <5>1
        <5>3. QED
          BY <5>2 DEF n
      <4>3. 1 \in DOMAIN w.deferred
        BY <1>1, <4>2
      <4>4. Append(w.deferred, s0)[1] = w.deferred[1] /\ Append(w.deferred, s0)[2] = s0
        BY <1>1, <3>1, <4>2
      <4>5. QED
        BY <3>3, <4>3, <4>4 DEF ToSet
    <3>6. \A s \in ToSet(w.deferred) : s # s0
      <4>1. \A s \in ToSet(w.deferred) : s \in Seqs /\ s + Keep <= w.seq - 1
        BY <1>1, <1>2 DEF IInv, RetentionOK, Waiting, Pruned
      <4>2. \A s \in Seqs : s + Keep <= w.seq - 1 => s + Keep # w.seq
        BY <1>1 DEF Seqs
      <4>3. QED
        BY <3>1, <4>1, <4>2
    <3>7. QED
      BY <1>2, <3>1, <3>4, <3>5, <3>6
  <2>2. CASE ~(w.seq >= Keep)
    <3>1. pruning = w.deferred
      BY <1>1, <2>2, QueueFacts
    <3>2. \A s \in Seqs : s + Keep # w.seq
      BY <1>1, <2>2 DEF Seqs
    <3> HIDE DEF pruning
    <3>3. QED
      BY <1>1, <1>2, <3>1, <3>2
  <2>3. QED
    BY <2>1, <2>2
<1>4. /\ sh \in SharedType /\ sh.claimed = shared.claimed
      /\ sh.ready = shared.ready /\ sh.inFlight = shared.inFlight
      /\ sh.doomed = shared.doomed /\ sh.curSeq = w.seq
      /\ sh.stopped = shared.stopped /\ sh.segment = shared.segment
      /\ sh.handoff = shared.handoff
  BY <1>1 DEF SharedType
<1>5. /\ w' \in WriterType /\ w'.seq = w.seq /\ w'.by = w.by /\ w'.pc = "prune"
      /\ w'.pruning = pruning /\ w'.deferred = <<>> /\ UNCHANGED h /\ ReleaseIfStopped(sh)
  <2>1. w' = [w EXCEPT !.pc = "prune", !.deferred = <<>>, !.pruning = pruning]
    BY DEF Follow
  <2> HIDE DEF pruning
  <2>2. QED
    BY <1>1, <1>3, <2>1 DEF Follow, WriterType, WriterPc, PrunePc
<1> HIDE DEF sh, pruning
<1>6. /\ shared' \in SharedType /\ shared'.claimed = shared.claimed
      /\ shared'.ready = shared.ready /\ shared'.inFlight = shared.inFlight
      /\ shared'.curSeq = w.seq /\ shared'.stopped = shared.stopped
      /\ shared'.segment = shared.segment /\ shared'.handoff = shared.handoff
      /\ shared'.doomed \in {shared.doomed, <<>>}
  BY <1>1, <1>4, <1>5, ReleaseFacts
<1>7. PICK names \in SUBSET Seqs :
        /\ Unlinked(names)
        /\ names \cup ToSet(shared'.doomed) = ToSet(shared.doomed)
  BY <1>1, <1>4, <1>5, ReleaseFacts
<1>8. Dropped' = Dropped /\ names \subseteq Dropped' /\ Waiting' = ToSet(pruning)
  BY <1>2, <1>5, <1>7 DEF Dropped, Waiting, Unlinked
<1>9. \A s \in Seqs : s \in Dropped' \cup Waiting' <=> s + Keep <= w.seq
  <2>1. \A s \in Seqs : s \in Dropped \cup ToSet(w.deferred) <=> s + Keep <= w.seq - 1
    BY <1>1, <1>2 DEF IInv, RetentionOK, Waiting, Pruned
  <2>2. \A s \in Seqs : s + Keep <= w.seq <=> s + Keep <= w.seq - 1 \/ s + Keep = w.seq
    <3>1. \A a, b \in Int : a <= b <=> a <= b - 1 \/ a = b
      OBVIOUS
    <3>2. w.seq \in Int /\ \A s \in Seqs : s + Keep \in Int
      BY <1>1 DEF Seqs
    <3>3. QED
      BY <3>1, <3>2
  <2>3. QED
    BY <1>3, <1>8, <2>1, <2>2
<1>10. QueuesOK'
  <2>1. Len(shared'.doomed) <= DoomedQueue
    BY <1>2, <1>6, PrefaultAssumption DEF IInv, QueuesOK
  <2>2. Len(h'.deleting) <= DoomedQueue
    BY <1>5 DEF IInv, QueuesOK
  <2>3. /\ Len(w'.deferred) <= 1 /\ Len(w'.deferred) + Len(w'.pruning) <= 2
        /\ Len(w'.pruning) = 2 => w'.pruning[1] # w'.pruning[2]
    BY <1>2, <1>3, <1>5
  <2>4. QED
    BY <1>5, <2>1, <2>2, <2>3 DEF QueuesOK
<1>11. QED
  BY <1>1, <1>5, <1>6, <1>7, <1>8, <1>9, <1>10, RetentionFrame
       DEF RollPc, PrunePc, IInv, AnnounceOK

\* Arithmetic of lengths up to 2.
LEMMA LengthArith ==
  /\ \A a, b \in Nat : b + a <= 2 => a <= 2
  /\ \A a \in Nat : a # 0 => a >= 1
  /\ \A a, b \in Nat : b = a - 1 /\ b # 0 /\ a <= 2 => a = 2
  /\ \A a, b \in Nat : b = a - 1 /\ a <= 2 => b <= 1 /\ b # 2 /\ 1 + b <= 2
  /\ \A a, b, c \in Nat : b = a - 1 /\ c + a <= 2 => c + b <= 2 /\ b # 2
  OBVIOUS

\* How long the writer's own queues are.
LEMMA QueueLengths ==
  ASSUME IInv
  PROVE  /\ Len(w.pruning) \in Nat /\ Len(w.deferred) \in Nat
         /\ Len(w.pruning) <= 2 /\ Len(w.deferred) <= 1
         /\ w.pruning # <<>> => Len(w.pruning) >= 1
<1>1. w.deferred \in Seq(Seqs) /\ w.pruning \in Seq(Seqs)
  BY DEF IInv, TypeOK, WriterType
<1>2. /\ Len(w.pruning) \in Nat /\ Len(w.deferred) \in Nat
      /\ w.pruning # <<>> => Len(w.pruning) # 0
  BY <1>1, QueueFacts
<1>3. Len(w.deferred) <= 1 /\ Len(w.deferred) + Len(w.pruning) <= 2
  BY DEF IInv, QueuesOK
<1>4. QED
  BY <1>2, <1>3, LengthArith, Zenon

\* What is announced is put off, at most one; what is not is past being installed.
LEMMA PruneCheckStep ==
  ASSUME IInv, PruneCheck
  PROVE  IInv'
<1> DEFINE s == Head(w.pruning)
<1>1. /\ TypeOK /\ w.seq \in Nat /\ h \in HelperType /\ shared \in SharedType
      /\ w \in WriterType /\ w.deferred \in Seq(Seqs) /\ w.pruning \in Seq(Seqs)
      /\ w.pc = "prune" /\ w.pruning # <<>> /\ UNCHANGED <<dir, shared, h, removed>>
  BY HelperHolds DEF PruneCheck, WriterType
<1>2. /\ s \in Seqs /\ Tail(w.pruning) \in Seq(Seqs) /\ Len(w.pruning) \in Nat
      /\ Len(Tail(w.pruning)) = Len(w.pruning) - 1 /\ Len(w.deferred) \in Nat
      /\ ToSet(w.pruning) = ToSet(Tail(w.pruning)) \cup {s}
      /\ Append(w.deferred, s) \in Seq(Seqs) /\ Len(Append(w.deferred, s)) = Len(w.deferred) + 1
      /\ ToSet(Append(w.deferred, s)) = ToSet(w.deferred) \cup {s}
      /\ w.deferred = <<>> <=> Len(w.deferred) = 0
  BY <1>1, QueueFacts
<1>3. Dropped' = Dropped
  BY <1>1 DEF Dropped
<1>4. Pruned = w.seq /\ shared.curSeq = w.seq
  BY <1>1 DEF Pruned, IInv, SeenOK
<1>5. Unlinked({})
  BY <1>1, DeleteUnlinks
<1>6. CASE ~shared.stopped /\ shared.inFlight = s
  <2>1. w' = [w EXCEPT !.pruning = Tail(w.pruning), !.deferred = Append(w.deferred, s)]
    BY <1>6 DEF PruneCheck
  <2>2. /\ w' \in WriterType /\ w'.seq = w.seq /\ w'.by = w.by /\ w'.pc = "prune"
        /\ w'.pruning = Tail(w.pruning) /\ w'.deferred = Append(w.deferred, s)
    <3> HIDE DEF s
    <3>1. QED
      BY <1>1, <1>2, <2>1 DEF WriterType
  <2>3. Waiting' = Waiting
    BY <1>2, <2>2 DEF Waiting
  <2>4. w.deferred = <<>>
    BY <1>1, <1>2, <1>6 DEF IInv, QueuesOK, PrunePc
  <2>5. h.pc \in {"claimed", "install", "retract"}
    <3>1. shared.inFlight # None
      BY <1>2, <1>6 DEF Seqs, None
    <3>2. QED
      BY <3>1 DEF IInv, AnnounceOK
  <2>6. shared.inFlight \notin ToSet(Tail(w.pruning))
    <3>1. SUFFICES ASSUME s \in ToSet(Tail(w.pruning)) PROVE FALSE
      BY <1>6
    <3>2. Len(Tail(w.pruning)) # 0
      BY <1>2, <3>1, QueueFacts
    <3>3. Len(w.pruning) = 2
      <4>1. Len(w.pruning) <= 2
        BY QueueLengths
      <4>2. Len(Tail(w.pruning)) \in Nat
        BY <1>2, QueueFacts
      <4>3. Len(w.pruning) \in Nat /\ Len(Tail(w.pruning)) = Len(w.pruning) - 1
        BY <1>2
      <4>4. QED
        BY <3>2, <4>1, <4>2, <4>3, LengthArith, Zenon
    <3>4. w.pruning[1] # w.pruning[2] /\ s = w.pruning[1]
      BY <1>1, <3>3 DEF IInv, QueuesOK
    <3>5. Len(Tail(w.pruning)) = 1
      BY <1>2, <3>3
    <3>6. DOMAIN Tail(w.pruning) = 1..1
      <4>1. DOMAIN Tail(w.pruning) = 1..Len(Tail(w.pruning))
        BY <1>2
      <4>2. QED
        BY <3>5, <4>1
    <3>7. Tail(w.pruning)[1] = w.pruning[2]
      BY <1>1, <3>3, <3>5, HeadTailProperties
    <3>8. QED
      BY <3>1, <3>4, <3>6, <3>7 DEF ToSet
  <2>7. QueuesOK'
    <3>1. /\ Len(w'.deferred) = 1 /\ Len(w'.pruning) # 2
          /\ Len(w'.deferred) + Len(w'.pruning) <= 2
      <4>1. Len(w.pruning) <= 2 /\ Len(w.deferred) = 0
        BY <1>1, <1>2, <2>4, QueueLengths
      <4>2. Len(w'.deferred) = 1 /\ Len(w'.pruning) = Len(w.pruning) - 1
        BY <1>2, <2>2, <4>1
      <4>3. Len(w'.pruning) \in Nat
        BY <1>2, <2>2, QueueFacts
      <4>4. QED
        BY <1>2, <4>1, <4>2, <4>3, LengthArith, Zenon
    <3>2. 1 <= 1
      OBVIOUS
    <3>3. Len(shared.doomed) <= DoomedQueue /\ Len(h.deleting) <= DoomedQueue
      BY DEF IInv, QueuesOK
    <3>4. QED
      BY <1>1, <2>2, <2>5, <2>6, <3>1, <3>2, <3>3, Zenon DEF QueuesOK
  <2>8. QED
    BY <1>1, <1>3, <1>4, <1>5, <2>2, <2>3, <2>7, RetentionFrame
         DEF RollPc, PrunePc, IInv, AnnounceOK, RetentionOK
<1>7. CASE ~(~shared.stopped /\ shared.inFlight = s)
  <2>1. w' = [w EXCEPT !.pc = "unlink"]
    BY <1>7 DEF PruneCheck
  <2>2. /\ w' \in WriterType /\ w'.seq = w.seq /\ w'.by = w.by /\ w'.pc = "unlink"
        /\ w'.pruning = w.pruning /\ w'.deferred = w.deferred
    BY <1>1, <2>1 DEF WriterType, WriterPc, PrunePc
  <2>3. Waiting' = Waiting
    BY <2>2 DEF Waiting
  <2>4. h.pc = "install" => ahead \notin Dropped /\ Head(w.pruning) # ahead
    BY <1>7 DEF IInv, AnnounceOK
  <2>5. QueuesOK'
    BY <1>1, <2>2 DEF IInv, QueuesOK, PrunePc
  <2> HIDE DEF s
  <2>6. QED
    BY <1>1, <1>3, <1>4, <1>5, <2>2, <2>3, <2>4, <2>5, RetentionFrame
         DEF RollPc, PrunePc, IInv, RetentionOK
<1>8. QED
  BY <1>6, <1>7

\* A name is queued while there is room, or removed at once.
LEMMA UnlinkStep ==
  ASSUME IInv, Unlink
  PROVE  IInv'
<1> DEFINE s == Head(w.pruning)
<1>1. /\ TypeOK /\ w.seq \in Nat /\ h \in HelperType /\ shared \in SharedType
      /\ w \in WriterType /\ w.deferred \in Seq(Seqs) /\ w.pruning \in Seq(Seqs)
      /\ w.pc = "unlink" /\ w.pruning # <<>> /\ UNCHANGED h /\ shared.doomed \in Seq(Seqs)
  <2>1. w.pc = "unlink"
    BY DEF Unlink
  <2>2. w.pruning # <<>>
    BY <2>1 DEF IInv, RetentionOK
  <2>3. QED
    BY <2>1, <2>2, HelperHolds DEF Unlink, WriterType, SharedType
<1>2. /\ s \in Seqs /\ Tail(w.pruning) \in Seq(Seqs) /\ Len(w.pruning) \in Nat
      /\ Len(Tail(w.pruning)) = Len(w.pruning) - 1 /\ Len(w.deferred) \in Nat
      /\ ToSet(w.pruning) = ToSet(Tail(w.pruning)) \cup {s}
      /\ Len(shared.doomed) \in Nat
      /\ Append(shared.doomed, s) \in Seq(Seqs)
      /\ Len(Append(shared.doomed, s)) = Len(shared.doomed) + 1
      /\ ToSet(Append(shared.doomed, s)) = ToSet(shared.doomed) \cup {s}
  BY <1>1, QueueFacts
<1>3. w' = [w EXCEPT !.pc = "release", !.pruning = Tail(w.pruning)]
  BY DEF Unlink
<1>4. PICK names \in SUBSET {s} :
        /\ Unlinked(names)
        /\ \/ shared' = [shared EXCEPT !.doomed = Append(shared.doomed, s)] /\ names = {}
              /\ Len(shared.doomed) < DoomedQueue
           \/ shared' = shared /\ names = {s}
  <2>1. CASE Len(shared.doomed) >= DoomedQueue
    BY <1>1, <2>1, DeleteUnlinks DEF Unlink
  <2>2. CASE ~(Len(shared.doomed) >= DoomedQueue)
    <3>1. Len(shared.doomed) < DoomedQueue
      BY <1>2, <2>2, PrefaultAssumption
    <3>2. /\ shared' = [shared EXCEPT !.doomed = Append(shared.doomed, s)]
          /\ UNCHANGED <<dir, removed>>
      BY <2>2 DEF Unlink
    <3>3. QED
      BY <1>1, <3>1, <3>2, DeleteUnlinks
  <2>3. QED
    BY <2>1, <2>2
<1>5. h.pc = "install" => ahead \notin Dropped /\ ahead # s
  BY <1>1 DEF IInv, AnnounceOK
<1> HIDE DEF s
<1>6. /\ w' \in WriterType /\ w'.seq = w.seq /\ w'.by = w.by /\ w'.pc = "release"
      /\ w'.pruning = Tail(w.pruning) /\ w'.deferred = w.deferred
  BY <1>1, <1>2, <1>3 DEF WriterType, WriterPc, PrunePc
<1>7. /\ shared' \in SharedType /\ shared'.claimed = shared.claimed
      /\ shared'.ready = shared.ready /\ shared'.inFlight = shared.inFlight
      /\ shared'.curSeq = shared.curSeq /\ shared'.stopped = shared.stopped
      /\ shared'.segment = shared.segment /\ shared'.handoff = shared.handoff
      /\ names \cup ToSet(shared'.doomed) = ToSet(shared.doomed) \cup {s}
      /\ Len(shared'.doomed) <= DoomedQueue
  <2>1. CASE shared' = [shared EXCEPT !.doomed = Append(shared.doomed, s)] /\ names = {}
             /\ Len(shared.doomed) < DoomedQueue
    <3>1. /\ shared' \in SharedType /\ shared'.claimed = shared.claimed
          /\ shared'.ready = shared.ready /\ shared'.inFlight = shared.inFlight
          /\ shared'.curSeq = shared.curSeq /\ shared'.stopped = shared.stopped
          /\ shared'.segment = shared.segment /\ shared'.handoff = shared.handoff
          /\ shared'.doomed = Append(shared.doomed, s)
      BY <1>1, <1>2, <2>1 DEF SharedType
    <3>2. Len(shared'.doomed) <= DoomedQueue
      BY <1>2, <2>1, <3>1, PrefaultAssumption
    <3>3. QED
      BY <1>2, <2>1, <3>1, <3>2
  <2>2. CASE shared' = shared /\ names = {s}
    BY <1>1, <2>2 DEF IInv, QueuesOK
  <2>3. QED
    BY <1>4, <2>1, <2>2
<1>8. /\ Dropped' = Dropped \cup {s} /\ names \subseteq Dropped'
      /\ Dropped' \cup Waiting' = Dropped \cup Waiting /\ names \in SUBSET Seqs
  BY <1>1, <1>2, <1>4, <1>6, <1>7 DEF Dropped, Waiting, Unlinked
<1>9. Pruned = w.seq /\ shared.curSeq = w.seq
  BY <1>1 DEF Pruned, IInv, SeenOK
<1>10. QueuesOK'
  <2>1. /\ Len(w'.pruning) \in Nat /\ Len(w'.deferred) + Len(w'.pruning) <= 2
        /\ Len(w'.pruning) # 2
    <3>1. Len(w.deferred) + Len(w.pruning) <= 2
      BY DEF IInv, QueuesOK
    <3>2. Len(w'.pruning) = Len(w.pruning) - 1 /\ Len(w'.pruning) \in Nat
      BY <1>2, <1>6, QueueFacts
    <3>3. Len(w'.deferred) = Len(w.deferred) /\ Len(w.deferred) \in Nat
      BY <1>2, <1>6
    <3>4. QED
      BY <1>2, <3>1, <3>2, <3>3, LengthArith, Zenon
  <2>2. QED
    BY <1>1, <1>2, <1>6, <1>7, <2>1 DEF IInv, QueuesOK, PrunePc
<1>11. QED
  BY <1>1, <1>4, <1>5, <1>6, <1>7, <1>8, <1>9, <1>10, RetentionFrame
       DEF RollPc, PrunePc, IInv, RetentionOK

\* What a stopped helper left in the queue is removed.
LEMMA ReleaseSteps ==
  ASSUME IInv, Release \/ Moved
  PROVE  IInv'
<1>1. /\ TypeOK /\ w.seq \in Nat /\ h \in HelperType /\ shared \in SharedType
      /\ w \in WriterType /\ UNCHANGED h /\ shared.doomed \in Seq(Seqs)
      /\ w.pc \in {"release", "idle"} /\ <<>> \in Seq(Seqs)
  BY HelperHolds DEF Release, Moved, SharedType
<1>2. /\ w' \in WriterType /\ w'.seq = w.seq /\ w'.by = w.by /\ w'.pc \in {"prune", "idle"}
      /\ w'.pruning = w.pruning /\ w'.deferred = w.deferred
      /\ w'.pc = "prune" => w.pc = "release"
      /\ w'.pc = "idle" => w.pc = "idle"
  <2>1. CASE Release
    BY <1>1, <2>1 DEF Release, WriterType, WriterPc, PrunePc
  <2>2. CASE Moved
    BY <1>1, <2>2 DEF Moved
  <2>3. QED
    BY <2>1, <2>2
<1>3. PICK sh \in SharedType :
        /\ ReleaseIfStopped(sh)
        /\ sh.claimed = shared.claimed /\ sh.ready = shared.ready
        /\ sh.inFlight = shared.inFlight /\ sh.doomed = shared.doomed
        /\ sh.curSeq = shared.curSeq /\ sh.stopped = shared.stopped
        /\ sh.segment \in {shared.segment, shared.handoff}
        /\ sh.handoff \in {shared.handoff, Nothing}
  <2>1. CASE Release
    BY <1>1, <2>1 DEF Release
  <2>2. CASE Moved
    <3>1. PICK sh \in HandedOff(shared) : ReleaseIfStopped(sh)
      BY <2>2 DEF Moved
    <3>2. QED
      BY <1>1, <3>1, HandedOffFacts
  <2>3. QED
    BY <2>1, <2>2
<1>4. /\ shared' \in SharedType /\ shared'.claimed = shared.claimed
      /\ shared'.ready = shared.ready /\ shared'.inFlight = shared.inFlight
      /\ shared'.curSeq = shared.curSeq /\ shared'.stopped = shared.stopped
      /\ shared'.segment \in {shared.segment, shared.handoff}
      /\ shared'.handoff \in {shared.handoff, Nothing}
      /\ shared'.doomed \in {shared.doomed, <<>>}
  BY <1>1, <1>3, ReleaseFacts
<1>5. PICK names \in SUBSET Seqs :
        Unlinked(names) /\ names \cup ToSet(shared'.doomed) = ToSet(shared.doomed)
  BY <1>1, <1>3, ReleaseFacts
<1>6. Dropped' = Dropped /\ names \subseteq Dropped' /\ Waiting' = Waiting
  BY <1>1, <1>2, <1>5 DEF Dropped, Waiting, Unlinked
<1>7. Pruned = w.seq /\ shared.curSeq = w.seq
  BY <1>1 DEF Pruned, IInv, SeenOK
<1>8. QueuesOK'
  <2>1. Len(shared'.doomed) <= DoomedQueue
    BY <1>4, QueueFacts, PrefaultAssumption DEF IInv, QueuesOK
  <2>2. QED
    BY <1>1, <1>2, <1>4, <2>1, Zenon DEF IInv, QueuesOK, PrunePc
<1>9. w'.pc \notin PrunePc => w'.pruning = <<>>
  BY <1>2 DEF IInv, RetentionOK, PrunePc
<1>10. QED
  BY <1>1, <1>2, <1>4, <1>5, <1>6, <1>7, <1>8, <1>9, RetentionFrame
       DEF RollPc, PrunePc, IInv, RetentionOK, AnnounceOK

\* The drop of the writer, once the helper has ended: an unused successor goes, and all that
\* retention has given up.
LEMMA JoinedStep ==
  ASSUME IInv, Joined
  PROVE  IInv'
<1> DEFINE unused == IF shared.ready # Nothing /\ OnDisk(shared.ready.seq)
                        /\ ~dir[shared.ready.seq].pub
                     THEN {shared.ready.seq} ELSE {}
           dropped == ToSet(shared.doomed) \cup ToSet(w.deferred)
<1>1. /\ TypeOK /\ w.seq \in Nat /\ w.seq \in Seqs /\ h \in HelperType /\ shared \in SharedType
      /\ w \in WriterType /\ UNCHANGED h /\ shared.doomed \in Seq(Seqs)
      /\ w.deferred \in Seq(Seqs) /\ <<>> \in Seq(Seqs) /\ next \in Nat
      /\ w.pc = "join" /\ h.pc = "exited" /\ dir \in [Seqs -> Files \cup {NoFile}]
      /\ removed \subseteq Seqs
  BY HelperHolds DEF Joined, SharedType, WriterType, TypeOK
<1>2. /\ ToSet(shared.doomed) \subseteq Seqs /\ ToSet(w.deferred) \subseteq Seqs
      /\ ToSet(<<>>) = {} /\ Len(<<>>) = 0
      /\ w.pruning = <<>> /\ h.deleting = <<>>
  <2>1. w.pruning = <<>> /\ h.deleting = <<>>
    BY <1>1 DEF IInv, RetentionOK, PrunePc
  <2>2. QED
    BY <1>1, <2>1, QueueFacts
<1>3. /\ w' \in WriterType /\ w'.seq = w.seq /\ w'.by = w.by /\ w'.pc = "closed"
      /\ w'.pruning = <<>> /\ w'.deferred = <<>>
  BY <1>1, <1>2 DEF Joined, WriterType, WriterPc
<1>4. /\ shared' \in SharedType /\ shared'.claimed = shared.claimed
      /\ shared'.ready = Nothing /\ shared'.inFlight = shared.inFlight
      /\ shared'.curSeq = shared.curSeq /\ shared'.stopped = shared.stopped
      /\ shared'.segment = shared.segment /\ shared'.handoff = shared.handoff
      /\ shared'.doomed = <<>>
  BY <1>1 DEF Joined, SharedType, ReadyType
<1>5. /\ dir' = [s \in Seqs |-> IF s \in unused \cup dropped THEN NoFile ELSE dir[s]]
      /\ removed' = removed \cup dropped
  BY DEF Joined
<1>6. /\ next' = next /\ ahead' = ahead /\ Pruned' = Pruned /\ Pruned = w.seq
      /\ Dropped' \cup Waiting' = Dropped \cup Waiting
  <2>1. next' = next /\ ahead' = ahead /\ Pruned' = Pruned /\ Pruned = w.seq
    BY <1>1, <1>3 DEF next, ahead, Pruned
  <2>2. Dropped \cup Waiting = removed \cup ToSet(shared.doomed) \cup ToSet(w.deferred)
    BY <1>2 DEF Dropped, Waiting
  <2>3. Dropped' \cup Waiting' = removed'
    <3>1. /\ Dropped' = removed' \cup ToSet(shared'.doomed) \cup ToSet(h'.deleting)
          /\ Waiting' = ToSet(w'.pruning) \cup ToSet(w'.deferred)
      BY DEF Dropped, Waiting
    <3>2. /\ ToSet(shared'.doomed) = {} /\ ToSet(h'.deleting) = {}
          /\ ToSet(w'.pruning) = {} /\ ToSet(w'.deferred) = {}
      BY <1>1, <1>2, <1>3, <1>4
    <3>3. QED
      BY <3>1, <3>2
  <2>4. QED
    BY <1>5, <2>1, <2>2, <2>3
<1>7. unused \subseteq {next} /\ w.seq \notin unused
  <2>1. SUFFICES ASSUME shared.ready # Nothing, OnDisk(shared.ready.seq),
                        ~dir[shared.ready.seq].pub
                 PROVE  shared.ready.seq = next /\ next # w.seq
    OBVIOUS
  <2>2. shared.ready.seq \in Seqs
    BY <1>1, <2>1 DEF SharedType, ReadyType
  <2>3. shared.ready.seq > w.seq
    <3>1. shared.ready.seq \notin removed
      BY <2>1 DEF IInv, FilesOK
    <3>2. ~(shared.ready.seq <= w.seq)
      BY <2>1, <2>2, <3>1 DEF IInv, FilesOK, Published
    <3>3. QED
      BY <1>1, <2>2, <3>2 DEF Seqs
  <2>4. QED
    BY <1>1, <2>1, <2>2, <2>3 DEF IInv, FilesOK, next
<1>8. w.seq \notin dropped
  <2>1. ~(w.seq + Keep <= Pruned)
    BY <1>1, <1>6, PrefaultAssumption
  <2>2. QED
    BY <1>1, <2>1 DEF IInv, RetentionOK, Dropped, Waiting
<1>9. /\ dir' \in [Seqs -> Files \cup {NoFile}] /\ removed' \subseteq Seqs
      /\ \A s \in Seqs : dir'[s] = IF s \in unused \cup dropped THEN NoFile ELSE dir[s]
  BY <1>1, <1>2, <1>5
<1> HIDE DEF unused
<1>10. FilesOK'
  <2>1. \A s \in removed' : ~OnDisk(s)'
    BY <1>1, <1>5, <1>9 DEF IInv, FilesOK, OnDisk
  <2>2. \A s \in Seqs : s <= w'.seq /\ s \notin removed' => Published(s)'
    <3>1. \A s \in Seqs : s <= w.seq => s \notin unused
      BY <1>1, <1>7 DEF Seqs, next
    <3>2. QED
      BY <1>3, <1>5, <1>9, <3>1 DEF IInv, FilesOK, OnDisk, Published
  <2>3. \A s \in Seqs : s > w'.seq /\ OnDisk(s)' =>
          s = next' /\ ~dir'[s].pub /\ dir'[s].parent = w'.by
    BY <1>3, <1>6, <1>9 DEF IInv, FilesOK, OnDisk
  <2>4. dir'[w'.seq].by = w'.by
    BY <1>1, <1>3, <1>7, <1>8, <1>9 DEF IInv, FilesOK
  <2>5. shared'.ready.seq # next'
    BY <1>4, <1>6, SuccessorFacts
  <2>6. QED
    BY <1>1, <1>3, <2>1, <2>2, <2>3, <2>4, <2>5 DEF FilesOK
<1>11. TypeOK'
  BY <1>1, <1>3, <1>4, <1>9 DEF TypeOK
<1>12. RetentionOK'
  BY <1>1, <1>2, <1>3, <1>4, <1>6 DEF IInv, RetentionOK, PrunePc
<1>13. AnnounceOK'
  BY <1>1, <1>3, <1>4, <1>6 DEF IInv, AnnounceOK, RollPc, AheadPc
<1>14. SeenOK'
  <2>1. Nothing.seq <= next'
    BY <1>6, SuccessorFacts
  <2>2. QED
    BY <1>1, <1>3, <1>4, <2>1 DEF IInv, SeenOK, AheadPc
<1>15. QueuesOK'
  <2>1. 0 <= DoomedQueue /\ 0 <= 1 /\ 0 + 0 <= 2 /\ 0 # 2
    BY PrefaultAssumption
  <2>2. Len(h.deleting) <= DoomedQueue
    BY DEF IInv, QueuesOK
  <2>3. QED
    BY <1>1, <1>2, <1>3, <1>4, <2>1, <2>2, Zenon DEF QueuesOK
<1>16. QED
  BY <1>10, <1>11, <1>12, <1>13, <1>14, <1>15 DEF IInv

-----------------------------------------------------------------------------
(* The specification *)

\* The invariant holds when the helper is started.
LEMMA InitIInv == Init => IInv
<1>1. SUFFICES ASSUME Init PROVE IInv
  OBVIOUS
<1>2. Keep \in Nat \ {0} /\ DoomedQueue \in Nat \ {0} /\ MaxSeq \in Nat /\ 0 \in Seqs
  BY PrefaultAssumption DEF Seqs
<1>3. <<>> \in Seq(Seqs) /\ ToSet(<<>>) = {} /\ Len(<<>>) = 0
  <2>1. <<>> \in Seq(Seqs) /\ Len(<<>>) = 0
    OBVIOUS
  <2>2. QED
    BY <2>1, QueueFacts
<1> DEFINE none == <<>>
<1>4. none \in Seq(Seqs) /\ -1 = None
  BY <1>3 DEF None
<1>5. /\ w.pc = "idle" /\ w.seq = 0 /\ w.by = "w" /\ w.pruning = <<>> /\ w.deferred = <<>>
      /\ w \in WriterType
  <2>1. w = [pc |-> "idle", seq |-> 0, by |-> "w", new |-> "w", worker |-> FALSE,
             pruning |-> none, deferred |-> none]
    BY <1>1 DEF Init
  <2> HIDE DEF none
  <2>2. w \in WriterType
    BY <1>2, <1>4, <2>1 DEF WriterType, WriterPc, Makers
  <2>3. QED
    BY <2>1, <2>2 DEF none
<1>6. /\ shared.claimed = 0 /\ shared.ready = Nothing /\ shared.inFlight = None
      /\ shared.doomed = <<>> /\ shared.segment.seq = 0 /\ shared.segment.by = "w"
      /\ shared.handoff = Nothing /\ shared.curSeq = 0 /\ ~shared.stopped
      /\ shared \in SharedType
  <2>1. shared = [claimed |-> 0, ready |-> Nothing, readySeq |-> None, inFlight |-> None,
                  refused |-> None, doomed |-> none, segment |-> [seq |-> 0, by |-> "w"],
                  handoff |-> Nothing, curSeq |-> 0, stop |-> FALSE, stopped |-> FALSE]
    BY <1>1 DEF Init
  <2> HIDE DEF none
  <2>2. shared \in SharedType
    BY <1>2, <1>4, <2>1 DEF SharedType, ReadyType, HandoffType, Makers
  <2>3. QED
    BY <2>1, <2>2 DEF none
<1>7. h.pc = "top" /\ h.seq = 0 /\ h.deleting = <<>> /\ h \in HelperType
  <2>1. h = [pc |-> "top", seq |-> 0, header |-> None, parent |-> "w", res |-> "none",
             deleting |-> none]
    BY <1>1 DEF Init
  <2> HIDE DEF none
  <2>2. h \in HelperType
    BY <1>2, <1>4, <2>1 DEF HelperType, HelperPc, Makers
  <2>3. QED
    BY <2>1, <2>2 DEF none
<1>8. /\ removed = {} /\ dir \in [Seqs -> Files \cup {NoFile}] /\ Published(0) /\ dir[0].by = "w"
      /\ \A s \in Seqs : s # 0 => ~OnDisk(s)
  <2> DEFINE file == [by |-> "w", parent |-> "w", pub |-> TRUE]
  <2>1. file \in Files /\ file.by = "w" /\ file.pub
    BY DEF Files, Makers
  <2>2. file # NoFile
    <3>1. DOMAIN file = {"by", "parent", "pub"} /\ DOMAIN NoFile = {"by"}
      BY DEF NoFile
    <3>2. QED
      BY <3>1
  <2>3. removed = {} /\ dir = [s \in Seqs |-> IF s = 0 THEN file ELSE NoFile]
    BY <1>1 DEF Init
  <2> HIDE DEF file
  <2>4. dir \in [Seqs -> Files \cup {NoFile}]
    BY <2>1, <2>3
  <2>5. dir[0] = file /\ \A s \in Seqs : s # 0 => dir[s] = NoFile
    BY <1>2, <2>3
  <2>6. QED
    BY <2>1, <2>2, <2>3, <2>4, <2>5 DEF Published, OnDisk
<1>9. next = 1 /\ Nothing.seq = -1 /\ None = -1
  BY <1>5 DEF next, Nothing, None
<1>10. TypeOK
  BY <1>5, <1>6, <1>7, <1>8 DEF TypeOK
<1>11. RetentionOK
  <2>1. Dropped \cup Waiting = {} /\ Pruned = 0
    BY <1>3, <1>5, <1>6, <1>7, <1>8 DEF Dropped, Waiting, Pruned
  <2>2. \A s \in Seqs : ~(s + Keep <= 0)
    BY <1>2 DEF Seqs
  <2>3. QED
    BY <1>5, <1>7, <2>1, <2>2 DEF RetentionOK
<1>12. AnnounceOK
  BY <1>5, <1>6, <1>7 DEF AnnounceOK, RollPc, AheadPc
<1>13. SeenOK
  BY <1>5, <1>6, <1>7, <1>9 DEF SeenOK, AheadPc
<1>14. FilesOK
  <2>1. \A s \in Seqs : s <= 0 => s = 0
    BY DEF Seqs
  <2>2. \A s \in Seqs : s > 0 => s # 0
    BY DEF Seqs
  <2>3. QED
    BY <1>5, <1>6, <1>7, <1>8, <1>9, <2>1, <2>2 DEF FilesOK
<1>15. QueuesOK
  <2>1. 0 <= DoomedQueue /\ 0 <= 1 /\ 0 + 0 <= 2 /\ 0 # 2
    BY <1>2
  <2>2. QED
    BY <1>3, <1>5, <1>6, <1>7, <2>1 DEF QueuesOK
<1>16. QED
  BY <1>10, <1>11, <1>12, <1>13, <1>14, <1>15 DEF IInv

\* Every step of either thread keeps it.
LEMMA NextIInv == IInv /\ [Next]_vars => IInv'
<1>1. SUFFICES ASSUME IInv, [Next]_vars PROVE IInv'
  OBVIOUS
<1>2. CASE HelperStep
  BY <1>1, <1>2, HelperSteps
<1>3. CASE Claim \/ Moved \/ Close \/ WriterStep
  BY <1>1, <1>3, SuccessorSteps, InstallSuccessorStep, SwitchStep, FollowStep, PruneCheckStep,
     UnlinkStep, ReleaseSteps, JoinedStep DEF WriterStep
<1>4. CASE UNCHANGED vars
  <2>1. UNCHANGED <<dir, w, shared, h, removed>>
    BY <1>4 DEF vars
  <2>2. /\ TypeOK' = TypeOK /\ RetentionOK' = RetentionOK /\ AnnounceOK' = AnnounceOK
        /\ SeenOK' = SeenOK /\ FilesOK' = FilesOK /\ QueuesOK' = QueuesOK
    BY <2>1 DEF TypeOK, RetentionOK, AnnounceOK, SeenOK, FilesOK, QueuesOK, Dropped, Waiting,
                Pruned, next, ahead, OnDisk, Published, IsSuccessor
  <2>3. QED
    BY <1>1, <2>2 DEF IInv
<1>5. QED
  BY <1>1, <1>2, <1>3, <1>4 DEF Next

\* The writer and its helper, in every interleaving of their steps, keep the invariant: its parts
\* relate the claim to the announcement, the queues to the names removed, and the directory to
\* the segment being written.
THEOREM PrefaultInvariant == Spec => []IInv
  BY InitIInv, NextIInv, PTL DEF Spec

\* install_ahead never brings back a segment that prune has removed: the helper announces before
\* it looks at the claim, and the writer claims before it looks at the announcement.
THEOREM NeverResurrects == Spec => []NoResurrection
<1>1. IInv => NoResurrection
  BY DEF IInv, FilesOK, NoResurrection
<1>2. QED
  BY <1>1, PrefaultInvariant, PTL

\* The segment the writer writes is published under its name and no other file is put there;
\* and a roll that finds its successor installed can adopt it.
THEOREM WriterKeepsItsFile == Spec => []WritesWhatIsNamed
<1>1. ASSUME IInv
      PROVE  WritesWhatIsNamed
  <2>1. w.seq \in Seqs /\ w.seq \in Nat
    BY <1>1, HelperHolds DEF WriterType
  <2>2. w.seq \notin removed
    <3>1. ~(w.seq + Keep <= Pruned)
      BY <2>1, PrefaultAssumption DEF Pruned
    <3>2. QED
      BY <1>1, <2>1, <3>1 DEF IInv, RetentionOK, Dropped
  <2>3. Published(w.seq) /\ dir[w.seq].by = w.by
    BY <1>1, <2>1, <2>2 DEF IInv, FilesOK
  <2>4. w.pc = "adopt" => Adoptable
    BY <1>1, SuccessorFacts DEF Adoptable
  <2>5. QED
    BY <2>3, <2>4 DEF WritesWhatIsNamed
<1>2. QED
  BY <1>1, PrefaultInvariant, PTL

\* After the drop exactly the last keep_files segments are there, and perhaps a prepared one.
THEOREM ClosesExactly == Spec => []ClosedExact
<1>1. ASSUME IInv, w.pc = "closed", NEW s \in Seqs
      PROVE  OnDisk(s) <=> \/ s \in (w.seq - Keep + 1)..w.seq
                           \/ s = next /\ OnDisk(s) /\ ~dir[s].pub
  <2>1. w.seq \in Nat /\ s \in Nat /\ Keep \in Nat \ {0} /\ Pruned = w.seq
    BY <1>1, HelperHolds, PrefaultAssumption DEF Seqs, Pruned
  <2>2. Dropped \cup Waiting = removed
    <3>1. /\ shared.doomed = <<>> /\ w.deferred = <<>> /\ w.pruning = <<>>
          /\ h.deleting = <<>>
      BY <1>1 DEF IInv, RetentionOK, PrunePc
    <3>2. ToSet(<<>>) = {}
      BY DEF ToSet
    <3>3. QED
      BY <3>1, <3>2 DEF Dropped, Waiting
  <2>3. s \in removed <=> s + Keep <= w.seq
    BY <1>1, <2>1, <2>2 DEF IInv, RetentionOK
  <2>4. CASE s <= w.seq
    <3>1. s \in (w.seq - Keep + 1)..w.seq <=> ~(s + Keep <= w.seq)
      BY <2>1, <2>4
    <3>2. OnDisk(s) <=> s \notin removed
      BY <1>1, <2>4 DEF IInv, FilesOK, Published
    <3>3. s # next
      BY <2>1, <2>4 DEF next
    <3>4. QED
      BY <2>3, <3>1, <3>2, <3>3
  <2>5. CASE s > w.seq
    <3>1. s \notin (w.seq - Keep + 1)..w.seq
      BY <2>1, <2>5
    <3>2. QED
      BY <1>1, <2>5, <3>1 DEF IInv, FilesOK
  <2>6. QED
    BY <2>1, <2>4, <2>5
<1>2. IInv => ClosedExact
  BY <1>1 DEF ClosedExact
<1>3. QED
  BY <1>2, PrefaultInvariant, PTL

\* A queue holds at most as many different names as it is long.
LEMMA QueueCardinality ==
  ASSUME NEW S, NEW s \in Seq(S)
  PROVE  IsFiniteSet(ToSet(s)) /\ Cardinality(ToSet(s)) <= Len(s) /\ Cardinality(ToSet(s)) \in Nat
<1>1. Len(s) \in Nat /\ DOMAIN s = 1..Len(s)
  OBVIOUS
<1>2. s \in Surjection(1..Len(s), ToSet(s))
  <2>1. s \in [1..Len(s) -> ToSet(s)]
    BY <1>1 DEF ToSet
  <2>2. \A t \in ToSet(s) : \E i \in 1..Len(s) : s[i] = t
    BY <1>1 DEF ToSet
  <2>3. QED
    BY <2>1, <2>2 DEF Surjection
<1>3. IsFiniteSet(1..Len(s)) /\ Cardinality(1..Len(s)) = Len(s)
  BY <1>1, FS_Interval
<1>4. QED
  BY <1>2, <1>3, FS_Surjection, FS_CardinalityType

\* The union of two finite sets has at most as many elements as both.
LEMMA UnionCardinality ==
  ASSUME NEW S, IsFiniteSet(S), NEW T, IsFiniteSet(T)
  PROVE  IsFiniteSet(S \cup T) /\ Cardinality(S \cup T) <= Cardinality(S) + Cardinality(T)
<1>1. IsFiniteSet(S \cap T)
  BY FS_Subset
<1>2. Cardinality(S) \in Nat /\ Cardinality(T) \in Nat /\ Cardinality(S \cap T) \in Nat
  BY <1>1, FS_CardinalityType
<1>3. /\ IsFiniteSet(S \cup T)
      /\ Cardinality(S \cup T) = Cardinality(S) + Cardinality(T) - Cardinality(S \cap T)
  BY FS_Union
<1>4. QED
  BY <1>2, <1>3

\* Between rolls, no more segments are published than the window holds, the two queues, and one
\* that is put off.
THEOREM QueuesBoundExcess == Spec => []ExceedsByQueues
<1>1. ASSUME IInv, w.pc = "idle"
      PROVE  Cardinality({s \in Seqs : Published(s)}) <= Keep + 2 * DoomedQueue + 1
  <2> DEFINE W == (w.seq - Keep + 1)..w.seq
             P == {s \in Seqs : Published(s)}
             A == ToSet(shared.doomed)
             B == ToSet(h.deleting)
             C == ToSet(w.deferred)
  <2>1. w.seq \in Nat /\ Keep \in Nat \ {0} /\ DoomedQueue \in Nat \ {0} /\ Pruned = w.seq
    BY <1>1, HelperHolds, PrefaultAssumption DEF Pruned
  <2>2. /\ shared.doomed \in Seq(Seqs) /\ h.deleting \in Seq(Seqs) /\ w.deferred \in Seq(Seqs)
        /\ w.pruning = <<>> /\ ToSet(<<>>) = {}
    <3>1. w.pruning = <<>>
      BY <1>1 DEF IInv, RetentionOK, PrunePc
    <3>2. QED
      BY <1>1, <3>1 DEF IInv, TypeOK, SharedType, HelperType, WriterType, ToSet
  <2>3. P \subseteq W \cup (A \cup (B \cup C))
    <3>1. SUFFICES ASSUME NEW s \in Seqs, Published(s), s \notin W
                   PROVE  s \in A \cup (B \cup C)
      OBVIOUS
    <3>2. s \in Nat
      BY DEF Seqs
    <3>3. s <= w.seq
      <4>1. ~(s > w.seq)
        BY <1>1, <3>1 DEF IInv, FilesOK, Published
      <4>2. QED
        BY <2>1, <3>2, <4>1
    <3>4. s + Keep <= Pruned
      BY <2>1, <3>1, <3>2, <3>3
    <3>5. s \in Dropped \cup Waiting
      BY <1>1, <3>4 DEF IInv, RetentionOK
    <3>6. s \notin removed
      BY <1>1, <3>1 DEF IInv, FilesOK, Published
    <3>7. QED
      BY <2>2, <3>5, <3>6 DEF Dropped, Waiting
  <2>4. IsFiniteSet(W) /\ Cardinality(W) = Keep
    <3> DEFINE a == w.seq - Keep + 1
    <3>1. a \in Int /\ w.seq \in Int /\ ~(a > w.seq) /\ w.seq - a + 1 = Keep
      BY <2>1
    <3> HIDE DEF a
    <3>2. IsFiniteSet(a..w.seq) /\ Cardinality(a..w.seq) = Keep
      BY <3>1, FS_Interval
    <3>3. QED
      BY <3>2 DEF a
  <2>5. /\ IsFiniteSet(A) /\ IsFiniteSet(B) /\ IsFiniteSet(C)
        /\ Cardinality(A) <= Len(shared.doomed) /\ Cardinality(B) <= Len(h.deleting)
        /\ Cardinality(C) <= Len(w.deferred)
    BY <2>2, QueueCardinality
  <2>6. /\ Len(shared.doomed) <= DoomedQueue /\ Len(h.deleting) <= DoomedQueue
        /\ Len(w.deferred) <= 1
    BY <1>1 DEF IInv, QueuesOK
  <2>7. /\ Cardinality(A) <= DoomedQueue /\ Cardinality(B) <= DoomedQueue /\ Cardinality(C) <= 1
        /\ Cardinality(A) \in Nat /\ Cardinality(B) \in Nat /\ Cardinality(C) \in Nat
    <3> DEFINE a == Len(shared.doomed)
               b == Len(h.deleting)
               c == Len(w.deferred)
    <3>1. a \in Nat /\ b \in Nat /\ c \in Nat
      BY <2>2, QueueFacts
    <3>2. Cardinality(A) \in Nat /\ Cardinality(B) \in Nat /\ Cardinality(C) \in Nat
      BY <2>5, FS_CardinalityType
    <3> HIDE DEF a, b, c, A, B, C
    <3>3. QED
      BY <2>1, <2>5, <2>6, <3>1, <3>2 DEF a, b, c
  <2> HIDE DEF W, P, A, B, C
  <2>8. IsFiniteSet(B \cup C) /\ Cardinality(B \cup C) <= Cardinality(B) + Cardinality(C)
    BY <2>5, UnionCardinality
  <2>9. /\ IsFiniteSet(A \cup (B \cup C))
        /\ Cardinality(A \cup (B \cup C)) <= Cardinality(A) + Cardinality(B \cup C)
    BY <2>5, <2>8, UnionCardinality
  <2>10. /\ IsFiniteSet(W \cup (A \cup (B \cup C)))
         /\ Cardinality(W \cup (A \cup (B \cup C))) <= Keep + Cardinality(A \cup (B \cup C))
    BY <2>4, <2>9, UnionCardinality
  <2>11. Cardinality(P) <= Cardinality(W \cup (A \cup (B \cup C))) /\ IsFiniteSet(P)
    BY <2>3, <2>10, FS_Subset
  <2>12. /\ Cardinality(B \cup C) \in Nat /\ Cardinality(A \cup (B \cup C)) \in Nat
         /\ Cardinality(W \cup (A \cup (B \cup C))) \in Nat /\ Cardinality(P) \in Nat
    BY <2>8, <2>9, <2>10, <2>11, FS_CardinalityType
  <2>13. Cardinality(P) <= Keep + 2 * DoomedQueue + 1
    BY <2>1, <2>7, <2>8, <2>9, <2>10, <2>11, <2>12
  <2>14. QED
    BY <2>13 DEF P
<1>2. IInv => ExceedsByQueues
  BY <1>1 DEF ExceedsByQueues
<1>3. QED
  BY <1>2, PrefaultInvariant, PTL
=============================================================================
