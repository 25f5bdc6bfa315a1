----------------------- MODULE SegmentRecovery_proofs -----------------------
(***************************************************************************)
(* What a crash may not do to one segment: RInv is proved inductive on top *)
(* of IInv, and with it that every open resumes, that what is committed    *)
(* stays, that readers meet no error and cross the Roll at the right       *)
(* index, and that the segment implements ChannelLog.                      *)
(***************************************************************************)
EXTENDS SegmentLog_proofs

-----------------------------------------------------------------------------
(* Steps that write headers or payload, and commit no record a reader passes *)

WriteStep ==
  \/ ReserveGrant \/ FillPayload \/ CommitRelay \/ SkipPreinstall \/ SkipStage \/ RollStage
  \/ \E len \in Sizes, meta \in Metas : CommitHeader(len, meta)
  \/ RollCommit \/ FinishCommit

\* What such a step does to the chain: it rewrites the last slot at most.
WritesLast ==
  /\ UNCHANGED <<count, wp, fileLen, succ, succBase, readerVars, chain, next>>
  /\ \A q \in DOMAIN chain : q # next => q \in DOMAIN slots' /\ slots'[q] = slots[q]
  /\ next \in DOMAIN slots' /\ ~Passed(next)'
  /\ slots'[next].committed => /\ pc \in {"roll_commit", "finish_commit"}
                               /\ slots'[next].type = slots[next].type

\* A header laid past the last slot leaves the chain's slots alone.
LEMMA LayWrites ==
  ASSUME IInv, ReserveGrant \/ CommitRelay \/ SkipPreinstall
  PROVE  WritesLast
<1>1. /\ UNCHANGED <<count, wp, fileLen, succ, succBase, readerVars, chain, next>>
      /\ pc \in WritingPc /\ arg \in Nat
  BY DEF ReserveGrant, CommitRelay, SkipPreinstall, Goto, WritingPc, IInv, TypeOK
<1>2. /\ TypeOK /\ ChainOK /\ next \in DOMAIN chain /\ next \in DOMAIN slots
      /\ ~slots[next].committed /\ ~Passed(next)
      /\ next \in Nat /\ NextSlot(next, arg) \in Nat /\ next + HEADER_SLOT + arg <= NextSlot(next, arg)
      /\ NextRegion \in Nat /\ next + HEADER_SLOT <= NextRegion
  BY <1>1, AtLast
<1>3. next + HEADER_SLOT <= NextSlot(next, arg)
  BY <1>1, <1>2 DEF HEADER_SLOT
<1>4. PICK u \in Nat : next + HEADER_SLOT <= u /\ slots' = PutHeader(slots, u, Preinstalled)
  BY <1>2, <1>3 DEF ReserveGrant, CommitRelay, SkipPreinstall
<1>5. \A q \in DOMAIN chain : q \in DOMAIN slots' /\ slots'[q] = slots[q]
  BY <1>2, <1>4, LayAhead
<1>6. QED
  BY <1>1, <1>2, <1>5 DEF WritesLast, Passed, Committed

\* Payload goes after the last slot's header.
LEMMA FillWrites ==
  ASSUME IInv, FillPayload
  PROVE  WritesLast
<1>1. /\ UNCHANGED <<count, wp, fileLen, succ, succBase, readerVars, chain, next>>
      /\ pc \in WritingPc /\ pending \in Nat
      /\ slots' = Clobber(slots, next + HEADER_SLOT, next + HEADER_SLOT + pending)
  BY DEF FillPayload, writerVars, WritingPc, IInv, TypeOK
<1>2. /\ TypeOK /\ ChainOK /\ next \in DOMAIN chain /\ next \in DOMAIN slots
      /\ ~slots[next].committed /\ ~Passed(next) /\ next \in Nat
  BY <1>1, AtLast
<1>3. \A q \in DOMAIN slots : q + HEADER_SLOT <= next + HEADER_SLOT =>
        q \in DOMAIN slots' /\ slots'[q] = slots[q]
  <2>1. next + HEADER_SLOT \in Nat /\ next + HEADER_SLOT + pending \in Nat
    BY <1>1, <1>2 DEF HEADER_SLOT
  <2>2. DOMAIN slots \subseteq Nat /\ slots \in [DOMAIN slots -> Header]
    BY <1>2 DEF TypeOK
  <2>3. QED
    BY <1>1, <2>1, <2>2, ClobberFacts
<1>4. \A q \in DOMAIN chain : q \in DOMAIN slots /\ q + HEADER_SLOT <= next + HEADER_SLOT
  BY <1>2, LastSlot DEF ChainOK, HEADER_SLOT
<1>5. \A q \in DOMAIN chain : q \in DOMAIN slots' /\ slots'[q] = slots[q]
  BY <1>3, <1>4
<1>6. QED
  BY <1>1, <1>2, <1>5 DEF WritesLast, Passed, Committed

\* A header staged at the last slot.
LEMMA StageWrites ==
  ASSUME IInv, (\E len \in Sizes, meta \in Metas : CommitHeader(len, meta)) \/ SkipStage
  PROVE  WritesLast
<1>1. /\ UNCHANGED <<count, wp, fileLen, succ, succBase, readerVars, chain, next>>
      /\ pc \in WritingPc
  BY DEF CommitHeader, SkipStage, Goto, WritingPc
<1>2. /\ TypeOK /\ ChainOK /\ next \in DOMAIN chain /\ ~Passed(next) /\ SkipLen \in Nat
  BY <1>1, AtLast
<1>3. PICK h \in Header : ~h.committed /\ slots' = PutHeader(slots, next, h)
  <2>1. CASE SkipStage
    BY <1>2, <2>1, HeaderTypesOK DEF SkipStage
  <2>2. CASE \E len \in Sizes, meta \in Metas : CommitHeader(len, meta)
    <3>1. PICK len \in Nat, meta \in {0, 1} : slots' = PutHeader(slots, next, StagedUser(len, meta))
      BY <2>2, SizesAssumption DEF CommitHeader
    <3>2. QED
      BY <3>1, HeaderTypesOK
  <2>3. QED
    BY <2>1, <2>2
<1>4. /\ next \in DOMAIN slots' /\ slots'[next] = h
      /\ \A q \in DOMAIN chain : q # next => q \in DOMAIN slots' /\ slots'[q] = slots[q]
  BY <1>2, <1>3, WriteLast
<1>5. QED
  BY <1>1, <1>3, <1>4 DEF WritesLast, Passed, Committed

\* A Roll staged at the last slot, its body first.
LEMMA RollWrites ==
  ASSUME IInv, RollStage
  PROVE  WritesLast
<1>1. /\ UNCHANGED <<count, wp, fileLen, succ, succBase, readerVars, chain, next>>
      /\ pc \in WritingPc
      /\ slots' = PutHeader(Clobber(slots, next + HEADER_SLOT, next + ROLL_TOTAL), next, StagedRoll)
  BY DEF RollStage, Goto, WritingPc
<1>2. TypeOK /\ ChainOK /\ next \in DOMAIN chain /\ next \in Nat /\ ~Passed(next)
  BY <1>1, AtLast
<1> DEFINE s == Clobber(slots, next + HEADER_SLOT, next + ROLL_TOTAL)
<1>3. /\ DOMAIN s \subseteq Nat /\ s \in [DOMAIN s -> Header]
      /\ \A q \in DOMAIN slots : q + HEADER_SLOT <= next + HEADER_SLOT => q \in DOMAIN s /\ s[q] = slots[q]
  <2>1. next + HEADER_SLOT \in Nat /\ next + ROLL_TOTAL \in Nat
    BY <1>2 DEF HEADER_SLOT, ROLL_TOTAL, ROLL_PAYLOAD
  <2>2. DOMAIN slots \subseteq Nat /\ slots \in [DOMAIN slots -> Header]
    BY <1>2 DEF TypeOK
  <2>3. QED
    BY <2>1, <2>2, ClobberFacts
<1> HIDE DEF s
<1>4. slots' = PutHeader(s, next, StagedRoll)
  BY <1>1 DEF s
<1>5. /\ next \in DOMAIN slots' /\ slots'[next] = StagedRoll
      /\ \A q \in DOMAIN s : q + HEADER_SLOT <= next => q \in DOMAIN slots' /\ slots'[q] = s[q]
  <2> DEFINE h == StagedRoll
  <2>1. h \in Header
    BY HeaderTypesOK
  <2> HIDE DEF h
  <2>2. QED
    BY <1>2, <1>3, <1>4, <2>1, PutHeaderFacts DEF h
<1>6. \A q \in DOMAIN chain : /\ q \in DOMAIN slots /\ q + HEADER_SLOT <= next + HEADER_SLOT
                              /\ q # next => q + HEADER_SLOT <= next
  BY <1>2, LastSlot DEF ChainOK, HEADER_SLOT
<1>7. \A q \in DOMAIN chain : q # next => q \in DOMAIN slots' /\ slots'[q] = slots[q]
  BY <1>3, <1>5, <1>6
<1>8. QED
  BY <1>1, <1>5, <1>7, HeaderTypesOK DEF WritesLast, Passed, Committed

\* The Roll's commit, by its writer or by the open that finishes it.
LEMMA RollCommitWrites ==
  ASSUME IInv, RollCommit \/ FinishCommit
  PROVE  WritesLast
<1>1. /\ UNCHANGED <<count, wp, fileLen, succ, succBase, readerVars, chain, next>>
      /\ pc \in {"roll_commit", "finish_commit"} /\ slots' = SetCommitted(slots, next)
  BY DEF RollCommit, FinishCommit, Goto
<1>2. /\ TypeOK /\ ChainOK /\ next \in DOMAIN chain /\ next \in DOMAIN slots
      /\ slots[next].type = "Roll"
  BY <1>1, AtLast DEF IInv, WriterOK, WritingPc
<1>3. /\ DOMAIN slots' = DOMAIN slots /\ slots'[next].type = "Roll"
      /\ \A q \in DOMAIN slots : q # next => slots'[q] = slots[q]
  <2>1. DOMAIN slots \subseteq Nat /\ slots \in [DOMAIN slots -> Header]
    BY <1>2 DEF TypeOK
  <2>2. QED
    BY <1>1, <1>2, <2>1, SetCommittedFacts
<1>4. QED
  BY <1>1, <1>2, <1>3 DEF WritesLast, Passed, Committed, ChainOK

\* None of them touches a slot of the chain before the last.
LEMMA WriteStepWrites ==
  ASSUME IInv, WriteStep
  PROVE  WritesLast
BY LayWrites, FillWrites, StageWrites, RollWrites, RollCommitWrites DEF WriteStep

\* With the chain and its passed records as they were and the file no shorter, a walk goes as
\* before.
LEMMA WalkableKept ==
  ASSUME TypeOK, ChainOK, ChainWalkable, chain' = chain,
         \A p \in DOMAIN chain : /\ Passed(p)' <=> Passed(p)
                                 /\ Passed(p) => slots'[p] = slots[p],
         fileLen' \in Nat, fileLen <= fileLen'
  PROVE  ChainWalkable'
<1>1. \A p \in DOMAIN chain : p \in Nat /\ Region(p) \in Nat /\ (Region(p) + 1) * RegionSize \in Nat
  BY RegionDivision, RegionAligned DEF TypeOK
<1>2. \A p \in DOMAIN chain : MappedWithin(p, fileLen)'
  BY <1>1 DEF ChainWalkable, MappedWithin, TypeOK
<1>3. \A p \in DOMAIN chain : Passed(p)' => PassedFits(p)'
  BY DEF ChainWalkable, PassedFits, HasRoom
<1>4. \A p, q \in DOMAIN chain : p < q => After(p)' <= q
  <2>1. \A p, q \in DOMAIN chain : p < q => Passed(p)
    BY <1>1 DEF ChainOK
  <2>2. QED
    BY <2>1 DEF ChainWalkable, After
<1>5. Passed(0)'
  BY DEF ChainWalkable, ChainOK
<1>6. QED
  BY <1>2, <1>3, <1>4, <1>5 DEF ChainWalkable

\* Readers that stand still keep what they rely on while the chain grows and a published
\* successor stays as it is.
LEMMA FollowKept ==
  ASSUME UNCHANGED readerVars, DOMAIN chain \subseteq DOMAIN chain',
         succ = "published" => succ' = "published" /\ succBase' = succBase,
         NEW r \in Readers, FollowOK(r)
  PROVE  FollowOK(r)'
BY DEF FollowOK, readerVars

\* In the last slot before a write, whose position is published.
LEMMA WriteStepInv ==
  ASSUME IInv, RInv, WriteStep
  PROVE  RInv'
<1>1. WritesLast
  BY WriteStepWrites
<1>2. pc \in WritingPc \cup {"finish_commit"}
  BY DEF WriteStep, ReserveGrant, FillPayload, CommitRelay, SkipPreinstall, SkipStage, RollStage,
         CommitHeader, RollCommit, FinishCommit, Goto, WritingPc
<1>3. /\ TypeOK /\ ChainOK /\ WriterOK /\ next \in DOMAIN chain /\ next \in Nat
      /\ ~slots[next].committed /\ ~Passed(next)
  BY <1>2, AtLast
<1>4. wp = next + HEADER_SLOT /\ wp - HEADER_SLOT = next
  BY <1>2, <1>3 DEF WriterOK, HEADER_SLOT
<1>5. \A p \in DOMAIN chain : /\ Passed(p)' <=> Passed(p)
                              /\ Passed(p) => slots'[p] = slots[p]
  <2>1. \A p \in DOMAIN chain : p # next => (Passed(p)' <=> Passed(p))
    BY <1>1, <1>3 DEF WritesLast, Passed, Committed, IsHeader, ChainOK
  <2>2. QED
    BY <1>1, <1>3, <2>1 DEF WritesLast
<1>6. ChainWalkable'
  BY <1>1, <1>3, <1>5, WalkableKept DEF RInv, WritesLast, TypeOK
<1>7. LagOK'
  BY <1>1, <1>3, <1>4, <1>5 DEF RInv, LagOK, WritesLast
<1>8. SuccessorOK'
  <2>1. \A p \in DOMAIN chain : CommittedType(p, "Roll")' => succ' = "published"
    <3>1. ASSUME NEW p \in DOMAIN chain, CommittedType(p, "Roll")', p # next
          PROVE  succ = "published"
      <4>1. CommittedType(p, "Roll")
        BY <1>1, <1>3, <3>1 DEF WritesLast, CommittedType, Committed, IsHeader, ChainOK
      <4>2. QED
        BY <4>1 DEF RInv, SuccessorOK
    <3>2. CommittedType(next, "Roll")' => succ = "published"
      BY <1>1, <1>3 DEF WritesLast, CommittedType, Committed, WriterOK
    <3>3. QED
      BY <1>1, <3>1, <3>2 DEF WritesLast
  <2>2. ASSUME succ = "published"
        PROVE  \E t \in DOMAIN chain :
            /\ slots'[t].type = "Roll" /\ count = chain[t]
            /\ \/ wp = t + HEADER_SLOT
               \/ slots'[t].committed /\ wp = t + ROLL_TOTAL + HEADER_SLOT
    <3>1. pc \in {"roll_commit", "finish_commit"}
      BY <1>2, <1>3, <2>2 DEF WriterOK
    <3>2. RollCommit \/ FinishCommit
      BY <3>1 DEF WriteStep, ReserveGrant, FillPayload, CommitRelay, SkipPreinstall, SkipStage,
                  RollStage, CommitHeader, Goto
    <3>3. slots' = SetCommitted(slots, next) /\ next \in DOMAIN slots
      BY <1>3, <3>2 DEF RollCommit, FinishCommit, ChainOK
    <3>4. slots'[next].type = "Roll"
      BY <1>3, <3>1, <3>3, SetCommittedFacts DEF WriterOK, TypeOK
    <3>5. PICK t \in DOMAIN chain : slots[t].type = "Roll" /\ count = chain[t]
      BY <2>2 DEF RInv, SuccessorOK
    <3>6. t = next
      BY <1>3, <3>5, LastSlot DEF Passed
    <3>7. QED
      BY <1>4, <3>4, <3>5, <3>6
  <2>3. QED
    BY <1>1, <2>1, <2>2 DEF RInv, SuccessorOK, WritesLast
<1>9. RecoveryOK'
  <2>1. NextRegion' = NextRegion /\ fileLen' = fileLen
    BY <1>1 DEF WritesLast, NextRegion
  <2>2. pc' \notin {"refused", "stranded"}
    BY <1>2 DEF WriteStep, ReserveGrant, FillPayload, CommitRelay, SkipPreinstall, SkipStage,
         RollStage, CommitHeader, RollCommit, FinishCommit, Goto, writerVars, WritingPc
  <2>3. pc' \in {"skip_preinstall", "skip_stage", "skip_commit"} =>
          pc \in {"skip_preinstall", "skip_stage", "skip_commit"}
    BY <1>2 DEF WriteStep, ReserveGrant, FillPayload, CommitRelay, SkipPreinstall, SkipStage,
         RollStage, CommitHeader, RollCommit, FinishCommit, Goto, writerVars
  <2>4. QED
    BY <2>1, <2>2, <2>3 DEF RInv, RecoveryOK, MappedWithin
<1>10. \A r \in Readers : FollowOK(r)'
  BY <1>1, FollowKept DEF RInv, WritesLast
<1>11. QED
  BY <1>6, <1>7, <1>8, <1>9, <1>10 DEF RInv

-----------------------------------------------------------------------------
(* The commit of a record, where the chain grows *)

\* A user record leaves room for a Roll after it, so the slot after it is in its region; the
\* slot after a Skip starts the next region, which the file already holds.
LEMMA CommitRegion ==
  ASSUME IInv, RInv, CommitFlag \/ SkipCommit
  PROVE  /\ PassedFits(next) /\ MappedWithin(After(next), fileLen)
         /\ \A k \in 0..Region(After(next)) : k * RegionSize \in DOMAIN chain \cup {After(next)}
<1>1. /\ pc \in {"commit", "skip_commit"}
      /\ CommitFlag => pc = "commit"
      /\ SkipCommit => pc = "skip_commit" /\ next' = NextRegion
  BY DEF CommitFlag, SkipCommit, Goto
<1>2. /\ TypeOK /\ ChainOK /\ WriterOK /\ next \in DOMAIN chain /\ next \in Nat
      /\ next % ALIGN = 0 /\ RollFits(next) /\ arg \in Nat
  BY <1>1, AtLast DEF WritingPc, TypeOK
<1>3. MappedWithin(next, fileLen) /\ \A k \in 0..Region(next) : k * RegionSize \in DOMAIN chain
  BY <1>2 DEF RInv, ChainWalkable
<1>4. CASE CommitFlag
  <2> DEFINE d == AlignUp(HEADER_SLOT + arg)
  <2>1. HasRoom(next, arg) /\ slots[next].type = "User" /\ slots[next].len = arg
    BY <1>1, <1>2, <1>4 DEF WriterOK
  <2>2. d \in Nat
    <3>1. HEADER_SLOT + arg \in Nat
      BY <1>2 DEF HEADER_SLOT
    <3>2. QED
      BY <3>1, AlignUpFacts
  <2>3. Offset(next) + (d + ROLL_TOTAL) <= RegionSize /\ After(next) = next + d
    BY <1>2, <2>1, NextSlotFacts DEF HasRoom, NeededTotal, After
  <2> HIDE DEF d
  <2>4. Offset(next) + d < RegionSize
    BY <1>2, <2>2, <2>3, OffsetFacts, RegionSizeAssumption DEF ROLL_TOTAL, HEADER_SLOT, ROLL_PAYLOAD
  <2>5. Region(After(next)) = Region(next)
    BY <1>2, <2>2, <2>3, <2>4, OffsetShift
  <2>6. QED
    BY <1>3, <2>1, <2>5 DEF PassedFits, MappedWithin
<1>5. CASE SkipCommit
  <2>1. slots[next].type = "Skip" /\ slots[next].len = SkipLen
    BY <1>1, <1>2, <1>5 DEF WriterOK
  <2>2. MappedWithin(NextRegion, fileLen)
    BY <1>1, <1>5 DEF RInv, RecoveryOK
  <2>3. After(next) = NextRegion
    BY <1>1, <1>5, CommitGrows
  <2>4. /\ NextRegion = (Region(next) + 1) * RegionSize
        /\ Region(NextRegion) = Region(next) + 1
    BY <1>2, NextRegionFacts DEF NextRegion
  <2>5. \A k \in 0..(Region(next) + 1) : k * RegionSize \in DOMAIN chain \cup {NextRegion}
    <3>1. Region(next) \in Nat
      BY <1>2, RegionDivision
    <3>2. \A k \in 0..(Region(next) + 1) : k \in 0..Region(next) \/ k = Region(next) + 1
      BY <3>1
    <3>3. QED
      BY <1>3, <2>4, <3>2
  <2>6. Offset(next) + HEADER_SLOT + SkipLen = RegionSize
    <3>1. Offset(next) \in Nat /\ RegionSize \in Nat
      BY <1>2, OffsetFacts, RegionSizeAssumption
    <3>2. QED
      BY <3>1 DEF SkipLen, Leftover, HEADER_SLOT
  <2>7. QED
    BY <2>1, <2>2, <2>3, <2>4, <2>5, <2>6 DEF PassedFits
<1>6. QED
  BY <1>4, <1>5

\* After a commit the position names the record just committed, and the slot after it is laid.
LEMMA CommitStepInv ==
  ASSUME IInv, RInv, CommitFlag \/ SkipCommit
  PROVE  RInv'
<1>1. /\ UNCHANGED <<count, wp, fileLen, succ, succBase, walk, readerVars>>
      /\ pc \in {"commit", "skip_commit"} /\ pc' \in {"count", "skip_wp"}
      /\ slots' = SetCommitted(slots, next)
  BY DEF CommitFlag, SkipCommit, Goto
<1>2. /\ TypeOK /\ ChainOK /\ WriterOK /\ next \in DOMAIN chain /\ next \in Nat
      /\ next \in DOMAIN slots /\ ~slots[next].committed /\ ~Passed(next)
      /\ wp = next + HEADER_SLOT /\ succ # "published"
  BY <1>1, AtLast DEF WritingPc, WriterOK
<1>3. PICK u \in Nat : /\ u = After(next) /\ Laid(u) /\ next + HEADER_SLOT <= u
                       /\ chain' = Extend(chain, next, u, UsersAt(next))
                       /\ slots[next].type # "Roll" /\ UsersAt(next) \in {0, 1}
  BY CommitGrows
<1>4. /\ DOMAIN chain' = DOMAIN chain \cup {u} /\ chain'[u] = chain[next] + UsersAt(next)
      /\ \A p \in DOMAIN chain : p <= next /\ p < u /\ p \in Nat /\ chain'[p] = chain[p] /\ chain[p] \in Nat
  <2>1. \A p \in DOMAIN chain : p <= next /\ p \in Nat /\ chain[p] \in Nat
    BY <1>2, LastSlot DEF TypeOK
  <2>2. \A p \in DOMAIN chain : p < u
    BY <1>2, <1>3, <2>1 DEF HEADER_SLOT
  <2>3. QED
    BY <1>3, <2>1, <2>2 DEF Extend
<1>5. /\ DOMAIN slots' = DOMAIN slots /\ slots'[next].committed
      /\ slots'[next].type = slots[next].type /\ slots'[next].len = slots[next].len
      /\ \A q \in DOMAIN slots : q # next => slots'[q] = slots[q]
  <2>1. DOMAIN slots \subseteq Nat /\ slots \in [DOMAIN slots -> Header]
    BY <1>2 DEF TypeOK
  <2>2. QED
    BY <1>1, <1>2, <2>1, SetCommittedFacts
<1>6. slots'[u] = Preinstalled /\ ~Passed(u)' /\ u # next /\ u \in DOMAIN slots'
  BY <1>2, <1>3, <1>4, <1>5, HeaderTypesOK DEF Laid, Passed, Committed
<1>7. \A p \in DOMAIN chain : Passed(p)' /\ (p # next => Passed(p))
  <2>1. \A p \in DOMAIN chain : p # next => Passed(p) /\ slots'[p] = slots[p] /\ p \in DOMAIN slots
    BY <1>2, <1>5, LastSlot DEF ChainOK
  <2>2. QED
    BY <1>2, <1>3, <1>5, <2>1 DEF Passed, Committed, IsHeader
<1>8. ChainWalkable'
  <2>1. \A p \in DOMAIN chain' : Passed(p)' => PassedFits(p)'
    <3>1. \A p \in DOMAIN chain : p = next => PassedFits(p)'
      BY <1>5, CommitRegion DEF PassedFits, HasRoom
    <3>2. \A p \in DOMAIN chain : p # next => PassedFits(p)'
      <4>1. \A p \in DOMAIN chain : p # next => slots'[p] = slots[p] /\ PassedFits(p)
        BY <1>2, <1>5, <1>7 DEF ChainOK, RInv, ChainWalkable
      <4>2. QED
        BY <4>1 DEF PassedFits, HasRoom
    <3>3. QED
      BY <1>4, <1>6, <3>1, <3>2
  <2>2. \A p \in DOMAIN chain' : MappedWithin(p, fileLen)'
    BY <1>1, <1>3, <1>4, CommitRegion DEF RInv, ChainWalkable, MappedWithin
  <2>3. \A p \in DOMAIN chain' : \A k \in 0..Region(p) : k * RegionSize \in DOMAIN chain'
    BY <1>3, <1>4, CommitRegion DEF RInv, ChainWalkable
  <2>4. \A p \in DOMAIN chain' : p = u \/ p \in DOMAIN chain
    BY <1>4
  <2>5. \A p \in DOMAIN chain : After(p)' = After(p) /\ p \in Nat
    BY <1>2, <1>4, <1>5 DEF After, ChainOK
  <2>6. \A p, q \in DOMAIN chain : p < q => After(p)' <= q /\ chain'[p] <= chain'[q]
    BY <1>4, <2>5 DEF RInv, ChainWalkable
  <2>7. \A p \in DOMAIN chain : After(p)' <= u /\ chain'[p] <= chain'[u]
    <3>1. After(next) <= u /\ chain[next] <= chain'[u]
      BY <1>2, <1>3, <1>4
    <3>2. \A p \in DOMAIN chain : p < next => After(p) <= next /\ chain[p] <= chain[next]
      BY <1>2 DEF RInv, ChainWalkable
    <3>3. \A p \in DOMAIN chain : p # next => After(p) \in DOMAIN chain
      BY <1>7 DEF ChainOK, IInv
    <3>4. \A p \in DOMAIN chain : After(p) \in Nat
      BY <1>2, <1>3, <1>4, <3>3
    <3>5. \A p \in DOMAIN chain : p = next \/ p < next
      BY <1>2, <1>4
    <3>6. QED
      BY <1>2, <1>3, <1>4, <2>5, <3>1, <3>2, <3>4, <3>5 DEF HEADER_SLOT
  <2>8. \A q \in DOMAIN chain : ~(u < q)
    BY <1>4
  <2>9. \A p, q \in DOMAIN chain' : p < q => After(p)' <= q /\ chain'[p] <= chain'[q]
    BY <2>4, <2>6, <2>7, <2>8
  <2>10. Passed(0)'
    BY <1>2, <1>7 DEF ChainOK
  <2>11. QED
    BY <2>1, <2>2, <2>3, <2>9, <2>10 DEF ChainWalkable
<1>9. LagOK'
  <2>1. wp' = wp /\ wp' - HEADER_SLOT = next
    BY <1>1, <1>2 DEF HEADER_SLOT
  <2>2. \A p \in DOMAIN chain : p = next => After(p)' = u
    BY <1>3, <1>5 DEF After
  <2>3. Laid(u)'
    BY <1>6 DEF Laid
  <2>4. QED
    BY <1>2, <2>1, <2>2, <2>3 DEF RInv, LagOK
<1>10. SuccessorOK'
  <2>1. \A p \in DOMAIN chain' : ~CommittedType(p, "Roll")'
    BY <1>4, <1>6, <1>7, HeaderTypesOK DEF CommittedType, Committed, Passed
  <2>2. QED
    BY <1>1, <1>2, <2>1 DEF SuccessorOK
<1>11. RecoveryOK'
  BY <1>1 DEF RecoveryOK
<1>12. \A r \in Readers : FollowOK(r)'
  BY <1>1, <1>4, FollowKept DEF RInv
<1>13. QED
  BY <1>8, <1>9, <1>10, <1>11, <1>12 DEF RInv

-----------------------------------------------------------------------------
(* Steps of the writer that store nothing a reader sees, but may grow the file *)

\* With the headers, the pair and the successor as they were, only what recovery keeps for
\* itself is left.
LEMMA FileGrows ==
  ASSUME IInv, RInv, UNCHANGED <<slots, count, wp, succ, succBase, readerVars, chain>>,
         fileLen' \in Nat, fileLen <= fileLen', RecoveryOK'
  PROVE  RInv'
<1>1. ChainWalkable'
  <2>1. \A p \in DOMAIN chain : (Passed(p)' <=> Passed(p)) /\ (Passed(p) => slots'[p] = slots[p])
    BY DEF Passed, Committed, IsHeader
  <2>2. QED
    BY <2>1, WalkableKept DEF IInv, RInv
<1>2. LagOK'
  BY DEF RInv, LagOK, Passed, Committed, IsHeader, Laid, After
<1>3. SuccessorOK'
  BY DEF RInv, SuccessorOK, CommittedType, Committed, IsHeader
<1>4. \A r \in Readers : FollowOK(r)'
  BY FollowKept DEF RInv
<1>5. QED
  BY <1>1, <1>2, <1>3, <1>4 DEF RInv

\* What a caller starts or gives up, what a turn of the reservation loop decides, a crash.
LEMMA CallStepInv ==
  ASSUME IInv, RInv,
         \/ \E size \in Sizes : TryReserve(size)
         \/ ReserveRollFile \/ ReserveSkip
         \/ \E len \in Sizes : CommitTooLong(len)
         \/ SkipFails \/ RollFile \/ RollFails \/ Crash
  PROVE  RInv'
<1>1. UNCHANGED <<slots, count, wp, fileLen, succ, succBase, readerVars, chain>>
  BY DEF TryReserve, ReserveRollFile, ReserveSkip, CommitTooLong, SkipFails, RollFile, RollFails,
         Crash, fileVars
<1>2. pc' \in {"idle", "reserve", "roll", "skip", "down"}
  BY DEF TryReserve, ReserveRollFile, ReserveSkip, CommitTooLong, SkipFails, RollFile, RollFails,
         Crash, Goto
<1>3. RecoveryOK'
  BY <1>2 DEF RecoveryOK
<1>4. fileLen' \in Nat /\ fileLen <= fileLen'
  BY <1>1 DEF IInv, TypeOK
<1>5. QED
  BY <1>1, <1>3, <1>4, FileGrows

\* region_at grows the file to hold the region the Skip leads to.
LEMMA SkipGrowInv ==
  ASSUME IInv, RInv, SkipGrow
  PROVE  RInv'
<1> DEFINE R == (Region(NextRegion) + 1) * RegionSize
<1>1. /\ UNCHANGED <<slots, count, wp, succ, succBase, readerVars, chain, next>>
      /\ pc = "skip" /\ pc' = "skip_preinstall"
      /\ fileLen' = IF R <= fileLen THEN fileLen ELSE R
  BY DEF SkipGrow, Goto, MappedWithin
<1>2. R \in Nat /\ fileLen \in Nat
  <2>1. NextRegion \in Nat
    BY <1>1, AtLast DEF WritingPc
  <2>2. QED
    BY <2>1, RegionDivision, RegionAligned DEF IInv, TypeOK
<1> HIDE DEF R
<1>3. fileLen' \in Nat /\ fileLen <= fileLen' /\ R <= fileLen'
  BY <1>1, <1>2
<1>4. MappedWithin(NextRegion, fileLen)'
  BY <1>1, <1>3 DEF MappedWithin, R, NextRegion
<1>5. RecoveryOK'
  BY <1>1, <1>4 DEF RecoveryOK
<1>6. QED
  BY <1>1, <1>3, <1>5, FileGrows

-----------------------------------------------------------------------------
(* Recovery *)

\* Either walk goes from slot to slot of the chain; the recount ends at the recovered slot,
\* since both are the last.
LEMMA WalkStepInv ==
  ASSUME IInv, RInv, WalkStep \/ RecountEnds
  PROVE  RInv'
<1>1. UNCHANGED <<slots, count, wp, fileLen, succ, succBase, readerVars, chain>>
  BY DEF WalkStep, RecountEnds, fileVars
<1>2. TypeOK /\ ChainOK /\ WriterOK /\ walk \in Walk
  BY DEF IInv, TypeOK
<1>3. CASE WalkStep
  <2>1. pc' = pc /\ pc \in {"recount", "stranded"} /\ WalkGoes(walk) /\ walk' = WalkNext(walk)
    BY <1>3 DEF WalkStep
  <2>2. pc = "stranded" => walk.pos \in DOMAIN chain /\ Passed(walk.pos)
    BY <2>1 DEF RInv, RecoveryOK, WalkGoes, Passed
  <2>3. pc = "stranded" => walk'.pos \in DOMAIN chain'
    BY <1>1, <1>2, <2>1, <2>2 DEF ChainOK, WalkNext
  <2>4. QED
    BY <2>1, <2>3, <1>1, <1>2, FileGrows DEF RecoveryOK, TypeOK
<1>4. CASE RecountEnds
  <2>1. /\ pc = "recount" /\ ~WalkGoes(walk)
        /\ pc' = IF walk.pos = next THEN "recover_count" ELSE "refused"
    BY <1>4 DEF RecountEnds
  <2>2. /\ walk.pos \in DOMAIN chain /\ ~Passed(walk.pos)
        /\ next \in DOMAIN chain /\ ~Passed(next)
    BY <1>2, <2>1 DEF WriterOK, PublishingPc, WalkGoes, Passed, Committed
  <2>3. walk.pos = next
    BY <1>2, <2>2, LastSlot
  <2>4. RecoveryOK'
    BY <2>1, <2>3 DEF RecoveryOK
  <2>5. QED
    BY <1>1, <1>2, <2>4, FileGrows DEF TypeOK
<1>5. QED
  BY <1>3, <1>4

\* open_file grows the file at most.
LEMMA OpenLenFacts ==
  ASSUME IInv, OpenSlot \in DOMAIN chain
  PROVE  OpenLen \in Nat /\ fileLen <= OpenLen
<1>1. (Region(OpenSlot) + 1) * RegionSize \in Nat /\ fileLen \in Nat
  BY RegionDivision, RegionAligned DEF IInv, TypeOK
<1>2. QED
  BY <1>1, PreallocationFacts DEF OpenLen

\* The committed record a crash left unpublished is one open_file steps past: a user record
\* or a Skip, where its reservation put it, with the slot after it laid and in the file.
LEMMA OrphanRecoverable ==
  ASSUME IInv, RInv, succ = "none", OpenSlot \in DOMAIN chain, Committed(OpenSlot)
  PROVE  Recoverable(OpenSlot)
<1> DEFINE p == OpenSlot
           len == slots[p].len
           R == RegionSize
<1>1. /\ p \in DOMAIN chain /\ p \in Nat /\ p % ALIGN = 0 /\ len \in Nat /\ p # 0
      /\ wp - HEADER_SLOT = p
  <2>1. TypeOK /\ ChainOK /\ wp # HEADER_SLOT /\ wp \in Nat
    BY DEF IInv, RInv, LagOK, TypeOK
  <2>2. p # 0
    BY <2>1 DEF OpenSlot, HEADER_SLOT
  <2>3. p \in DOMAIN slots /\ slots[p] \in Header
    BY <2>1 DEF ChainOK, TypeOK
  <2>4. QED
    BY <2>1, <2>2, <2>3 DEF ChainOK, TypeOK, Header, OpenSlot
<1>2. Passed(p)
  BY DEF RInv, SuccessorOK, CommittedType, Passed
<1>3. PassedFits(p) /\ Laid(After(p)) /\ After(p) \in DOMAIN chain
  BY <1>1, <1>2 DEF RInv, ChainWalkable, LagOK, IInv, ChainOK
<1>4. MappedWithin(After(p), fileLen)
  BY <1>3 DEF RInv, ChainWalkable
<1>5. /\ After(p) = p + HEADER_SLOT + AlignUp(len) /\ After(p) = p + AlignUp(HEADER_SLOT + len)
      /\ AlignUp(len) \in Nat /\ Offset(p) \in Nat
  BY <1>1, NextSlotFacts, AlignUpFacts, OffsetFacts DEF After
<1>6. HasPreinstall(p + HEADER_SLOT + AlignUp(len))
  BY <1>3, <1>5 DEF HasPreinstall, Laid, IsHeader
<1>7. CASE slots[p].type = "User" /\ HasRoom(p, len)
  <2>1. HEADER_SLOT + AlignUp(len) = AlignUp(HEADER_SLOT + len)
    <3>1. AlignUp(HEADER_SLOT + len) \in Nat
      <4>1. HEADER_SLOT + len \in Nat
        BY <1>1 DEF HEADER_SLOT
      <4>2. QED
        BY <4>1, AlignUpFacts
    <3>2. QED
      BY <1>1, <1>5, <3>1 DEF HEADER_SLOT
  <2>2. Offset(p) + ((HEADER_SLOT + AlignUp(len)) + ROLL_TOTAL) <= R
    BY <1>7, <2>1 DEF HasRoom, NeededTotal
  <2>3. Offset(p) + HEADER_SLOT + AlignUp(len) + HEADER_SLOT <= R
    BY <1>5, <2>2, RegionSizeAssumption DEF HEADER_SLOT, ROLL_TOTAL, ROLL_PAYLOAD
  <2>4. QED
    BY <1>6, <1>7, <2>3 DEF Recoverable
<1>8. CASE slots[p].type = "Skip" /\ Offset(p) + HEADER_SLOT + len = R
  <2> DEFINE k1 == (Region(p) + 1) * R
  <2>1. Region(p) \in Nat /\ p = Region(p) * R + Offset(p) /\ R \in Nat
    BY <1>1, RegionDivision, RegionSizeAssumption
  <2>2. p + HEADER_SLOT + len = k1
    <3> DEFINE kr == Region(p) * R
    <3>1. kr \in Nat /\ k1 = kr + R /\ p = kr + Offset(p) /\ R \in Nat
      BY <2>1, RegionAligned
    <3>2. Offset(p) \in Nat /\ len \in Nat /\ Offset(p) + HEADER_SLOT + len = R
      BY <1>1, <1>5, <1>8
    <3> HIDE DEF kr, k1, p, len, R
    <3>3. QED
      BY <3>1, <3>2 DEF HEADER_SLOT
  <2>3. k1 \in Nat /\ k1 % ALIGN = 0
    <3>1. Region(p) + 1 \in Nat
      BY <2>1
    <3> HIDE DEF p
    <3>2. QED
      BY <3>1, RegionAligned
  <2>4. After(p) = k1
    BY <2>2, <2>3, AlignUpAligned DEF After, NextSlot
  <2> HIDE DEF k1
  <2>5. AlignUp(len) = len
    BY <1>1, <1>5, <2>2, <2>3, <2>4 DEF HEADER_SLOT
  <2>6. Region(k1) = Region(p) + 1
    <3>1. Region((Region(p) + 1) * R + 0) = Region(p) + 1
      BY <2>1, OffsetUnique, RegionSizeAssumption DEF FIRST_RECORD, ROLL_TOTAL, HEADER_SLOT, ROLL_PAYLOAD
    <3>2. QED
      BY <2>3, <3>1 DEF k1
  <2>7. (Region(p) + 2) * R <= fileLen
    <3>1. (Region(p) + 1) + 1 = Region(p) + 2
      BY <2>1
    <3>2. QED
      BY <1>4, <2>4, <2>6, <3>1 DEF MappedWithin
  <2>8. (Region(p) + 2) * R <= OpenLen
    <3>1. (Region(p) + 2) * R \in Nat /\ fileLen \in Nat
      BY <2>1, RegionAligned DEF IInv, TypeOK
    <3>2. QED
      <4>1. OpenLen \in Nat /\ fileLen <= OpenLen
        BY OpenLenFacts
      <4> HIDE DEF p, R
      <4>2. QED
        BY <2>7, <3>1, <4>1
  <2>9. Offset(p) + HEADER_SLOT + AlignUp(len) = R
    BY <1>8, <2>5
  <2>10. QED
    BY <1>6, <1>8, <2>8, <2>9 DEF Recoverable
<1>9. QED
  BY <1>1, <1>3, <1>7, <1>8 DEF PassedFits

\* open_file resumes at an uncommitted slot, and steps past a committed one: it refuses neither.
LEMMA OpenStepInv ==
  ASSUME IInv, RInv, OpenAdopt \/ OpenOrphan
  PROVE  RInv'
<1>1. /\ UNCHANGED <<slots, count, wp, succ, succBase, readerVars, chain>>
      /\ fileLen' = OpenLen /\ succ = "none"
  BY DEF OpenAdopt, OpenOrphan
<1>2. OpenSlot \in DOMAIN chain
  BY <1>1 DEF IInv, PairOK, OpenSlot
<1>3. pc' \in {"idle", "recount"}
  BY <1>1, <1>2, OrphanRecoverable DEF OpenAdopt, OpenOrphan, Goto
<1>4. RecoveryOK'
  BY <1>3 DEF RecoveryOK
<1>5. QED
  BY <1>1, <1>2, <1>4, OpenLenFacts, FileGrows

\* commit_stranded_roll starts at the region of the earliest slot the Roll can be at: at a slot
\* of the chain, with the count the successor was stamped with.
LEMMA StrandedStarts ==
  ASSUME IInv, RInv, OpenStranded
  PROVE  RInv'
<1>1. /\ UNCHANGED <<slots, count, wp, fileLen, succ, succBase, readerVars, chain>>
      /\ succ = "published" /\ pc' = IF count = succBase THEN "stranded" ELSE "refused"
      /\ walk' = [pos |-> RegionStart(StrandedEarliest), users |-> 0]
  BY DEF OpenStranded, fileVars
<1>2. /\ TypeOK /\ wp \in Nat /\ fileLen \in Nat
  BY DEF IInv, TypeOK
<1>3. count = succBase
  BY <1>1 DEF RInv, SuccessorOK
<1>4. PICK t \in DOMAIN chain : wp = t + HEADER_SLOT \/ wp = t + ROLL_TOTAL + HEADER_SLOT
  BY <1>1 DEF RInv, SuccessorOK
<1>5. t \in Nat /\ StrandedEarliest \in Nat /\ StrandedEarliest <= t
  <2>1. t \in Nat
    BY <1>2 DEF TypeOK
  <2>2. QED
    BY <1>2, <1>4, <2>1 DEF StrandedEarliest, HEADER_SLOT, ROLL_TOTAL, ROLL_PAYLOAD
<1>6. Region(StrandedEarliest) \in 0..Region(t)
  BY <1>5, RegionMonotone, RegionDivision
<1>7. RegionStart(StrandedEarliest) \in DOMAIN chain
  BY <1>5, <1>6, RegionStartFacts DEF RInv, ChainWalkable
<1>8. RecoveryOK'
  BY <1>1, <1>3, <1>7 DEF RecoveryOK
<1>9. QED
  BY <1>1, <1>2, <1>8, FileGrows

\* The walk of commit_stranded_roll ends at the Roll, with write_position where the crash left
\* it: before the Roll or past it.
LEMMA StrandedFinds ==
  ASSUME IInv, RInv, StrandedEnds
  PROVE  RInv'
<1>1. /\ UNCHANGED <<slots, count, wp, fileLen, succ, succBase, readerVars, chain>>
      /\ pc = "stranded" /\ ~WalkGoes(walk)
  BY DEF StrandedEnds, fileVars
<1>2. /\ TypeOK /\ ChainOK /\ fileLen \in Nat /\ succ = "published" /\ walk.pos \in DOMAIN chain
      /\ ~Passed(walk.pos)
  BY <1>1 DEF IInv, TypeOK, WriterOK, RInv, RecoveryOK, WalkGoes, Passed
<1>3. PICK t \in DOMAIN chain :
        /\ slots[t].type = "Roll" /\ count = chain[t]
        /\ \/ wp = t + HEADER_SLOT
           \/ slots[t].committed /\ wp = t + ROLL_TOTAL + HEADER_SLOT
  BY <1>2 DEF RInv, SuccessorOK
<1>4. t = walk.pos /\ t \in Nat /\ t \in DOMAIN slots
  <2>1. ~Passed(t)
    BY <1>3 DEF Passed
  <2>2. QED
    BY <1>2, <2>1, LastSlot DEF ChainOK, TypeOK
<1>5. ASSUME wp = t + HEADER_SLOT
      PROVE  pc' \in {"finish_wp", "finish_commit"}
  <2>1. wp # t + HEADER_SLOT + ROLL_TOTAL
    BY <1>4, <1>5 DEF HEADER_SLOT, ROLL_TOTAL, ROLL_PAYLOAD
  <2>2. QED
    BY <1>3, <1>4, <1>5, <2>1 DEF StrandedEnds, IsHeader, Committed
<1>6. ASSUME slots[t].committed, wp = t + ROLL_TOTAL + HEADER_SLOT
      PROVE  pc' = "gone"
  <2>1. wp = t + HEADER_SLOT + ROLL_TOTAL /\ wp # t + HEADER_SLOT
    BY <1>4, <1>6 DEF HEADER_SLOT, ROLL_TOTAL, ROLL_PAYLOAD
  <2>2. QED
    BY <1>3, <1>4, <1>6, <2>1 DEF StrandedEnds, IsHeader, Committed
<1>7. RecoveryOK'
  BY <1>3, <1>5, <1>6 DEF RecoveryOK
<1>8. QED
  BY <1>1, <1>2, <1>7, FileGrows

-----------------------------------------------------------------------------
(* The publication of the pair, and of the successor *)

\* The position moves to the last slot, which is not passed.
LEMMA PublishStepInv ==
  ASSUME IInv, RInv, PublishCount \/ PublishWp \/ SkipWp \/ RecoverCount \/ RecoverWp
  PROVE  RInv'
<1>1. /\ UNCHANGED <<slots, fileLen, succ, succBase, readerVars, chain, next>>
      /\ pc \in PublishingPc /\ pc' \in {"wp", "idle", "reserve", "recover_wp"}
      /\ wp' = wp \/ wp' = next + HEADER_SLOT
  BY DEF PublishCount, PublishWp, SkipWp, RecoverCount, RecoverWp, Goto, PublishingPc
<1>2. /\ TypeOK /\ ChainOK /\ next \in DOMAIN chain /\ ~slots[next].committed /\ ~Passed(next)
      /\ succ # "published" /\ next \in Nat /\ fileLen \in Nat
  BY <1>1 DEF IInv, WriterOK, TypeOK, Passed, Committed, WritingPc, PublishingPc
<1>3. ChainWalkable'
  <2>1. \A p \in DOMAIN chain : (Passed(p)' <=> Passed(p)) /\ (Passed(p) => slots'[p] = slots[p])
    BY <1>1 DEF Passed, Committed, IsHeader
  <2>2. QED
    BY <1>1, <1>2, <2>1, WalkableKept DEF RInv
<1>4. LagOK'
  <2>1. CASE wp' = wp
    BY <1>1, <2>1 DEF RInv, LagOK, Passed, Committed, IsHeader, Laid, After
  <2>2. CASE wp' = next + HEADER_SLOT
    <3>1. wp' - HEADER_SLOT = next
      BY <1>2, <2>2 DEF HEADER_SLOT
    <3>2. next # 0
      BY <1>2 DEF RInv, ChainWalkable
    <3>3. wp' # HEADER_SLOT
      BY <1>2, <3>1, <3>2, <2>2 DEF HEADER_SLOT
    <3>4. ~Passed(next)'
      BY <1>1, <1>2 DEF Passed, Committed, IsHeader
    <3>5. QED
      BY <1>1, <3>1, <3>3, <3>4 DEF LagOK
  <2>3. QED
    BY <1>1, <2>1, <2>2
<1>5. SuccessorOK'
  BY <1>1, <1>2 DEF RInv, SuccessorOK, CommittedType, Committed, IsHeader
<1>6. RecoveryOK'
  BY <1>1 DEF RecoveryOK
<1>7. \A r \in Readers : FollowOK(r)'
  BY <1>1, FollowKept DEF RInv
<1>8. QED
  BY <1>3, <1>4, <1>5, <1>6, <1>7 DEF RInv

\* The terminal hint moves past the committed Roll.
LEMMA RolledStepInv ==
  ASSUME IInv, RInv, RollWp \/ FinishWp
  PROVE  RInv'
<1>1. /\ UNCHANGED <<slots, count, fileLen, succ, succBase, readerVars, chain, next>>
      /\ pc \in RolledPc /\ pc' = "gone"
  BY DEF RollWp, FinishWp, Goto, RolledPc
<1>2. /\ TypeOK /\ ChainOK /\ next \in DOMAIN chain /\ CommittedType(next, "Roll")
      /\ ~Passed(next) /\ succ = "published" /\ next \in Nat /\ fileLen \in Nat
      /\ wp = next + HEADER_SLOT /\ count = chain[next]
  BY <1>1 DEF IInv, WriterOK, TypeOK, Passed, CommittedType, RolledPc
<1>3. wp' = next + ROLL_TOTAL + HEADER_SLOT
  BY <1>2 DEF RollWp, FinishWp, HEADER_SLOT, ROLL_TOTAL, ROLL_PAYLOAD
<1>4. ChainWalkable'
  <2>1. \A p \in DOMAIN chain : (Passed(p)' <=> Passed(p)) /\ (Passed(p) => slots'[p] = slots[p])
    BY <1>1 DEF Passed, Committed, IsHeader
  <2>2. QED
    BY <1>1, <1>2, <2>1, WalkableKept DEF RInv
<1>5. LagOK'
  <2>1. wp' - HEADER_SLOT = next + ROLL_TOTAL /\ wp' # HEADER_SLOT /\ next < next + ROLL_TOTAL
    BY <1>2, <1>3 DEF HEADER_SLOT, ROLL_TOTAL, ROLL_PAYLOAD
  <2>2. \A q \in DOMAIN chain : q <= next /\ q \in Nat
    BY <1>2, LastSlot
  <2>3. wp' - HEADER_SLOT \notin DOMAIN chain
    BY <1>2, <2>1, <2>2
  <2>4. QED
    BY <1>1, <2>1, <2>3 DEF LagOK
<1>6. SuccessorOK'
  <2>1. slots'[next].type = "Roll" /\ slots'[next].committed /\ count' = chain'[next]
    BY <1>1, <1>2 DEF CommittedType, Committed
  <2>2. succBase' = count'
    BY <1>1, <1>2 DEF RInv, SuccessorOK
  <2>3. QED
    BY <1>1, <1>2, <1>3, <2>1, <2>2 DEF SuccessorOK
<1>7. RecoveryOK'
  BY <1>1 DEF RecoveryOK
<1>8. \A r \in Readers : FollowOK(r)'
  BY <1>1, FollowKept DEF RInv
<1>9. QED
  BY <1>4, <1>5, <1>6, <1>7, <1>8 DEF RInv

\* The successor is stamped with the count as it is published, when the count is exact and the
\* Roll staged; one not yet published may come and go.
LEMMA SuccessorStepInv ==
  ASSUME IInv, RInv, RollInstall \/ RollPublish \/ DiscardUnpublished
  PROVE  RInv'
<1>1. /\ UNCHANGED <<slots, count, wp, fileLen, readerVars, chain, next>>
      /\ pc' \in {"roll_stage", "no_room", "roll_commit", "down"}
  BY DEF RollInstall, RollPublish, DiscardUnpublished, Goto, writerVars
<1>2. TypeOK /\ ChainOK /\ fileLen \in Nat /\ next \in Nat /\ succ # "published"
  BY DEF IInv, TypeOK, WriterOK, WritingPc, PublishingPc, RollInstall, RollPublish,
         DiscardUnpublished, Goto
<1>3. ChainWalkable'
  <2>1. \A p \in DOMAIN chain : (Passed(p)' <=> Passed(p)) /\ (Passed(p) => slots'[p] = slots[p])
    BY <1>1 DEF Passed, Committed, IsHeader
  <2>2. QED
    BY <1>1, <1>2, <2>1, WalkableKept DEF RInv
<1>4. LagOK'
  BY <1>1 DEF RInv, LagOK, Passed, Committed, IsHeader, Laid, After
<1>5. SuccessorOK'
  <2>1. \A p \in DOMAIN chain : ~CommittedType(p, "Roll")'
    BY <1>1, <1>2 DEF RInv, SuccessorOK, CommittedType, Committed, IsHeader
  <2>2. CASE succ' = "published"
    <3>1. pc = "roll_publish" /\ succBase' = count
      BY <1>2, <2>2 DEF RollInstall, RollPublish, DiscardUnpublished, Goto
    <3>2. /\ next \in DOMAIN chain /\ slots[next].type = "Roll"
          /\ wp = next + HEADER_SLOT /\ count = chain[next]
      BY <3>1 DEF IInv, WriterOK, WritingPc
    <3>3. QED
      BY <1>1, <2>1, <3>1, <3>2 DEF SuccessorOK
  <2>3. CASE succ' # "published"
    BY <1>1, <2>1, <2>3 DEF SuccessorOK
  <2>4. QED
    BY <2>2, <2>3
<1>6. RecoveryOK'
  BY <1>1 DEF RecoveryOK
<1>7. \A r \in Readers : FollowOK(r)'
  BY <1>1, <1>2, FollowKept DEF RInv
<1>8. QED
  BY <1>3, <1>4, <1>5, <1>6, <1>7 DEF RInv

-----------------------------------------------------------------------------
(* Readers *)

\* What a Live open relies on besides ReaderOK: its walk cannot overshoot the slot it counts up
\* to.  A reader at the Roll finds the successor published at its own index.
LEMMA ReaderStepFollows ==
  ASSUME IInv, RInv, NEW r \in Readers,
         OpenLateJoin(r) \/ LiveLoadWp(r) \/ LiveStep(r) \/ ReaderStep(r)
  PROVE  FollowOK(r)'
<1> USE DEF RGoto
<1>1. /\ TypeOK /\ ChainOK /\ ReaderOK(r) /\ FollowOK(r) /\ SuccessorOK /\ ChainWalkable
      /\ \A q \in DOMAIN chain : q \in Nat
      /\ rpc \in [Readers -> ReaderPc] /\ rpos \in [Readers -> Int]
      /\ rindex \in [Readers -> Nat] /\ rwalk \in [Readers -> Walk]
  BY DEF IInv, RInv, TypeOK
<1>2. CASE OpenLateJoin(r)
  BY <1>1, <1>2 DEF OpenLateJoin, FollowOK, LivePc
<1>3. CASE LiveLoadWp(r)
  <2>1. wp - HEADER_SLOT \in DOMAIN chain \/ succ = "published"
    BY DEF IInv, PairOK
  <2>2. /\ rpc'[r] = "live_count" /\ rpos'[r] = wp - HEADER_SLOT
        /\ chain' = chain /\ succ' = succ
    BY <1>1, <1>3 DEF LiveLoadWp, fileVars
  <2>3. QED
    BY <2>1, <2>2 DEF FollowOK
<1>4. CASE LiveStale(r)
  BY <1>1, <1>4 DEF LiveStale, FollowOK, LivePc
<1>5. CASE LiveLoadCount(r) \/ LiveNewest(r) \/ LiveStarts(r) \/ LiveRetry(r)
  <2>1. /\ rpc[r] \in LivePc /\ rpc'[r] \in {"live_newer", "live_slot", "live_again", "scan"}
        /\ UNCHANGED <<rpos, chain, succ>>
    BY <1>1, <1>5 DEF LiveLoadCount, LiveNewest, LiveStarts, LiveRetry, LivePc, fileVars
  <2>2. QED
    BY <1>1, <2>1 DEF FollowOK
<1>6. CASE LiveWalk(r)
  <2>1. /\ rpc[r] = "live_slot" /\ rpc'[r] = "live_walk" /\ rwalk'[r] = WalkStart
        /\ UNCHANGED <<rpos, chain, succ>>
    BY <1>1, <1>6 DEF LiveWalk, fileVars
  <2>2. rpos[r] \in DOMAIN chain
    BY <1>1, <2>1 DEF ReaderOK
  <2>3. WalkStart.pos <= rpos[r]
    BY <1>1, <2>2 DEF WalkStart
  <2>4. QED
    BY <2>1, <2>2, <2>3 DEF FollowOK
<1>7. CASE LiveWalkStep(r)
  <2>1. /\ rpc[r] = "live_walk" /\ rwalk[r].pos < rpos[r]
        /\ rwalk'[r].pos = After(rwalk[r].pos) /\ UNCHANGED <<rpc, rpos, chain, succ>>
    BY <1>1, <1>7 DEF LiveWalkStep, WalkNext, fileVars
  <2>2. rpos[r] \in DOMAIN chain /\ rwalk[r].pos \in DOMAIN chain
    BY <1>1, <2>1 DEF ReaderOK
  <2>3. After(rwalk[r].pos) <= rpos[r]
    BY <1>1, <2>1, <2>2 DEF ChainWalkable
  <2>4. QED
    BY <2>1, <2>2, <2>3 DEF FollowOK
<1>8. CASE LiveWalkEnds(r)
  <2>1. /\ rpc[r] = "live_walk"
        /\ rwalk[r].pos >= rpos[r] \/ ~WalkGoes(rwalk[r])
        /\ rwalk[r].pos = rpos[r] => rpc'[r] = "scan"
    BY <1>1, <1>8 DEF LiveWalkEnds
  <2>2. rpos[r] \in DOMAIN chain /\ rwalk[r].pos \in DOMAIN chain /\ rwalk[r].pos <= rpos[r]
    BY <1>1, <2>1 DEF ReaderOK, FollowOK
  <2>3. ~Passed(rwalk[r].pos) => rpos[r] <= rwalk[r].pos
    BY <1>1, <2>2 DEF ChainOK
  <2>4. rwalk[r].pos = rpos[r]
    BY <1>1, <2>1, <2>2, <2>3 DEF WalkGoes, Passed
  <2>5. QED
    BY <2>1, <2>4 DEF FollowOK, LivePc
<1>9. CASE ReadRecord(r)
  <2>1. rpc'[r] = "scan"
    BY <1>9 DEF ReadRecord
  <2>2. QED
    BY <2>1 DEF FollowOK, LivePc
<1>10. CASE ReadRoll(r)
  <2>1. /\ rpc[r] = "scan" /\ CommittedType(rpos[r], "Roll")
        /\ UNCHANGED <<rindex, succ, succBase>>
        /\ succ = "published" /\ succBase = count => rpc'[r] = "followed"
    BY <1>1, <1>10 DEF ReadRoll, fileVars
  <2>2. rpos[r] \in DOMAIN chain /\ rindex[r] = chain[rpos[r]]
    BY <1>1, <2>1 DEF ReaderOK
  <2>3. succ = "published" /\ succBase = count
    BY <1>1, <2>1, <2>2 DEF SuccessorOK
  <2>4. PICK t \in DOMAIN chain : slots[t].type = "Roll" /\ count = chain[t]
    BY <1>1, <2>3 DEF SuccessorOK
  <2>5. t = rpos[r]
    BY <1>1, <2>1, <2>2, <2>4, LastSlot DEF Passed, CommittedType
  <2>6. QED
    BY <2>1, <2>2, <2>3, <2>4, <2>5 DEF FollowOK, LivePc
<1>11. QED
  BY <1>2, <1>3, <1>4, <1>5, <1>6, <1>7, <1>8, <1>9, <1>10 DEF LiveStep, ReaderStep

\* A reader's step changes nothing of the file, the writer or the other readers.
LEMMA ReaderAlone ==
  ASSUME IInv, NEW r \in Readers,
         OpenLateJoin(r) \/ LiveLoadWp(r) \/ LiveStep(r) \/ ReaderStep(r)
  PROVE  /\ UNCHANGED <<fileVars, writerVars, chain>>
         /\ \A q \in Readers : q # r => /\ rpc'[q] = rpc[q] /\ rpos'[q] = rpos[q]
                                        /\ rindex'[q] = rindex[q] /\ rwalk'[q] = rwalk[q]
<1>1. UNCHANGED <<fileVars, writerVars, chain>>
  BY DEF LiveStep, ReaderStep, OpenLateJoin, LiveLoadWp, LiveLoadCount, LiveStale, LiveNewest,
         LiveStarts, LiveRetry, LiveWalk, LiveWalkStep, LiveWalkEnds, ReadRecord, ReadRoll
<1>2. ASSUME NEW q \in Readers, q # r
      PROVE  /\ rpc'[q] = rpc[q] /\ rpos'[q] = rpos[q]
             /\ rindex'[q] = rindex[q] /\ rwalk'[q] = rwalk[q]
  <2>1. /\ rpc \in [Readers -> ReaderPc] /\ rpos \in [Readers -> Int]
        /\ rindex \in [Readers -> Nat] /\ rwalk \in [Readers -> Walk]
    BY DEF IInv, TypeOK
  <2>2. QED
    BY <1>2, <2>1 DEF LiveStep, ReaderStep, OpenLateJoin, LiveLoadWp, LiveLoadCount, LiveStale,
         LiveNewest, LiveStarts, LiveRetry, LiveWalk, LiveWalkStep, LiveWalkEnds, ReadRecord,
         ReadRoll, RGoto
<1>3. QED
  BY <1>1, <1>2

\* Any reader's step.
LEMMA ReaderStepInv ==
  ASSUME IInv, RInv, NEW r \in Readers,
         OpenLateJoin(r) \/ LiveLoadWp(r) \/ LiveStep(r) \/ ReaderStep(r)
  PROVE  RInv'
<1>1. UNCHANGED <<slots, count, wp, fileLen, succ, succBase, pc, next, walk, chain>>
  BY ReaderAlone DEF fileVars, writerVars
<1>2. ChainWalkable'
  <2>1. \A p \in DOMAIN chain : (Passed(p)' <=> Passed(p)) /\ (Passed(p) => slots'[p] = slots[p])
    BY <1>1 DEF Passed, Committed, IsHeader
  <2>2. QED
    BY <1>1, <2>1, WalkableKept DEF RInv, IInv, TypeOK
<1>3. LagOK' /\ SuccessorOK' /\ RecoveryOK'
  BY <1>1 DEF RInv, LagOK, SuccessorOK, RecoveryOK, Passed, CommittedType, Committed, IsHeader,
              Laid, After, MappedWithin, NextRegion
<1>4. \A q \in Readers : FollowOK(q)'
  <2>1. ASSUME NEW q \in Readers, q # r
        PROVE  FollowOK(q)'
    BY <1>1, <2>1, ReaderAlone DEF RInv, FollowOK
  <2>2. QED
    BY <2>1, ReaderStepFollows
<1>5. QED
  BY <1>2, <1>3, <1>4 DEF RInv

-----------------------------------------------------------------------------
(* The theorems *)

\* A segment just created.
LEMMA InitRecovery == Init => RInv
<1> SUFFICES ASSUME Init PROVE RInv
  OBVIOUS
<1>1. /\ DOMAIN slots = {0, FIRST_RECORD} /\ slots[0] = ChannelRecord
      /\ slots[FIRST_RECORD] = Preinstalled
      /\ DOMAIN chain = {0, FIRST_RECORD} /\ chain[0] = 0 /\ chain[FIRST_RECORD] = 0
      /\ FIRST_RECORD = 208 /\ HEADER_SLOT = 16
  BY DEF Init, FIRST_RECORD, HEADER_SLOT
<1>2. Passed(0) /\ ~Committed(FIRST_RECORD) /\ ~Passed(FIRST_RECORD) /\ slots[0].type = "Channel"
  BY <1>1, HeaderTypesOK DEF Passed, Committed, IsHeader, ChannelRecord
<1>3. RegionSize \in Nat /\ FIRST_RECORD < RegionSize
  BY <1>1, RegionSizeAssumption DEF ROLL_TOTAL, ROLL_PAYLOAD, HEADER_SLOT
<1>4. Region(0) = 0 /\ Region(FIRST_RECORD) = 0
  <2>1. Region(0 * RegionSize + 0) = 0 /\ Region(0 * RegionSize + FIRST_RECORD) = 0
    BY <1>1, <1>3, OffsetUnique
  <2>2. QED
    BY <1>1, <1>3, <2>1
<1>5. ChainWalkable
  <2>1. After(0) = FIRST_RECORD
    BY <1>1 DEF After, ChannelRecord, NextSlot, AlignUp, ALIGN
  <2>2. PassedFits(0)
    BY <1>2 DEF PassedFits
  <2>3. MappedWithin(0, fileLen) /\ MappedWithin(FIRST_RECORD, fileLen)
    <3>1. fileLen = PreallocationLen /\ RegionSize <= PreallocationLen
      <4>1. FileRollSize \in Nat /\ FileRollSize % RegionSize \in Nat /\ FileRollSize % RegionSize < RegionSize
        BY FileRollSizeAssumption, OffsetFacts DEF Offset
      <4>2. QED
        BY <1>3, <4>1, FileRollSizeAssumption DEF Init, PreallocationLen
    <3>2. QED
      BY <1>3, <1>4, <3>1 DEF MappedWithin
  <2>4. \A k \in 0..0 : k * RegionSize = 0
    BY <1>3
  <2>5. QED
    BY <1>1, <1>2, <1>4, <2>1, <2>2, <2>3, <2>4 DEF ChainWalkable
<1>6. LagOK
  BY <1>1, <1>2 DEF Init, LagOK
<1>7. SuccessorOK
  BY <1>1, <1>2 DEF Init, SuccessorOK, CommittedType, ChannelRecord
<1>8. RecoveryOK
  BY DEF Init, RecoveryOK
<1>9. \A r \in Readers : FollowOK(r)
  BY DEF Init, FollowOK, LivePc
<1>10. QED
  BY <1>5, <1>6, <1>7, <1>8, <1>9 DEF RInv

\* Every step keeps it.
LEMMA NextRecovery == IInv /\ RInv /\ [Next]_vars => RInv'
<1> SUFFICES ASSUME IInv, RInv, [Next]_vars PROVE RInv'
  OBVIOUS
<1>1. CASE WriterStep
  BY <1>1, WriteStepInv, CommitStepInv, CallStepInv, SkipGrowInv, WalkStepInv, StrandedFinds,
     PublishStepInv, RolledStepInv, SuccessorStepInv DEF WriterStep, WriteStep
<1>2. CASE CallerStep \/ Crash
  BY <1>2, WriteStepInv, CallStepInv, OpenStepInv, StrandedStarts, SuccessorStepInv
  DEF CallerStep, WriteStep
<1>3. CASE \E r \in Readers : OpenLateJoin(r) \/ LiveLoadWp(r) \/ LiveStep(r) \/ ReaderStep(r)
  BY <1>3, ReaderStepInv
<1>4. CASE UNCHANGED vars
  <2>1. /\ UNCHANGED <<slots, count, wp, fileLen, succ, succBase, readerVars, chain>>
        /\ UNCHANGED <<pc, next, walk>>
    BY <1>4 DEF vars, fileVars, writerVars
  <2>2. RecoveryOK' /\ fileLen' \in Nat /\ fileLen <= fileLen'
    BY <2>1 DEF RInv, RecoveryOK, MappedWithin, NextRegion, IInv, TypeOK
  <2>3. QED
    BY <2>1, <2>2, FileGrows
<1>5. QED
  BY <1>1, <1>2, <1>3, <1>4 DEF Next

\* Both invariants hold in every reachable state.
THEOREM RecoveryInvariant == Spec => [](IInv /\ RInv)
<1>1. Init => IInv /\ RInv
  BY InitInv, InitRecovery
<1>2. IInv /\ RInv /\ [Next]_vars => (IInv /\ RInv)'
  BY NextInv, NextRecovery
<1>3. QED
  BY <1>1, <1>2, PTL DEF Spec

\* No crash, at any store and any number of times, leaves a segment the next open refuses.
THEOREM RecoveryNeverRefuses == Spec => []RecoveryAccepts
<1>1. IInv /\ RInv => RecoveryAccepts
  BY DEF RInv, RecoveryOK, RecoveryAccepts
<1>2. QED
  BY <1>1, RecoveryInvariant, PTL

\* Every slot a walk or a reader can reach holds a header, in a region the file holds.
THEOREM ReachedSlotsMapped == Spec => []ChainWellFormed
<1>1. IInv /\ RInv => ChainWellFormed
  BY DEF IInv, ChainOK, RInv, ChainWalkable, ChainWellFormed, IsHeader
<1>2. QED
  BY <1>1, RecoveryInvariant, PTL

\* No reader meets an error, and one that follows the Roll arrives with the successor's base.
THEOREM RollsContinuous == Spec => []RollContinuous
<1>1. IInv /\ RInv => RollContinuous
  BY DEF RInv, FollowOK, RollContinuous
<1>2. QED
  BY <1>1, RecoveryInvariant, PTL

\* The last slot of the chain is the one whose record is not passed.
LEMMA TailIsLast ==
  ASSUME TypeOK, ChainOK, NEW t \in DOMAIN chain, ~Passed(t)
  PROVE  Tail = t
<1>1. \A q \in DOMAIN chain : q \in Nat /\ q <= t
  BY LastSlot
<1>2. \E p \in DOMAIN chain : \A q \in DOMAIN chain : q <= p
  BY <1>1
<1>3. Tail \in DOMAIN chain /\ \A q \in DOMAIN chain : q <= Tail
  BY <1>2 DEF Tail
<1>4. QED
  BY <1>1, <1>3

\* Between calls the advisory pair is exact, whichever writer is at work and whatever it
\* recovered.
THEOREM PairIsExact == Spec => []PairExact
<1>1. IInv => PairExact
  <2> SUFFICES ASSUME IInv, pc \in {"idle", "reserve", "roll"}
               PROVE  next = Tail /\ wp = next + HEADER_SLOT /\ count = chain[next]
    BY DEF PairExact
  <2>1. TypeOK /\ ChainOK /\ next \in DOMAIN chain /\ ~Passed(next) /\ WriterOK
    BY AtLast DEF WritingPc
  <2>2. QED
    BY <2>1, TailIsLast DEF WriterOK, WritingPc
<1>2. QED
  BY <1>1, RecoveryInvariant, PTL

-----------------------------------------------------------------------------
(* What is committed stays *)

\* Steps of the writer that store no header.
LEMMA OtherSteps ==
  ASSUME WriterStep \/ CallerStep \/ Crash
  PROVE  WriteStep \/ CommitFlag \/ SkipCommit \/ UNCHANGED slots
<1> USE DEF fileVars
<1>1. ASSUME WriterStep
      PROVE  WriteStep \/ CommitFlag \/ SkipCommit \/ UNCHANGED slots
  BY <1>1 DEF WriterStep, WriteStep, ReserveRollFile, ReserveSkip, PublishCount, PublishWp, SkipGrow,
              SkipWp, RollInstall, RollPublish, RollWp, WalkStep, RecountEnds, RecoverCount,
              RecoverWp, StrandedEnds, FinishWp
<1>2. ASSUME CallerStep \/ Crash
      PROVE  WriteStep \/ UNCHANGED slots
  BY <1>2 DEF CallerStep, WriteStep, TryReserve, CommitTooLong, RollFile, SkipFails, RollFails,
              DiscardUnpublished, OpenAdopt, OpenOrphan, OpenStranded, Crash
<1>3. QED
  BY <1>1, <1>2

\* The record that is committed now stays as it is in every later state, byte for byte: no
\* writer and no recovery writes over it.
THEOREM CommittedStays == Spec => CommittedForGood
<1> DEFINE A == \A p \in DOMAIN chain : Committed(p) => p \in DOMAIN slots' /\ slots'[p] = slots[p]
<1>1. IInv /\ [Next]_vars => A
  <2> SUFFICES ASSUME IInv, [Next]_vars, NEW p \in DOMAIN chain, Committed(p)
               PROVE  p \in DOMAIN slots' /\ slots'[p] = slots[p]
    OBVIOUS
  <2>1. CASE UNCHANGED slots
    BY <2>1 DEF Committed, IsHeader
  <2>2. CASE WriteStep
    <3>1. pc \in WritingPc \cup {"finish_commit"}
      BY <2>2 DEF WriteStep, ReserveGrant, FillPayload, CommitRelay, SkipPreinstall, SkipStage,
                  RollStage, CommitHeader, RollCommit, FinishCommit, Goto, WritingPc
    <3>2. p # next
      BY <3>1, AtLast DEF Committed
    <3>3. QED
      BY <2>2, <3>2, WriteStepWrites DEF WritesLast
  <2>3. CASE CommitFlag \/ SkipCommit
    <3>1. pc \in WritingPc /\ slots' = SetCommitted(slots, next)
      BY <2>3 DEF CommitFlag, SkipCommit, Goto, WritingPc
    <3>2. TypeOK /\ next \in DOMAIN slots /\ ~slots[next].committed
      BY <3>1, AtLast
    <3>3. p # next /\ p \in DOMAIN slots
      BY <3>2 DEF Committed, IsHeader
    <3>4. QED
      BY <3>1, <3>2, <3>3, SetCommittedFacts DEF TypeOK
  <2>4. CASE \E r \in Readers : OpenLateJoin(r) \/ LiveLoadWp(r) \/ LiveStep(r) \/ ReaderStep(r)
    <3>1. UNCHANGED slots
      BY <2>4, ReaderAlone DEF fileVars
    <3>2. QED
      BY <2>1, <3>1
  <2>5. CASE UNCHANGED vars
    BY <2>1, <2>5 DEF vars, fileVars
  <2>6. QED
    BY <2>1, <2>2, <2>3, <2>4, <2>5, OtherSteps DEF Next
<1>2. IInv /\ [Next]_vars => [A]_vars
  BY <1>1
<1>3. QED
  BY <1>2, Invariant, PTL DEF Spec, CommittedForGood

-----------------------------------------------------------------------------
(* The segment implements ChannelLog *)

\* The images of a reader's state in ChannelLog.
Cursor(r) == IF rpc[r] \in {"scan", "followed"} THEN rindex[r] ELSE -1
Floor(r) == IF rpc[r] \in LivePc THEN UsersBefore(rpos[r]) ELSE -1

\* The chain always has a last slot, with the most user records before it, and the published
\* position names it, or the record before it, or is past the Roll in it.
LEMMA TailFacts ==
  ASSUME IInv, RInv
  PROVE  /\ Tail \in DOMAIN chain /\ ~Passed(Tail) /\ chain[Tail] \in Nat
         /\ \A q \in DOMAIN chain : chain[q] \in Nat /\ chain[q] <= chain[Tail]
         /\ \A p : UsersBefore(p) \in Nat /\ UsersBefore(p) <= chain[Tail]
<1>1. TypeOK /\ ChainOK
  BY DEF IInv
<1>2. \E t \in DOMAIN chain : ~Passed(t)
  <2>1. CASE wp - HEADER_SLOT \in DOMAIN chain
    <3>1. Passed(wp - HEADER_SLOT) =>
            /\ After(wp - HEADER_SLOT) \in DOMAIN chain /\ ~Passed(After(wp - HEADER_SLOT))
      BY <1>1, <2>1, HeaderTypesOK DEF ChainOK, RInv, LagOK, Laid, Passed, Committed
    <3>2. QED
      BY <2>1, <3>1
  <2>2. CASE \E t \in DOMAIN chain : CommittedType(t, "Roll")
    BY <2>2 DEF CommittedType, Passed
  <2>3. QED
    BY <2>1, <2>2 DEF IInv, PairOK
<1>3. PICK t \in DOMAIN chain : ~Passed(t)
  BY <1>2
<1>4. Tail = t
  BY <1>1, <1>3, TailIsLast
<1>5. \A q \in DOMAIN chain : chain[q] \in Nat /\ q \in Nat /\ q <= t
  BY <1>1, <1>3, LastSlot DEF TypeOK
<1>6. \A q \in DOMAIN chain : chain[q] <= chain[t]
  <2>1. \A q \in DOMAIN chain : q = t \/ q < t
    BY <1>3, <1>5
  <2>2. QED
    BY <1>3, <1>5, <2>1 DEF RInv, ChainWalkable
<1>7. QED
  BY <1>3, <1>4, <1>5, <1>6 DEF UsersBefore

\* Steps that move neither the chain, nor the position, nor a reader's image, stutter.
LEMMA LogStutter ==
  ASSUME UNCHANGED <<chain, wp>>, \A r \in Readers : Cursor(r)' = Cursor(r) /\ Floor(r)' = Floor(r)
  PROVE  UNCHANGED Log!vars
BY DEF Log!vars, UsersBefore, Tail, Cursor, Floor

\* With the chain as it was, the readers that stand still keep their images.
LEMMA ImageKept ==
  ASSUME chain' = chain, NEW r, rpc'[r] = rpc[r], rpos'[r] = rpos[r], rindex'[r] = rindex[r]
  PROVE  Cursor(r)' = Cursor(r) /\ Floor(r)' = Floor(r)
BY DEF Cursor, Floor, UsersBefore, Tail

\* Storing the position publishes what is committed, if it was not yet.
LEMMA LogPublish ==
  ASSUME IInv, RInv, PublishWp \/ SkipWp \/ RecoverWp \/ RollWp \/ FinishWp
  PROVE  Log!Publish \/ UNCHANGED Log!vars
<1>1. /\ UNCHANGED <<readerVars, chain, slots>> /\ pc \in PublishingPc \cup RolledPc
      /\ PublishWp \/ SkipWp \/ RecoverWp => pc \in PublishingPc /\ wp' = next + HEADER_SLOT
  BY DEF PublishWp, SkipWp, RecoverWp, RollWp, FinishWp, Goto, PublishingPc, RolledPc
<1>2. /\ TypeOK /\ ChainOK /\ next \in DOMAIN chain /\ next \in Nat /\ ~Passed(next)
      /\ pc \in RolledPc => wp = next + HEADER_SLOT
  BY <1>1 DEF IInv, TypeOK, WriterOK, Passed, CommittedType, Committed, PublishingPc, RolledPc
<1>3. next = Tail
  BY <1>2, TailIsLast
<1>4. UsersBefore(wp - HEADER_SLOT)' = chain[Tail]
  <2>1. CASE PublishWp \/ SkipWp \/ RecoverWp
    <3>1. wp' - HEADER_SLOT = next
      BY <1>1, <1>2, <2>1 DEF HEADER_SLOT
    <3>2. QED
      BY <1>1, <1>2, <1>3, <3>1 DEF UsersBefore
  <2>2. CASE RollWp \/ FinishWp
    <3>1. pc \in RolledPc
      BY <2>2 DEF RollWp, FinishWp, Goto, RolledPc
    <3>2. wp' - HEADER_SLOT = next + ROLL_TOTAL /\ next < next + ROLL_TOTAL
      BY <1>2, <2>2, <3>1 DEF RollWp, FinishWp, HEADER_SLOT, ROLL_TOTAL, ROLL_PAYLOAD
    <3>3. \A q \in DOMAIN chain : q <= next /\ q \in Nat
      BY <1>2, LastSlot
    <3>4. wp' - HEADER_SLOT \notin DOMAIN chain
      BY <1>2, <3>2, <3>3
    <3>5. QED
      BY <1>1, <3>4 DEF UsersBefore, Tail
  <2>3. QED
    BY <2>1, <2>2
<1>5. chain[Tail]' = chain[Tail]
  BY <1>1 DEF Tail
<1>6. \A r \in Readers : Cursor(r)' = Cursor(r) /\ Floor(r)' = Floor(r)
  BY <1>1, ImageKept DEF readerVars
<1>7. UsersBefore(wp - HEADER_SLOT) \in Nat /\ UsersBefore(wp - HEADER_SLOT) <= chain[Tail] /\ chain[Tail] \in Nat
  BY TailFacts
<1>8. CASE UsersBefore(wp - HEADER_SLOT) = chain[Tail]
  BY <1>4, <1>5, <1>6, <1>8 DEF Log!vars, Cursor, Floor
<1>9. CASE UsersBefore(wp - HEADER_SLOT) < chain[Tail]
  BY <1>4, <1>5, <1>6, <1>9 DEF Log!Publish, Cursor, Floor
<1>10. QED
  BY <1>7, <1>8, <1>9

\* The commit of a user record is the log's commit, of the record after the published ones; a
\* Skip is no record of the log.
LEMMA LogCommit ==
  ASSUME IInv, RInv, CommitFlag \/ SkipCommit
  PROVE  Log!Commit \/ UNCHANGED Log!vars
<1>1. /\ UNCHANGED <<wp, readerVars>> /\ pc \in {"commit", "skip_commit"}
      /\ slots' = SetCommitted(slots, next)
  BY DEF CommitFlag, SkipCommit, Goto
<1>2. /\ TypeOK /\ ChainOK /\ next \in DOMAIN chain /\ next \in Nat /\ ~Passed(next)
      /\ wp = next + HEADER_SLOT /\ succ # "published"
  BY <1>1, AtLast DEF WritingPc, WriterOK
<1>3. PICK u \in Nat : /\ next + HEADER_SLOT <= u /\ UsersAt(next) \in {0, 1}
                       /\ chain' = Extend(chain, next, u, UsersAt(next))
  BY CommitGrows
<1>4. /\ DOMAIN chain' = DOMAIN chain \cup {u} /\ chain'[u] = chain[next] + UsersAt(next)
      /\ \A p \in DOMAIN chain : p < u /\ p \in Nat /\ chain'[p] = chain[p]
  <2>1. \A p \in DOMAIN chain : p <= next /\ p \in Nat
    BY <1>2, LastSlot
  <2>2. \A p \in DOMAIN chain : p < u
    BY <1>2, <1>3, <2>1 DEF HEADER_SLOT
  <2>3. QED
    BY <1>3, <2>1, <2>2 DEF Extend
<1>5. Tail = next /\ wp - HEADER_SLOT = next
  BY <1>2, TailIsLast DEF HEADER_SLOT
<1>6. Tail' = u
  <2>1. \A p \in DOMAIN chain' : p \in Nat /\ p <= u
    BY <1>4
  <2>2. Tail' \in DOMAIN chain' /\ \A q \in DOMAIN chain' : q <= Tail'
    <3>1. \E p \in DOMAIN chain' : \A q \in DOMAIN chain' : q <= p
      BY <1>4, <2>1
    <3>2. QED
      BY <3>1 DEF Tail
  <2>3. QED
    BY <1>4, <2>1, <2>2
<1>7. chain[Tail]' = chain[Tail] + UsersAt(next) /\ chain[Tail] \in Nat
  BY <1>4, <1>5, <1>6, TailFacts
<1>8. UsersBefore(wp - HEADER_SLOT) = chain[Tail] /\ UsersBefore(wp - HEADER_SLOT)' = chain[Tail]
  BY <1>1, <1>2, <1>4, <1>5 DEF UsersBefore
<1>9. \A r \in Readers : Cursor(r)' = Cursor(r) /\ Floor(r)' = Floor(r)
  <2>1. ASSUME NEW r \in Readers, rpc[r] \in LivePc
        PROVE  UsersBefore(rpos[r])' = UsersBefore(rpos[r])
    <3>1. rpos[r] \in DOMAIN chain /\ rpos'[r] = rpos[r]
      BY <1>1, <1>2, <2>1 DEF RInv, FollowOK, readerVars
    <3>2. QED
      BY <1>4, <3>1 DEF UsersBefore
  <2>2. QED
    BY <1>1, <2>1 DEF Cursor, Floor, readerVars
<1>10. CASE UsersAt(next) = 1
  BY <1>7, <1>8, <1>9, <1>10 DEF Log!Commit, Cursor, Floor
<1>11. CASE UsersAt(next) = 0
  BY <1>7, <1>8, <1>9, <1>11 DEF Log!vars, Cursor, Floor
<1>12. QED
  BY <1>3, <1>10, <1>11

\* A step of one reader is a step of that reader in the log: it joins at the first record, looks
\* at the head, joins no earlier than what it saw there, gives up, or reads one record.
LEMMA LogReader ==
  ASSUME IInv, RInv, NEW r \in Readers,
         OpenLateJoin(r) \/ LiveLoadWp(r) \/ LiveStep(r) \/ ReaderStep(r)
  PROVE  Log!Next \/ UNCHANGED Log!vars
<1> USE DEF RGoto
<1>1. /\ UNCHANGED <<chain, wp, slots, succ>>
      /\ \A q \in Readers : q # r => Cursor(q)' = Cursor(q) /\ Floor(q)' = Floor(q)
  BY ReaderAlone, ImageKept DEF fileVars
<1>2. /\ TypeOK /\ ChainOK /\ ReaderOK(r) /\ FollowOK(r) /\ FollowOK(r)'
      /\ rpc \in [Readers -> ReaderPc] /\ rpos \in [Readers -> Int]
      /\ rindex \in [Readers -> Nat] /\ rwalk \in [Readers -> Walk]
  BY ReaderStepFollows DEF IInv, RInv, TypeOK
<1>3. \A p : /\ UsersBefore(p) \in Nat /\ UsersBefore(p) <= chain[Tail] /\ UsersBefore(p)' = UsersBefore(p)
             /\ p \in DOMAIN chain => UsersBefore(p) = chain[p]
  BY <1>1, TailFacts DEF UsersBefore, Tail
<1>4. chain[Tail]' = chain[Tail] /\ chain[Tail] \in Nat
  BY <1>1, TailFacts DEF Tail
<1> DEFINE cur == [q \in Readers |-> Cursor(q)]
           flo == [q \in Readers |-> Floor(q)]
<1>images. /\ cur = [q \in Readers |-> IF rpc[q] \in {"scan", "followed"} THEN rindex[q] ELSE -1]
      /\ flo = [q \in Readers |-> IF rpc[q] \in LivePc THEN UsersBefore(rpos[q]) ELSE -1]
      /\ cur' = [q \in Readers |-> IF rpc[q] \in {"scan", "followed"} THEN rindex[q] ELSE -1]'
      /\ flo' = [q \in Readers |-> IF rpc[q] \in LivePc THEN UsersBefore(rpos[q]) ELSE -1]'
      /\ UsersBefore(wp - HEADER_SLOT)' = UsersBefore(wp - HEADER_SLOT)
  BY <1>1 DEF Cursor, Floor, UsersBefore, Tail
<1> HIDE DEF cur, flo
<1>5. ASSUME Cursor(r)' = Cursor(r), Floor(r)' = Floor(r)
      PROVE  UNCHANGED Log!vars
  BY <1>1, <1>5, LogStutter
<1>6. ASSUME Floor(r) \in Nat, Floor(r) <= chain[Tail], Cursor(r)' = Floor(r), Floor(r)' = -1
      PROVE  Log!JoinAtHead(r)
  <2>1. flo[r] = Floor(r) /\ flo[r] # -1 /\ Floor(r) \in flo[r]..chain[Tail]
    BY <1>4, <1>6 DEF flo
  <2>2. cur' = [cur EXCEPT ![r] = Floor(r)] /\ flo' = [flo EXCEPT ![r] = -1]
    BY <1>1, <1>6 DEF cur, flo
  <2>3. QED
    BY <1>3, <1>4, <1>images, <2>1, <2>2 DEF Log!JoinAtHead, Log!NotJoined
<1>7. CASE OpenLateJoin(r)
  <2>1. Cursor(r) = -1 /\ Floor(r) = -1 /\ Cursor(r)' = 0 /\ Floor(r)' = -1
    BY <1>2, <1>7 DEF OpenLateJoin, Cursor, Floor, LivePc
  <2>2. Log!JoinAtStart(r)
    BY <1>1, <1>3, <1>4, <2>1 DEF Log!JoinAtStart, Log!NotJoined, Cursor, Floor
  <2>3. QED
    BY <2>2 DEF Log!Next
<1>8. CASE LiveLoadWp(r)
  <2>1. /\ Cursor(r) = -1 /\ Cursor(r)' = -1
        /\ rpc'[r] = "live_count" /\ rpos'[r] = wp - HEADER_SLOT
    BY <1>2, <1>8 DEF LiveLoadWp, Cursor
  <2>2. Floor(r)' = UsersBefore(wp - HEADER_SLOT)
    BY <1>1, <2>1 DEF Floor, LivePc, UsersBefore, Tail
  <2>3. Log!LookAtHead(r)
    BY <1>1, <1>3, <1>4, <2>1, <2>2 DEF Log!LookAtHead, Log!NotJoined, Cursor, Floor
  <2>4. QED
    BY <2>3 DEF Log!Next
<1>9. CASE LiveLoadCount(r) \/ LiveNewest(r) \/ LiveRetry(r) \/ LiveWalk(r) \/ LiveWalkStep(r)
  <2>1. rpc[r] \in LivePc /\ rpc'[r] \in LivePc /\ rpos' = rpos
    BY <1>2, <1>9 DEF LiveLoadCount, LiveNewest, LiveRetry, LiveWalk, LiveWalkStep, LivePc
  <2>2. Cursor(r)' = Cursor(r) /\ Floor(r)' = Floor(r)
    BY <1>1, <2>1 DEF Cursor, Floor, LivePc, UsersBefore, Tail
  <2>3. QED
    BY <1>5, <2>2
<1>10. CASE LiveStale(r)
  <2>1. Cursor(r)' = Cursor(r) /\ Floor(r) \in Nat /\ Floor(r)' = -1
    BY <1>2, <1>3, <1>10 DEF LiveStale, Cursor, Floor, LivePc
  <2>2. flo[r] # -1 /\ cur' = cur /\ flo' = [flo EXCEPT ![r] = -1]
    <3>1. Floor(r) # -1
      BY <2>1
    <3>2. \A q \in Readers : Cursor(q)' = Cursor(q)
      BY <1>1, <2>1
    <3>3. cur' = cur
      BY <3>2 DEF cur
    <3>4. flo' = [flo EXCEPT ![r] = -1]
      BY <1>1, <2>1 DEF flo
    <3>5. QED
      BY <3>1, <3>3, <3>4 DEF flo
  <2>3. Log!GiveUp(r)
    BY <1>4, <1>images, <2>2 DEF Log!GiveUp, Log!NotJoined
  <2>4. QED
    BY <2>3 DEF Log!Next
<1>11. CASE LiveStarts(r)
  <2>1. /\ rpc[r] = "live_slot" /\ rpc'[r] = "scan" /\ rindex' = rindex
        /\ ~Passed(rpos[r])
    BY <1>2, <1>11 DEF LiveStarts, Passed, CommittedType
  <2>2. rpos[r] \in DOMAIN chain /\ rindex[r] = chain[rpos[r]]
    BY <1>2, <2>1 DEF ReaderOK
  <2>3. Floor(r) = chain[rpos[r]] /\ Cursor(r)' = chain[rpos[r]] /\ Floor(r)' = -1
    BY <1>3, <2>1, <2>2 DEF Cursor, Floor, LivePc
  <2>4. Floor(r) \in Nat /\ Floor(r) <= chain[Tail]
    BY <1>3, <2>2, <2>3
  <2>5. QED
    BY <1>6, <2>3, <2>4 DEF Log!Next
<1>12. CASE LiveWalkEnds(r)
  <2>1. rpc[r] = "live_walk" /\ (rwalk[r].pos # rpos[r] => rpc'[r] = "error")
    BY <1>2, <1>12 DEF LiveWalkEnds
  <2>2. rwalk[r].pos = rpos[r]
    BY <1>2, <2>1 DEF FollowOK
  <2>3. rpc'[r] = "scan" /\ rindex'[r] = rwalk[r].users
    BY <1>2, <1>12, <2>2 DEF LiveWalkEnds
  <2>4. rpos[r] \in DOMAIN chain /\ rwalk[r].users = chain[rpos[r]]
    BY <1>2, <2>1, <2>2 DEF ReaderOK
  <2>5. Floor(r) = chain[rpos[r]] /\ Cursor(r)' = chain[rpos[r]] /\ Floor(r)' = -1
    BY <1>3, <2>1, <2>3, <2>4 DEF Cursor, Floor, LivePc
  <2>6. Floor(r) \in Nat /\ Floor(r) <= chain[Tail]
    BY <1>3, <2>4, <2>5
  <2>7. QED
    BY <1>6, <2>5, <2>6 DEF Log!Next
<1>13. CASE ReadRecord(r)
  <2>1. /\ rpc[r] = "scan" /\ rpc' = rpc /\ rindex'[r] = rindex[r] + UsersAt(rpos[r])
        /\ Passed(rpos[r])
    BY <1>2, <1>13 DEF ReadRecord, Passed
  <2>2. rpos[r] \in DOMAIN chain /\ rindex[r] = chain[rpos[r]]
    BY <1>2, <2>1 DEF ReaderOK
  <2>3. After(rpos[r]) \in DOMAIN chain /\ chain[After(rpos[r])] = rindex[r] + UsersAt(rpos[r])
    BY <1>2, <2>1, <2>2 DEF ChainOK
  <2>4. rindex[r] + UsersAt(rpos[r]) <= chain[Tail]
    BY <2>3, TailFacts
  <2>5. /\ Cursor(r) = rindex[r] /\ Cursor(r)' = rindex[r] + UsersAt(rpos[r])
        /\ Floor(r) = -1 /\ Floor(r)' = -1
    BY <2>1 DEF Cursor, Floor, LivePc
  <2>6. rindex[r] \in Nat /\ UsersAt(rpos[r]) \in {0, 1}
    BY <1>2 DEF UsersAt
  <2>7. CASE UsersAt(rpos[r]) = 1
    <3>1. Cursor(r) # -1 /\ Cursor(r) < chain[Tail] /\ Cursor(r)' = Cursor(r) + 1 /\ Floor(r)' = Floor(r)
      BY <1>4, <2>4, <2>5, <2>6, <2>7
    <3>2. Log!Read(r)
      BY <1>1, <1>3, <1>4, <3>1 DEF Log!Read, Log!NotJoined, Cursor, Floor
    <3>3. QED
      BY <3>2 DEF Log!Next
  <2>8. CASE UsersAt(rpos[r]) = 0
    BY <1>5, <2>5, <2>6, <2>8
  <2>9. QED
    BY <2>6, <2>7, <2>8
<1>14. CASE ReadRoll(r)
  <2>1. /\ rpc[r] = "scan" /\ rpc'[r] \in {"followed", "error"} /\ rindex' = rindex
    BY <1>2, <1>14 DEF ReadRoll
  <2>2. rpc'[r] = "followed"
    BY <1>2, <2>1 DEF FollowOK
  <2>3. Cursor(r)' = Cursor(r) /\ Floor(r)' = Floor(r)
    BY <2>1, <2>2 DEF Cursor, Floor, LivePc
  <2>4. QED
    BY <1>5, <2>3
<1>15. QED
  BY <1>7, <1>8, <1>9, <1>10, <1>11, <1>12, <1>13, <1>14 DEF LiveStep, ReaderStep

\* The writer's other steps, and a crash, move neither the chain nor the position.
LEMMA LogWriter ==
  ASSUME IInv, RInv, WriterStep \/ CallerStep \/ Crash
  PROVE  Log!Next \/ UNCHANGED Log!vars
<1>1. CASE CommitFlag \/ SkipCommit
  BY <1>1, LogCommit DEF Log!Next
<1>2. CASE PublishWp \/ SkipWp \/ RecoverWp \/ RollWp \/ FinishWp
  BY <1>2, LogPublish DEF Log!Next
<1>3. CASE UNCHANGED <<chain, wp, readerVars>>
  BY <1>3, ImageKept, LogStutter DEF readerVars
<1>4. WriteStep => UNCHANGED <<chain, wp, readerVars>>
  BY WriteStepWrites DEF WritesLast
<1>5. ASSUME WriterStep
      PROVE  \/ CommitFlag \/ SkipCommit \/ PublishWp \/ SkipWp \/ RecoverWp \/ RollWp \/ FinishWp
             \/ WriteStep \/ UNCHANGED <<chain, wp, readerVars>>
  BY <1>5 DEF WriterStep, WriteStep, ReserveRollFile, ReserveSkip, PublishCount, SkipGrow,
              RollInstall, RollPublish, WalkStep, RecountEnds, RecoverCount, StrandedEnds, fileVars
<1>6. ASSUME CallerStep \/ Crash
      PROVE  WriteStep \/ UNCHANGED <<chain, wp, readerVars>>
  BY <1>6 DEF CallerStep, WriteStep, TryReserve, CommitTooLong, RollFile, SkipFails, RollFails,
              DiscardUnpublished, OpenAdopt, OpenOrphan, OpenStranded, Crash, fileVars
<1>7. QED
  BY <1>1, <1>2, <1>3, <1>4, <1>5, <1>6

\* The empty segment is the empty log.
LEMMA LogInit == Init => Log!Init
<1> SUFFICES ASSUME Init PROVE Log!Init
  OBVIOUS
<1>1. IInv /\ RInv /\ DOMAIN chain = {0, FIRST_RECORD} /\ chain[0] = 0 /\ chain[FIRST_RECORD] = 0
  BY InitInv, InitRecovery DEF Init
<1>2. chain[Tail] = 0 /\ \A p : UsersBefore(p) = 0
  BY <1>1, TailFacts DEF UsersBefore
<1>3. QED
  BY <1>2 DEF Init, Log!Init, Log!NotJoined, LivePc

\* A segment with its crashes, recoveries and joins is an append-only log: every step is a step
\* of ChannelLog or leaves its variables alone.
THEOREM SegmentImplementsLog == Spec => ImplementsLog
<1>1. IInv /\ RInv /\ [Next]_vars => [Log!Next]_Log!vars
  <2> SUFFICES ASSUME IInv, RInv, [Next]_vars
               PROVE  Log!Next \/ UNCHANGED Log!vars
    BY DEF Log!vars
  <2>1. CASE WriterStep \/ CallerStep \/ Crash
    BY <2>1, LogWriter
  <2>2. CASE \E r \in Readers : OpenLateJoin(r) \/ LiveLoadWp(r) \/ LiveStep(r) \/ ReaderStep(r)
    BY <2>2, LogReader
  <2>3. CASE UNCHANGED vars
    <3>1. UNCHANGED <<chain, wp, rpc, rpos, rindex>>
      BY <2>3 DEF vars, fileVars, readerVars
    <3>2. QED
      BY <3>1, ImageKept, LogStutter
  <2>4. QED
    BY <2>1, <2>2, <2>3 DEF Next
<1>2. QED
  BY <1>1, LogInit, RecoveryInvariant, PTL DEF Spec, ImplementsLog, Log!Spec
=============================================================================
